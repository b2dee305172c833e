----------------------------- MODULE DFTExecute -----------------------------
(***************************************************************************)
(* One 1D plan (SleefDFTXX) executed by several threads at once, as the    *)
(* parallel loops of the 2D transform do.  A transform is a chain of       *)
(* butterfly passes; each pass reads the buffer the previous one wrote     *)
(* and writes the next of t[] = { x1[tn], x0[tn], d }.  What a buffer      *)
(* holds is abstracted to how far the transform has got in it.             *)
(***************************************************************************)
EXTENDS Integers, Sequences

CONSTANTS
  Workers,   \* threads that execute the plan
  NThread,   \* nThread: how many pairs x0[i], x1[i] the constructor allocated
  Tn,        \* Tn[w]: what omp_get_thread_num() answers in thread w
  Plans      \* plans the constructor may have built: [log2len, path]

IsPlan(p) ==
  /\ p.log2len \in Nat
  /\ p.path \in Seq([level : Nat, N : Nat])
  /\ p.log2len > 1 =>
       LET n == Len(p.path) IN
       /\ n >= 2
       /\ p.path[1].level = p.log2len
       /\ p.path[n].level = p.path[n].N
       /\ \A i \in 1..n : p.path[i].N \in 1..p.path[i].level
       /\ \A i \in 1..(n-1) : p.path[i+1].level = p.path[i].level - p.path[i].N

\* A path has two actions at least because measure() never marks an action
\* with log2len <= N executable.  A team has no more threads than the
\* constructor counted, and a thread number is used by one thread.
ASSUME PlansAssumption == \A p \in Plans : IsPlan(p)
ASSUME TnAssumption ==
  /\ NThread \in Nat \ {0}
  /\ Tn \in [Workers -> 0..(NThread-1)]
  /\ \A v, w \in Workers : v # w => Tn[v] # Tn[w]

VARIABLES
  plan,      \* the plan: log2len and bestPath
  mode,      \* mode bits SLEEF_MODE_REAL, _BACKWARD and _ALT of the plan
  inPlace,   \* inPlace[w]: the caller passes the same pointer as s0 and d0
  pc,        \* "idle", "start", "loop" or "done"
  nb, lb,    \* the locals nb and lb: last t[] index (mod 2), last buffer
  level, j,  \* the locals level and j of the loop over bestPath
  content    \* content[b]: how far the transform in buffer b has got

vars == <<plan, mode, inPlace, pc, nb, lb, level, j, content>>

ModeSet == [real : BOOLEAN, backward : BOOLEAN, alt : BOOLEAN]

Buffer == ({"x0", "x1"} \X (0..(NThread-1))) \cup ({"d", "s"} \X Workers)

\* lvl: the level the next pass expects; pre, post: REALSUB1, REALSUB0 applied
Stage == [lvl : Int, pre : BOOLEAN, post : BOOLEAN]
Junk  == [lvl |-> -1, pre |-> FALSE, post |-> FALSE]
Input == [lvl |-> plan.log2len, pre |-> FALSE, post |-> FALSE]

\* A real transform is preceded by REALSUB1 or followed by REALSUB0.
Pre  == mode.real /\ mode.backward # mode.alt
Post == mode.real /\ (~mode.backward) # mode.alt

Output == [lvl |-> 0, pre |-> Pre, post |-> Post]

Dest(w)   == <<"d", w>>
Source(w) == IF inPlace[w] THEN Dest(w) ELSE <<"s", w>>

\* Mutants of T: both scratch slots are x0[tn]; the input serves as scratch
TOneScratch(w, i) == IF i \in {0, 1} THEN <<"x0", Tn[w]>> ELSE Dest(w)
TInputAsScratch(w, i) ==
  IF i = 0 THEN Source(w) ELSE IF i = 1 THEN <<"x0", Tn[w]>> ELSE Dest(w)

\* real *t[] = { x1[tn], x0[tn], d }
T(w, i) == IF i = 0 THEN <<"x1", Tn[w]>>
           ELSE IF i = 1 THEN <<"x0", Tn[w]>> ELSE Dest(w)

\* Mutant of FirstNb: the odd complex path, which needs all of t[], is forgotten
FirstNbComplexForgotten == IF Pre /\ Len(plan.path) % 2 = 0 THEN -1 ELSE 0

\* The index nb starts from, so that the last pass writes d
FirstNb ==
  IF \/ Pre /\ Len(plan.path) % 2 = 0
     \/ ~mode.real /\ Len(plan.path) % 2 = 1
  THEN -1 ELSE 0

NextNb(n) == (n + 1) % 2

\* REALSUB1 reads its input pairwise into another buffer
RealSub1(in, src, dst) ==
  IF src = dst \/ in.lvl # plan.log2len \/ in.pre THEN Junk
  ELSE [in EXCEPT !.pre = TRUE]

\* A pass permutes or butterflies the data of level lv, not in place.
Butterfly(in, src, dst, lv, N) ==
  IF src = dst \/ in.lvl # lv \/ in.post THEN Junk
  ELSE [in EXCEPT !.lvl = lv - N]

\* REALSUB0 handles k and n-k together and may work in place
RealSub0(in) ==
  IF in.lvl # 0 \/ in.post THEN Junk ELSE [in EXCEPT !.post = TRUE]

-----------------------------------------------------------------------------
Init ==
  /\ plan \in Plans
  /\ mode \in ModeSet
  /\ inPlace \in [Workers -> BOOLEAN]
  /\ pc = [w \in Workers |-> "idle"]
  /\ nb = [w \in Workers |-> 0]
  /\ lb = [w \in Workers |-> Dest(w)]
  /\ level = [w \in Workers |-> 0]
  /\ j = [w \in Workers |-> 0]
  /\ content = [b \in Buffer |-> Junk]

\* The caller fills the source; what d held is of no use any more.
Call(w) ==
  /\ pc[w] \in {"idle", "done"}
  /\ pc' = [pc EXCEPT ![w] = "start"]
  /\ content' = [content EXCEPT ![Dest(w)] = Junk, ![Source(w)] = Input]
  /\ UNCHANGED <<plan, mode, inPlace, nb, lb, level, j>>

\* Lengths 1 and 2 are computed without passes, from values read beforehand.
ExecuteSmall(w) ==
  /\ pc[w] = "start" /\ plan.log2len <= 1
  /\ pc' = [pc EXCEPT ![w] = "done"]
  /\ content' = [content EXCEPT ![Dest(w)] =
                   IF content[Source(w)] = Input THEN Output ELSE Junk]
  /\ UNCHANGED <<plan, mode, inPlace, nb, lb, level, j>>

\* The prologue of execute: choose nb and, when Pre, run REALSUB1.
Begin(w) ==
  /\ pc[w] = "start" /\ plan.log2len > 1
  /\ pc' = [pc EXCEPT ![w] = "loop"]
  /\ level' = [level EXCEPT ![w] = plan.log2len]
  /\ j' = [j EXCEPT ![w] = 0]
  /\ IF Pre
     THEN LET dst == T(w, FirstNb + 1) IN
          /\ content' = [content EXCEPT ![dst] =
                           RealSub1(content[Source(w)], Source(w), dst)]
          /\ lb' = [lb EXCEPT ![w] = dst]
          /\ nb' = [nb EXCEPT ![w] = NextNb(FirstNb)]
     ELSE /\ lb' = [lb EXCEPT ![w] = Source(w)]
          /\ nb' = [nb EXCEPT ![w] = FirstNb]
          /\ UNCHANGED content
  /\ UNCHANGED <<plan, mode, inPlace>>

\* One iteration of the loop over bestPath
Dispatch(w) ==
  /\ pc[w] = "loop" /\ j[w] < Len(plan.path)
  /\ LET N   == plan.path[j[w]+1].N
         dst == T(w, nb[w] + 1)
     IN /\ content' = [content EXCEPT ![dst] =
                         Butterfly(content[lb[w]], lb[w], dst, level[w], N)]
        /\ level' = [level EXCEPT ![w] = @ - N]
        /\ lb' = [lb EXCEPT ![w] = dst]
        /\ nb' = [nb EXCEPT ![w] = NextNb(@)]
        /\ j' = [j EXCEPT ![w] = @ + 1]
  /\ UNCHANGED <<plan, mode, inPlace, pc>>

\* After the loop: REALSUB0 into d when Post, otherwise return as it is.
Finish(w) ==
  /\ pc[w] = "loop" /\ j[w] = Len(plan.path)
  /\ pc' = [pc EXCEPT ![w] = "done"]
  /\ content' = IF Post
                THEN [content EXCEPT ![Dest(w)] = RealSub0(content[lb[w]])]
                ELSE content
  /\ UNCHANGED <<plan, mode, inPlace, nb, lb, level, j>>

Next ==
  \E w \in Workers :
    Call(w) \/ ExecuteSmall(w) \/ Begin(w) \/ Dispatch(w) \/ Finish(w)

Spec == Init /\ [][Next]_vars

-----------------------------------------------------------------------------
TypeOK ==
  /\ plan \in Plans
  /\ mode \in ModeSet
  /\ inPlace \in [Workers -> BOOLEAN]
  /\ pc \in [Workers -> {"idle", "start", "loop", "done"}]
  /\ nb \in [Workers -> {-1, 0, 1}]
  /\ lb \in [Workers -> Buffer]
  /\ level \in [Workers -> Int]
  /\ j \in [Workers -> Nat]
  /\ content \in [Buffer -> Stage]

\* The result of execute is in d, with every pass and the real pre- or
\* post-processing applied once, whatever the parity of the path, the mode,
\* in-place or not, and while other threads execute the same plan.
OutputInD ==
  \A w \in Workers : pc[w] = "done" => content[Dest(w)] = Output

\* No pass writes the buffer it reads: the kernels take RESTRICT pointers.
PassOutOfPlace ==
  \A w \in Workers :
    pc[w] = "loop" /\ j[w] < Len(plan.path) => lb[w] # T(w, nb[w] + 1)

\* The caller's input is left alone unless the caller passed it as output.
InputPreserved ==
  \A w \in Workers :
    pc[w] # "idle" /\ ~inPlace[w] => content[<<"s", w>>] = Input
=============================================================================
