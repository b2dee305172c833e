-------------------------- MODULE DFTExecuteProofs --------------------------
(***************************************************************************)
(* Where execute leaves its result, for every number of threads, every     *)
(* length and every plan the planner may produce.                          *)
(***************************************************************************)
EXTENDS DFTExecute, TLAPS

\* The buffers thread w touches
Own(w) == {<<"x0", Tn[w]>>, <<"x1", Tn[w]>>, <<"d", w>>, <<"s", w>>}

\* What remains of the path in thread w
Remaining(w) == Len(plan.path) - j[w]

\* In the loop, the last buffer written holds the transform so far,
StageInv(w) ==
  /\ Remaining(w) >= 0
  /\ content[lb[w]] = [lvl |-> level[w], pre |-> Pre, post |-> FALSE]
  /\ IF Remaining(w) = 0 THEN level[w] = 0
     ELSE level[w] = plan.path[j[w]+1].level

\* and the number of passes left has the parity that makes the last write d.
ParityInv(w) ==
  /\ nb[w] = -1 => /\ ~Post
                   /\ lb[w] = Source(w)
                   /\ Remaining(w) >= 3 /\ Remaining(w) % 2 = 1
  /\ nb[w] = 0  => /\ lb[w] \in {Source(w), T(w, 0), Dest(w)}
                   /\ ~Post => /\ Remaining(w) % 2 = 0
                               /\ Remaining(w) < 2 => lb[w] = Dest(w)
  /\ nb[w] = 1  => /\ lb[w] = T(w, 1)
                   /\ ~Post => Remaining(w) % 2 = 1

LoopInv(w) ==
  pc[w] = "loop" => plan.log2len > 1 /\ StageInv(w) /\ ParityInv(w)

\* Before the first pass the source holds the input; outside in-place calls
\* it still does afterwards; when the call has returned d holds the output.
CallInv(w) ==
  /\ pc[w] = "start" => content[Source(w)] = Input
  /\ pc[w] # "idle" /\ ~inPlace[w] => content[<<"s", w>>] = Input
  /\ pc[w] = "done" => content[Dest(w)] = Output

IInv == TypeOK /\ \A w \in Workers : LoopInv(w) /\ CallInv(w)

Step(w) == Call(w) \/ ExecuteSmall(w) \/ Begin(w) \/ Dispatch(w) \/ Finish(w)

-----------------------------------------------------------------------------
(* The buffers of two threads are disjoint. *)
LEMMA OwnDisjoint ==
  ASSUME NEW v \in Workers, NEW w \in Workers, v # w
  PROVE  Own(v) \cap Own(w) = {}
BY TnAssumption DEF Own

(* An element of a sequence *)
LEMMA SeqElement ==
  ASSUME NEW S, NEW s \in Seq(S), NEW i \in 1..Len(s)
  PROVE  s[i] \in S
OBVIOUS

(* What the plan of a length above 2 looks like. *)
LEMMA PlanFacts ==
  ASSUME plan \in Plans
  PROVE  /\ plan.log2len \in Nat
         /\ Len(plan.path) \in Nat
         /\ plan.log2len > 1 =>
              /\ Len(plan.path) >= 2
              /\ plan.path[1].level = plan.log2len
              /\ plan.path[Len(plan.path)].level = plan.path[Len(plan.path)].N
              /\ \A i \in 1..Len(plan.path) :
                   /\ plan.path[i].level \in Nat
                   /\ plan.path[i].N \in 1..plan.path[i].level
              /\ \A i \in 1..(Len(plan.path)-1) :
                   plan.path[i+1].level = plan.path[i].level - plan.path[i].N
<1>1. IsPlan(plan)
  BY PlansAssumption
<1>2. plan.log2len \in Nat /\ plan.path \in Seq([level : Nat, N : Nat])
  BY <1>1 DEF IsPlan
<1>3. \A i \in 1..Len(plan.path) :
        plan.path[i] \in [level : Nat, N : Nat]
  BY <1>2, SeqElement, Zenon
<1> QED
  BY <1>1, <1>2, <1>3 DEF IsPlan

(* Every buffer a thread names is one of its own, and is a buffer. *)
LEMMA OwnBuffers ==
  ASSUME TypeOK, NEW w \in Workers
  PROVE  /\ Own(w) \subseteq Buffer
         /\ Source(w) \in Own(w) /\ Dest(w) \in Own(w)
         /\ \A i \in Int : T(w, i) \in Own(w)
         /\ T(w, 2) = Dest(w)
         /\ T(w, 0) \notin {Source(w), T(w, 1), Dest(w), <<"s", w>>}
         /\ T(w, 1) \notin {Source(w), T(w, 0), Dest(w), <<"s", w>>}
         /\ Dest(w) # <<"s", w>>
         /\ Source(w) \in {Dest(w), <<"s", w>>}
BY TnAssumption DEF Own, Buffer, Source, Dest, T

(* The contents the model names are stages. *)
LEMMA StageConstants ==
  ASSUME TypeOK
  PROVE  Input \in Stage /\ Output \in Stage /\ Junk \in Stage
<1>1. Input \in Stage /\ Junk \in Stage
  BY PlanFacts DEF Stage, Input, Junk, TypeOK
<1>2. Pre \in BOOLEAN /\ Post \in BOOLEAN
  BY DEF Pre, Post, TypeOK, ModeSet
<1> QED
  BY <1>1, <1>2 DEF Output, Stage

(* The three abstract operations map stages to stages. *)
LEMMA StageOps ==
  ASSUME TypeOK, NEW in \in Stage, NEW a, NEW b, NEW lv \in Int, NEW N \in Nat
  PROVE  /\ RealSub1(in, a, b) \in Stage
         /\ Butterfly(in, a, b, lv, N) \in Stage
         /\ RealSub0(in) \in Stage
<1>1. RealSub1(in, a, b) \in Stage
  BY StageConstants DEF RealSub1, Stage
<1>2. Butterfly(in, a, b, lv, N) \in Stage
  BY StageConstants DEF Butterfly, Stage
<1>3. RealSub0(in) \in Stage
  BY StageConstants DEF RealSub0, Stage
<1> QED
  BY <1>1, <1>2, <1>3

(* Initially every thread is idle. *)
LEMMA InitIInv == Init => IInv
<1> SUFFICES ASSUME Init PROVE IInv
  OBVIOUS
<1>1. \A w \in Workers : Dest(w) \in Buffer
  BY DEF Dest, Buffer
<1>2. TypeOK
  BY <1>1 DEF Init, TypeOK, Stage, Junk
<1> QED
  BY <1>2 DEF Init, IInv, LoopInv, CallInv

(* The passes of a plan in the loop have a width in Nat. *)
LEMMA PassWidth ==
  ASSUME TypeOK, NEW w \in Workers, plan.log2len > 1, j[w] < Len(plan.path)
  PROVE  /\ j[w] + 1 \in 1..Len(plan.path)
         /\ plan.path[j[w]+1].level \in Nat
         /\ plan.path[j[w]+1].N \in 1..plan.path[j[w]+1].level
         /\ plan.path[j[w]+1].N \in Nat
<1>1. j[w] + 1 \in 1..Len(plan.path)
  BY PlanFacts DEF TypeOK
<1> QED
  BY <1>1, PlanFacts DEF TypeOK

(* Parity, as far as the rotation of the slots needs it *)
LEMMA Parity ==
  \A n \in Nat : /\ n % 2 = 0 \/ n % 2 = 1
                 /\ n % 2 = 1 => (n - 1) % 2 = 0
                 /\ n % 2 = 0 => (n - 1) % 2 = 1
                 /\ n >= 2 /\ n % 2 = 1 => n >= 3
                 /\ n = 0 => n % 2 = 0
OBVIOUS

(* nb alternates between the first two slots, from either start value. *)
LEMMA NbFacts ==
  /\ NextNb(-1) = 0 /\ NextNb(0) = 1 /\ NextNb(1) = 0
  /\ FirstNb \in {-1, 0}
BY DEF NextNb, FirstNb

(* The start value by parity, with and without REALSUB1. *)
LEMMA FirstNbCases ==
  /\ Pre /\ mode.real /\ Len(plan.path) % 2 = 0 => FirstNb = -1
  /\ Pre /\ mode.real /\ Len(plan.path) % 2 # 0 => FirstNb = 0
  /\ ~Pre /\ ~mode.real /\ Len(plan.path) % 2 = 1 => FirstNb = -1
  /\ ~Pre /\ ~mode.real /\ Len(plan.path) % 2 # 1 => FirstNb = 0
  /\ ~Pre /\ mode.real => FirstNb = 0
BY Zenon DEF FirstNb

(* Every action keeps the types. *)
LEMMA StepTypeOK ==
  ASSUME IInv, NEW w \in Workers, Step(w)
  PROVE  TypeOK'
<1> USE DEF TypeOK
<1>0. /\ plan.log2len \in Nat
      /\ Source(w) \in Buffer /\ Dest(w) \in Buffer
      /\ \A i \in Int : T(w, i) \in Buffer
  BY OwnBuffers, PlanFacts DEF IInv
<1>1. CASE Call(w)
  BY <1>0, <1>1, StageConstants DEF Call, IInv
<1>2. CASE ExecuteSmall(w)
  BY <1>0, <1>2, StageConstants DEF ExecuteSmall, IInv
<1>3. CASE Begin(w)
  <2>1. FirstNb \in {-1, 0} /\ NextNb(FirstNb) \in {0, 1}
    BY NbFacts
  <2>2. content[Source(w)] \in Stage /\ FirstNb + 1 \in Int
    BY <1>0, <2>1 DEF IInv
  <2>3. RealSub1(content[Source(w)], Source(w), T(w, FirstNb + 1)) \in Stage
    BY <2>2, StageOps, 0 \in Int, 0 \in Nat DEF IInv
  <2>4. content' \in [Buffer -> Stage]
    BY <1>0, <1>3, <2>2, <2>3 DEF Begin, IInv
  <2> QED
    BY <1>0, <1>3, <2>1, <2>2, <2>4 DEF Begin, IInv
<1>4. CASE Dispatch(w)
  <2>1. nb[w] \in {-1, 0, 1} /\ NextNb(nb[w]) \in {0, 1}
    BY NbFacts DEF IInv
  <2>2. plan.path[j[w]+1].N \in Nat
    <3>1. plan.log2len > 1 /\ j[w] < Len(plan.path)
      BY <1>4 DEF Dispatch, IInv, LoopInv
    <3> QED
      BY <3>1, PassWidth DEF IInv
  <2>3. content' \in [Buffer -> Stage]
    BY <1>0, <1>4, <2>1, <2>2, StageOps DEF Dispatch, IInv
  <2> QED
    BY <1>0, <1>4, <2>1, <2>2, <2>3 DEF Dispatch, IInv
<1>5. CASE Finish(w)
  <2>1. content' \in [Buffer -> Stage]
    BY <1>0, <1>5, StageOps, 0 \in Int DEF Finish, IInv
  <2> QED
    BY <1>5, <2>1 DEF Finish, IInv
<1> QED
  BY <1>1, <1>2, <1>3, <1>4, <1>5 DEF Step
(* Nothing in a run changes the plan, the mode or where the callers point. *)
LEMMA Fixed ==
  ASSUME NEW w \in Workers, Step(w)
  PROVE  /\ UNCHANGED <<plan, mode, inPlace>>
         /\ Pre' = Pre /\ Post' = Post /\ Input' = Input /\ Output' = Output
         /\ \A v \in Workers : Source(v)' = Source(v)
<1>1. UNCHANGED <<plan, mode, inPlace>>
  BY DEF Step, Call, ExecuteSmall, Begin, Dispatch, Finish
<1>2. Pre' = Pre /\ Post' = Post /\ Input' = Input
  BY <1>1 DEF Pre, Post, Input
<1> QED
  BY <1>1, <1>2 DEF Output, Source

(* A step of one thread leaves the buffers and locals of the others alone. *)
LEMMA Frame ==
  ASSUME IInv, NEW w \in Workers, Step(w), NEW v \in Workers, v # w
  PROVE  /\ \A b \in Own(v) : content'[b] = content[b]
         /\ pc'[v] = pc[v] /\ nb'[v] = nb[v] /\ lb'[v] = lb[v]
         /\ level'[v] = level[v] /\ j'[v] = j[v]
<1> USE DEF IInv
<1>0. /\ \A b \in Own(v) : b \notin Own(w)
      /\ Own(v) \subseteq Buffer
      /\ Source(w) \in Own(w) /\ Dest(w) \in Own(w)
      /\ \A i \in Int : T(w, i) \in Own(w)
      /\ FirstNb + 1 \in Int /\ nb[w] + 1 \in Int
  BY OwnDisjoint, OwnBuffers, NbFacts DEF TypeOK
<1>1. CASE Call(w)
  BY <1>0, <1>1 DEF Call, TypeOK
<1>2. CASE ExecuteSmall(w)
  BY <1>0, <1>2 DEF ExecuteSmall, TypeOK
<1>3. CASE Begin(w)
  BY <1>0, <1>3 DEF Begin, TypeOK
<1>4. CASE Dispatch(w)
  BY <1>0, <1>4 DEF Dispatch, TypeOK
<1>5. CASE Finish(w)
  BY <1>0, <1>5 DEF Finish, TypeOK
<1> QED
  BY <1>1, <1>2, <1>3, <1>4, <1>5 DEF Step

(* Hence it keeps what the invariant says of the others. *)
LEMMA OthersKept ==
  ASSUME IInv, NEW w \in Workers, Step(w), NEW v \in Workers, v # w
  PROVE  LoopInv(v)' /\ CallInv(v)'
<1> USE DEF IInv
<1>1. /\ Source(v) \in Own(v) /\ Dest(v) \in Own(v) /\ <<"s", v>> \in Own(v)
      /\ T(v, 0) \in Own(v) /\ T(v, 1) \in Own(v)
  <2>1. <<"s", v>> \in Own(v)
    BY DEF Own
  <2> QED
    BY <2>1, OwnBuffers
<1>2. pc[v] = "loop" => lb[v] \in Own(v)
  BY <1>1 DEF LoopInv, ParityInv, TypeOK
<1>3. LoopInv(v)'
  BY <1>2, Frame, Fixed DEF LoopInv, StageInv, ParityInv, Remaining
<1>4. CallInv(v)'
  BY <1>1, Frame, Fixed DEF CallInv
<1> QED
  BY <1>3, <1>4
(* A new call: the source is filled, last, with the input. *)
LEMMA CallKeeps ==
  ASSUME IInv, NEW w \in Workers, Call(w)
  PROVE  LoopInv(w)' /\ CallInv(w)'
<1> USE DEF IInv
<1>1. Step(w)
  BY DEF Step
<1>2. pc'[w] = "start"
  BY DEF Call, TypeOK
<1>3. content'[Source(w)] = Input
  BY OwnBuffers DEF Call, TypeOK
<1>4. ~inPlace[w] => Source(w) = <<"s", w>>
  BY DEF Source
<1> QED
  BY <1>1, <1>2, <1>3, <1>4, Fixed DEF LoopInv, CallInv

(* Lengths 1 and 2 *)
LEMMA SmallKeeps ==
  ASSUME IInv, NEW w \in Workers, ExecuteSmall(w)
  PROVE  LoopInv(w)' /\ CallInv(w)'
<1> USE DEF IInv
<1>1. Step(w)
  BY DEF Step
<1>2. pc'[w] = "done" /\ pc[w] = "start"
  BY DEF ExecuteSmall, TypeOK
<1>3. content'[Dest(w)] = Output
  BY <1>2, OwnBuffers DEF ExecuteSmall, TypeOK, CallInv
<1>4. content'[<<"s", w>>] = content[<<"s", w>>]
  BY OwnBuffers DEF ExecuteSmall, TypeOK, Own
<1> QED
  BY <1>1, <1>2, <1>3, <1>4, Fixed DEF LoopInv, CallInv

(* The slots execute rotates over are apart from what they are filled from. *)
LEMMA Slots ==
  ASSUME TypeOK, NEW w \in Workers
  PROVE  /\ T(w, 0) # Source(w) /\ T(w, 0) # <<"s", w>> /\ T(w, 0) # T(w, 1)
         /\ T(w, 1) # Source(w) /\ T(w, 1) # <<"s", w>> /\ T(w, 1) # Dest(w)
         /\ Dest(w) # <<"s", w>>
         /\ T(w, 2) = Dest(w)
BY OwnBuffers

(* Where the passes end depends on the parity of their number. *)
LEMMA BeginKeeps ==
  ASSUME IInv, NEW w \in Workers, Begin(w)
  PROVE  LoopInv(w)' /\ CallInv(w)'
<1> USE DEF IInv
<1>1. Step(w)
  BY DEF Step
<1>2. /\ pc'[w] = "loop" /\ pc[w] = "start" /\ plan.log2len > 1
      /\ j'[w] = 0 /\ level'[w] = plan.log2len
      /\ content[Source(w)] = Input
      /\ plan' = plan
  BY DEF Begin, TypeOK, CallInv
<1>3. /\ Remaining(w)' = Len(plan.path)
      /\ Len(plan.path) \in Nat /\ Len(plan.path) >= 2
      /\ level'[w] = plan.path[j'[w]+1].level
  BY <1>2, PlanFacts DEF Remaining, TypeOK
<1>4. Pre => ~Post /\ mode.real
  BY DEF Pre, Post, TypeOK, ModeSet
<1>5. ~Pre /\ ~Post => ~mode.real
  BY DEF Pre, Post, TypeOK, ModeSet
<1>6. CASE Pre
  <2> DEFINE dst == T(w, FirstNb + 1)
  <2>1. dst \in {T(w, 0), T(w, 1)} /\ dst \in Buffer
    BY NbFacts, OwnBuffers, -1 + 1 = 0, 0 + 1 = 1, FirstNb + 1 \in Int
  <2>2. /\ content' = [content EXCEPT ![dst] =
                         RealSub1(content[Source(w)], Source(w), dst)]
        /\ lb'[w] = dst /\ nb'[w] = NextNb(FirstNb)
    BY <1>6 DEF Begin, TypeOK
  <2>3. content'[dst] = [lvl |-> plan.log2len, pre |-> TRUE, post |-> FALSE]
    <3>1. dst # Source(w)
      BY <2>1, Slots
    <3>2. RealSub1(Input, Source(w), dst) =
            [lvl |-> plan.log2len, pre |-> TRUE, post |-> FALSE]
      BY <3>1 DEF RealSub1, Input
    <3> QED
      BY <1>2, <2>1, <2>2, <3>2 DEF TypeOK
  <2>4. content'[<<"s", w>>] = content[<<"s", w>>]
    BY <2>1, <2>2, Slots, OwnBuffers DEF Own, TypeOK
  <2>5. IF Len(plan.path) % 2 = 0
        THEN nb'[w] = 0 /\ lb'[w] = T(w, 0)
        ELSE nb'[w] = 1 /\ lb'[w] = T(w, 1)
    <3>1. CASE Len(plan.path) % 2 = 0
      BY <1>4, <1>6, <2>2, <3>1, NbFacts, FirstNbCases, -1 + 1 = 0
    <3>2. CASE Len(plan.path) % 2 # 0
      BY <1>4, <1>6, <2>2, <3>2, NbFacts, FirstNbCases, 0 + 1 = 1
    <3> QED
      BY <3>1, <3>2
  <2>6. StageInv(w)'
    <3>1. content'[lb'[w]] = [lvl |-> level'[w], pre |-> Pre', post |-> FALSE]
      <4>1. Pre = TRUE
        BY <1>6 DEF Pre
      <4> QED
        BY <1>1, <1>2, <2>2, <2>3, <4>1, Fixed, Zenon
    <3> QED
      BY <1>2, <1>3, <3>1 DEF StageInv
  <2>7. ParityInv(w)'
    <3>1. ~Post' /\ Source(w)' = Source(w)
      BY <1>1, <1>4, <1>6, Fixed
    <3>2. CASE Len(plan.path) % 2 = 0
      <4>1. nb'[w] = 0 /\ lb'[w] = T(w, 0)
        BY <2>5, <3>2
      <4>2. /\ Remaining(w)' \in Nat /\ Remaining(w)' >= 2
            /\ Remaining(w)' % 2 = 0
        BY <1>3, <3>2
      <4> QED
        BY <3>1, <4>1, <4>2 DEF ParityInv
    <3>3. CASE Len(plan.path) % 2 # 0
      <4>1. nb'[w] = 1 /\ lb'[w] = T(w, 1)
        BY <2>5, <3>3
      <4>2. Remaining(w)' % 2 = 1
        BY <1>3, <3>3, Parity
      <4> QED
        BY <3>1, <4>1, <4>2 DEF ParityInv
    <3> QED
      BY <3>2, <3>3
  <2> QED
    BY <1>1, <1>2, <2>4, <2>6, <2>7, Fixed DEF LoopInv, CallInv
<1>7. CASE ~Pre
  <2>1. content' = content /\ lb'[w] = Source(w) /\ nb'[w] = FirstNb
    BY <1>7 DEF Begin, TypeOK
  <2>2. StageInv(w)'
    <3>1. content'[lb'[w]] = [lvl |-> level'[w], pre |-> Pre', post |-> FALSE]
      <4>1. Pre = FALSE
        BY <1>7 DEF Pre
      <4> QED
        BY <1>1, <1>2, <2>1, <4>1, Fixed, Zenon DEF Input
    <3> QED
      BY <1>2, <1>3, <3>1 DEF StageInv
  <2>3. ParityInv(w)'
    <3>0. Post' = Post /\ Source(w)' = Source(w)
      BY <1>1, Fixed
    <3>1. CASE mode.real
      <4>1. Post /\ FirstNb = 0
        BY <1>5, <1>7, <3>1, FirstNbCases
      <4> QED
        BY <2>1, <3>0, <4>1 DEF ParityInv
    <3>2. CASE ~mode.real /\ Len(plan.path) % 2 = 1
      <4>1. ~Post /\ FirstNb = -1
        BY <1>7, <3>2, FirstNbCases DEF Post
      <4>2. Remaining(w)' >= 3 /\ Remaining(w)' % 2 = 1
        BY <1>3, <3>2, Parity
      <4> QED
        BY <2>1, <3>0, <4>1, <4>2 DEF ParityInv
    <3>3. CASE ~mode.real /\ Len(plan.path) % 2 # 1
      <4>1. ~Post /\ FirstNb = 0
        BY <1>7, <3>3, FirstNbCases DEF Post
      <4>2. Remaining(w)' \in Nat /\ Remaining(w)' >= 2 /\ Remaining(w)' % 2 = 0
        BY <1>3, <3>3, Parity
      <4> QED
        BY <2>1, <3>0, <4>1, <4>2 DEF ParityInv
    <3> QED
      BY <3>1, <3>2, <3>3
  <2> QED
    BY <1>1, <1>2, <2>1, <2>2, <2>3, Fixed DEF LoopInv, CallInv
<1> QED
  BY <1>6, <1>7
(* REALSUB0 on the stage the last pass leaves *)
LEMMA RealSub0Stage ==
  ASSUME NEW p \in BOOLEAN
  PROVE  RealSub0([lvl |-> 0, pre |-> p, post |-> FALSE]) =
           [lvl |-> 0, pre |-> p, post |-> TRUE]
BY DEF RealSub0

(* A pass moves the data on by its width and turns the parity. *)
LEMMA DispatchKeeps ==
  ASSUME IInv, NEW w \in Workers, Dispatch(w)
  PROVE  LoopInv(w)' /\ CallInv(w)'
<1> USE DEF IInv
<1> DEFINE N == plan.path[j[w]+1].N
           dst == T(w, nb[w] + 1)
<1>1. Step(w)
  BY DEF Step
<1>2. /\ pc[w] = "loop" /\ pc'[w] = "loop" /\ plan.log2len > 1
      /\ j[w] \in Nat /\ j[w] < Len(plan.path) /\ j'[w] = j[w] + 1
      /\ level'[w] = level[w] - N
      /\ lb'[w] = dst /\ nb'[w] = NextNb(nb[w])
      /\ content' = [content EXCEPT ![dst] =
                       Butterfly(content[lb[w]], lb[w], dst, level[w], N)]
      /\ plan' = plan
  BY DEF Dispatch, TypeOK, LoopInv
<1>3. /\ Len(plan.path) \in Nat
      /\ Remaining(w) \in Nat /\ Remaining(w) >= 1
      /\ Remaining(w)' = Remaining(w) - 1
      /\ Remaining(w)' \in Nat
  <2>1. Len(plan.path) \in Nat
    BY PlanFacts DEF TypeOK
  <2>2. Len(plan.path)' = Len(plan.path)
    BY <1>2
  <2> QED
    BY <1>2, <2>1, <2>2 DEF Remaining
<1>4. StageInv(w) /\ ParityInv(w)
  BY <1>2 DEF LoopInv
<1>5. /\ nb[w] = -1 => dst = T(w, 0)
      /\ nb[w] = 0 => dst = T(w, 1)
      /\ nb[w] = 1 => dst = Dest(w)
      /\ nb[w] \in {-1, 0, 1}
  BY Slots, -1 + 1 = 0, 0 + 1 = 1, 1 + 1 = 2 DEF TypeOK
<1>6. /\ dst # lb[w]
      /\ dst \in Buffer
      /\ dst # <<"s", w>>
  BY <1>4, <1>5, Slots, OwnBuffers DEF ParityInv
<1>7. StageInv(w)'
  <2>1. level[w] = plan.path[j[w]+1].level
    BY <1>3, <1>4 DEF StageInv
  <2>2. /\ N \in Nat /\ j[w] + 1 \in 1..Len(plan.path)
        /\ plan.path[j[w]+1].level \in Nat
    BY <1>2, PassWidth
  <2>3. content'[dst] = [lvl |-> level'[w], pre |-> Pre, post |-> FALSE]
    <3>1. content[lb[w]] = [lvl |-> level[w], pre |-> Pre, post |-> FALSE]
      BY <1>4 DEF StageInv
    <3>2. Pre \in BOOLEAN
      BY DEF Pre
    <3>3. Butterfly(content[lb[w]], lb[w], dst, level[w], N) =
            [lvl |-> level[w] - N, pre |-> Pre, post |-> FALSE]
      <4> HIDE DEF N, dst
      <4>1. Butterfly([lvl |-> level[w], pre |-> Pre, post |-> FALSE],
                      lb[w], dst, level[w], N) =
              [lvl |-> level[w] - N, pre |-> Pre, post |-> FALSE]
        <5>1. CASE Pre = TRUE
          BY <1>6, <5>1 DEF Butterfly
        <5>2. CASE Pre = FALSE
          BY <1>6, <5>2 DEF Butterfly
        <5> QED
          BY <3>2, <5>1, <5>2
      <4> QED
        BY <3>1, <4>1, Zenon
    <3> QED
      BY <1>2, <1>6, <3>3 DEF TypeOK
  <2>4. content'[lb'[w]] = [lvl |-> level'[w], pre |-> Pre', post |-> FALSE]
    BY <1>1, <1>2, <2>3, Fixed, Zenon
  <2>5. CASE Remaining(w)' = 0
    <3>1. j[w] + 1 = Len(plan.path)
      BY <1>2, <1>3, <2>5 DEF Remaining
    <3>2. level'[w] = 0
      BY <1>2, <2>1, <2>2, <3>1, PlanFacts DEF TypeOK
    <3> QED
      BY <1>3, <2>4, <2>5, <3>2 DEF StageInv
  <2>6. CASE Remaining(w)' # 0
    <3>1. j[w] + 1 \in 1..(Len(plan.path)-1)
      BY <1>2, <1>3, <2>6 DEF Remaining
    <3>2. plan.path[(j[w]+1)+1].level = plan.path[j[w]+1].level - N
      BY <1>2, <3>1, PlanFacts DEF TypeOK
    <3>3. level'[w] = plan'.path[j'[w]+1].level
      BY <1>2, <2>1, <3>2
    <3> QED
      BY <1>3, <2>4, <2>6, <3>3 DEF StageInv
  <2> QED
    BY <2>5, <2>6
<1>8. ParityInv(w)'
  <2>0. Post' = Post /\ Source(w)' = Source(w)
    BY <1>1, Fixed
  <2>1. CASE nb[w] = -1
    <3>1. /\ nb'[w] = 0 /\ lb'[w] = T(w, 0) /\ ~Post
          /\ Remaining(w) >= 3 /\ Remaining(w) % 2 = 1
      BY <1>2, <1>4, <1>5, <2>1, NbFacts DEF ParityInv
    <3>2. Remaining(w)' >= 2 /\ Remaining(w)' % 2 = 0
      BY <1>3, <3>1, Parity
    <3> QED
      BY <1>3, <2>0, <3>1, <3>2 DEF ParityInv
  <2>2. CASE nb[w] = 0
    <3>1. nb'[w] = 1 /\ lb'[w] = T(w, 1)
      BY <1>2, <1>5, <2>2, NbFacts
    <3>2. ~Post => Remaining(w)' % 2 = 1
      BY <1>3, <1>4, <2>2, Parity DEF ParityInv
    <3> QED
      BY <2>0, <3>1, <3>2 DEF ParityInv
  <2>3. CASE nb[w] = 1
    <3>1. nb'[w] = 0 /\ lb'[w] = Dest(w)
      BY <1>2, <1>5, <2>3, NbFacts
    <3>2. ~Post => Remaining(w)' % 2 = 0
      BY <1>3, <1>4, <2>3, Parity DEF ParityInv
    <3> QED
      BY <2>0, <3>1, <3>2 DEF ParityInv
  <2> QED
    BY <1>5, <2>1, <2>2, <2>3
<1>9. content'[<<"s", w>>] = content[<<"s", w>>]
  BY <1>2, <1>6, OwnBuffers DEF Own, TypeOK
<1> QED
  BY <1>1, <1>2, <1>7, <1>8, <1>9, Fixed DEF LoopInv, CallInv

(* With no pass left the data is in d, or REALSUB0 takes it there. *)
LEMMA FinishKeeps ==
  ASSUME IInv, NEW w \in Workers, Finish(w)
  PROVE  LoopInv(w)' /\ CallInv(w)'
<1> USE DEF IInv
<1>1. Step(w)
  BY DEF Step
<1>2. /\ pc[w] = "loop" /\ pc'[w] = "done" /\ j[w] = Len(plan.path)
      /\ Dest(w) \in Buffer
  BY OwnBuffers DEF Finish, TypeOK
<1>3. Remaining(w) = 0
  BY <1>2, PlanFacts DEF Remaining, TypeOK
<1>4. content[lb[w]] = [lvl |-> 0, pre |-> Pre, post |-> FALSE]
  BY <1>2, <1>3 DEF LoopInv, StageInv
<1>5. CASE Post
  <2>1. content' = [content EXCEPT ![Dest(w)] = RealSub0(content[lb[w]])]
    BY <1>5 DEF Finish
  <2>2. RealSub0(content[lb[w]]) = [lvl |-> 0, pre |-> Pre, post |-> TRUE]
    <3>1. Pre \in BOOLEAN
      BY DEF Pre
    <3> QED
      BY <1>4, <3>1, RealSub0Stage, Zenon
  <2>3. Post = TRUE
    BY <1>5 DEF Post
  <2>4. content'[Dest(w)] = Output
    BY <1>2, <2>1, <2>2, <2>3 DEF Output, TypeOK
  <2>5. content'[<<"s", w>>] = content[<<"s", w>>]
    BY <2>1, Slots, OwnBuffers DEF Own, TypeOK
  <2> QED
    BY <1>1, <1>2, <2>4, <2>5, Fixed DEF LoopInv, CallInv
<1>6. CASE ~Post
  <2>1. nb[w] = 0
    BY <1>2, <1>3, <1>6, Parity DEF LoopInv, ParityInv, TypeOK
  <2>2. lb[w] = Dest(w)
    BY <1>2, <1>3, <1>6, <2>1 DEF LoopInv, ParityInv
  <2>3. Post = FALSE
    BY <1>6 DEF Post
  <2>4. content' = content
    BY <1>6 DEF Finish
  <2>5. content'[Dest(w)] = Output
    BY <1>4, <2>2, <2>3, <2>4 DEF Output
  <2> QED
    BY <1>1, <1>2, <2>4, <2>5, Fixed DEF LoopInv, CallInv
<1> QED
  BY <1>5, <1>6
LEMMA NextIInv == IInv /\ [Next]_vars => IInv'
<1> SUFFICES ASSUME IInv, [Next]_vars PROVE IInv'
  OBVIOUS
<1>1. CASE UNCHANGED vars
  BY <1>1 DEF vars, IInv, TypeOK, Input, Output, Pre, Post, Source, Remaining,
              LoopInv, StageInv, ParityInv, CallInv
<1>2. ASSUME NEW w \in Workers, Step(w) PROVE IInv'
  <2>1. TypeOK'
    BY <1>2, StepTypeOK
  <2>2. LoopInv(w)' /\ CallInv(w)'
    BY <1>2, CallKeeps, SmallKeeps, BeginKeeps, DispatchKeeps, FinishKeeps
       DEF Step
  <2>3. \A v \in Workers : v # w => LoopInv(v)' /\ CallInv(v)'
    BY <1>2, OthersKept
  <2> QED
    BY <2>1, <2>2, <2>3 DEF IInv
<1> QED
  BY <1>1, <1>2 DEF Next, Step

LEMMA AlwaysIInv == Spec => []IInv
  BY InitIInv, NextIInv, PTL DEF Spec

-----------------------------------------------------------------------------
(* The locals of execute and the contents of the buffers keep their types. *)
THEOREM TypeCorrect == Spec => []TypeOK
<1>1. IInv => TypeOK
  BY DEF IInv
<1> QED
  BY <1>1, AlwaysIInv, PTL

(* The result of execute is in d, fully processed, for every plan, mode and  *)
(* number of threads, in place or not, while others execute the same plan.  *)
THEOREM ResultInD == Spec => []OutputInD
<1>1. IInv => OutputInD
  BY DEF IInv, CallInv, OutputInD
<1> QED
  BY <1>1, AlwaysIInv, PTL

(* No pass is called with one buffer as both its input and its output. *)
THEOREM NoPassInPlace == Spec => []PassOutOfPlace
<1>1. IInv => PassOutOfPlace
  <2> SUFFICES ASSUME IInv, NEW w \in Workers, pc[w] = "loop",
                      j[w] < Len(plan.path)
               PROVE  lb[w] # T(w, nb[w] + 1)
    BY DEF PassOutOfPlace
  <2>1. ParityInv(w) /\ nb[w] \in {-1, 0, 1}
    BY DEF IInv, LoopInv, TypeOK
  <2> QED
    BY <2>1, Slots, -1 + 1 = 0, 0 + 1 = 1, 1 + 1 = 2 DEF IInv, ParityInv
<1> QED
  BY <1>1, AlwaysIInv, PTL

(* Unless it is also the output, the caller's input survives the call. *)
THEOREM InputKept == Spec => []InputPreserved
<1>1. IInv => InputPreserved
  BY DEF IInv, CallInv, InputPreserved
<1> QED
  BY <1>1, AlwaysIInv, PTL
=============================================================================
