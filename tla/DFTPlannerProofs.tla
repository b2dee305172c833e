--------------------------- MODULE DFTPlannerProofs ---------------------------
(***************************************************************************)
(* The planner, for every length, vector width, build and speed of the     *)
(* machine: what the search holds are chains of executable passes, and it  *)
(* never ends without one, though each pass is given to one path only.     *)
(***************************************************************************)
EXTENDS DFTPlanner, FiniteSetTheorems, TLAPS

\* Induction over the naturals: the strict subsets of finite sets are well
\* founded, and n stands for 1..n.
LEMMA LeastNatural ==
  ASSUME NEW T \in SUBSET Nat, T # {}
  PROVE  \E x \in T : \A y \in T : x <= y
<1> DEFINE Upto(n) == 1..n
           U == {Upto(n) : n \in T}
           R == StrictSubsetOrdering(Nat)
<1>1. \A n \in Nat : Upto(n) \in FiniteSubsetsOf(Nat)
  <2> SUFFICES ASSUME NEW n \in Nat PROVE Upto(n) \in FiniteSubsetsOf(Nat)
    OBVIOUS
  <2>1. IsFiniteSet(1..n)  BY FS_Interval
  <2>2. 1..n \subseteq Nat  BY SMT
  <2> QED  BY <2>1, <2>2 DEF FiniteSubsetsOf
<1>2. PICK b \in U : \A c \in U : <<c, b>> \notin R
  <2>1. U \subseteq FiniteSubsetsOf(Nat) /\ U # {}  BY <1>1
  <2>2. IsWellFoundedOn(R, FiniteSubsetsOf(Nat))
    BY FS_StrictSubsetOrderingWellFounded
  <2> HIDE DEF U, R
  <2> QED  BY <2>1, <2>2, WFMin, Zenon
<1>3. PICK x \in T : b = Upto(x)  BY <1>2
<1>4. ASSUME NEW y \in T, ~(x <= y) PROVE FALSE
  <2>1. y < x  BY <1>4, SMT
  <2>2. Upto(y) \subseteq Upto(x) /\ x \in Upto(x) /\ x \notin Upto(y)
    BY <2>1, SMT
  <2>3. Upto(y) \in SUBSET Nat /\ Upto(x) \in SUBSET Nat  BY SMT
  <2>4. <<Upto(y), Upto(x)>> \in R
    BY <2>2, <2>3, SMT DEF StrictSubsetOrdering
  <2> QED  BY <2>4, <1>2, <1>3
<1> QED  BY <1>3, <1>4

-----------------------------------------------------------------------------
(* Passes *)

\* What inst is once chosen
LEMMA InstanceType ==
  ASSUME inst \in Instances
  PROVE  /\ inst.log2len \in Nat /\ inst.log2vecwidth \in Nat
         /\ inst.log2len >= 2 /\ 2 * inst.log2vecwidth <= inst.log2len
         /\ inst.log2vecwidth <= MaxButWidth /\ MaxButWidth \in Nat \ {0}
         /\ inst.mt \in BOOLEAN /\ inst.stream \in BOOLEAN
         /\ inst.mode \in {"estimate", "measure", "random"}
  BY PlannerAssumption DEF IsInstance

LEMMA PassesAre ==
  ASSUME NEW level, NEW a
  PROVE  a \in Passes(level) <=>
           /\ a \in [config : Config, level : {level}, N : 1..MaxButWidth]
           /\ BelowNMax(a.N) /\ Executable(a)
  BY DEF Passes

LEMMA PassType ==
  ASSUME NEW level \in Nat, NEW a \in Passes(level)
  PROVE  /\ a \in Action /\ a.level = level /\ a.N \in 1..level
         /\ a.config \in Config /\ a.N < inst.log2len
         /\ Executable(a) /\ BelowNMax(a.N)
<1>1. /\ a \in [config : Config, level : {level}, N : 1..MaxButWidth]
      /\ BelowNMax(a.N) /\ Executable(a)
  BY DEF Passes
<1>2. a \in Action /\ a.level = level /\ a.config \in Config
      /\ a.N \in 1..MaxButWidth
  BY <1>1 DEF Action
<1>3. a.N <= a.level /\ a.N < inst.log2len  BY <1>1 DEF Executable
<1> QED  BY <1>1, <1>2, <1>3, PlannerAssumption

\* The passes of a level that are for several threads, or are not
Of(mt, level) == {b \in Passes(level) : Mt(b.config) = mt}

\* There is a pass to begin with, as wide as the vector or of width 1, with and
\* without threads.
LEMMA SomeStart ==
  ASSUME inst \in Instances, NEW mt \in {FALSE, inst.mt}
  PROVE  Of(mt, inst.log2len) # {}
<1> DEFINE w == IF inst.log2vecwidth = 0 THEN 1 ELSE inst.log2vecwidth
           a == [config |-> IF mt THEN 2 ELSE 0, level |-> inst.log2len,
                 N |-> w]
<1>1. w \in 1..MaxButWidth /\ w < inst.log2len /\ w <= inst.log2len
      /\ w <= inst.log2len - inst.log2vecwidth
      /\ inst.log2vecwidth <= w /\ inst.log2len - w >= inst.log2vecwidth
  BY InstanceType
<1> HIDE DEF w
<1>2. BelowNMax(a.N)  BY <1>1, InstanceType DEF BelowNMax
<1>3. mt \in BOOLEAN /\ (mt => inst.mt)  BY InstanceType
<1>4. a.config \in Config /\ Mt(a.config) = mt /\ ~Stream(a.config)
  BY <1>3 DEF Config, Mt, Stream
<1>5. Executable(a)  BY <1>1, <1>3, <1>4, InstanceType DEF Executable
<1>6. a \in Passes(inst.log2len)
  BY <1>1, <1>2, <1>4, <1>5 DEF Passes
<1> QED  BY <1>4, <1>6 DEF Of

\* After each pass but the last there is one to go on with: of width 1, without
\* streaming, with threads if the pass before was with threads.
LEMMA SomeAdjacent ==
  ASSUME inst \in Instances, NEW level \in Nat, NEW a \in Passes(level),
         level <= inst.log2len, ~IsDestination(a)
  PROVE  Adjacent(a) # {}
<1> DEFINE l == a.level - a.N
           b == [config |-> IF Mt(a.config) THEN 2 ELSE 0, level |-> l, N |-> 1]
<1>1. /\ a.level = level /\ a.N \in 1..level /\ a.config \in 0..3
      /\ Executable(a)
  BY PassType DEF Config
<1>2. l \in Nat /\ 1 <= l /\ l < inst.log2len
  BY <1>1, InstanceType DEF IsDestination
<1>3. inst.log2len - l >= inst.log2vecwidth
  BY <1>1, InstanceType DEF Executable, IsDestination
<1>4. Mt(a.config) => inst.mt  BY <1>1 DEF Executable
<1>5. Executable(b)
  <2>1. (Stream(b.config) => inst.stream) /\ (Mt(b.config) => inst.mt)
    BY <1>4 DEF Stream, Mt
  <2>2. b.N <= b.level /\ b.N < inst.log2len  BY <1>2, InstanceType
  <2>3. inst.log2vecwidth > 1 => inst.log2len > b.N + 2  BY InstanceType
  <2> QED  BY <2>1, <2>2, <2>3, <1>2, <1>3 DEF Executable
<1>6. BelowNMax(b.N)  BY InstanceType DEF BelowNMax
<1>7. b \in Passes(l)
  BY <1>5, <1>6, PlannerAssumption DEF Passes, Config
<1>8. Mt(b.config) = Mt(a.config)  BY <1>1 DEF Mt
<1> QED  BY <1>7, <1>8 DEF Adjacent

\* No pass costs less than nothing.
LEMMA CostType ==
  ASSUME inst \in Instances, weight \in Weights, NEW a \in Action
  PROVE  Cost(a) \in Nat
<1>1. a.N \in Nat /\ a.N \in 1..MaxButWidth /\ Mt(a.config) \in BOOLEAN
  BY PlannerAssumption DEF Action, Mt, Config
<1>2. Estimate(a) \in Nat  BY <1>1 DEF Estimate, Abs
<1>3. weight[<<a.N, Mt(a.config)>>] \in Nat
  <2>1. weight \in [(1..MaxButWidth) \X BOOLEAN -> Nat]
    BY PlannerAssumption
  <2>2. <<a.N, Mt(a.config)>> \in (1..MaxButWidth) \X BOOLEAN  BY <1>1
  <2> QED  BY <2>1, <2>2
<1> QED  BY <1>2, <1>3 DEF Cost

\* The pass a chain ends with is one of the passes of its level.
LEMMA ChainLast ==
  ASSUME inst \in Instances, NEW p \in Seq(Action), Chain(p)
  PROVE  /\ Len(p) \in Nat \ {0} /\ Last(p) \in Action
         /\ Last(p).level \in 1..inst.log2len
         /\ Last(p) \in Passes(Last(p).level)
<1> DEFINE a == Last(p)
<1>1. Len(p) \in Nat \ {0} /\ a = p[Len(p)] /\ a \in Action
  BY DEF Chain, Last
<1>2. Executable(a) /\ BelowNMax(a.N)  BY <1>1 DEF Chain
<1> HIDE DEF a
<1>3. a.level \in Nat /\ a.N \in 1..MaxButWidth /\ a.config \in Config
  BY <1>1 DEF Action
<1>4. a.level \in 1..inst.log2len
  BY <1>2, <1>3, InstanceType DEF Executable
<1>5. a \in [config : Config, level : {a.level}, N : 1..MaxButWidth]
  BY <1>1 DEF Action
<1>6. a \in Passes(a.level)  BY <1>2, <1>5, PassesAre
<1> QED  BY <1>1, <1>4, <1>6 DEF a

\* A path begins as a chain ...
LEMMA ChainStart ==
  ASSUME inst \in Instances, NEW a \in StartPoints
  PROVE  Append(<<>>, a) \in Seq(Action) /\ Chain(Append(<<>>, a))
         /\ Last(Append(<<>>, a)) = a
<1>1. a \in Action /\ a.level = inst.log2len /\ Executable(a) /\ BelowNMax(a.N)
  BY PassType, InstanceType DEF StartPoints
<1> QED  BY <1>1 DEF Chain, Last

\* ... and stays one when it is extended.
LEMMA ChainAppend ==
  ASSUME inst \in Instances, NEW p \in Seq(Action), Chain(p),
         ~IsDestination(Last(p)),
         NEW a \in Passes(Last(p).level - Last(p).N),
         Mt(a.config) = Mt(Last(p).config)
  PROVE  /\ Append(p, a) \in Seq(Action) /\ Chain(Append(p, a))
         /\ Last(Append(p, a)) = a
<1> DEFINE n == Len(p)
           q == Append(p, a)
           b == Last(p)
<1>1. /\ n \in Nat \ {0} /\ b \in Action /\ b \in Passes(b.level)
      /\ b.level \in Nat
  BY ChainLast
<1>2. b.N \in 1..b.level /\ b.level - b.N \in Nat /\ b.level - b.N > 0
  BY <1>1, PassType DEF IsDestination
<1>3. a \in Action /\ a.level = b.level - b.N /\ Executable(a) /\ BelowNMax(a.N)
  BY <1>2, PassType
<1>4. /\ q \in Seq(Action) /\ Len(q) = n + 1 /\ q[n + 1] = a /\ Last(q) = a
      /\ \A k \in 1..n : q[k] = p[k]
      /\ b = p[n]
  BY <1>1, <1>3 DEF Last
<1> HIDE DEF n, q, b
<1>5. /\ p[1].level = inst.log2len
      /\ \A k \in 1..n : /\ Executable(p[k]) /\ BelowNMax(p[k].N)
                          /\ Mt(p[k].config) = Mt(p[1].config)
      /\ \A k \in 1..(n-1) : /\ p[k+1].level = p[k].level - p[k].N
                              /\ p[k+1].level > 0
  BY DEF Chain, n
<1>6. Mt(a.config) = Mt(b.config)  BY DEF b
<1>7. q[1] = p[1] /\ q # <<>>  BY <1>1, <1>4
<1>8. ASSUME NEW k \in 1..Len(q)
      PROVE  /\ Executable(q[k]) /\ BelowNMax(q[k].N)
             /\ Mt(q[k].config) = Mt(q[1].config)
  <2>1. CASE k = n + 1
    <3>1. Mt(p[n].config) = Mt(p[1].config)  BY <1>1, <1>5
    <3> QED  BY <2>1, <3>1, <1>3, <1>4, <1>6, <1>7
  <2>2. CASE k \in 1..n  BY <2>2, <1>4, <1>5, <1>7
  <2> QED  BY <2>1, <2>2, <1>1, <1>4
<1>9. ASSUME NEW k \in 1..(Len(q)-1)
      PROVE  q[k+1].level = q[k].level - q[k].N /\ q[k+1].level > 0
  <2>1. CASE k = n
    BY <2>1, <1>1, <1>2, <1>3, <1>4
  <2>2. CASE k \in 1..(n-1)
    <3>1. k \in 1..n /\ k + 1 \in 1..n  BY <2>2, <1>1
    <3>2. q[k] = p[k] /\ q[k+1] = p[k+1]  BY <3>1, <1>4
    <3> QED  BY <2>2, <3>2, <1>5
  <2> QED  BY <2>1, <2>2, <1>1, <1>4
<1>10. Chain(q)  BY <1>5, <1>7, <1>8, <1>9 DEF Chain
<1> QED  BY <1>4, <1>10 DEF q
-----------------------------------------------------------------------------
(* The inductive invariant *)

\* What is left of the loop in each mode: a search goes on while paths are
\* missing, and what it keeps as best has reached the end; the random path has
\* not, until it is done, and has no threads.
Loop ==
  /\ status \in {"search", "found"} => inst.mode # "random" /\ tries < NPaths
  /\ status = "found" => found # None /\ IsDestination(Last(found.path))
  /\ best # None /\ status # "random" => IsDestination(Last(best.path))
  /\ status = "random" /\ best # None =>
       /\ ~IsDestination(Last(best.path))
       /\ Last(best.path).config = 0

\* A pass no path is given to any more has been taken by a path that is still
\* in the heap, or by one from which all its successors have been taken too.
Reach ==
  status = "search" /\ best = None =>
    /\ StartPoints \subseteq reached
    /\ \A b \in reached : b.level \in 1..inst.log2len /\ b \in Passes(b.level)
    /\ \A b \in reached :
         \/ \E e \in heap : Last(e.path) = b
         \/ ~IsDestination(b) /\ Adjacent(b) \subseteq reached

IInv == SearchSound /\ Loop /\ Reach /\ ResultIsPlan
\* A chain to the end has two passes: none is as wide as the transform is long.
LEMMA ChainLong ==
  ASSUME inst \in Instances, NEW p \in Seq(Action), Chain(p),
         IsDestination(Last(p))
  PROVE  Len(p) >= 2
<1>1. Len(p) \in Nat \ {0}  BY ChainLast
<1>2. ASSUME Len(p) = 1 PROVE FALSE
  <2>1. Last(p) = p[1] /\ p[1].level = inst.log2len /\ p[1].N < inst.log2len
    BY <1>2 DEF Last, Chain, Executable
  <2> QED  BY <2>1, InstanceType DEF IsDestination
<1>3. \A n \in Nat \ {0} : n = 1 \/ n >= 2  OBVIOUS
<1> QED  BY <1>1, <1>2, <1>3

\* While no path has been found, the heap is not empty: of the reached passes
\* of the lowest level, one would have successors that are reached too.
LEMMA HeapNotEmpty ==
  ASSUME inst \in Instances, Reach, status = "search", best = None
  PROVE  heap # {}
<1> SUFFICES ASSUME heap = {} PROVE FALSE  OBVIOUS
<1> DEFINE T == {b.level : b \in reached}
<1>1. /\ StartPoints \subseteq reached
      /\ \A b \in reached : /\ b.level \in 1..inst.log2len
                             /\ b \in Passes(b.level)
                             /\ ~IsDestination(b)
                             /\ Adjacent(b) \subseteq reached
  BY DEF Reach
<1>2. T \in SUBSET Nat /\ T # {}
  <2>1. StartPoints # {}  BY SomeStart DEF Of, StartPoints
  <2> QED  BY <1>1, <2>1, InstanceType
<1>3. PICK x \in T : \A y \in T : x <= y  BY <1>2, LeastNatural
<1>4. PICK b \in reached : b.level = x  BY <1>3
<1>5. b.level \in Nat /\ b.level <= inst.log2len  BY <1>1, InstanceType
<1>6. PICK c \in Adjacent(b) : TRUE
  BY <1>1, <1>5, SomeAdjacent
<1>7. b.N \in 1..b.level  BY <1>1, <1>5, PassType
<1>8. b.level - b.N \in Nat /\ c \in Passes(b.level - b.N)
  BY <1>5, <1>6, <1>7 DEF Adjacent
<1>9. c.level = b.level - b.N  BY <1>8, PassType
<1>10. c.level \in T  BY <1>1, <1>6
<1> HIDE DEF T
<1>11. x <= c.level  BY <1>3, <1>10
<1>12. c.level < x  BY <1>4, <1>5, <1>7, <1>9
<1> QED  BY <1>4, <1>5, <1>8, <1>9, <1>11, <1>12

\* The passes, and so the chains, depend on the plan only.
LEMMA SamePlan ==
  ASSUME inst' = inst
  PROVE  /\ \A p : Chain(p)' <=> Chain(p)
         /\ \A l : Passes(l)' = Passes(l)
         /\ \A b : Adjacent(b)' = Adjacent(b)
         /\ StartPoints' = StartPoints
<1>1. \A b : Executable(b)' <=> Executable(b)  BY DEF Executable
<1>2. \A n : BelowNMax(n)' <=> BelowNMax(n)  BY DEF BelowNMax
<1>3. \A l : Passes(l)' = Passes(l)  BY <1>1, <1>2 DEF Passes
<1>4. \A p : Chain(p)' <=> Chain(p)  BY <1>1, <1>2 DEF Chain
<1> QED  BY <1>3, <1>4 DEF Adjacent, StartPoints
\* Sums of costs are costs.
LEMMA ExtendedType ==
  ASSUME inst \in Instances, weight \in Weights, NEW a \in Action,
         NEW e, e.path \in Seq(Action), e.cost \in Nat, NEW r \in Nat
  PROVE  /\ Extended(e, a, r).path = Append(e.path, a)
         /\ Extended(e, a, r).cost \in Nat /\ Extended(e, a, r).round = r
         /\ Extended(e, a, r) # None
<1>1. Cost(a) \in Nat  BY CostType
<1>2. Append(e.path, a) # <<>>  OBVIOUS
<1> QED  BY <1>1, <1>2 DEF Extended, None

LEMMA InitIInv == SearchInit => IInv
<1> SUFFICES ASSUME SearchInit PROVE IInv  OBVIOUS
<1>1. inst \in Instances /\ weight \in Weights /\ round = 0 /\ tries = 0
      /\ found = None /\ best = None
  BY DEF SearchInit
<1>2. NPaths > 0 /\ 0 \in 0..NPaths  BY PlannerAssumption
<1>3. Entry(None)  BY <1>1 DEF Entry, None
<1>4. \A a \in StartPoints : a \in Action /\ a.level = inst.log2len
  BY <1>1, PassType, InstanceType DEF StartPoints
<1>5. CASE inst.mode = "random"
  <2>1. status = "random" /\ heap = {} /\ reached = {}  BY <1>5 DEF SearchInit
  <2>2. SearchTypeOK  BY <1>1, <1>2, <1>3, <2>1 DEF SearchTypeOK
  <2> QED  BY <1>1, <2>1, <2>2
    DEF IInv, SearchSound, PathsAreChains, Loop, Reach, ResultIsPlan
<1>6. CASE inst.mode # "random"
  <2>1. /\ status = "search" /\ reached = StartPoints
        /\ heap = {Extended(None, a, 0) : a \in StartPoints}
    BY <1>6 DEF SearchInit
  <2>2. ASSUME NEW a \in StartPoints
        PROVE  /\ Entry(Extended(None, a, 0))
               /\ Chain(Extended(None, a, 0).path)
               /\ Last(Extended(None, a, 0).path) = a
    <3>1. None.path = <<>> /\ None.cost = 0 /\ Cost(a) \in Nat
      BY <1>1, <1>4, CostType DEF None
    <3>2. /\ Extended(None, a, 0).path = Append(<<>>, a)
          /\ Extended(None, a, 0).cost \in Nat
          /\ Extended(None, a, 0).round = 0
      BY <3>1 DEF Extended
    <3>3. 0 \in 0..round  BY <1>1
    <3> QED  BY <1>1, <3>2, <3>3, ChainStart DEF Entry
  <2>3. \A e \in heap : Entry(e) /\ Chain(e.path)  BY <2>1, <2>2
  <2>4. SearchTypeOK  BY <1>1, <1>2, <1>3, <1>4, <2>1, <2>3 DEF SearchTypeOK
  <2>5. PathsAreChains  BY <1>1, <2>3 DEF PathsAreChains
  <2>6. Loop  BY <1>1, <1>2, <1>6, <2>1 DEF Loop
  <2>7. Reach
    <3>1. \A b \in reached : \E e \in heap : Last(e.path) = b
      BY <2>1, <2>2
    <3>2. \A b \in reached : b.level \in 1..inst.log2len
                              /\ b \in Passes(b.level)
      BY <1>1, <1>4, <2>1, InstanceType DEF StartPoints
    <3> QED  BY <2>1, <3>1, <3>2 DEF Reach
  <2> QED  BY <2>1, <2>4, <2>5, <2>6, <2>7 DEF IInv, SearchSound, ResultIsPlan
<1> QED  BY <1>5, <1>6

\* The path that is expanded stays the beginning of the new ones; the passes
\* it is expanded by are reached now, and those that were before are in the
\* heap still, or expanded.
LEMMA ExpandIInv ==
  ASSUME IInv, NEW e \in heap, Expand(e)
  PROVE  IInv'
<1> DEFINE last == Last(e.path)
           new == Adjacent(last) \ reached
<1>1. /\ status = "search" /\ ~IsDestination(last)
      /\ heap' = (heap \ {e}) \cup {Extended(e, a, round + 1) : a \in new}
      /\ reached' = reached \cup new /\ round' = round + 1
      /\ inst' = inst /\ weight' = weight /\ status' = status /\ found' = found
      /\ best' = best /\ tries' = tries
  BY DEF Expand
<1>2. /\ inst \in Instances /\ weight \in Weights /\ round \in Nat
      /\ tries \in 0..NPaths /\ reached \subseteq Action
      /\ \A f \in heap \cup {found, best} : Entry(f)
      /\ \A f \in heap : Chain(f.path)
      /\ \A f \in {found, best} : f # None => Chain(f.path)
  BY DEF IInv, SearchSound, SearchTypeOK, PathsAreChains
<1>3. e.path \in Seq(Action) /\ e.cost \in Nat  BY <1>2 DEF Entry
<1>4. /\ last \in Action /\ last.level \in 1..inst.log2len
      /\ last \in Passes(last.level)
  BY <1>2, <1>3, ChainLast
<1>5. last.level - last.N \in 1..inst.log2len /\ last.level - last.N \in Nat
  <2>1. last.level \in Nat /\ inst.log2len \in Nat
    BY <1>2, <1>4, InstanceType
  <2>2. last.N \in 1..last.level  BY <1>4, <2>1, PassType
  <2> QED  BY <1>1, <1>4, <2>1, <2>2 DEF IsDestination
<1>6. \A a \in new : /\ a \in Passes(last.level - last.N) /\ a \in Action
                     /\ a.level = last.level - last.N
                     /\ Mt(a.config) = Mt(last.config)
  BY <1>5, PassType DEF Adjacent
<1>7. ASSUME NEW a \in new
      PROVE  \A f : f = Extended(e, a, round + 1) =>
               Entry(f)' /\ Chain(f.path) /\ Last(f.path) = a
  <2>1. /\ Extended(e, a, round + 1).path = Append(e.path, a)
        /\ Extended(e, a, round + 1).cost \in Nat
        /\ Extended(e, a, round + 1).round = round + 1
    BY <1>2, <1>3, <1>6, ExtendedType
  <2>2. /\ Append(e.path, a) \in Seq(Action) /\ Chain(Append(e.path, a))
        /\ Last(Append(e.path, a)) = a
    BY <1>1, <1>2, <1>3, <1>6, ChainAppend
  <2>3. round + 1 \in 0..round'  BY <1>1, <1>2
  <2> QED  BY <2>1, <2>2, <2>3 DEF Entry
<1> HIDE DEF last, new
<1>8. \A f \in heap \cup {found, best} : Entry(f)'
  BY <1>1, <1>2 DEF Entry
<1>9. SearchTypeOK'
  <2>1. \A f \in heap' \cup {found', best'} : Entry(f)'
    BY <1>1, <1>7, <1>8
  <2>2. reached' \subseteq Action /\ round' \in Nat
    BY <1>1, <1>2, <1>6
  <2>3. status' = "search" /\ inst' \in Instances /\ weight' \in Weights
        /\ tries' \in 0..NPaths
    BY <1>1, <1>2
  <2> QED  BY <2>1, <2>2, <2>3 DEF SearchTypeOK
<1>10. PathsAreChains'
  <2>1. \A f \in heap' : Chain(f.path)  BY <1>1, <1>2, <1>7
  <2> QED  BY <1>1, <1>2, <2>1, SamePlan DEF PathsAreChains
<1>11. Loop'  BY <1>1 DEF IInv, Loop
<1>12. Reach'
  <2> SUFFICES ASSUME best = None PROVE Reach'  BY <1>1 DEF Reach
  <2>1. /\ StartPoints \subseteq reached
        /\ \A b \in reached : b.level \in 1..inst.log2len
                                /\ b \in Passes(b.level)
        /\ \A b \in reached :
             \/ \E f \in heap : Last(f.path) = b
             \/ ~IsDestination(b) /\ Adjacent(b) \subseteq reached
    BY <1>1 DEF IInv, Reach
  <2>2. \A b \in reached' : b.level \in 1..inst.log2len
                             /\ b \in Passes(b.level)
    BY <1>1, <1>5, <1>6, <2>1
  <2>3. ASSUME NEW b \in reached'
        PROVE  \/ \E f \in heap' : Last(f.path) = b
               \/ ~IsDestination(b) /\ Adjacent(b) \subseteq reached'
    <3>1. CASE b \in new  BY <3>1, <1>1, <1>7
    <3>2. CASE b = last
      BY <3>2, <1>1 DEF new, last
    <3>3. CASE b \in reached /\ b # last
      BY <3>3, <1>1, <2>1 DEF last
    <3> QED  BY <3>1, <3>2, <3>3, <1>1
  <2> QED  BY <1>1, <2>1, <2>2, <2>3, SamePlan DEF Reach
<1>13. ResultIsPlan'  BY <1>1 DEF ResultIsPlan
<1> QED  BY <1>9, <1>10, <1>11, <1>12, <1>13 DEF IInv, SearchSound
\* A path that is returned leaves the heap, as found.
LEMMA ReturnIInv ==
  ASSUME IInv, NEW e \in heap, Return(e)
  PROVE  IInv'
<1>1. /\ status = "search" /\ IsDestination(Last(e.path))
      /\ heap' = heap \ {e} /\ found' = e /\ status' = "found"
      /\ inst' = inst /\ weight' = weight /\ reached' = reached
      /\ round' = round /\ best' = best /\ tries' = tries
  BY DEF Return
<1>2. SearchTypeOK'  BY <1>1 DEF IInv, SearchSound, SearchTypeOK, Entry
<1>3. Chain(e.path) /\ e # None
  <2>1. Chain(e.path)  BY DEF IInv, SearchSound, PathsAreChains
  <2> QED  BY <2>1 DEF Chain, None
<1>4. PathsAreChains'
  BY <1>1, <1>3, SamePlan DEF IInv, SearchSound, PathsAreChains
<1>5. Loop'  BY <1>1, <1>3 DEF IInv, Loop
<1> QED  BY <1>1, <1>2, <1>4, <1>5
  DEF IInv, SearchSound, Reach, ResultIsPlan

\* The search is over with the best of the paths found, which is a plan.
LEMMA GiveUpIInv ==
  ASSUME IInv, GiveUp
  PROVE  IInv'
<1>1. /\ status = "search" /\ heap = {} /\ status' = "done" /\ inst' = inst
      /\ weight' = weight /\ heap' = heap /\ reached' = reached
      /\ round' = round /\ found' = found /\ best' = best /\ tries' = tries
  BY DEF GiveUp
<1>2. SearchTypeOK'  BY <1>1 DEF IInv, SearchSound, SearchTypeOK, Entry
<1>3. PathsAreChains'
  BY <1>1, SamePlan DEF IInv, SearchSound, PathsAreChains
<1>4. inst \in Instances /\ Entry(best)
  BY DEF IInv, SearchSound, SearchTypeOK
<1>5. best # None
  BY <1>1, <1>4, HeapNotEmpty DEF IInv
<1>6. Chain(best.path) /\ IsDestination(Last(best.path))
  BY <1>1, <1>5 DEF IInv, SearchSound, PathsAreChains, Loop
<1>7. Len(best.path) >= 2  BY <1>4, <1>6, ChainLong DEF Entry
<1>8. ResultIsPlan'
  BY <1>1, <1>6, <1>7, SamePlan DEF ResultIsPlan
<1>9. Loop'  BY <1>1, <1>6 DEF Loop
<1> QED  BY <1>1, <1>2, <1>3, <1>8, <1>9 DEF IInv, SearchSound, Reach

\* What becomes the best path is one that was found.
LEMMA AcceptIInv ==
  ASSUME IInv, AcceptEstimate \/ AcceptMeasured
  PROVE  IInv'
<1>1. /\ status = "found" /\ best' \in {found, best}
      /\ best = None => best' = found
      /\ inst' = inst /\ weight' = weight /\ heap' = heap
      /\ reached' = reached /\ round' = round /\ found' = found
      /\ status' \in {"search", "done"} /\ tries' \in 0..NPaths
      /\ status' = "search" => tries' < NPaths
  <2>1. /\ tries \in 0..NPaths /\ NPaths \in Nat
        /\ status = "found" => tries < NPaths
    BY PlannerAssumption DEF IInv, SearchSound, SearchTypeOK, Loop
  <2>2. CASE AcceptEstimate  BY <2>1, <2>2 DEF AcceptEstimate
  <2>3. CASE AcceptMeasured  BY <2>1, <2>3 DEF AcceptMeasured
  <2> QED  BY <2>2, <2>3
<1>2. SearchTypeOK'
  <2>1. \A e \in heap' \cup {found', best'} : Entry(e)'
    BY <1>1 DEF IInv, SearchSound, SearchTypeOK, Entry
  <2> QED  BY <1>1, <2>1 DEF IInv, SearchSound, SearchTypeOK
<1>3. PathsAreChains'
  BY <1>1, SamePlan DEF IInv, SearchSound, PathsAreChains
<1>4. inst \in Instances /\ Entry(found) /\ Entry(best)
  BY DEF IInv, SearchSound, SearchTypeOK
<1>5. best' # None /\ IsDestination(Last(best'.path)) /\ Chain(best'.path)
  BY <1>1 DEF IInv, SearchSound, PathsAreChains, Loop
<1>6. Len(best'.path) >= 2
  BY <1>1, <1>4, <1>5, ChainLong DEF Entry
<1>7. ResultIsPlan'
  BY <1>1, <1>5, <1>6, SamePlan DEF ResultIsPlan
<1>8. Loop'
  BY <1>1, <1>5 DEF IInv, Loop
<1>9. Reach'  BY <1>1, <1>5 DEF Reach
<1> QED  BY <1>2, <1>3, <1>7, <1>8, <1>9 DEF IInv, SearchSound

\* The random path grows downwards, without threads, to the end.
LEMMA RandomStepIInv ==
  ASSUME IInv, NEW level \in 1..inst.log2len, NEW a \in Passes(level),
         RandomStep(a)
  PROVE  IInv'
<1> DEFINE l == IF best = None THEN inst.log2len
                ELSE Last(best.path).level - Last(best.path).N
<1>1. /\ status = "random" /\ a \in Passes(l) /\ a.config = 0
      /\ best' = Extended(best, a, 0)
      /\ status' = IF a.N = l THEN "done" ELSE "random"
      /\ inst' = inst /\ weight' = weight /\ heap' = heap
      /\ reached' = reached /\ round' = round /\ found' = found
      /\ tries' = tries
  BY DEF RandomStep
<1>2. inst \in Instances /\ weight \in Weights /\ Entry(best)
      /\ round \in Nat
  BY DEF IInv, SearchSound, SearchTypeOK
<1>3. a \in Action /\ a.level = level /\ a.level = l
  <2>1. level \in Nat  BY <1>2, InstanceType
  <2> QED  BY <1>1, <2>1, PassType, PassesAre
<1>4. /\ best'.path = Append(best.path, a) /\ best'.cost \in Nat
      /\ best'.round = 0 /\ best' # None
  BY <1>1, <1>2, <1>3, ExtendedType DEF Entry
<1>5. /\ best'.path \in Seq(Action) /\ Chain(best'.path)
      /\ Last(best'.path) = a
  <2>1. CASE best = None
    <3>1. a \in StartPoints /\ best.path = <<>>
      BY <1>1, <2>1 DEF StartPoints, None
    <3> QED  BY <1>2, <1>4, <3>1, ChainStart
  <2>2. CASE best # None
    <3>1. /\ Chain(best.path) /\ best.path \in Seq(Action)
          /\ ~IsDestination(Last(best.path))
          /\ Last(best.path).config = 0
      BY <1>1, <1>2, <2>2
      DEF IInv, SearchSound, PathsAreChains, Loop, Entry
    <3>2. a \in Passes(Last(best.path).level - Last(best.path).N)
      BY <1>1, <2>2
    <3>3. Mt(a.config) = Mt(Last(best.path).config)  BY <1>1, <3>1
    <3> QED  BY <1>2, <1>4, <3>1, <3>2, <3>3, ChainAppend
  <2> QED  BY <2>1, <2>2
<1> HIDE DEF l
<1>6. IsDestination(a) <=> status' = "done"
  BY <1>1, <1>3 DEF IsDestination
<1>7. SearchTypeOK'
  <2>1. Entry(best)'  BY <1>1, <1>2, <1>4, <1>5 DEF Entry
  <2>2. \A e \in heap' \cup {found'} : Entry(e)'
    BY <1>1 DEF IInv, SearchSound, SearchTypeOK, Entry
  <2>3. status' \in {"done", "random"}  BY <1>1
  <2> QED  BY <1>1, <2>1, <2>2, <2>3 DEF IInv, SearchSound, SearchTypeOK
<1>8. PathsAreChains'
  BY <1>1, <1>5, SamePlan DEF IInv, SearchSound, PathsAreChains
<1>9. Loop'
  BY <1>1, <1>4, <1>5, <1>6 DEF Loop
<1>10. ResultIsPlan'
  <2> SUFFICES ASSUME status' = "done" PROVE ResultIsPlan'  BY DEF ResultIsPlan
  <2>1. Len(best'.path) >= 2
    BY <1>2, <1>5, <1>6, ChainLong
  <2> QED  BY <1>1, <1>5, <1>6, <2>1, SamePlan DEF ResultIsPlan
<1> QED  BY <1>1, <1>7, <1>8, <1>9, <1>10 DEF IInv, SearchSound, Reach

LEMMA NextIInv == IInv /\ [SearchNext]_searchvars => IInv'
<1> SUFFICES ASSUME IInv, [SearchNext]_searchvars PROVE IInv'  OBVIOUS
<1>1. ASSUME NEW e \in heap, Expand(e) PROVE IInv'
  BY <1>1, ExpandIInv
<1>2. ASSUME NEW e \in heap, Return(e) PROVE IInv'
  BY <1>2, ReturnIInv
<1>3. CASE GiveUp  BY <1>3, GiveUpIInv
<1>4. CASE AcceptEstimate \/ AcceptMeasured  BY <1>4, AcceptIInv
<1>5. ASSUME NEW level \in 1..inst.log2len, NEW a \in Passes(level),
             RandomStep(a)
      PROVE  IInv'
  BY <1>5, RandomStepIInv
<1>6. CASE UNCHANGED searchvars
  BY <1>6, SamePlan
  DEF searchvars, IInv, SearchSound, SearchTypeOK, Entry, PathsAreChains, Loop,
      Reach, ResultIsPlan
<1> QED  BY <1>1, <1>2, <1>3, <1>4, <1>5, <1>6 DEF SearchNext

\* Whatever the planner holds, in any mode, at any time, for any length, is a
\* chain of passes that were generated for their places, with its cost.
THEOREM SearchIsSound == SearchSpec => []SearchSound
<1>1. IInv => SearchSound  BY DEF IInv
<1> QED  BY <1>1, InitIInv, NextIInv, PTL DEF SearchSpec

\* And what it ends with is a plan to the end: no length, vector width, build
\* or speed of the machine leaves the constructor without a path.
THEOREM AlwaysAPlan == SearchSpec => []ResultIsPlan
<1>1. IInv => ResultIsPlan  BY DEF IInv
<1> QED  BY <1>1, InitIInv, NextIInv, PTL DEF SearchSpec
-----------------------------------------------------------------------------
(* The least cost *)

\* The costs of going on from a level, when f has them for the levels below
Via(f, mt, level) == {Cost(a) + f[level - a.N] : a \in Of(mt, level)}

LeastOf(S) == CHOOSE c \in S : \A d \in S : c <= d

\* What the recursive definition of the least cost says of f up to level n
Rest(f, mt, level) == IF level = 0 THEN 0 ELSE LeastOf(Via(f, mt, level))

Solves(f, mt, n) == f = [level \in 0..n |-> Rest(f, mt, level)]

LEMMA LeastFromIs ==
  ASSUME NEW mt
  PROVE  LeastFrom(mt) = CHOOSE f : Solves(f, mt, inst.log2len)
  BY DEF LeastFrom, Solves, Rest, LeastOf, Via, Of

\* It speaks of the levels below only.
LEMMA RestLocal ==
  ASSUME NEW mt, NEW level \in Nat, NEW f, NEW g,
         \A l \in 0..(level-1) : f[l] = g[l]
  PROVE  Rest(f, mt, level) = Rest(g, mt, level)
<1>1. ASSUME NEW a \in Of(mt, level)
      PROVE  f[level - a.N] = g[level - a.N]
  <2>1. a.N \in 1..level  BY PassType DEF Of
  <2>2. level - a.N \in 0..(level-1)  BY <2>1
  <2> QED  BY <2>2
<1>2. Via(f, mt, level) = Via(g, mt, level)  BY <1>1 DEF Via
<1> QED  BY <1>2 DEF Rest

\* So there is such a function, by induction over the levels.
LEMMA SomeSolution ==
  ASSUME NEW mt, NEW n \in Nat
  PROVE  \E f : Solves(f, mt, n)
<1> DEFINE T == {k \in Nat : ~ \E f : Solves(f, mt, k)}
<1> SUFFICES ASSUME T # {} PROVE FALSE  OBVIOUS
<1>1. PICK k \in T : \A j \in T : k <= j
  <2>1. T \in SUBSET Nat  OBVIOUS
  <2> HIDE DEF T
  <2> QED  BY <2>1, LeastNatural
<1>2. CASE k = 0
  <2> DEFINE f == [level \in 0..0 |-> 0]
  <2>1. Solves(f, mt, 0)  BY DEF Solves, Rest
  <2> QED  BY <1>2, <2>1
<1>3. CASE k # 0
  <2>1. k - 1 \in Nat /\ k - 1 \notin T  BY <1>1, <1>3
  <2>2. PICK f : Solves(f, mt, k - 1)  BY <2>1
  <2> DEFINE g == [level \in 0..k |->
                     IF level = k THEN Rest(f, mt, k) ELSE f[level]]
  <2>3. \A l \in 0..(k-1) : g[l] = f[l]  BY <1>1
  <2>4. ASSUME NEW l \in 0..k PROVE g[l] = Rest(g, mt, l)
    <3>1. l \in Nat /\ \A j \in 0..(l-1) : f[j] = g[j]  BY <1>1, <2>3
    <3> HIDE DEF g
    <3>2. Rest(g, mt, l) = Rest(f, mt, l)  BY <3>1, RestLocal
    <3>3. CASE l = k  BY <3>2, <3>3 DEF g
    <3>4. CASE l # k
      <4>1. l \in 0..(k-1)  BY <1>1, <3>4
      <4>2. f[l] = Rest(f, mt, l)  BY <2>2, <4>1 DEF Solves
      <4> QED  BY <2>3, <3>2, <4>1, <4>2
    <3> QED  BY <3>3, <3>4
  <2>5. Solves(g, mt, k)  BY <2>4 DEF Solves
  <2> QED  BY <1>1, <2>5
<1> QED  BY <1>2, <1>3

\* The definition of the least cost can be unfolded.
LEMMA LeastUnfold ==
  ASSUME inst \in Instances, NEW mt, NEW level \in 0..inst.log2len
  PROVE  LeastFrom(mt)[level] = Rest(LeastFrom(mt), mt, level)
<1>1. Solves(LeastFrom(mt), mt, inst.log2len)
  BY SomeSolution, LeastFromIs, InstanceType
<1> QED  BY <1>1 DEF Solves
\* Where there are passes to go on with, there is a least cost, and a pass to
\* go on with at that cost.
LEMMA LeastType ==
  ASSUME inst \in Instances, weight \in Weights, NEW mt,
         NEW level \in 0..inst.log2len, level = 0 \/ Of(mt, level) # {}
  PROVE  /\ LeastFrom(mt)[level] \in Nat
         /\ level > 0 =>
              \E a \in Of(mt, level) :
                /\ LeastFrom(mt)[level - a.N] \in Nat
                /\ LeastFrom(mt)[level] = Cost(a) + LeastFrom(mt)[level - a.N]
<1> DEFINE F == LeastFrom(mt)
           Served(l) == l = 0 \/ Of(mt, l) # {}
           Good(l) == /\ F[l] \in Nat
                      /\ l > 0 => \E a \in Of(mt, l) :
                                   /\ F[l - a.N] \in Nat
                                   /\ F[l] = Cost(a) + F[l - a.N]
           T == {l \in 0..inst.log2len : Served(l) /\ ~Good(l)}
<1> SUFFICES ASSUME T # {} PROVE FALSE  OBVIOUS
<1>1. PICK k \in T : \A l \in T : k <= l
  <2>1. T \in SUBSET Nat  BY InstanceType
  <2> HIDE DEF T
  <2> QED  BY <2>1, LeastNatural
<1>2. k \in 0..inst.log2len /\ k \in Nat /\ Served(k) /\ ~Good(k)
  BY InstanceType
<1>3. F[k] = Rest(F, mt, k)  BY <1>2, LeastUnfold
<1>4. k > 0
  <2>1. k = 0 => F[k] = 0  BY <1>3 DEF Rest
  <2> HIDE DEF F
  <2> QED  BY <1>2, <2>1
<1>5. ASSUME NEW a \in Of(mt, k)
      PROVE  Cost(a) \in Nat /\ F[k - a.N] \in Nat
  <2>1. a \in Passes(k) /\ Mt(a.config) = mt  BY DEF Of
  <2>2. a \in Action /\ a.level = k /\ a.N \in 1..k  BY <1>2, <2>1, PassType
  <2>3. k - a.N \in 0..inst.log2len /\ k - a.N < k /\ k - a.N \in Nat
    BY <1>2, <2>2, InstanceType
  <2>4. Served(k - a.N)
    <3>1. CASE k - a.N = 0  BY <3>1
    <3>2. CASE k - a.N # 0
      <4>1. ~IsDestination(a) /\ k <= inst.log2len
        BY <1>2, <2>2, <3>2, InstanceType DEF IsDestination
      <4>2. Adjacent(a) # {}  BY <1>2, <2>1, <4>1, SomeAdjacent
      <4> QED  BY <2>1, <2>2, <4>2 DEF Adjacent, Of
    <3> QED  BY <3>1, <3>2
  <2> HIDE DEF F, Served
  <2>5. k - a.N \notin T  BY <1>1, <1>2, <2>3
  <2>6. F[k - a.N] \in Nat  BY <2>3, <2>4, <2>5
  <2> QED  BY <2>2, <2>6, CostType
<1>6. Via(F, mt, k) \in SUBSET Nat /\ Via(F, mt, k) # {}
  <2>1. Of(mt, k) # {}  BY <1>2, <1>4
  <2> HIDE DEF F, T, Good, Served
  <2> QED  BY <1>5, <2>1 DEF Via
<1>7. PICK c \in Via(F, mt, k) : \A d \in Via(F, mt, k) : c <= d
  <2> HIDE DEF F, T
  <2> QED  BY <1>6, LeastNatural
<1>8. F[k] \in Via(F, mt, k)
  <2> HIDE DEF F, T
  <2> QED  BY <1>3, <1>4, <1>7 DEF Rest, LeastOf
<1>9. PICK a \in Of(mt, k) : F[k] = Cost(a) + F[k - a.N]
  <2> HIDE DEF F, T
  <2> QED  BY <1>8 DEF Via
<1>10. F[k] \in Nat /\ F[k - a.N] \in Nat  BY <1>5, <1>6, <1>8
<1> QED  BY <1>2, <1>9, <1>10

\* After a pass a path is at its end, or there are passes to go on with.
LEMMA AdjacentServed ==
  ASSUME inst \in Instances, NEW b, b.level \in 1..inst.log2len,
         b \in Passes(b.level)
  PROVE  /\ b.level - b.N \in 0..inst.log2len /\ b.level - b.N < b.level
         /\ \/ b.level - b.N = 0 /\ IsDestination(b)
            \/ /\ Of(Mt(b.config), b.level - b.N) # {}
               /\ b.level - b.N > 0 /\ ~IsDestination(b)
<1>1. b.level \in Nat /\ b.N \in 1..b.level /\ inst.log2len \in Nat
  <2>1. b.level \in Nat /\ inst.log2len \in Nat  BY InstanceType
  <2> QED  BY <2>1, PassType
<1>2. CASE ~IsDestination(b)
  <2>1. Adjacent(b) # {}  BY <1>1, <1>2, SomeAdjacent
  <2> QED  BY <1>1, <1>2, <2>1 DEF Adjacent, Of, IsDestination
<1>3. CASE IsDestination(b)  BY <1>1, <1>3 DEF IsDestination
<1> QED  BY <1>2, <1>3
-----------------------------------------------------------------------------
(* The first path is the cheapest *)

\* g tells at what cost each pass was reached: no more than it would cost to
\* reach it by any path still in the heap, or from any pass expanded so far.
Reaching(g) ==
  /\ g \in [reached -> Nat]
  /\ \A a \in StartPoints : g[a] <= Cost(a)
  /\ \A c \in reached, e \in heap : g[c] <= e.cost + Cost(c)
  /\ \A b \in reached :
       \/ \E e \in heap : Last(e.path) = b /\ e.cost = g[b]
       \/ /\ ~IsDestination(b) /\ Adjacent(b) \subseteq reached
          /\ \A c \in Adjacent(b) : g[c] <= g[b] + Cost(c)

AtMostLeast(cost) == \A mt \in {FALSE, inst.mt} : cost <= LeastCost(mt)

\* An estimated path is accepted as soon as it is found.
EInv ==
  /\ status = "search" /\ best = None => \E g : Reaching(g)
  /\ status = "random" => inst.mode = "random"
  /\ inst.mode = "estimate" =>
       /\ status # "done" => best = None
       /\ status = "found" => AtMostLeast(found.cost)
       /\ status = "done" => AtMostLeast(best.cost)

\* What the proofs below use of the invariant while the search goes on
LEMMA Searching ==
  ASSUME IInv, status = "search", best = None
  PROVE  /\ inst \in Instances /\ weight \in Weights /\ round \in Nat
         /\ StartPoints \subseteq reached /\ reached \subseteq Action
         /\ \A b \in reached : /\ b.level \in 1..inst.log2len
                                /\ b \in Passes(b.level)
                                /\ Cost(b) \in Nat
         /\ \A e \in heap : e.path \in Seq(Action) /\ e.cost \in Nat
<1>1. /\ inst \in Instances /\ weight \in Weights /\ round \in Nat
      /\ reached \subseteq Action /\ \A e \in heap : Entry(e)
  BY DEF IInv, SearchSound, SearchTypeOK
<1> QED  BY <1>1, CostType DEF IInv, Reach, Entry

\* Of the reached passes from which the least cost can still be kept, one of
\* the lowest level is at the end of a path in the heap.
LEMMA CheapestIsLeast ==
  ASSUME IInv, status = "search", best = None, NEW g, Reaching(g),
         NEW e \in heap, Cheapest(e)
  PROVE  AtMostLeast(e.cost)
<1> SUFFICES ASSUME NEW mt \in {FALSE, inst.mt}
             PROVE  e.cost <= LeastCost(mt)
  BY DEF AtMostLeast
<1> DEFINE F == LeastFrom(mt)
           n == inst.log2len
           On == {b \in reached : /\ Mt(b.config) = mt
                                  /\ g[b] + F[b.level - b.N] <= F[n]}
           T == {b.level : b \in On}
<1>1. /\ inst \in Instances /\ weight \in Weights
      /\ StartPoints \subseteq reached
      /\ \A b \in reached : /\ b.level \in 1..n /\ b \in Passes(b.level)
                             /\ Cost(b) \in Nat /\ g[b] \in Nat
      /\ n \in Nat /\ n > 0 /\ n \in 0..n
  <2>1. inst \in Instances  BY Searching
  <2> QED  BY <2>1, Searching, InstanceType DEF Reaching
<1> HIDE DEF F, n
<1>2. F[n] \in Nat
  BY <1>1, SomeStart, LeastType DEF F, n
<1>3. PICK a \in Of(mt, n) : F[n] = Cost(a) + F[n - a.N] /\ F[n - a.N] \in Nat
  BY <1>1, SomeStart, LeastType DEF F, n
<1>4. a \in On
  <2>1. a \in StartPoints /\ Mt(a.config) = mt
    BY DEF Of, StartPoints, n
  <2>2. a.level = n /\ a \in reached  BY <1>1, <2>1, PassType DEF StartPoints, n
  <2>3. g[a] <= Cost(a) /\ g[a] \in Nat /\ Cost(a) \in Nat
    BY <1>1, <2>1, <2>2 DEF Reaching
  <2> QED  BY <1>3, <2>1, <2>2, <2>3
<1>5. PICK x \in T : \A y \in T : x <= y
  <2>1. T \in SUBSET Nat  BY <1>1
  <2>2. T # {}  BY <1>4
  <2> HIDE DEF T
  <2> QED  BY <2>1, <2>2, LeastNatural
<1>6. PICK b \in On : b.level = x  BY <1>5
<1>7. /\ b \in reached /\ b.level \in 1..n /\ b \in Passes(b.level)
      /\ Mt(b.config) = mt /\ g[b] \in Nat /\ g[b] + F[b.level - b.N] <= F[n]
  BY <1>1, <1>6
<1> HIDE DEF On
<1> DEFINE l == b.level - b.N
<1>8. /\ l \in 0..n /\ l < b.level
      /\ \/ l = 0 /\ IsDestination(b)
         \/ Of(mt, l) # {} /\ l > 0 /\ ~IsDestination(b)
  BY <1>1, <1>7, AdjacentServed DEF n
<1> HIDE DEF l
<1>9. F[l] \in Nat  BY <1>1, <1>8, LeastType DEF F, n
<1>10. CASE \E f \in heap : Last(f.path) = b /\ f.cost = g[b]
  <2>1. PICK f \in heap : f.cost = g[b]  BY <1>10
  <2>2. e.cost \in Nat /\ f.cost \in Nat  BY Searching
  <2>3. e.cost <= f.cost
    <3>1. CASE f = e  BY <2>2, <3>1
    <3>2. CASE f # e  BY <2>2, <3>2 DEF Cheapest
    <3> QED  BY <3>1, <3>2
  <2>4. g[b] + F[l] <= F[n]  BY <1>7 DEF l
  <2>5. e.cost <= F[n]  BY <1>2, <1>7, <1>9, <2>1, <2>2, <2>3, <2>4
  <2> QED  BY <2>5 DEF F, n, LeastCost
<1>11. CASE /\ ~IsDestination(b) /\ Adjacent(b) \subseteq reached
            /\ \A c \in Adjacent(b) : g[c] <= g[b] + Cost(c)
  <2>1. Of(mt, l) # {} /\ l > 0  BY <1>8, <1>11
  <2>2. PICK c \in Of(mt, l) : F[l] = Cost(c) + F[l - c.N]
                              /\ F[l - c.N] \in Nat
    BY <1>1, <1>8, <2>1, LeastType DEF F, n
  <2>3. c \in Adjacent(b) /\ Mt(c.config) = mt /\ c \in Passes(l)
    BY <1>7 DEF Adjacent, Of, l
  <2>4. c \in reached /\ c.level = l /\ g[c] <= g[b] + Cost(c)
    BY <1>8, <1>11, <2>3, PassType
  <2>5. g[c] \in Nat /\ Cost(c) \in Nat  BY <1>1, <2>4
  <2>6. g[b] + F[l] <= F[n]  BY <1>7 DEF l
  <2>7. g[c] + F[c.level - c.N] <= F[n]
    BY <1>2, <1>7, <1>9, <2>2, <2>4, <2>5, <2>6
  <2>8. c \in On  BY <2>3, <2>4, <2>7 DEF On
  <2>9. c.level \in T  BY <2>8
  <2>10. x <= c.level  BY <1>5, <2>9
  <2>11. x \in 1..n  BY <1>6, <1>7
  <2> QED  BY <1>6, <1>8, <2>4, <2>10, <2>11
<1> QED  BY <1>7, <1>10, <1>11 DEF Reaching
\* Costs and the least cost depend on the plan and the machine only.
LEMMA SameCosts ==
  ASSUME inst' = inst, weight' = weight
  PROVE  /\ \A a : Cost(a)' = Cost(a)
         /\ \A mt : LeastCost(mt)' = LeastCost(mt)
         /\ \A c : AtMostLeast(c)' <=> AtMostLeast(c)
<1>1. \A a : Cost(a)' = Cost(a)  BY DEF Cost, Estimate
<1>2. \A mt, f, l : Rest(f, mt, l)' = Rest(f, mt, l)
  <2>1. \A mt, l : Of(mt, l)' = Of(mt, l)  BY SamePlan DEF Of
  <2>2. \A mt, f, l : Via(f, mt, l)' = Via(f, mt, l)
    BY <1>1, <2>1 DEF Via
  <2> QED  BY <2>2 DEF Rest
<1>3. \A mt : LeastCost(mt)' = LeastCost(mt)
  <2> SUFFICES ASSUME NEW mt PROVE LeastCost(mt)' = LeastCost(mt)  OBVIOUS
  <2>1. \A f : Solves(f, mt, inst.log2len)' <=> Solves(f, mt, inst.log2len)
    BY <1>2 DEF Solves
  <2>2. LeastFrom(mt)' = CHOOSE f : Solves(f, mt, inst.log2len)'
    BY DEF LeastFrom, Solves, Rest, LeastOf, Via, Of
  <2>3. LeastFrom(mt)' = LeastFrom(mt)
    BY <2>1, <2>2, LeastFromIs
  <2> QED  BY <2>3 DEF LeastCost
<1> QED  BY <1>1, <1>3 DEF AtMostLeast

LEMMA InitEInv == SearchInit => EInv
<1> SUFFICES ASSUME SearchInit PROVE EInv  OBVIOUS
<1>1. IInv  BY InitIInv
<1>2. CASE inst.mode = "random"  BY <1>2 DEF SearchInit, EInv
<1>3. CASE inst.mode # "random"
  <2>1. /\ status = "search" /\ best = None /\ reached = StartPoints
        /\ heap = {Extended(None, a, 0) : a \in StartPoints}
    BY <1>3 DEF SearchInit
  <2>2. \A a \in reached : Cost(a) \in Nat  BY <1>1, <2>1, Searching
  <2> DEFINE g == [a \in reached |-> Cost(a)]
  <2>3. \A a \in reached : /\ Extended(None, a, 0).cost = Cost(a)
                           /\ Last(Extended(None, a, 0).path) = a
    BY <2>2 DEF Extended, None, Last
  <2>4. Reaching(g)
    <3>1. g \in [reached -> Nat]  BY <2>2
    <3>2. \A a \in StartPoints : g[a] <= Cost(a)  BY <2>1, <2>2
    <3>3. \A c \in reached, e \in heap : g[c] <= e.cost + Cost(c)
      BY <2>1, <2>2, <2>3
    <3>4. \A b \in reached :
            \E e \in heap : Last(e.path) = b /\ e.cost = g[b]
      BY <2>1, <2>3
    <3> QED  BY <3>1, <3>2, <3>3, <3>4 DEF Reaching
  <2> QED  BY <2>1, <2>4 DEF EInv
<1> QED  BY <1>2, <1>3

\* The paths that are left cost no less than the one that is expanded, so no
\* pass will ever be reached at less than it has been.
LEMMA ExpandReaching ==
  ASSUME IInv, best = None, NEW g, Reaching(g), NEW e \in heap, Expand(e)
  PROVE  \E h : Reaching(h)'
<1> DEFINE last == Last(e.path)
           new == Adjacent(last) \ reached
<1>1. /\ status = "search" /\ ~IsDestination(last) /\ Cheapest(e)
      /\ heap' = (heap \ {e}) \cup {Extended(e, a, round + 1) : a \in new}
      /\ reached' = reached \cup new
      /\ inst' = inst /\ weight' = weight
  BY DEF Expand
<1>2. /\ inst \in Instances /\ weight \in Weights /\ round \in Nat
      /\ StartPoints \subseteq reached
      /\ \A b \in reached : Cost(b) \in Nat
      /\ \A f \in heap : f.path \in Seq(Action) /\ f.cost \in Nat
  BY <1>1, Searching
<1>3. IInv'  BY ExpandIInv
<1>4. \A b \in reached' : Cost(b) \in Nat
  <2>1. reached' \subseteq Action  BY <1>3 DEF IInv, SearchSound, SearchTypeOK
  <2> QED  BY <1>2, <2>1, CostType
<1>5. \A f \in heap : e.cost <= f.cost
  <2> SUFFICES ASSUME NEW f \in heap PROVE e.cost <= f.cost  OBVIOUS
  <2>1. CASE f = e  BY <1>2, <2>1
  <2>2. CASE f # e  BY <1>1, <1>2, <2>2 DEF Cheapest
  <2> QED  BY <2>1, <2>2
<1>6. /\ g \in [reached -> Nat]
      /\ \A a \in StartPoints : g[a] <= Cost(a)
      /\ \A c \in reached, f \in heap : g[c] <= f.cost + Cost(c)
      /\ \A b \in reached :
           \/ \E f \in heap : Last(f.path) = b /\ f.cost = g[b]
           \/ /\ ~IsDestination(b) /\ Adjacent(b) \subseteq reached
              /\ \A c \in Adjacent(b) : g[c] <= g[b] + Cost(c)
  BY DEF Reaching
<1> HIDE DEF last, new
<1> PICK h : h = [b \in reached' |->
                   IF b \in reached THEN g[b] ELSE e.cost + Cost(b)]
  OBVIOUS
<1>7. \A b \in reached : h[b] = g[b]  BY <1>1
<1>8. \A b \in new : h[b] = e.cost + Cost(b)  BY <1>1 DEF new
<1>9. h \in [reached' -> Nat]
  BY <1>2, <1>4, <1>6
<1>10. \A a \in new : LET f == Extended(e, a, round + 1) IN
         /\ f \in heap' /\ f.cost = e.cost + Cost(a) /\ Last(f.path) = a
  <2> SUFFICES ASSUME NEW a \in new
               PROVE  LET f == Extended(e, a, round + 1) IN
                      /\ f \in heap' /\ f.cost = e.cost + Cost(a)
                      /\ Last(f.path) = a
    OBVIOUS
  <2>1. a \in Action
    BY <1>1, <1>3 DEF IInv, SearchSound, SearchTypeOK
  <2>2. Last(Append(e.path, a)) = a  BY <1>2, <2>1 DEF Last
  <2> QED  BY <1>1, <2>2 DEF Extended
<1>11. \A f \in heap' : e.cost <= f.cost /\ f.cost \in Nat
  <2>1. \A a \in new : e.cost <= e.cost + Cost(a) /\ e.cost + Cost(a) \in Nat
    BY <1>1, <1>2, <1>4
  <2> QED  BY <1>1, <1>2, <1>5, <1>10, <2>1
<1>12. \A c \in reached' : h[c] <= e.cost + Cost(c)
  BY <1>1, <1>2, <1>4, <1>6, <1>7, <1>8
<1>13. \A c \in reached', f \in heap' : h[c] <= f.cost + Cost(c)
  <2> SUFFICES ASSUME NEW c \in reached', NEW f \in heap'
               PROVE  h[c] <= f.cost + Cost(c)
    OBVIOUS
  <2>1. h[c] \in Nat /\ Cost(c) \in Nat /\ f.cost \in Nat /\ e.cost \in Nat
    BY <1>2, <1>4, <1>9, <1>11
  <2>2. h[c] <= e.cost + Cost(c) /\ e.cost <= f.cost  BY <1>11, <1>12
  <2> QED  BY <2>1, <2>2
<1>14. ASSUME NEW b \in reached'
       PROVE  \/ \E f \in heap' : Last(f.path) = b /\ f.cost = h[b]
              \/ /\ ~IsDestination(b) /\ Adjacent(b) \subseteq reached'
                 /\ \A c \in Adjacent(b) : h[c] <= h[b] + Cost(c)
  <2>1. CASE b \in new  BY <2>1, <1>8, <1>10
  <2>2. CASE b = last /\ b \in reached /\ e.cost = g[b]
    <3>1. Adjacent(b) \subseteq reached'  BY <1>1, <2>2 DEF new
    <3>2. h[b] = e.cost  BY <2>2, <1>7
    <3> QED  BY <1>1, <1>12, <2>2, <3>1, <3>2
  <2>3. CASE /\ b \in reached
             /\ \E f \in heap \ {e} : Last(f.path) = b /\ f.cost = g[b]
    BY <1>1, <1>7, <2>3
  <2>4. CASE /\ b \in reached /\ ~IsDestination(b)
             /\ Adjacent(b) \subseteq reached
             /\ \A c \in Adjacent(b) : g[c] <= g[b] + Cost(c)
    BY <1>1, <1>7, <2>4
  <2> QED  BY <1>1, <1>6, <2>1, <2>2, <2>3, <2>4 DEF last
<1>15. \A a \in StartPoints : h[a] <= Cost(a)  BY <1>2, <1>6, <1>7
<1>16. Reaching(h)'
  BY <1>1, <1>9, <1>13, <1>14, <1>15, SamePlan, SameCosts DEF Reaching
<1> QED  BY <1>16

LEMMA NextEInv == IInv /\ EInv /\ [SearchNext]_searchvars => EInv'
<1> SUFFICES ASSUME IInv, EInv, [SearchNext]_searchvars PROVE EInv'  OBVIOUS
<1>1. ASSUME NEW e \in heap, Expand(e) PROVE EInv'
  <2>1. /\ status = "search" /\ status' = status /\ best' = best /\ inst' = inst
        /\ weight' = weight
    BY <1>1 DEF Expand
  <2>2. best = None => \E g : Reaching(g)'
    BY <1>1, <2>1, ExpandReaching DEF EInv
  <2> QED  BY <2>1, <2>2 DEF EInv
<1>2. ASSUME NEW e \in heap, Return(e) PROVE EInv'
  <2>1. /\ status = "search" /\ Cheapest(e) /\ status' = "found" /\ found' = e
        /\ best' = best /\ inst' = inst /\ weight' = weight
    BY <1>2 DEF Return
  <2>2. best = None => AtMostLeast(e.cost)
    BY <2>1, CheapestIsLeast DEF EInv
  <2> QED  BY <2>1, <2>2, SameCosts DEF EInv
<1>3. CASE GiveUp
  <2>1. /\ status = "search" /\ heap = {} /\ status' = "done" /\ inst' = inst
    BY <1>3 DEF GiveUp
  <2>2. best # None
    <3>1. inst \in Instances /\ Reach
      BY DEF IInv, SearchSound, SearchTypeOK
    <3> QED  BY <2>1, <3>1, HeapNotEmpty
  <2> QED  BY <2>1, <2>2 DEF EInv
<1>4. CASE AcceptEstimate
  BY <1>4, SameCosts DEF AcceptEstimate, EInv
<1>5. CASE AcceptMeasured
  <2>1. /\ inst.mode = "measure" /\ inst' = inst /\ best' # None
        /\ status' # "random"
    <3>1. found # None  BY <1>5 DEF AcceptMeasured, IInv, Loop
    <3> QED  BY <1>5, <3>1 DEF AcceptMeasured
  <2> QED  BY <2>1 DEF EInv
<1>6. ASSUME NEW level \in 1..inst.log2len, NEW a \in Passes(level),
             RandomStep(a)
      PROVE  EInv'
  <2>1. status = "random" /\ inst' = inst /\ status' # "search"
        /\ inst.mode # "estimate"
    BY <1>6 DEF RandomStep, EInv
  <2> QED  BY <2>1 DEF EInv
<1>7. CASE UNCHANGED searchvars
  BY <1>7, SamePlan, SameCosts DEF searchvars, EInv, Reaching
<1> QED  BY <1>1, <1>2, <1>3, <1>4, <1>5, <1>6, <1>7 DEF SearchNext

\* No path has a lower estimate than the one the planner takes, though a pass
\* is given only to the first path that reaches it.
THEOREM FirstIsCheapest == SearchSpec => []EstimateOptimal
<1>1. IInv /\ EInv => EstimateOptimal
  <2> SUFFICES ASSUME IInv, EInv, status = "done", inst.mode = "estimate"
               PROVE  /\ best.cost <= LeastCost(FALSE)
                      /\ inst.mt => best.cost <= LeastCost(TRUE)
    BY DEF EstimateOptimal
  <2> QED  BY DEF EInv, AtMostLeast
<1> QED
  BY <1>1, InitIInv, NextIInv, InitEInv, NextEInv, PTL DEF SearchSpec
=============================================================================
