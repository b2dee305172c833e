------------------------------ MODULE DFTPlanner ------------------------------
(***************************************************************************)
(* How the constructor of a 1D plan finds the path of butterfly passes:    *)
(* the table of executable passes, the best-first search of KShortest with *)
(* estimated or measured costs, and the random path of the debug mode.     *)
(***************************************************************************)
EXTENDS Integers, Sequences

CONSTANTS
  MaxButWidth, \* MAXBUTWIDTH: the widest butterfly generated
  NPaths,      \* how many paths are tried when plans are measured (32)
  Instances,   \* the plans to find
  Weights      \* how long passes take when they are measured

\* The last pass of a path.  (SequencesExt has it, too; the provers cannot take
\* a module with it as a parametrized instance, which PlanLifecycle needs.)
Last(path) == path[Len(path)]

Config == 0..3
Mt(config) == config >= 2            \* CONFIG_MT
Stream(config) == config % 2 = 1     \* CONFIG_STREAM

\* The instruction set is chosen such that n >= vecwidth * vecwidth; lengths 1
\* and 2 need no path; a vector is not wider than the widest butterfly.
IsInstance(i) ==
  /\ i.log2len \in Nat /\ i.log2vecwidth \in Nat
  /\ i.log2len >= 2 /\ 2 * i.log2vecwidth <= i.log2len
  /\ i.log2vecwidth <= MaxButWidth
  /\ i.mt \in BOOLEAN /\ i.stream \in BOOLEAN
  /\ i.mode \in {"estimate", "measure", "random"}

ASSUME PlannerAssumption ==
  /\ MaxButWidth \in Nat \ {0} /\ NPaths \in Nat \ {0}
  /\ \A i \in Instances : IsInstance(i)
  /\ Weights \subseteq [(1..MaxButWidth) \X BOOLEAN -> Nat]

VARIABLES
  inst, weight,  \* the plan and the speed of the machine, fixed
  heap,          \* paths KShortest may still extend, with their costs
  reached,       \* the passes some path in the heap has ended with
  round,         \* how many paths have been extended: the age of new ones
  status,        \* "search", "found", "random" or "done"
  found,         \* the path execute() has returned last, with its cost
  best,          \* bestPath, with its time
  tries          \* how many paths have been measured

searchvars == <<inst, weight, heap, reached, round, status, found, best, tries>>

None == [path |-> <<>>, cost |-> 0, round |-> 0]

Action == [config : Config, level : Nat, N : 1..MaxButWidth]

\* Mutant of Executable: a first pass as wide as the vector is refused
ExecutableOffByOne(a) ==
  /\ Stream(a.config) => inst.stream
  /\ Mt(a.config) => inst.mt
  /\ a.N <= a.level /\ a.N < inst.log2len
  /\ \/ a.level = a.N
     \/ /\ a.level = inst.log2len
        /\ inst.log2len - a.N >= inst.log2vecwidth
        /\ inst.log2vecwidth < a.N
     \/ /\ a.level < inst.log2len
        /\ inst.log2vecwidth > 1 => inst.log2len > a.N + 2
        /\ inst.log2len - a.level >= inst.log2vecwidth

\* Which passes the generated code can do on this length and vector width
Executable(a) ==
  /\ Stream(a.config) => inst.stream
  /\ Mt(a.config) => inst.mt
  /\ a.N <= a.level /\ a.N < inst.log2len
  /\ \/ a.level = a.N
     \/ /\ a.level = inst.log2len
        /\ inst.log2len - a.N >= inst.log2vecwidth
        /\ inst.log2vecwidth <= a.N
     \/ /\ a.level < inst.log2len
        /\ inst.log2vecwidth > 1 => inst.log2len > a.N + 2
        /\ inst.log2len - a.level >= inst.log2vecwidth

\* N < NMAX in the searches
BelowNMax(N) ==
  N < inst.log2len /\ N <= MaxButWidth /\ N <= inst.log2len - inst.log2vecwidth

\* The passes a search may put at a level
Passes(level) ==
  {a \in [config : Config, level : {level}, N : 1..MaxButWidth] :
     BelowNMax(a.N) /\ Executable(a)}

StartPoints == Passes(inst.log2len)

\* Mutant of Adjacent: passes for several threads mix with the others
AdjacentAny(last) == Passes(last.level - last.N)

\* KShortest::next: a path stays with or without multi-threading.
Adjacent(last) ==
  {a \in Passes(last.level - last.N) : Mt(a.config) = Mt(last.config)}

IsDestination(a) == a.level = a.N

Abs(x) == IF x < 0 THEN -x ELSE x

Estimate(a) ==
  LET ret == a.N * 1000 + Abs(a.N - 3) * 1000
  IN  IF inst.log2len >= 14 /\ Mt(a.config) THEN ret \div 2 ELSE ret

\* What a pass adds to the cost of a path.  The clock is taken to be exact,
\* and the time of a path to be the sum of the times of its passes.
Cost(a) == IF inst.mode = "estimate" THEN Estimate(a)
           ELSE weight[<<a.N, Mt(a.config)>>]

Extended(e, a, r) ==
  [path |-> Append(e.path, a), cost |-> e.cost + Cost(a), round |-> r]

\* The heap is a vector: paths are pushed at its end, by config and then by N,
\* and removing one keeps the order of the others.
Before(e, f) ==
  LET a == Last(e.path)  b == Last(f.path) IN
    \/ e.round < f.round
    \/ e.round = f.round /\ a.config < b.config
    \/ e.round = f.round /\ a.config = b.config /\ a.N < b.N

\* Mutant of Cheapest: the costs are not compared
CheapestAny(e) == \A f \in heap \ {e} : Before(e, f)

\* The first of the paths of the least cost
Cheapest(e) ==
  \A f \in heap \ {e} : e.cost < f.cost \/ (e.cost = f.cost /\ Before(e, f))

-----------------------------------------------------------------------------
SearchInit ==
  /\ inst \in Instances /\ weight \in Weights
  /\ inst.mode # "measure" => weight = CHOOSE w \in Weights : TRUE
  /\ round = 0 /\ found = None /\ best = None /\ tries = 0
  /\ IF inst.mode = "random"
     THEN status = "random" /\ heap = {} /\ reached = {}
     ELSE /\ status = "search"
          /\ heap = {Extended(None, a, 0) : a \in StartPoints}
          /\ reached = StartPoints

\* KShortest::execute: the cheapest path is extended by the passes that no
\* path has ended with yet (the limit of the three searches is 1).
Expand(e) ==
  /\ status = "search" /\ Cheapest(e) /\ ~IsDestination(Last(e.path))
  /\ LET new == Adjacent(Last(e.path)) \ reached IN
     /\ heap' = (heap \ {e}) \cup {Extended(e, a, round + 1) : a \in new}
     /\ reached' = reached \cup new
     /\ round' = round + 1
  /\ UNCHANGED <<inst, weight, status, found, best, tries>>

\* execute() returns the cheapest path when that has reached the end.
Return(e) ==
  /\ status = "search" /\ Cheapest(e) /\ IsDestination(Last(e.path))
  /\ heap' = heap \ {e} /\ found' = e /\ status' = "found"
  /\ UNCHANGED <<inst, weight, reached, round, best, tries>>

\* Mutant of GiveUp: it is not noticed that there are fewer paths than NPaths
GiveUpAtFirst ==
  /\ status = "search" /\ heap = {} /\ best = None /\ status' = "done"
  /\ UNCHANGED <<inst, weight, heap, reached, round, found, best, tries>>

\* execute() returns no path; the search is over.
GiveUp ==
  /\ status = "search" /\ heap = {} /\ status' = "done"
  /\ UNCHANGED <<inst, weight, heap, reached, round, found, best, tries>>

\* searchForBestPath, nPaths = 0: the first path is the one.
AcceptEstimate ==
  /\ status = "found" /\ inst.mode = "estimate"
  /\ best' = found /\ status' = "done"
  /\ UNCHANGED <<inst, weight, heap, reached, round, found, tries>>

\* Otherwise it is measured once more, and NPaths paths are compared.
AcceptMeasured ==
  /\ status = "found" /\ inst.mode = "measure"
  /\ best' = IF best = None \/ found.cost < best.cost THEN found ELSE best
  /\ tries' = tries + 1
  /\ status' = IF tries' < NPaths THEN "search" ELSE "done"
  /\ UNCHANGED <<inst, weight, heap, reached, round, found>>

\* searchForRandomPath: any executable pass; the others are drawn again.
RandomStep(a) ==
  LET level == IF best = None THEN inst.log2len
               ELSE Last(best.path).level - Last(best.path).N
  IN /\ status = "random" /\ level > 0
     /\ a \in Passes(level) /\ a.config = 0
     /\ best' = Extended(best, a, 0)
     /\ status' = IF a.N = level THEN "done" ELSE "random"
     /\ UNCHANGED <<inst, weight, heap, reached, round, found, tries>>

SearchNext ==
  \/ \E e \in heap : Expand(e) \/ Return(e)
  \/ GiveUp \/ AcceptEstimate \/ AcceptMeasured
  \/ \E level \in 1..inst.log2len : \E a \in Passes(level) : RandomStep(a)

SearchSpec ==
  SearchInit /\ [][SearchNext]_searchvars /\ WF_searchvars(SearchNext)
-----------------------------------------------------------------------------
Entry(e) == e.path \in Seq(Action) /\ e.cost \in Nat /\ e.round \in 0..round

SearchTypeOK ==
  /\ inst \in Instances /\ weight \in Weights
  /\ status \in {"search", "found", "random", "done"}
  /\ \A e \in heap \cup {found, best} : Entry(e)
  /\ reached \subseteq Action /\ round \in Nat /\ tries \in 0..NPaths

\* Each pass starts at the level the one before has reached, can be executed,
\* and is for several threads if the others are.
Chain(p) ==
  /\ p # <<>> /\ p[1].level = inst.log2len
  /\ \A k \in 1..Len(p) : /\ Executable(p[k]) /\ BelowNMax(p[k].N)
                          /\ Mt(p[k].config) = Mt(p[1].config)
  /\ \A k \in 1..(Len(p)-1) : /\ p[k+1].level = p[k].level - p[k].N
                              /\ p[k+1].level > 0

\* Whatever is in the heap, is returned or is kept as the best path is a chain,
\* so no pass is dispatched that was not generated for its place.
PathsAreChains ==
  /\ \A e \in heap : Chain(e.path)
  /\ \A e \in {found, best} : e # None => Chain(e.path)

\* Whatever the search holds is a path, or the beginning of one, with its cost.
SearchSound == SearchTypeOK /\ PathsAreChains

\* The planner never ends without a path, in no mode and for no length and
\* vector width it is used for; the path has two passes at least.
ResultIsPlan ==
  status = "done" =>
    /\ Chain(best.path) /\ Len(best.path) >= 2
    /\ IsDestination(Last(best.path))

\* The least cost of a chain from a level down, by its definition
LeastFrom(mt) ==
  LET least[level \in 0..inst.log2len] ==
        IF level = 0 THEN 0
        ELSE LET via == {Cost(a) + least[level - a.N] :
                           a \in {b \in Passes(level) : Mt(b.config) = mt}}
             IN  CHOOSE c \in via : \A d \in via : c <= d
  IN  least

LeastCost(mt) == LeastFrom(mt)[inst.log2len]

\* Though a pass is given only to the first path that reaches it, no path has
\* a lower estimate than the one that is returned first.
EstimateOptimal ==
  status = "done" /\ inst.mode = "estimate" =>
    /\ best.cost <= LeastCost(FALSE)
    /\ inst.mt => best.cost <= LeastCost(TRUE)

\* The search ends, whatever the machine's speed.
Terminates == <>(status = "done")
=============================================================================
