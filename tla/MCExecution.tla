----------------------------- MODULE MCExecution -----------------------------
(***************************************************************************)
(* What a transform goes through, side by side: the planner finds a path   *)
(* (DFTPlanner), a team of threads is started to time it                   *)
(* (StartAllThreads), the plan is executed (DFTExecute), by itself or for  *)
(* the rows and columns of a 2D plan (DFT2DExecute).  In a behaviour one   *)
(* of them works and the others rest.                                      *)
(* Planner: every length, vector width and build option up to the bounds.  *)
(* startAllThreads: OpenMP may give several iterations to one thread.      *)
(* 1D: two threads, plans of every path length up to four and both         *)
(* parities.  2D: two threads; sizes below and above the block size,       *)
(* square and oblong.                                                      *)
(***************************************************************************)
EXTENDS DFTPlanner, StartAllThreads, DFTExecute, DFT2DExecute

CONSTANTS
  MaxLog2Len,       \* the longest plan that is measured or random
  MaxEstimated,     \* the longest plan that is estimated
  MaxLog2VecWidth

VARIABLE part       \* the one that works

Candidates == [log2len : 2..MaxEstimated, log2vecwidth : 0..MaxLog2VecWidth,
               mt : BOOLEAN, stream : BOOLEAN,
               mode : {"measure", "random", "estimate"}]

ShortInstances ==
  {c \in Candidates : /\ 2 * c.log2vecwidth <= c.log2len
                      /\ c.mode # "estimate" => c.log2len <= MaxLog2Len}

\* A length beyond 2^14, where multi-threading halves the estimate
LongInstances ==
  {[log2len |-> 14, log2vecwidth |-> 1, mt |-> TRUE, stream |-> FALSE,
    mode |-> "estimate"]}

AllInstances == ShortInstances \cup LongInstances

\* Passes of each width, for one thread and for several, are fast or slow.
AllWeights == [(1..MaxButWidth) \X BOOLEAN -> 1..2]

Pass(lv, n) == [level |-> lv, N |-> n]

AllPlans ==
  { [log2len |-> 0, path |-> <<>>],
    [log2len |-> 1, path |-> <<>>],
    [log2len |-> 2, path |-> <<Pass(2, 1), Pass(1, 1)>>],
    [log2len |-> 4, path |-> <<Pass(4, 2), Pass(2, 1), Pass(1, 1)>>],
    [log2len |-> 5,
     path |-> <<Pass(5, 2), Pass(3, 1), Pass(2, 1), Pass(1, 1)>>] }

TwoThreads == {1, 2}
Numbered == [w \in TwoThreads |-> w - 1]

Z(v, h) == [v |-> v, h |-> h]
AllSizes == {Z(0, 1), Z(1, 0), Z(1, 1), Z(1, 2), Z(2, 1), Z(2, 2), Z(3, 2)}

\* The planner has found the path of two passes.
SearchRests ==
  /\ inst = [log2len |-> 2, log2vecwidth |-> 0, mt |-> FALSE, stream |-> FALSE,
             mode |-> "random"]
  /\ weight = CHOOSE w \in Weights : TRUE
  /\ heap = {} /\ reached = {} /\ round = 0 /\ status = "done" /\ tries = 0
  /\ found = None
  /\ LET a == [config |-> 0, level |-> 2, N |-> 1] IN
     best = [path |-> <<a, [a EXCEPT !.level = 1]>>, round |-> 0,
             cost |-> 2 * Cost(a)]

\* startAllThreads has returned; nobody had two iterations.
TeamRests ==
  /\ owner = CHOOSE f \in [Iteration -> Member] :
               \A x, y \in Iteration : f[x] = f[y] => x = y
  /\ state = [x \in Iteration |-> 1]
  /\ th = [w \in Member |-> 0] /\ i = [w \in Member |-> 0]
  /\ place = [w \in Member |-> "join"] /\ freed = TRUE

\* The plan of length 1 is not executed.
PlanRests ==
  /\ plan = [log2len |-> 0, path |-> <<>>]
  /\ mode = [real |-> FALSE, backward |-> FALSE, alt |-> FALSE]
  /\ inPlace = [w \in Workers |-> FALSE] /\ Init

\* The 2D plan of one row has been executed.
MatrixRests ==
  /\ size = Z(0, 1) /\ inPlace2D = FALSE /\ mt = FALSE
  /\ s = Matrix(FALSE, FALSE) /\ tBuf = s /\ d = Matrix(TRUE, TRUE)
  /\ phase = 5 /\ todo = {}
  /\ at = [w \in Worker |-> Idle] /\ row = [w \in Worker |-> <<>>]

AllInit ==
  \/ part = "plan" /\ SearchInit /\ TeamRests /\ PlanRests /\ MatrixRests
  \/ part = "start" /\ TeamInit /\ SearchRests /\ PlanRests /\ MatrixRests
  \/ part = "execute" /\ Init /\ SearchRests /\ TeamRests /\ MatrixRests
  \/ part = "execute2d" /\ MatrixInit /\ SearchRests /\ TeamRests /\ PlanRests

AllNext ==
  /\ UNCHANGED part
  /\ \/ /\ part = "plan" /\ SearchNext
        /\ UNCHANGED <<teamvars, vars, matrixvars>>
     \/ /\ part = "start" /\ TeamNext
        /\ UNCHANGED <<searchvars, vars, matrixvars>>
     \/ /\ part = "execute" /\ Next
        /\ UNCHANGED <<searchvars, teamvars, matrixvars>>
     \/ /\ part = "execute2d" /\ MatrixNext
        /\ UNCHANGED <<searchvars, teamvars, vars>>

\* The fairness of the planner and of the team; those that rest cannot step.
AllSpec ==
  /\ AllInit /\ [][AllNext]_<<part, searchvars, teamvars, vars, matrixvars>>
  /\ WF_searchvars(SearchNext)
  /\ WF_teamvars(Free) /\ \A w \in Member : WF_teamvars(Step(w))
=============================================================================
