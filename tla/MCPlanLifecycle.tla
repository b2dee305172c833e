--------------------------- MODULE MCPlanLifecycle ---------------------------
(* Pure C and vectors of two and of four; lengths of the cfg. *)
EXTENDS PlanLifecycle

CONSTANTS
  h1, h2,
  Lengths,      \* log2 of the sizes of 1D plans
  Sizes2D       \* log2 of the sizes of 2D plans

ThreeIsas == <<[priority |-> 1, log2vecwidth |-> 0],
               [priority |-> 5, log2vecwidth |-> 1],
               [priority |-> 9, log2vecwidth |-> 2]>>

\* Complex plans with and without threads, real ones without
Some1D == {r \in [log2len : Lengths, real : BOOLEAN, mt : BOOLEAN,
                  measure : BOOLEAN] :
             ~(r.real /\ r.mt) /\ (r.log2len <= 1 => ~r.real /\ ~r.mt)}

\* The rows of one more plan, which is estimated, have the length, and so the
\* key, of 1D plans.
Some2D == [log2vlen : Sizes2D, log2hlen : Sizes2D, mt : BOOLEAN,
           measure : BOOLEAN]
          \cup [log2vlen : {1}, log2hlen : Lengths \ Sizes2D, mt : {FALSE},
                measure : {FALSE}]

\* What the theorems about plans assume
ASSUME RequestsApart == KeysApart
=============================================================================
