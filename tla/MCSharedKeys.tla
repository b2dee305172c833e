---------------------------- MODULE MCSharedKeys ----------------------------
(***************************************************************************)
(* A 1D plan and a 2D plan with rows of its length, both measured, which   *)
(* KeysApart excludes.                                                     *)
(***************************************************************************)
EXTENDS PlanLifecycle

CONSTANTS h1, h2

PureC == <<[priority |-> 1, log2vecwidth |-> 0]>>

Row == {[log2len |-> 3, real |-> FALSE, mt |-> FALSE, measure |-> TRUE]}
Matrix == {[log2vlen |-> 2, log2hlen |-> 3, mt |-> FALSE, measure |-> TRUE]}
=============================================================================
