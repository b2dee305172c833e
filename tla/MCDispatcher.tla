---------------------------- MODULE MCDispatcher ----------------------------
(* Two threads that call a function of the math library for the first time, *)
(* or plan a transform; the CPU has the second of the two that are asked for.*)
EXTENDS Dispatcher

CONSTANTS t1, t2, x1, x2, f1, f2

LackingThenPresent == <<x2, x1>>
=============================================================================
