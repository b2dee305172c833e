----------------------------- MODULE MCCpuProbe -----------------------------
(* Two threads that probe at once, for an extension the CPU has and for one *)
(* it lacks; with the two probers kept apart, and without.                  *)
EXTENDS CpuProbe

CONSTANTS t1, t2, x1, x2
=============================================================================
