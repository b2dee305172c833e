------------------------------ MODULE PlanStore ------------------------------
(***************************************************************************)
(* What a user of plan files counts on: each file maps transforms to       *)
(* paths, and paths are only ever recorded in it.  However often processes *)
(* start, die, load and store, no path that a file holds is lost.          *)
(***************************************************************************)
CONSTANTS File, Slot, Path, NoPath

VARIABLE store

Init == store \in [File -> [Slot -> Path \cup {NoPath}]]

\* Some paths, with those the process had in memory, get into file f.
Record(f, paths) ==
  store' = [store EXCEPT ![f] =
              [s \in Slot |-> IF s \in DOMAIN paths THEN paths[s] ELSE @[s]]]

Next ==
  \E f \in File, S \in SUBSET Slot : \E paths \in [S -> Path] : Record(f, paths)

Spec == Init /\ [][Next]_store
=============================================================================
