---------------------------- MODULE MCPlanManager ----------------------------
(***************************************************************************)
(* Instances of PlanManager: one process with two threads and a crash; one *)
(* thread that follows the protocol of test_dftplanner or saves by hand;   *)
(* two processes of two threads each that share a file.                    *)
(***************************************************************************)
EXTENDS PlanManager, TLC

CONSTANTS p1, p2, t1, t2, t3, t4, f1, f2, k1, k2, a1, x1, x2

OneProcess  == [t \in Thread |-> p1]
TwoProcesses == [t \in Thread |-> IF t \in {t1, t2} THEN p1 ELSE p2]

Set(file, mode) == [file |-> file, arch |-> a1, mode |-> mode]

\* A plan file written earlier, with a path for k1
Old == [id |-> TRUE, path |-> [s \in Slot |-> IF s[2] = k1 THEN x1 ELSE NoPath]]
\* A file that is no plan file
Alien == [id |-> FALSE, path |-> NoPlan]

NoDisk == CHOOSE d \in [{} -> Plan] : TRUE
MissingOrOld == {NoDisk, f1 :> Old, f1 :> Alien}

AutoF1 == {Set(f1, {"AUTOMATIC"})}
AutoOrEnv == AutoF1 \cup {Set(NoFile, {"AUTOMATIC", "REFERTOENVVAR"})}
Protocol ==
  {Set(f1, {"AUTOMATIC"}), Set(f2, {"AUTOMATIC"}), Set(NoFile, {"RESET"})}
FileByHand == {Set(f1, {})}
ProtocolOrByHand ==
  Protocol \cup FileByHand \cup {Set(NoFile, {}), Set(NoFile, {"AUTOMATIC"})}
Shared ==
  {Set(f1, {"AUTOMATIC"}), Set(f1, {"AUTOMATIC", "NOLOCK"})} \cup FileByHand
=============================================================================
