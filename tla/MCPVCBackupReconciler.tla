----------------------- MODULE MCPVCBackupReconciler -----------------------
(***************************************************************************)
(* Small instances of PVCBackupReconciler for TLC: the functions that the  *)
(* configurations give to its constants.                                   *)
(***************************************************************************)
EXTENDS PVCBackupReconciler, TLC

CONSTANTS b1, b2, b3, c1, c2

\* Each of these faults once, the others never.
Once(faults) == [f \in Faults |-> IF f \in faults THEN 1 ELSE 0]

SameClaim      == [b \in Backups |-> c1]
OwnClaim       == [b \in Backups |-> IF b = b1 THEN c1 ELSE c2]

OneNamespace   == [b \in Backups |-> "ns"]
\* b3 is in a namespace that another release handles.
TwoNamespaces  == [b \in Backups |-> IF b = b3 THEN "other" ELSE "ns"]
All            == {AllNamespaces}
Other          == {"other"}
None           == {}

ShortTTL       == [b \in Backups |-> 1]
LongTTL        == [b \in Backups |-> MaxTime + 1]

LimitFaults    == Once({"restart", "pollTimeout", "lostReply", "callError", "jobFails"})
DeleteFaults   == Once({"deleteBackup", "deleteClaim"})
RestartOnce    == Once({"restart"})
ProgressFaults == Once({"restart", "listError", "callError"})
PollFaults     == Once({"pollTimeout"})
JobFaults      == Once({"jobFails"})

\* b1 and b2 are alike when they back up the same claim.
BackupSymmetry == Permutations({b1, b2})
=============================================================================
