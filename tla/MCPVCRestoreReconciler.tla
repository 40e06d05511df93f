----------------------- MODULE MCPVCRestoreReconciler -----------------------
(***************************************************************************)
(* Small instances of PVCRestoreReconciler for TLC.                        *)
(***************************************************************************)
EXTENDS PVCRestoreReconciler, TLC

CONSTANTS r1, r2, r3, c1

\* Each of these faults once, the others never.
Once(faults) == [f \in Faults |-> IF f \in faults THEN 1 ELSE 0]

SameTarget     == [r \in Restores |-> c1]
OneTarget      == [r \in Restores |-> IF r = r2 THEN NoTarget ELSE c1]

NoFaults       == Once({})
AllFaults      == Once(Faults)
ProgressFaults == Once({"restart", "callError", "lostReply", "createClaim"})

RestoreSymmetry == Permutations({r1, r2})
=============================================================================
