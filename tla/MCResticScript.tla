--------------------------- MODULE MCResticScript ---------------------------
(***************************************************************************)
(* Small instances of ResticScript for TLC.                                *)
(***************************************************************************)
EXTENDS ResticScript

\* -restic-env tries to replace a managed variable, and does replace a default.
ConfiguredEnv == [RESTIC_PASSWORD |-> MaxPassword, BACKSNAP_RETRY_LOCK |-> "1h"]

EachFaultOnce == [f \in Faults |-> 1]
NodeFailures  == [f \in Faults |-> IF f = "nodeFailure" THEN 1 ELSE 0]
=============================================================================
