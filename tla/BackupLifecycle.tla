--------------------------- MODULE BackupLifecycle ---------------------------
(***************************************************************************)
(* What the PVCBackup controller promises, without caches, workqueues,     *)
(* snapshots and Jobs: a PVCBackup that somebody creates is started when   *)
(* there is a free slot, its data is stored, and then it is finished.  The *)
(* phases are the ones that the status of a PVCBackup shows.               *)
(***************************************************************************)
EXTENDS Naturals, FiniteSets

CONSTANTS
    Backups,    \* names of PVCBackups
    Limit       \* how many may run at a time; no maximum unless positive

VARIABLES
    phase,      \* of each PVCBackup
    stored      \* the PVCBackups whose data is in the restic repository

vars == <<phase, stored>>

Running == {b \in Backups : phase[b] = "running"}

Init ==
    /\ phase = [b \in Backups |-> "absent"]
    /\ stored = {}

\* A new PVCBackup, perhaps with the name of an old one: it has no data yet.
Create(b) ==
    /\ phase[b] = "absent"
    /\ phase' = [phase EXCEPT ![b] = "requested"]
    /\ stored' = stored \ {b}

Start(b) ==
    /\ phase[b] = "requested"
    /\ Limit <= 0 \/ Cardinality(Running) < Limit
    /\ phase' = [phase EXCEPT ![b] = "running"]
    /\ UNCHANGED stored

\* The Job of a PVCBackup that is being deleted may still end well.
Store(b) ==
    /\ phase[b] \in {"running", "absent"}
    /\ stored' = stored \cup {b}
    /\ UNCHANGED phase

Finish(b) ==
    /\ phase[b] = "running"
    /\ b \in stored
    /\ phase' = [phase EXCEPT ![b] = "finished"]
    /\ UNCHANGED stored

\* By a user, or because it has expired.
Delete(b) ==
    /\ phase[b] # "absent"
    /\ phase' = [phase EXCEPT ![b] = "absent"]
    /\ UNCHANGED stored

Next ==
    \E b \in Backups :
        Create(b) \/ Start(b) \/ Store(b) \/ Finish(b) \/ Delete(b)

Spec == Init /\ [][Next]_vars
=============================================================================
