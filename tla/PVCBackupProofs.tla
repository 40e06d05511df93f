--------------------------- MODULE PVCBackupProofs ---------------------------
(***************************************************************************)
(* Proofs about PVCBackupReconciler, for every number of backups and       *)
(* claims, every configuration of namespaces and TTLs, and every budget of *)
(* faults (RunningLimit: every budget without a failing List).             *)
(***************************************************************************)
EXTENDS PVCBackupReconciler, FiniteSetTheorems, TLAPS

-----------------------------------------------------------------------------
(* Type correctness.                                                         *)

\* Every kind of object is well typed when it does not exist.
LEMMA ObjectTypes ==
    /\ NoBackup \in BackupObjects
    /\ NoSnapshot \in SnapshotObjects
    /\ NoJob \in JobObjects
    /\ NoPvc \in PvcObjects
    /\ UserPvc \in PvcObjects
BY BoundsAssumption DEF NoBackup, NoSnapshot, NoJob, NoPvc, UserPvc,
    BackupObjects, SnapshotObjects, JobObjects, PvcObjects, Never

\* The updates of a PVCBackup keep it well typed.
LEMMA BackupUpdateTypes ==
    ASSUME NEW o \in BackupObjects
    PROVE  /\ o.uid \in 0..MaxUid
           /\ [o EXCEPT !.present = FALSE] \in BackupObjects
           /\ [o EXCEPT !.started = TRUE] \in BackupObjects
           /\ \A t \in 0..MaxTime : [o EXCEPT !.finishedAt = t] \in BackupObjects
BY DEF BackupObjects

\* The children made for a PVCBackup are well typed.
LEMMA ChildTypes ==
    ASSUME NEW u \in 0..MaxUid
    PROVE  /\ [owner |-> u, status |-> "pending"] \in SnapshotObjects
           /\ [owner |-> u, status |-> "pending", data |-> 0] \in PvcObjects
           /\ [owner |-> u, status |-> "running"] \in JobObjects
BY BoundsAssumption DEF SnapshotObjects, PvcObjects, JobObjects

\* So is a claim that the provisioner filled.
LEMMA BoundPvcType ==
    ASSUME NEW u \in 0..MaxUid, NEW o \in PvcObjects
    PROVE  [o EXCEPT !.status = "bound", !.data = u] \in PvcObjects
BY DEF PvcObjects

\* So is a new PVCBackup.
LEMMA NewBackupType ==
    ASSUME NEW u \in 0..MaxUid
    PROVE  [NoBackup EXCEPT !.uid = u, !.present = TRUE] \in BackupObjects
BY DEF NoBackup, BackupObjects, Never

\* Every call of Reconcile leaves well-typed objects, caches and local state.
LEMMA ReconcileTypeOK == TypeOK /\ Reconcile => TypeOK'
<1> SUFFICES ASSUME TypeOK, Reconcile PROVE TypeOK'
  OBVIOUS
<1> USE BoundsAssumption, NamesAssumption, ObjectTypes
    DEF TypeOK, Spend, Goto, Return, Requeue, Finished, Replied, Rejected, ReleaseSlot,
        slots, worker, api, caches, Faults
<1>1. CASE FindCurrentRunningBackups
  BY <1>1 DEF FindCurrentRunningBackups, FoundIn, ListedIn
<1>2. CASE GetBackup
  BY <1>2 DEF GetBackup
<1>3. CASE DeleteExpired
  <2>1. [backups EXCEPT ![req].present = FALSE] \in [Backups -> BackupObjects]
    <3>1. req \in Backups /\ backups[req] \in BackupObjects
      BY <1>3 DEF DeleteExpired
    <3>2. [backups[req] EXCEPT !.present = FALSE] \in BackupObjects
      BY <3>1, BackupUpdateTypes
    <3> QED
      BY <3>1, <3>2
  <2>2. backups' \in [Backups -> BackupObjects]
    BY <1>3, <2>1 DEF DeleteExpired
  <2> QED
    BY <1>3, <2>2 DEF DeleteExpired, KeepLast
<1>4. CASE CleanSnapshot
  BY <1>4 DEF CleanSnapshot
<1>5. CASE CleanJob
  BY <1>5 DEF CleanJob
<1>6. CASE CleanPvc
  BY <1>6 DEF CleanPvc, PvcNames
<1>7. CASE GetPvc
  BY <1>7 DEF GetPvc, WaitForSlot
<1>8. CASE SetStarted
  <2>1. [backup EXCEPT !.started = TRUE] \in BackupObjects
    BY BackupUpdateTypes
  <2>2. backups' \in [Backups -> BackupObjects]
    BY <1>8, <2>1 DEF SetStarted, StatusUpdate
  <2>3. /\ pc' \in {"idle", "snapshot"}
        /\ backup' \in BackupObjects
    BY <1>8, <2>1 DEF SetStarted, StatusUpdate
  <2>4. /\ queue' \subseteq Backups
        /\ req' \in Backups \cup {NoRequest}
        /\ pc' # "idle" => req' \in Backups
        /\ budget' \in [Faults -> Nat]
    BY <1>8 DEF SetStarted, StatusUpdate
  <2> QED
    BY <1>8, <2>2, <2>3, <2>4 DEF SetStarted
<1>9. CASE GetOrCreateSnapshot
  <2>1. [owner |-> backup.uid, status |-> "pending"] \in SnapshotObjects
    BY BackupUpdateTypes, ChildTypes
  <2>2. snapshots' \in [Backups -> SnapshotObjects]
    BY <1>9, <2>1 DEF GetOrCreateSnapshot
  <2> QED
    BY <1>9, <2>2 DEF GetOrCreateSnapshot
<1>10. CASE GetOrCreateClaim
  <2>1. [owner |-> backup.uid, status |-> "pending", data |-> 0] \in PvcObjects
    BY BackupUpdateTypes, ChildTypes
  <2>2. pvcs' \in [PvcNames -> PvcObjects]
    BY <1>10, <2>1 DEF GetOrCreateClaim, PvcNames
  <2> QED
    BY <1>10, <2>2 DEF GetOrCreateClaim
<1>11. CASE GetOrCreateJob
  <2>1. [owner |-> backup.uid, status |-> "running"] \in JobObjects
    BY BackupUpdateTypes, ChildTypes
  <2>2. setBackupFinished(backup) \in BackupObjects
    BY BackupUpdateTypes DEF setBackupFinished
  <2> QED
    BY <1>11, <2>1, <2>2 DEF GetOrCreateJob
<1>12. CASE SetFinished
  BY <1>12 DEF SetFinished, StatusUpdate
<1>13. CASE Poll
  BY <1>13 DEF Poll
<1>14. CASE PollTimesOut
  BY <1>14 DEF PollTimesOut
<1>15. CASE CallFails
  BY <1>15 DEF CallFails
<1> QED
  BY <1>1, <1>2, <1>3, <1>4, <1>5, <1>6, <1>7, <1>8, <1>9, <1>10, <1>11, <1>12,
     <1>13, <1>14, <1>15 DEF Reconcile

\* The cluster, the users, the informers and a restart keep the types.
LEMMA EnvironmentTypeOK ==
    ASSUME TypeOK, NEW b \in Backups, Dequeue(b) \/ Cluster(b) \/ Environment(b)
    PROVE  TypeOK'
<1> USE BoundsAssumption, NamesAssumption, ObjectTypes
    DEF TypeOK, Spend, operator, slots, worker, api, caches, Faults, PvcNames
<1>1. CASE Dequeue(b)
  BY <1>1 DEF Dequeue
<1>2. CASE SnapshotReady(b)
  BY <1>2 DEF SnapshotReady, SnapshotObjects
<1>3. CASE ProvisionClaim(b)
  <2>1. [pvcs[b] EXCEPT !.status = "bound", !.data = snapshots[b].owner] \in PvcObjects
    <3>1. pvcs[b] \in PvcObjects /\ snapshots[b].owner \in 0..MaxUid
      BY DEF SnapshotObjects
    <3> QED
      BY <3>1, BoundPvcType
  <2>2. pvcs' = [pvcs EXCEPT
            ![b] = [pvcs[b] EXCEPT !.status = "bound", !.data = snapshots[b].owner]]
    BY <1>3 DEF ProvisionClaim
  <2>3. pvcs' \in [PvcNames -> PvcObjects]
    BY <2>1, <2>2
  <2> QED
    BY <1>3, <2>3 DEF ProvisionClaim
<1>4. CASE JobCompletes(b)
  <2>1. pvcs[b].data \in 0..MaxUid
    BY DEF PvcObjects
  <2>2. [jobs[b] EXCEPT !.status = "complete"] \in JobObjects
    BY DEF JobObjects
  <2>3. jobs' \in [Backups -> JobObjects] /\ repo' \subseteq Backups \X (0..MaxUid)
    BY <1>4, <2>1, <2>2 DEF JobCompletes
  <2> QED
    BY <1>4, <2>3 DEF JobCompletes
<1>5. CASE JobFails(b)
  BY <1>5 DEF JobFails, JobObjects
<1>6. CASE Collect(b)
  BY <1>6 DEF Collect
<1>7. CASE CreateBackup(b)
  <2>1. [NoBackup EXCEPT !.uid = backups[b].uid + 1, !.present = TRUE] \in BackupObjects
    <3>1. backups[b].uid \in 0..MaxUid /\ backups[b].uid < MaxUid
      BY <1>7, BackupUpdateTypes DEF CreateBackup
    <3>2. backups[b].uid + 1 \in 0..MaxUid
      BY <3>1
    <3> QED
      BY <3>2, NewBackupType
  <2>2. backups' \in [Backups -> BackupObjects]
    BY <1>7, <2>1 DEF CreateBackup
  <2> QED
    BY <1>7, <2>2 DEF CreateBackup
<1>8. CASE UserDeletesBackup(b)
  <2>1. [backups[b] EXCEPT !.present = FALSE] \in BackupObjects
    BY BackupUpdateTypes
  <2>2. backups' \in [Backups -> BackupObjects]
    BY <1>8, <2>1 DEF UserDeletesBackup
  <2>3. budget' \in [Faults -> Nat]
    BY <1>8 DEF UserDeletesBackup
  <2> QED
    BY <1>8, <2>2, <2>3 DEF UserDeletesBackup
<1>9. CASE OtherReleaseStarts(b)
  BY <1>9, BackupUpdateTypes DEF OtherReleaseStarts
<1>10. CASE OtherReleaseFinishes(b)
  BY <1>10, BackupUpdateTypes DEF OtherReleaseFinishes
<1> QED
  BY <1>1, <1>2, <1>3, <1>4, <1>5, <1>6, <1>7, <1>8, <1>9, <1>10 DEF Cluster, Environment

\* TypeOK is inductive.
LEMMA NextTypeOK == TypeOK /\ [Next]_vars => TypeOK'
<1> SUFFICES ASSUME TypeOK, [Next]_vars PROVE TypeOK'
  OBVIOUS
<1> USE DEF operator, slots, worker, api, caches
<1>1. CASE Reconcile
  BY <1>1, ReconcileTypeOK
<1>2. CASE \E b \in Backups : Dequeue(b) \/ Cluster(b) \/ Environment(b)
  BY <1>2, EnvironmentTypeOK
<1>3. CASE SyncBackups \/ SyncSnapshots \/ SyncPvcs \/ SyncJobs
  BY <1>3 DEF SyncBackups, SyncSnapshots, SyncPvcs, SyncJobs, OwnerRequests, TypeOK
<1>4. CASE Restart
  <2>1. budget' \in [Faults -> Nat]
    BY <1>4 DEF Restart, Spend, Faults, TypeOK
  <2> QED
    BY <1>4, <2>1, ObjectTypes DEF Restart, Finished, TypeOK
<1>5. CASE \E c \in Claims : UserDeletesClaim(c)
  BY <1>5, ObjectTypes DEF UserDeletesClaim, Spend, Faults, TypeOK, PvcNames
<1>6. CASE Tick
  BY <1>6, BoundsAssumption DEF Tick, TypeOK
<1>7. CASE UNCHANGED vars
  BY <1>7 DEF vars, TypeOK
<1> QED
  BY <1>1, <1>2, <1>3, <1>4, <1>5, <1>6, <1>7 DEF Next

\* The first state of the operator is well typed.
LEMMA InitTypeOK == Init => TypeOK
<1> SUFFICES ASSUME Init PROVE TypeOK
  OBVIOUS
<1>1. /\ backups \in [Backups -> BackupObjects]
      /\ snapshots \in [Backups -> SnapshotObjects]
      /\ jobs \in [Backups -> JobObjects]
  BY ObjectTypes DEF Init
<1>2. pvcs \in [PvcNames -> PvcObjects]
  BY ObjectTypes DEF Init
<1>3. now \in 0..MaxTime /\ budget \in [Faults -> Nat] /\ backup \in BackupObjects
  BY BoundsAssumption, ObjectTypes DEF Init
<1> QED
  BY <1>1, <1>2, <1>3 DEF Init, TypeOK

\* Every behaviour of the controller is well typed: TypeOK of the runs, for
\* every value of the constants.
THEOREM TypeCorrect == Spec => []TypeOK
BY InitTypeOK, NextTypeOK, PTL DEF Spec

-----------------------------------------------------------------------------
(* The limit on running backups.  RunningLimit speaks of the API server, the *)
(* code decides on CurrentRunningBackups and on cached copies; the inductive *)
(* invariant ties the three together.                                        *)

\* What FindCurrentRunningBackups is meant to find.
CachedActive == {b \in Backups : Handled(b) /\ backupIsRunning(cachedBackups[b])}

\* The cache is behind the API server, but not about which of the handled
\* backups that were started exist.
CacheInv ==
    \A b \in Backups :
        /\ cachedBackups[b].uid <= backups[b].uid
        /\ cachedBackups[b].uid = backups[b].uid =>
               /\ backups[b].present => cachedBackups[b].present
               /\ IsFinished(cachedBackups[b]) => IsFinished(backups[b])
        /\ Handled(b) /\ backups[b].present /\ backups[b].started
               => cachedBackups[b].uid = backups[b].uid

\* The worker's copy is behind the cache, and a backup past the slot check has
\* a slot.
WorkerInv ==
    /\ pc \notin {"idle", "start"} =>
           /\ found
           /\ Handled(req)
           /\ backup.uid <= cachedBackups[req].uid
    /\ pc \in {"setStarted", "snapshot", "claim", "job", "finish", "poll"}
           => req \in running

\* Every running backup has a slot and there are enough slots; before
\* FindCurrentRunningBackups has run, the same holds of what it will find.
Holds(holders) ==
    /\ Active \subseteq holders
    /\ MaxRunningBackups > 0 => Cardinality(holders) <= MaxRunningBackups

SlotInv ==
    /\ found => Holds(running)
    /\ ~found => Holds(CachedActive)

LimitInv ==
    /\ TypeOK
    /\ budget["listError"] = 0
    /\ CacheInv
    /\ WorkerInv
    /\ SlotInv

\* Once all its namespaces are listed, FindCurrentRunningBackups has found the
\* backups that Reconcile handles, however the namespace flags are set.
LEMMA FoundIsHandled == FoundIn(Namespaces) = CachedActive
<1>1. CASE Namespaces = {AllNamespaces}
  <2>1. UNION {ListedIn(n) : n \in Namespaces} = ListedIn(AllNamespaces)
    BY <1>1
  <2> QED
    BY <1>1, <2>1 DEF FoundIn, ListedIn, CachedActive, Handled
<1>2. CASE Namespaces # {AllNamespaces}
  <2>1. AllNamespaces \notin Namespaces
    BY <1>2, NamespacesAssumption
  <2> QED
    BY <1>2, <2>1 DEF FoundIn, ListedIn, CachedActive, Handled
<1> QED
  BY <1>1, <1>2

\* Fewer backups need no more slots.
LEMMA FewerHolders ==
    ASSUME NEW S \in SUBSET Backups, NEW T \in SUBSET S,
           Cardinality(S) <= MaxRunningBackups
    PROVE  Cardinality(T) <= MaxRunningBackups
<1>1. IsFiniteSet(S) /\ IsFiniteSet(T)
  BY NamesAssumption, FS_Subset
<1>2. Cardinality(T) <= Cardinality(S) /\ Cardinality(T) \in Nat /\ Cardinality(S) \in Nat
  BY <1>1, FS_Subset, FS_CardinalityType
<1> QED
  BY <1>2, BoundsAssumption

\* If the holders of the slots are within the limit, so are the running backups.
LEMMA HoldsRunningLimit ==
    ASSUME NEW holders \in SUBSET Backups, Holds(holders)
    PROVE  RunningLimit
BY FewerHolders DEF Holds, RunningLimit

\* The inductive invariant implies the limit.
LEMMA LimitInvRunningLimit == LimitInv => RunningLimit
<1> SUFFICES ASSUME LimitInv PROVE RunningLimit
  OBVIOUS
<1>1. CASE found
  BY <1>1, HoldsRunningLimit DEF LimitInv, SlotInv, TypeOK
<1>2. CASE ~found
  <2>1. CachedActive \in SUBSET Backups
    BY DEF CachedActive
  <2> QED
    BY <1>2, <2>1, HoldsRunningLimit DEF LimitInv, SlotInv
<1> QED
  BY <1>1, <1>2

\* The running backups change only with the PVCBackups,
LEMMA ActiveFrame == backups' = backups => Active' = Active
BY DEF Active, Handled, backupIsRunning, IsFinished

\* what FindCurrentRunningBackups would find only with the cache,
LEMMA CachedFrame == cachedBackups' = cachedBackups => CachedActive' = CachedActive
BY DEF CachedActive, Handled, backupIsRunning, IsFinished

\* and the lag of the cache only with the two.
LEMMA CacheInvFrame ==
    CacheInv /\ backups' = backups /\ cachedBackups' = cachedBackups => CacheInv'
BY DEF CacheInv, Handled, IsFinished

\* Deleting a PVCBackup does not bring the cache ahead.
LEMMA CacheInvLess ==
    ASSUME CacheInv,
           cachedBackups' = cachedBackups,
           \A b \in Backups : /\ backups'[b].uid = backups[b].uid
                              /\ backups'[b].started => backups[b].started
                              /\ backups'[b].finishedAt = backups[b].finishedAt
                              /\ backups'[b].present => backups[b].present
    PROVE  CacheInv'
BY DEF CacheInv, Handled, IsFinished

\* Steps that touch neither a PVCBackup nor the slots nor the worker.
LEMMA LimitFrame ==
    ASSUME CacheInv, WorkerInv, SlotInv,
           UNCHANGED <<backups, cachedBackups, worker, slots>>
    PROVE  CacheInv' /\ WorkerInv' /\ SlotInv'
<1>1. CacheInv'
  BY CacheInvFrame
<1>2. WorkerInv'
  BY DEF WorkerInv, worker, slots, Handled
<1>3. SlotInv'
  BY ActiveFrame, CachedFrame DEF SlotInv, Holds, slots
<1> QED
  BY <1>1, <1>2, <1>3

\* No fault other than a failing List spends the budget of failing Lists.
LEMMA NoListError ==
    ASSUME TypeOK, budget["listError"] = 0, [Next]_vars
    PROVE  budget'["listError"] = 0
<1> USE DEF TypeOK, Spend, Faults
<1>1. CASE Reconcile
  <2>1. CASE FindCurrentRunningBackups
    BY <2>1 DEF FindCurrentRunningBackups
  <2>2. CASE DeleteExpired \/ CleanSnapshot \/ CleanJob \/ CleanPvc
    BY <2>2 DEF DeleteExpired, CleanSnapshot, CleanJob, CleanPvc, Replied, Rejected
  <2>3. CASE GetOrCreateSnapshot \/ GetOrCreateClaim \/ GetOrCreateJob
    BY <2>3 DEF GetOrCreateSnapshot, GetOrCreateClaim, GetOrCreateJob, Replied, Rejected
  <2>4. CASE SetStarted \/ SetFinished
    BY <2>4 DEF SetStarted, SetFinished, StatusUpdate, Replied, Rejected
  <2>5. CASE GetBackup \/ GetPvc \/ Poll \/ PollTimesOut \/ CallFails
    BY <2>5 DEF GetBackup, GetPvc, Poll, PollTimesOut, CallFails
  <2> QED
    BY <1>1, <2>1, <2>2, <2>3, <2>4, <2>5 DEF Reconcile
<1>2. CASE \E b \in Backups : Dequeue(b) \/ Cluster(b) \/ Environment(b)
  BY <1>2 DEF Dequeue, Cluster, Environment, SnapshotReady, ProvisionClaim, JobCompletes,
      Collect, CreateBackup, UserDeletesBackup, OtherReleaseStarts, OtherReleaseFinishes,
      JobFails
<1>3. CASE SyncBackups \/ SyncSnapshots \/ SyncPvcs \/ SyncJobs \/ Tick \/ UNCHANGED vars
  BY <1>3 DEF SyncBackups, SyncSnapshots, SyncPvcs, SyncJobs, Tick, vars
<1>4. CASE Restart \/ \E c \in Claims : UserDeletesClaim(c)
  BY <1>4 DEF Restart, UserDeletesClaim
<1> QED
  BY <1>1, <1>2, <1>3, <1>4 DEF Next

\* A call of Reconcile that leaves the PVCBackups and the slots alone, and
\* either ends or goes on to a later call.
LEMMA LimitContinue ==
    ASSUME LimitInv, pc \notin {"idle", "start"},
           UNCHANGED <<backups, cachedBackups, slots>>,
           \/ pc' = "idle"
           \/ /\ req' = req
              /\ backup'.uid = backup.uid
              /\ pc \in {"cleanSnapshot", "cleanJob"} =>
                     pc' \in {"cleanJob", "cleanPvc"}
              /\ pc \notin {"cleanSnapshot", "cleanJob"} => req \in running
    PROVE  CacheInv' /\ WorkerInv' /\ SlotInv'
<1> USE DEF LimitInv
<1>1. CacheInv'
  BY CacheInvFrame
<1>2. WorkerInv'
  BY DEF WorkerInv, slots, Handled
<1>3. SlotInv'
  BY ActiveFrame, CachedFrame DEF SlotInv, Holds, slots
<1> QED
  BY <1>1, <1>2, <1>3

\* The backup that is reconciled is not running when its slot is released:
\* either the cache has no such PVCBackup any more, or it is finished.
LEMMA ReleaseKeepsLimit ==
    ASSUME LimitInv, found, req \in Backups, Handled(req),
           ~cachedBackups[req].present \/ IsFinished(cachedBackups[req]),
           UNCHANGED <<backups, cachedBackups, found>>, ReleaseSlot
    PROVE  SlotInv'
<1> USE DEF LimitInv
<1>1. req \notin Active
  BY DEF CacheInv, Active, backupIsRunning
<1>2. Active \subseteq running'
  BY <1>1 DEF SlotInv, Holds, ReleaseSlot
<1>3. MaxRunningBackups > 0 => Cardinality(running') <= MaxRunningBackups
  BY FewerHolders DEF SlotInv, Holds, ReleaseSlot, TypeOK
<1> QED
  BY <1>2, <1>3, ActiveFrame DEF SlotInv, Holds

\* Every call of Reconcile keeps the limit.
LEMMA ReconcileLimit ==
    ASSUME LimitInv, Reconcile
    PROVE  CacheInv' /\ WorkerInv' /\ SlotInv'
<1> USE DEF LimitInv
<1>1. CASE FindCurrentRunningBackups
  <2> USE DEF FindCurrentRunningBackups, Spend, api, caches
  <2>1. running' = CachedActive /\ pc' = "start"
    BY <1>1, FoundIsHandled DEF worker
  <2>2. CacheInv'
    BY <1>1, CacheInvFrame
  <2>3. WorkerInv'
    BY <2>1 DEF WorkerInv
  <2>4. SlotInv'
    BY <1>1, <2>1, ActiveFrame DEF SlotInv, Holds
  <2> QED
    BY <2>2, <2>3, <2>4
<1>2. CASE GetBackup
  <2> USE DEF GetBackup, api, caches
  <2>1. CacheInv'
    BY <1>2, CacheInvFrame
  <2>2. WorkerInv'
    BY <1>2 DEF WorkerInv, Goto, Return, Finished, Handled, TypeOK, BackupObjects
  <2>3. CASE Handled(req) /\ ~cachedBackups[req].present
    BY <1>2, <2>1, <2>2, <2>3, ReleaseKeepsLimit DEF TypeOK
  <2>4. CASE ~(Handled(req) /\ ~cachedBackups[req].present)
    BY <1>2, <2>1, <2>2, <2>4, ActiveFrame DEF SlotInv, Holds
  <2> QED
    BY <2>1, <2>2, <2>3, <2>4
<1>3. CASE DeleteExpired
  <2> USE DEF DeleteExpired, caches, slots, Replied, Rejected, KeepLast, Requeue, Return,
          Finished
  <2>1. CacheInv'
    <3>1. \A b \in Backups : /\ backups'[b].uid = backups[b].uid
                             /\ backups'[b].started => backups[b].started
                             /\ backups'[b].finishedAt = backups[b].finishedAt
                             /\ backups'[b].present => backups[b].present
      <4>1. \/ backups' = backups
            \/ backups' = [backups EXCEPT ![req].present = FALSE]
        BY <1>3
      <4>2. backups \in [Backups -> BackupObjects]
        BY DEF TypeOK
      <4> HIDE DEF LimitInv, DeleteExpired
      <4> QED
        BY <4>1, <4>2 DEF BackupObjects
    <3>2. cachedBackups' = cachedBackups
      BY <1>3
    <3> QED
      BY <3>1, <3>2, CacheInvLess
  <2>2. WorkerInv'
    BY <1>3 DEF WorkerInv
  <2>3. Active' \subseteq Active
    BY <1>3 DEF Active, Handled, backupIsRunning, IsFinished, TypeOK, BackupObjects
  <2>4. SlotInv'
    BY <1>3, <2>3, CachedFrame DEF SlotInv, Holds
  <2> QED
    BY <2>1, <2>2, <2>4
<1>4. CASE CleanSnapshot \/ CleanJob \/ CleanPvc
  BY <1>4, LimitContinue DEF CleanSnapshot, CleanJob, CleanPvc, Replied, Requeue, Finished,
      Goto, caches
<1>5. CASE GetPvc
  <2> USE DEF GetPvc, api, caches
  <2>1. CacheInv'
    BY <1>5, CacheInvFrame
  <2>2. CASE running' = running /\ Requeue
    BY <1>5, <2>1, <2>2, LimitContinue DEF Requeue, Finished, slots
  <2>3. CASE SlotFor(req) /\ running' = running \cup {req}
                /\ Goto(IF backup.started THEN "snapshot" ELSE "setStarted", backup)
    <3>1. WorkerInv'
      BY <1>5, <2>3 DEF WorkerInv, Goto, Handled
    <3>2. MaxRunningBackups > 0 => Cardinality(running') <= MaxRunningBackups
      <4>1. IsFiniteSet(running) /\ Cardinality(running) \in Nat
        BY NamesAssumption, FS_Subset, FS_CardinalityType DEF TypeOK
      <4>2. Cardinality(running') =
                IF req \in running THEN Cardinality(running) ELSE Cardinality(running) + 1
        BY <2>3, <4>1, FS_AddElement
      <4> QED
        BY <1>5, <2>3, <4>1, <4>2, BoundsAssumption DEF SlotFor, SlotInv, Holds, WorkerInv
    <3>3. SlotInv'
      BY <1>5, <2>3, <3>2, ActiveFrame DEF SlotInv, Holds, WorkerInv
    <3> QED
      BY <2>1, <3>1, <3>3
  <2> QED
    BY <1>5, <2>2, <2>3 DEF WaitForSlot
<1>6. CASE SetStarted
  <2> USE DEF SetStarted, StatusUpdate, Current, Replied, Rejected, caches, slots
  <2>1. CASE backups' = backups /\ Requeue
    BY <1>6, <2>1, LimitContinue DEF Requeue, Finished
  <2>2. CASE /\ backups[req] = backup
             /\ backups' = [backups EXCEPT ![req] = [backup EXCEPT !.started = TRUE]]
    <3>1. req \in Backups /\ req \in running /\ found /\ Handled(req)
      BY <1>6 DEF WorkerInv, TypeOK
    <3>2. cachedBackups[req].uid = backups[req].uid
      <4>1. backup.uid <= cachedBackups[req].uid /\ cachedBackups[req].uid <= backups[req].uid
        BY <1>6, <3>1 DEF WorkerInv, CacheInv
      <4>2. backups[req].uid \in Nat /\ cachedBackups[req].uid \in Nat
        BY <3>1 DEF TypeOK, BackupObjects
      <4> QED
        BY <2>2, <4>1, <4>2
    <3>3. CacheInv'
      BY <1>6, <2>2, <3>1, <3>2 DEF CacheInv, Handled, IsFinished, TypeOK, BackupObjects
    <3>4. WorkerInv'
      BY <1>6, <2>2, <3>1 DEF WorkerInv, Requeue, Finished, Goto, Handled, TypeOK, BackupObjects
    <3>5. Active' \subseteq Active \cup {req}
      BY <2>2 DEF Active, Handled, backupIsRunning, IsFinished, TypeOK
    <3>6. SlotInv'
      BY <1>6, <3>1, <3>5 DEF SlotInv, Holds
    <3> QED
      BY <3>3, <3>4, <3>6
  <2> QED
    BY <1>6, <2>1, <2>2
<1>7. CASE GetOrCreateSnapshot \/ GetOrCreateClaim \/ GetOrCreateJob
  <2>1. req \in running
    BY <1>7 DEF WorkerInv, GetOrCreateSnapshot, GetOrCreateClaim, GetOrCreateJob
  <2> QED
    BY <1>7, <2>1, LimitContinue DEF GetOrCreateSnapshot, GetOrCreateClaim, GetOrCreateJob,
        Replied, Rejected, Requeue, Return, Finished, Goto, caches, setBackupFinished,
        TypeOK, BackupObjects
<1>8. CASE SetFinished
  <2> USE DEF SetFinished, StatusUpdate, Current, Replied, Rejected, caches, slots
  <2>1. CASE backups' = backups /\ Requeue
    BY <1>8, <2>1, LimitContinue DEF Requeue, Finished
  <2>2. CASE /\ backups[req] = [backup EXCEPT !.finishedAt = Never]
             /\ backups' = [backups EXCEPT ![req] = backup]
    <3>1. req \in Backups /\ req \in running /\ found /\ Handled(req)
      BY <1>8 DEF WorkerInv, TypeOK
    <3>2. /\ backups[req].uid = backup.uid
          /\ backups[req].present = backup.present
          /\ backups[req].started = backup.started
          /\ ~IsFinished(backups[req])
      BY <2>2 DEF TypeOK, BackupObjects, IsFinished
    <3>3. CacheInv'
      BY <1>8, <2>2, <3>1, <3>2 DEF CacheInv, Handled, IsFinished, TypeOK
    <3>4. WorkerInv'
      BY <1>8, <2>2, <3>1 DEF WorkerInv, Requeue, Finished, Goto, Handled
    <3>5. Active' \subseteq Active
      BY <2>2, <3>1, <3>2 DEF Active, Handled, backupIsRunning, IsFinished, TypeOK
    <3>6. SlotInv'
      BY <1>8, <3>1, <3>5 DEF SlotInv, Holds
    <3> QED
      BY <3>3, <3>4, <3>6
  <2> QED
    BY <1>8, <2>1, <2>2
<1>9. CASE Poll
  <2> USE DEF Poll, api, caches, Requeue, Finished
  <2>1. CacheInv' /\ WorkerInv'
    BY <1>9, CacheInvFrame DEF WorkerInv
  <2>2. CASE running' = running
    BY <1>9, <2>1, <2>2, ActiveFrame, CachedFrame DEF SlotInv, Holds
  <2>3. CASE IsFinished(cachedBackups[req]) /\ ReleaseSlot
    BY <1>9, <2>1, <2>3, ReleaseKeepsLimit DEF WorkerInv, TypeOK
  <2> QED
    BY <1>9, <2>1, <2>2, <2>3
<1>10. CASE PollTimesOut \/ CallFails
  <2>1. UNCHANGED <<backups, cachedBackups, slots>> /\ pc' = "idle"
    BY <1>10 DEF PollTimesOut, CallFails, Requeue, Finished, api, caches
  <2>2. CacheInv' /\ WorkerInv'
    BY <2>1, CacheInvFrame DEF WorkerInv
  <2>3. SlotInv'
    BY <2>1, ActiveFrame, CachedFrame DEF SlotInv, Holds, slots
  <2> QED
    BY <2>2, <2>3
<1> QED
  BY <1>1, <1>2, <1>3, <1>4, <1>5, <1>6, <1>7, <1>8, <1>9, <1>10 DEF Reconcile

\* The users and other releases only take away from the running backups.
LEMMA EnvironmentLimit ==
    ASSUME LimitInv, NEW b \in Backups, Dequeue(b) \/ Cluster(b) \/ Environment(b)
    PROVE  CacheInv' /\ WorkerInv' /\ SlotInv'
<1> USE DEF LimitInv
<1>1. CASE Dequeue(b)
  <2> USE DEF Dequeue, api, caches, slots
  <2>1. CacheInv' /\ WorkerInv'
    BY <1>1, CacheInvFrame DEF WorkerInv
  <2>2. SlotInv'
    BY <1>1, ActiveFrame, CachedFrame DEF SlotInv, Holds
  <2> QED
    BY <2>1, <2>2
<1>2. CASE Cluster(b) \/ JobFails(b)
  BY <1>2, LimitFrame DEF Cluster, SnapshotReady, ProvisionClaim, JobCompletes, Collect,
      JobFails, operator, caches
<1>3. CASE CreateBackup(b) \/ UserDeletesBackup(b) \/ OtherReleaseStarts(b)
               \/ OtherReleaseFinishes(b)
  <2> USE DEF CreateBackup, UserDeletesBackup, OtherReleaseStarts, OtherReleaseFinishes,
          operator, caches, worker, slots
  <2>1. UNCHANGED <<cachedBackups, pc, req, backup, found, running>>
    BY <1>3
  <2>2. \A a \in Backups : a # b => backups'[a] = backups[a]
    BY <1>3 DEF TypeOK
  <2>3. \/ /\ backups'[b].uid = backups[b].uid
           /\ backups'[b].present => backups[b].present
           /\ IsFinished(backups[b]) => IsFinished(backups'[b])
           /\ Handled(b) => /\ backups'[b].started = backups[b].started
                            /\ backups'[b].finishedAt = backups[b].finishedAt
        \/ /\ backups'[b].uid = backups[b].uid + 1
           /\ ~backups'[b].started
    <3>1. backups[b] \in BackupObjects /\ b \in DOMAIN backups
      BY DEF TypeOK
    <3>2. CASE CreateBackup(b)
      BY <3>1, <3>2 DEF NoBackup
    <3>3. CASE UserDeletesBackup(b)
      BY <3>1, <3>3 DEF BackupObjects, IsFinished
    <3>4. CASE OtherReleaseStarts(b)
      BY <3>1, <3>4 DEF BackupObjects, IsFinished
    <3>5. CASE OtherReleaseFinishes(b)
      BY <3>1, <3>5 DEF BackupObjects, IsFinished, backupIsRunning
    <3> QED
      BY <1>3, <3>2, <3>3, <3>4, <3>5
  <2>4. CacheInv'
    <3>1. \A a \in Backups : backups[a].uid \in Nat /\ cachedBackups[a].uid \in Nat
      BY DEF TypeOK, BackupObjects
    <3> QED
      BY <2>1, <2>2, <2>3, <3>1 DEF CacheInv, Handled, IsFinished
  <2>5. WorkerInv'
    BY <2>1 DEF WorkerInv, Handled
  <2>6. Active' \subseteq Active
    BY <2>2, <2>3 DEF Active, Handled, backupIsRunning, IsFinished
  <2>7. SlotInv'
    BY <2>1, <2>6, CachedFrame DEF SlotInv, Holds
  <2> QED
    BY <2>4, <2>5, <2>7
<1> QED
  BY <1>1, <1>2, <1>3 DEF Cluster, Environment

\* LimitInv is inductive.
LEMMA NextLimitInv == LimitInv /\ [Next]_vars => LimitInv'
<1> SUFFICES ASSUME LimitInv, [Next]_vars PROVE LimitInv'
  OBVIOUS
<1> USE DEF LimitInv
<1>1. TypeOK' /\ budget'["listError"] = 0
  BY NextTypeOK, NoListError
<1>2. RunningLimit
  BY LimitInvRunningLimit
<1>3. CASE Reconcile
  BY <1>1, <1>3, ReconcileLimit
<1>4. CASE \E b \in Backups : Dequeue(b) \/ Cluster(b) \/ Environment(b)
  BY <1>1, <1>4, EnvironmentLimit
<1>5. CASE SyncBackups \/ Restart
  <2>1. backups' = backups /\ cachedBackups' = backups
    BY <1>5 DEF SyncBackups, Restart, api
  <2>2. CacheInv'
    BY <2>1 DEF CacheInv, TypeOK, BackupObjects
  <2>3. CachedActive' = Active /\ Active' = Active
    BY <2>1 DEF CachedActive, Active, Handled, backupIsRunning, IsFinished
  <2>4. CASE SyncBackups
    <3>1. WorkerInv'
      <4>1. pc \notin {"idle", "start"} => backup.uid <= backups[req].uid
        BY DEF WorkerInv, CacheInv, TypeOK, BackupObjects
      <4> QED
        BY <2>1, <2>4, <4>1 DEF SyncBackups, WorkerInv, Handled, worker, slots
    <3>2. SlotInv'
      BY <1>2, <2>3, <2>4 DEF SyncBackups, SlotInv, Holds, RunningLimit, slots
    <3> QED
      BY <1>1, <2>2, <3>1, <3>2
  <2>5. CASE Restart
    <3>1. WorkerInv'
      BY <2>5 DEF Restart, Finished, WorkerInv
    <3>2. SlotInv'
      BY <1>2, <2>3, <2>5 DEF Restart, SlotInv, Holds, RunningLimit
    <3> QED
      BY <1>1, <2>2, <3>1, <3>2
  <2> QED
    BY <1>5, <2>4, <2>5
<1>6. CASE SyncSnapshots \/ SyncPvcs \/ SyncJobs \/ Tick \/ UNCHANGED vars
             \/ \E c \in Claims : UserDeletesClaim(c)
  BY <1>1, <1>6, LimitFrame DEF SyncSnapshots, SyncPvcs, SyncJobs, Tick, UserDeletesClaim, vars,
      api, operator, caches
<1> QED
  BY <1>3, <1>4, <1>5, <1>6 DEF Next

\* Never more than MaxRunningBackups backups run, for every number of backups,
\* incarnations, restarts, lost replies, deletions and lagging caches, as long
\* as the List of FindCurrentRunningBackups does not fail.
THEOREM RunningLimitHolds ==
    ASSUME Budget["listError"] = 0
    PROVE  Spec => []RunningLimit
<1>1. Init => LimitInv
  <2> SUFFICES ASSUME Init PROVE LimitInv
    OBVIOUS
  <2>1. TypeOK /\ budget["listError"] = 0
    BY InitTypeOK DEF Init
  <2>2. CacheInv /\ WorkerInv
    BY DEF Init, CacheInv, WorkerInv, NoBackup
  <2>3. Active = {} /\ CachedActive = {}
    BY DEF Init, Active, CachedActive, backupIsRunning, NoBackup
  <2>4. SlotInv
    BY <2>3, FS_EmptySet, BoundsAssumption DEF Init, SlotInv, Holds
  <2> QED
    BY <2>1, <2>2, <2>4 DEF LimitInv
<1> QED
  BY <1>1, NextLimitInv, LimitInvRunningLimit, PTL DEF Spec

-----------------------------------------------------------------------------
(* The namespaces of a release.  No List needs to succeed for this one: what *)
(* a part of the namespaces gives is handled as well.                        *)

\* Past the namespace filter, the worker is on a backup of this release.
HandledInv ==
    /\ SlotsOnlyHandled
    /\ pc \notin {"idle", "start"} => Handled(req)

\* FindCurrentRunningBackups finds handled backups only, wherever it stops.
LEMMA FoundSomeHandled ==
    ASSUME NEW listed \in SUBSET Namespaces
    PROVE  \A b \in FoundIn(listed) : Handled(b)
<1>1. CASE Namespaces = {AllNamespaces}
  BY <1>1 DEF FoundIn, Handled
<1>2. CASE Namespaces # {AllNamespaces}
  <2>1. AllNamespaces \notin Namespaces
    BY <1>2, NamespacesAssumption
  <2>2. SUFFICES ASSUME NEW n \in listed \ ExcludeNamespaces, NEW b \in ListedIn(n)
                 PROVE  Handled(b)
    BY <1>2 DEF FoundIn
  <2>3. NamespaceOf[b] = n
    BY <2>1, <2>2 DEF ListedIn
  <2> QED
    BY <2>2, <2>3 DEF Handled
<1> QED
  BY <1>1, <1>2

\* A call of Reconcile past the namespace filter leaves the slots alone.
LEMMA HandledContinue ==
    ASSUME HandledInv, pc \notin {"idle", "start"}, running' \subseteq running \cup {req},
           \/ pc' = "idle"
           \/ req' = req
    PROVE  HandledInv'
BY DEF HandledInv, SlotsOnlyHandled, Handled

\* Every call of Reconcile keeps the slots in this release's namespaces.
LEMMA ReconcileHandled == HandledInv /\ Reconcile => HandledInv'
<1> SUFFICES ASSUME HandledInv, Reconcile PROVE HandledInv'
  OBVIOUS
<1>1. CASE FindCurrentRunningBackups
  <2>1. PICK listed \in SUBSET Namespaces : running' = FoundIn(listed)
    BY <1>1 DEF FindCurrentRunningBackups
  <2>2. pc' \in {"idle", "start"}
    BY <1>1 DEF FindCurrentRunningBackups, worker, Requeue, Finished
  <2> QED
    BY <2>1, <2>2, FoundSomeHandled DEF HandledInv, SlotsOnlyHandled, Handled
<1>2. CASE GetBackup
  <2>1. running' \subseteq running
    BY <1>2 DEF GetBackup, ReleaseSlot
  <2>2. pc' = "idle" \/ (req' = req /\ Handled(req))
    BY <1>2 DEF GetBackup, Return, Finished, Goto
  <2> QED
    BY <2>1, <2>2 DEF HandledInv, SlotsOnlyHandled, Handled
<1>3. CASE GetPvc
  <2>1. running' \subseteq running \cup {req}
    BY <1>3 DEF GetPvc
  <2>2. pc \notin {"idle", "start"} /\ (pc' = "idle" \/ req' = req)
    BY <1>3 DEF GetPvc, Requeue, WaitForSlot, Finished, Goto
  <2> QED
    BY <2>1, <2>2, HandledContinue
<1>4. CASE Poll
  <2>1. running' \subseteq running
    BY <1>4 DEF Poll, ReleaseSlot
  <2>2. pc \notin {"idle", "start"} /\ pc' = "idle"
    BY <1>4 DEF Poll, Requeue, Finished
  <2> QED
    BY <2>1, <2>2, HandledContinue
<1>5. CASE DeleteExpired \/ CleanSnapshot \/ CleanJob \/ CleanPvc
  <2>1. running' = running
    BY <1>5 DEF DeleteExpired, CleanSnapshot, CleanJob, CleanPvc, slots
  <2>2. pc \notin {"idle", "start"} /\ (pc' = "idle" \/ req' = req)
    BY <1>5 DEF DeleteExpired, CleanSnapshot, CleanJob, CleanPvc, KeepLast,
        Replied, Rejected, Return, Requeue, Finished, Goto
  <2> QED
    BY <2>1, <2>2, HandledContinue
<1>6. CASE SetStarted \/ SetFinished
  <2>1. running' = running
    BY <1>6 DEF SetStarted, SetFinished, slots
  <2>2. pc \notin {"idle", "start"} /\ (pc' = "idle" \/ req' = req)
    BY <1>6 DEF SetStarted, SetFinished, StatusUpdate, Replied, Rejected,
        Requeue, Finished, Goto
  <2> QED
    BY <2>1, <2>2, HandledContinue
<1>7. CASE GetOrCreateSnapshot \/ GetOrCreateClaim \/ GetOrCreateJob
  <2>1. running' = running
    BY <1>7 DEF GetOrCreateSnapshot, GetOrCreateClaim, GetOrCreateJob, slots
  <2>2. pc \notin {"idle", "start"} /\ (pc' = "idle" \/ req' = req)
    BY <1>7 DEF GetOrCreateSnapshot, GetOrCreateClaim, GetOrCreateJob,
        Replied, Rejected, Return, Requeue, Finished, Goto
  <2> QED
    BY <2>1, <2>2, HandledContinue
<1>8. CASE PollTimesOut \/ CallFails
  <2>1. running' = running /\ pc' = "idle"
    BY <1>8 DEF PollTimesOut, CallFails, slots, Requeue, Finished
  <2> QED
    BY <2>1 DEF HandledInv, SlotsOnlyHandled, Handled
<1> QED
  BY <1>1, <1>2, <1>3, <1>4, <1>5, <1>6, <1>7, <1>8 DEF Reconcile

\* HandledInv is inductive: nothing else takes a slot or moves the worker past
\* the filter.
LEMMA NextHandled == HandledInv /\ [Next]_vars => HandledInv'
<1> SUFFICES ASSUME HandledInv, [Next]_vars PROVE HandledInv'
  OBVIOUS
<1>1. CASE Reconcile
  BY <1>1, ReconcileHandled
<1>2. CASE \E b \in Backups : Dequeue(b)
  BY <1>2 DEF Dequeue, slots, HandledInv, SlotsOnlyHandled, Handled
<1>3. CASE Restart
  BY <1>3 DEF Restart, Finished, HandledInv, SlotsOnlyHandled, Handled
<1>4. CASE UNCHANGED <<worker, slots>>
  BY <1>4 DEF worker, slots, HandledInv, SlotsOnlyHandled, Handled
<1>5. CASE \E b \in Backups : Cluster(b) \/ Environment(b)
  <2>1. PICK b \in Backups : Cluster(b) \/ Environment(b)
    BY <1>5
  <2>2. UNCHANGED operator
    <3>1. CASE Cluster(b)
      BY <3>1 DEF Cluster, SnapshotReady, ProvisionClaim, JobCompletes, Collect
    <3>2. CASE Environment(b)
      BY <3>2 DEF Environment, CreateBackup, UserDeletesBackup,
          OtherReleaseStarts, OtherReleaseFinishes, JobFails
    <3> QED
      BY <2>1, <3>1, <3>2
  <2> QED
    BY <1>4, <2>2 DEF operator
<1>6. CASE SyncBackups \/ SyncSnapshots \/ SyncPvcs \/ SyncJobs
  BY <1>4, <1>6 DEF SyncBackups, SyncSnapshots, SyncPvcs, SyncJobs
<1>7. CASE Tick \/ \E c \in Claims : UserDeletesClaim(c)
  BY <1>4, <1>7 DEF Tick, UserDeletesClaim, operator
<1>8. CASE UNCHANGED vars
  BY <1>4, <1>8 DEF vars, operator
<1> QED
  BY <1>1, <1>2, <1>3, <1>5, <1>6, <1>7, <1>8 DEF Next

\* No slot is ever held for a backup of a namespace that this release does not
\* handle, however the two namespace flags are set and whichever List fails.
THEOREM SlotsOnlyHandledHolds == Spec => []SlotsOnlyHandled
<1>1. Init => HandledInv
  BY DEF Init, HandledInv, SlotsOnlyHandled
<1>2. HandledInv => SlotsOnlyHandled
  BY DEF HandledInv
<1> QED
  BY <1>1, <1>2, NextHandled, PTL DEF Spec

-----------------------------------------------------------------------------
(* FinishedAt is written once.                                               *)

\* What FinishedIsFinal says of a step.
KeepsFinishedAt ==
    \A b \in Backups :
        IsFinished(backups[b]) /\ backups'[b].uid = backups[b].uid
            => backups'[b].finishedAt = backups[b].finishedAt

\* A status update replaces one PVCBackup that nobody wrote in between.
LEMMA UpdateKeepsFinishedAt ==
    ASSUME TypeOK, NEW base, NEW copy, NEW continue, StatusUpdate(base, copy, continue),
           IsFinished(base) => copy.finishedAt = base.finishedAt
    PROVE  KeepsFinishedAt
BY DEF TypeOK, StatusUpdate, Current, KeepsFinishedAt, IsFinished

\* Deleting a PVCBackup, or starting one, leaves FinishedAt alone.
LEMMA FieldKeepsFinishedAt ==
    ASSUME TypeOK, NEW b \in Backups,
           \/ backups' = [backups EXCEPT ![b].present = FALSE]
           \/ backups' = [backups EXCEPT ![b].started = TRUE]
    PROVE  KeepsFinishedAt
<1>1. backups[b].finishedAt = backups'[b].finishedAt
  <2>1. CASE backups' = [backups EXCEPT ![b].present = FALSE]
    <3>1. backups'[b] = [backups[b] EXCEPT !.present = FALSE]
      BY <2>1 DEF TypeOK
    <3> QED
      BY <3>1 DEF TypeOK, BackupObjects
  <2>2. CASE backups' = [backups EXCEPT ![b].started = TRUE]
    <3>1. backups'[b] = [backups[b] EXCEPT !.started = TRUE]
      BY <2>2 DEF TypeOK
    <3> QED
      BY <3>1 DEF TypeOK, BackupObjects
  <2> QED
    BY <2>1, <2>2
<1>2. \A s \in Backups \ {b} : backups'[s] = backups[s]
  BY DEF TypeOK
<1> QED
  BY <1>1, <1>2 DEF KeepsFinishedAt

\* Every call of Reconcile writes FinishedAt at most once.
LEMMA ReconcileKeepsFinishedAt == TypeOK /\ Reconcile => KeepsFinishedAt
<1> SUFFICES ASSUME TypeOK, Reconcile PROVE KeepsFinishedAt
  OBVIOUS
<1>1. CASE SetStarted
  <2>1. [backup EXCEPT !.started = TRUE].finishedAt = backup.finishedAt
    BY DEF TypeOK, BackupObjects
  <2> QED
    BY <1>1, <2>1, UpdateKeepsFinishedAt DEF SetStarted
<1>2. CASE SetFinished
  <2>1. ~IsFinished([backup EXCEPT !.finishedAt = Never])
    BY DEF TypeOK, BackupObjects, IsFinished
  <2> QED
    BY <1>2, <2>1, UpdateKeepsFinishedAt DEF SetFinished
<1>3. CASE DeleteExpired
  <2>1. req \in Backups
    BY <1>3 DEF DeleteExpired, TypeOK
  <2>2. CASE UNCHANGED backups
    BY <2>2 DEF KeepsFinishedAt
  <2>3. CASE backups' = [backups EXCEPT ![req].present = FALSE]
    BY <2>1, <2>3, FieldKeepsFinishedAt
  <2> QED
    BY <1>3, <2>2, <2>3 DEF DeleteExpired
<1>4. CASE UNCHANGED backups
  BY <1>4 DEF KeepsFinishedAt
<1>5. CASE FindCurrentRunningBackups \/ GetBackup \/ GetPvc \/ Poll
            \/ PollTimesOut \/ CallFails
  BY <1>4, <1>5 DEF FindCurrentRunningBackups, GetBackup, GetPvc, Poll,
      PollTimesOut, CallFails, api
<1>6. CASE CleanSnapshot \/ CleanJob \/ CleanPvc \/ GetOrCreateSnapshot
            \/ GetOrCreateClaim \/ GetOrCreateJob
  BY <1>4, <1>6 DEF CleanSnapshot, CleanJob, CleanPvc, GetOrCreateSnapshot,
      GetOrCreateClaim, GetOrCreateJob
<1> QED
  BY <1>1, <1>2, <1>3, <1>5, <1>6 DEF Reconcile

\* Every step does.
LEMMA NextKeepsFinishedAt == TypeOK /\ [Next]_vars => KeepsFinishedAt
<1> SUFFICES ASSUME TypeOK, [Next]_vars PROVE KeepsFinishedAt
  OBVIOUS
<1>1. CASE Reconcile
  BY <1>1, ReconcileKeepsFinishedAt
<1>2. CASE UNCHANGED backups
  BY <1>2 DEF KeepsFinishedAt
<1>3. CASE \E b \in Backups : Dequeue(b) \/ Cluster(b) \/ Environment(b)
  <2>1. PICK b \in Backups : Dequeue(b) \/ Cluster(b) \/ Environment(b)
    BY <1>3
  <2>2. CASE Dequeue(b) \/ Cluster(b) \/ JobFails(b)
    BY <1>2, <2>2 DEF Dequeue, Cluster, SnapshotReady, ProvisionClaim,
        JobCompletes, Collect, JobFails, api
  <2>3. CASE CreateBackup(b)
    BY <2>3 DEF CreateBackup, KeepsFinishedAt, TypeOK, BackupObjects, NoBackup
  <2>4. CASE UserDeletesBackup(b) \/ OtherReleaseStarts(b)
    BY <2>4, FieldKeepsFinishedAt DEF UserDeletesBackup, OtherReleaseStarts
  <2>5. CASE OtherReleaseFinishes(b)
    BY <2>5 DEF OtherReleaseFinishes, backupIsRunning, KeepsFinishedAt,
        TypeOK, BackupObjects
  <2> QED
    BY <2>1, <2>2, <2>3, <2>4, <2>5 DEF Environment
<1>4. CASE SyncBackups \/ SyncSnapshots \/ SyncPvcs \/ SyncJobs \/ Restart \/ Tick
            \/ \E c \in Claims : UserDeletesClaim(c)
  BY <1>2, <1>4 DEF SyncBackups, SyncSnapshots, SyncPvcs, SyncJobs, Restart,
      Tick, UserDeletesClaim, api
<1>5. CASE UNCHANGED vars
  BY <1>2, <1>5 DEF vars, api
<1> QED
  BY <1>1, <1>3, <1>4, <1>5 DEF Next

\* A PVCBackup is finished once: no reconcile on a stale copy, no restart and
\* no lost reply ever moves FinishedAt.
THEOREM FinishedIsFinalHolds == Spec => FinishedIsFinal
<1>1. TypeOK /\ [Next]_vars => [KeepsFinishedAt]_vars
  BY NextKeepsFinishedAt
<1> QED
  BY <1>1, TypeCorrect, PTL DEF Spec, FinishedIsFinal, KeepsFinishedAt
=============================================================================
