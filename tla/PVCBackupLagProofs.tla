------------------------- MODULE PVCBackupLagProofs -------------------------
(***************************************************************************)
(* More proofs about PVCBackupReconciler: what the operator may conclude   *)
(* from caches and copies that lag behind the API server.  No wakeup is    *)
(* lost, whatever the constants are; no slot is leaked, if no poll times   *)
(* out and no reply is lost.                                               *)
(***************************************************************************)
EXTENDS PVCBackupProofs

-----------------------------------------------------------------------------
(* Inductive invariants.                                                     *)

\* The caches are behind the API server, and never the other way round; what
\* exists has a UID.
LagInv ==
    \A b \in Backups :
        /\ backups[b].present => backups[b].uid > 0
        /\ cachedBackups[b].present => cachedBackups[b].uid > 0
        /\ cachedBackups[b].uid <= backups[b].uid
        /\ cachedBackups[b].uid = backups[b].uid =>
               /\ backups[b].present => cachedBackups[b].present
               /\ cachedBackups[b].started => backups[b].started
               /\ IsFinished(cachedBackups[b]) =>
                      backups[b].finishedAt = cachedBackups[b].finishedAt

\* Children have an owner, and a new one is only made once the cache has seen
\* the old one go.
ChildInv ==
    \A b \in Backups :
        /\ snapshots[b].status # "none" => snapshots[b].owner > 0
        /\ cachedSnapshots[b].status # "none" => cachedSnapshots[b].owner > 0
        /\ cachedSnapshots[b].status = "ready" => snapshots[b].status # "pending"
        /\ jobs[b].status # "none" => jobs[b].owner > 0
        /\ cachedJobs[b].status # "none" => cachedJobs[b].owner > 0
        /\ cachedJobs[b].status = "complete" => jobs[b].status # "running"

\* The worker's copy is behind the cache; which call is next says how far the
\* copied backup had come.
CopyInv ==
    pc \notin {"idle", "start"} =>
        /\ found
        /\ Handled(req)
        /\ backup.present
        /\ backup.uid > 0
        /\ backup.uid <= cachedBackups[req].uid
        /\ backup.started /\ backups[req].uid = backup.uid => backups[req].started
        /\ IsFinished(backup) <=>
               pc \in {"expired", "cleanSnapshot", "cleanJob", "cleanPvc", "finish", "poll"}
        /\ pc = "setStarted" => req \in running /\ ~backup.started
        /\ pc \in {"snapshot", "claim", "job", "finish", "poll"} =>
               req \in running /\ backup.started

-----------------------------------------------------------------------------
(* What steps do.                                                            *)

\* The updates of a PVCBackup change one field.
LEMMA BackupFields ==
    ASSUME NEW o \in BackupObjects
    PROVE  /\ LET gone == [o EXCEPT !.present = FALSE]
              IN  /\ ~gone.present /\ gone.uid = o.uid
                  /\ gone.started = o.started /\ gone.finishedAt = o.finishedAt
           /\ LET running_ == [o EXCEPT !.started = TRUE]
              IN  /\ running_.started /\ running_.uid = o.uid
                  /\ running_.present = o.present /\ running_.finishedAt = o.finishedAt
           /\ \A t \in {Never} \cup (0..MaxTime) :
                  LET done == [o EXCEPT !.finishedAt = t]
                  IN  /\ done.finishedAt = t /\ done.uid = o.uid
                      /\ done.present = o.present /\ done.started = o.started
BY DEF BackupObjects

\* A new PVCBackup has a UID of its own and nothing else.
LEMMA NewBackupFields ==
    ASSUME NEW u
    PROVE  LET new == [NoBackup EXCEPT !.uid = u, !.present = TRUE]
           IN  /\ new.uid = u
               /\ new.present
               /\ ~new.started
               /\ new.finishedAt = Never
BY DEF NoBackup

\* Deleted, by a user or because it has expired.
Deleted(b) ==
    /\ backups[b].present
    /\ ~backups'[b].present
    /\ backups'[b].uid = backups[b].uid
    /\ backups'[b].started = backups[b].started
    /\ backups'[b].finishedAt = backups[b].finishedAt
    /\ \/ Spend("deleteBackup")
       \/ DeleteExpired /\ req = b /\ HasLaterSibling(b)

Created(b) ==
    /\ ~backups[b].present
    /\ backups'[b].present
    /\ backups[b].uid < MaxUid
    /\ backups'[b].uid = backups[b].uid + 1
    /\ ~backups'[b].started
    /\ ~IsFinished(backups'[b])

\* The worker's status updates.
Started(b) ==
    /\ SetStarted
    /\ req = b
    /\ backups[b] = backup
    /\ backups'[b].started
    /\ backups'[b].uid = backups[b].uid
    /\ backups'[b].present = backups[b].present
    /\ backups'[b].finishedAt = backups[b].finishedAt

FinishedNow(b) ==
    /\ SetFinished
    /\ req = b
    /\ ~IsFinished(backups[b])
    /\ backups'[b] = backup
    /\ backup.uid = backups[b].uid
    /\ backup.present = backups[b].present
    /\ backup.started = backups[b].started
    /\ Goto("poll", backup) \/ Spend("lostReply")

\* Another release at work.
ElsewhereUpdated(b) ==
    /\ ~Handled(b)
    /\ backups[b].present
    /\ backups'[b].present
    /\ backups'[b].uid = backups[b].uid
    /\ backups[b].started => backups'[b].started
    /\ IsFinished(backups[b]) => backups'[b].finishedAt = backups[b].finishedAt

\* The steps that touch a PVCBackup at all.
LEMMA BackupWriters ==
    ASSUME [Next]_vars
    PROVE  \/ UNCHANGED backups
           \/ SetStarted \/ SetFinished \/ DeleteExpired
           \/ \E b \in Backups : CreateBackup(b) \/ UserDeletesBackup(b)
                                    \/ OtherReleaseStarts(b) \/ OtherReleaseFinishes(b)
<1> USE DEF api, operator, caches
<1>1. CASE Reconcile
  BY <1>1 DEF Reconcile, FindCurrentRunningBackups, GetBackup, CleanSnapshot, CleanJob, CleanPvc,
      GetPvc, GetOrCreateSnapshot, GetOrCreateClaim, GetOrCreateJob, Poll, PollTimesOut, CallFails
<1>2. CASE \E b \in Backups : Dequeue(b) \/ Cluster(b) \/ Environment(b)
  BY <1>2 DEF Dequeue, Cluster, SnapshotReady, ProvisionClaim, JobCompletes, Collect,
      Environment, JobFails
<1>3. CASE SyncBackups \/ SyncSnapshots \/ SyncPvcs \/ SyncJobs \/ Restart \/ Tick
             \/ UNCHANGED vars \/ \E c \in Claims : UserDeletesClaim(c)
  BY <1>3 DEF SyncBackups, SyncSnapshots, SyncPvcs, SyncJobs, Restart, Tick, vars,
      UserDeletesClaim
<1> QED
  BY <1>1, <1>2, <1>3 DEF Next

\* What a step may do to a PVCBackup.
LEMMA BackupSteps ==
    ASSUME TypeOK, [Next]_vars
    PROVE  \A b \in Backups :
               \/ backups'[b] = backups[b]
               \/ Deleted(b) \/ Created(b) \/ Started(b) \/ FinishedNow(b)
               \/ ElsewhereUpdated(b)
<1>0. backups \in [Backups -> BackupObjects] /\ backup \in BackupObjects /\ now \in 0..MaxTime
  BY DEF TypeOK
<1>1. CASE SetStarted
  <2> DEFINE copy == [backup EXCEPT !.started = TRUE]
  <2>1. /\ copy.started /\ copy.uid = backup.uid
        /\ copy.present = backup.present /\ copy.finishedAt = backup.finishedAt
    BY <1>0, BackupFields
  <2>2. StatusUpdate(backup, copy, Goto("snapshot", copy))
    BY <1>1 DEF SetStarted
  <2> HIDE DEF copy
  <2>3. \/ backups' = backups
        \/ backups[req] = backup /\ backups' = [backups EXCEPT ![req] = copy]
    BY <2>2 DEF StatusUpdate, Current
  <2> QED
    BY <1>0, <1>1, <2>1, <2>3 DEF Started
<1>2. CASE SetFinished
  <2> DEFINE base == [backup EXCEPT !.finishedAt = Never]
  <2>1. /\ base.finishedAt = Never /\ base.uid = backup.uid
        /\ base.present = backup.present /\ base.started = backup.started
    BY <1>0, BackupFields
  <2>2. StatusUpdate(base, backup, Goto("poll", backup))
    BY <1>2 DEF SetFinished
  <2> HIDE DEF base
  <2>3. \/ backups' = backups
        \/ /\ backups[req] = base /\ backups' = [backups EXCEPT ![req] = backup]
           /\ Goto("poll", backup) \/ Spend("lostReply")
    BY <2>2 DEF StatusUpdate, Current, Replied
  <2> QED
    BY <1>0, <1>2, <2>1, <2>3 DEF FinishedNow, IsFinished
<1>3. ASSUME NEW b \in Backups, backups[b].present,
             backups' = [backups EXCEPT ![b] = [backups[b] EXCEPT !.present = FALSE]],
             \/ Spend("deleteBackup")
             \/ DeleteExpired /\ req = b /\ HasLaterSibling(b)
      PROVE  Deleted(b) /\ \A s \in Backups \ {b} : backups'[s] = backups[s]
  BY <1>0, <1>3, BackupFields DEF Deleted
<1>4. CASE DeleteExpired
  <2>1. req \in Backups
    BY <1>4 DEF DeleteExpired, TypeOK
  <2>2. \/ backups' = backups
        \/ /\ backups[req].present /\ HasLaterSibling(req)
           /\ backups' = [backups EXCEPT ![req] = [backups[req] EXCEPT !.present = FALSE]]
    BY <1>4 DEF DeleteExpired
  <2> QED
    BY <1>3, <1>4, <2>1, <2>2
<1>5. ASSUME NEW b \in Backups, UserDeletesBackup(b)
      PROVE  Deleted(b) /\ \A s \in Backups \ {b} : backups'[s] = backups[s]
  BY <1>3, <1>5 DEF UserDeletesBackup
<1>6. ASSUME NEW b \in Backups, CreateBackup(b)
      PROVE  Created(b) /\ \A s \in Backups \ {b} : backups'[s] = backups[s]
  BY <1>0, <1>6, NewBackupFields DEF CreateBackup, Created, IsFinished
<1>7. ASSUME NEW b \in Backups, OtherReleaseStarts(b) \/ OtherReleaseFinishes(b)
      PROVE  ElsewhereUpdated(b) /\ \A s \in Backups \ {b} : backups'[s] = backups[s]
  <2>1. \/ backups' = [backups EXCEPT ![b] = [backups[b] EXCEPT !.started = TRUE]]
        \/ /\ ~IsFinished(backups[b])
           /\ backups' = [backups EXCEPT ![b] = [backups[b] EXCEPT !.finishedAt = now]]
    BY <1>7 DEF OtherReleaseStarts, OtherReleaseFinishes, backupIsRunning
  <2>2. ~Handled(b) /\ backups[b].present
    BY <1>7 DEF OtherReleaseStarts, OtherReleaseFinishes, backupIsRunning
  <2>3. CASE backups' = [backups EXCEPT ![b] = [backups[b] EXCEPT !.started = TRUE]]
    BY <1>0, <2>2, <2>3, BackupFields DEF ElsewhereUpdated
  <2>4. CASE /\ ~IsFinished(backups[b])
             /\ backups' = [backups EXCEPT ![b] = [backups[b] EXCEPT !.finishedAt = now]]
    <3>1. now \in {Never} \cup (0..MaxTime) /\ backups[b] \in BackupObjects
      BY <1>0
    <3>2. LET done == [backups[b] EXCEPT !.finishedAt = now]
          IN  /\ done.uid = backups[b].uid
              /\ done.present = backups[b].present /\ done.started = backups[b].started
      BY <3>1, BackupFields
    <3> QED
      BY <1>0, <2>2, <2>4, <3>2 DEF ElsewhereUpdated
  <2> QED
    BY <2>1, <2>3, <2>4
<1> QED
  BY <1>1, <1>2, <1>4, <1>5, <1>6, <1>7, BackupWriters

\* A cache changes only when its informer, or a restart, brings it up to date.
LEMMA CacheSteps ==
    ASSUME [Next]_vars
    PROVE  /\ \/ cachedBackups' = cachedBackups
              \/ UNCHANGED api /\ cachedBackups' = backups
           /\ \/ cachedSnapshots' = cachedSnapshots
              \/ UNCHANGED api /\ cachedSnapshots' = snapshots
           /\ \/ cachedPvcs' = cachedPvcs
              \/ UNCHANGED api /\ cachedPvcs' = pvcs
           /\ \/ cachedJobs' = cachedJobs
              \/ UNCHANGED api /\ cachedJobs' = jobs
<1> USE DEF operator, caches
<1>1. CASE Reconcile
  <2>1. UNCHANGED caches
    BY <1>1 DEF Reconcile, FindCurrentRunningBackups, GetBackup, DeleteExpired, CleanSnapshot,
        CleanJob, CleanPvc, GetPvc, SetStarted, GetOrCreateSnapshot, GetOrCreateClaim,
        GetOrCreateJob, SetFinished, Poll, PollTimesOut, CallFails
  <2> QED
    BY <2>1
<1>2. CASE \E b \in Backups : Dequeue(b) \/ Cluster(b) \/ Environment(b)
  BY <1>2 DEF Dequeue, Cluster, SnapshotReady, ProvisionClaim, JobCompletes, Collect,
      Environment, CreateBackup, UserDeletesBackup, OtherReleaseStarts, OtherReleaseFinishes,
      JobFails
<1>3. CASE SyncBackups \/ SyncSnapshots \/ SyncPvcs \/ SyncJobs \/ Restart
  BY <1>3 DEF SyncBackups, SyncSnapshots, SyncPvcs, SyncJobs, Restart
<1>4. CASE Tick \/ UNCHANGED vars \/ \E c \in Claims : UserDeletesClaim(c)
  BY <1>4 DEF Tick, vars, UserDeletesClaim
<1> QED
  BY <1>1, <1>2, <1>3, <1>4 DEF Next

\* The UIDs are numbers, and there is no clock time Never.
LEMMA BackupNumbers ==
    ASSUME TypeOK
    PROVE  /\ \A b \in Backups : backups[b].uid \in Nat /\ cachedBackups[b].uid \in Nat
           /\ backup.uid \in Nat
           /\ now # Never
BY DEF TypeOK, BackupObjects, Never

LEMMA NextLagInv == TypeOK /\ LagInv /\ [Next]_vars => LagInv'
<1> SUFFICES ASSUME TypeOK, LagInv, [Next]_vars, NEW b \in Backups
             PROVE  /\ backups'[b].present => backups'[b].uid > 0
                    /\ cachedBackups'[b].present => cachedBackups'[b].uid > 0
                    /\ cachedBackups'[b].uid <= backups'[b].uid
                    /\ cachedBackups'[b].uid = backups'[b].uid =>
                           /\ backups'[b].present => cachedBackups'[b].present
                           /\ cachedBackups'[b].started => backups'[b].started
                           /\ cachedBackups'[b].finishedAt # Never =>
                                  backups'[b].finishedAt = cachedBackups'[b].finishedAt
  BY DEF LagInv, IsFinished
<1>1. backups[b].uid \in Nat /\ cachedBackups[b].uid \in Nat
  BY BackupNumbers
<1>2. CASE cachedBackups' = cachedBackups
  <2>1. CASE backups'[b] = backups[b]
    BY <1>2, <2>1 DEF LagInv, IsFinished
  <2>2. CASE Deleted(b) \/ ElsewhereUpdated(b)
    BY <1>2, <2>2 DEF Deleted, ElsewhereUpdated, LagInv, IsFinished
  <2>3. CASE Created(b)
    BY <1>1, <1>2, <2>3 DEF Created, LagInv
  <2>4. CASE Started(b)
    BY <1>2, <2>4 DEF Started, LagInv, IsFinished
  <2>5. CASE FinishedNow(b)
    BY <1>2, <2>5 DEF FinishedNow, LagInv, IsFinished
  <2> QED
    BY <2>1, <2>2, <2>3, <2>4, <2>5, BackupSteps
<1>3. CASE UNCHANGED api /\ cachedBackups' = backups
  BY <1>1, <1>3 DEF api, LagInv
<1> QED
  BY <1>2, <1>3, CacheSteps

\* What a step may do to a snapshot,
LEMMA SnapshotSteps ==
    ASSUME TypeOK, [Next]_vars
    PROVE  \A b \in Backups :
               \/ snapshots'[b] = snapshots[b]
               \/ /\ GetOrCreateSnapshot /\ req = b
                  /\ snapshots[b].status = "none" /\ cachedSnapshots[b].status = "none"
                  /\ snapshots'[b].status = "pending"
                  /\ snapshots'[b].owner = backup.uid
               \/ /\ snapshots[b].status = "pending"
                  /\ snapshots'[b].status = "ready"
                  /\ snapshots'[b].owner = snapshots[b].owner
                  /\ UNCHANGED <<backups, operator>>
               \/ /\ CleanSnapshot /\ req = b
                  /\ snapshots'[b] = NoSnapshot
               \/ /\ Orphaned(b, snapshots[b])
                  /\ snapshots'[b] = NoSnapshot
                  /\ UNCHANGED <<backups, operator>>
<1> USE DEF api
<1>0. snapshots \in [Backups -> SnapshotObjects]
  BY DEF TypeOK
<1>1. CASE GetOrCreateSnapshot
  <2>1. req \in Backups
    BY <1>1 DEF GetOrCreateSnapshot, TypeOK
  <2> QED
    BY <1>0, <1>1, <2>1 DEF GetOrCreateSnapshot
<1>2. CASE CleanSnapshot
  BY <1>0, <1>2 DEF CleanSnapshot
<1>3. ASSUME NEW b \in Backups, SnapshotReady(b)
      PROVE  /\ \A s \in Backups \ {b} : snapshots'[s] = snapshots[s]
             /\ snapshots[b].status = "pending"
             /\ snapshots'[b].status = "ready"
             /\ snapshots'[b].owner = snapshots[b].owner
             /\ UNCHANGED <<backups, operator>>
  BY <1>0, <1>3 DEF SnapshotReady, SnapshotObjects
<1>4. ASSUME NEW b \in Backups, Collect(b)
      PROVE  \/ snapshots' = snapshots
             \/ /\ \A s \in Backups \ {b} : snapshots'[s] = snapshots[s]
                /\ Orphaned(b, snapshots[b])
                /\ snapshots'[b] = NoSnapshot
                /\ UNCHANGED <<backups, operator>>
  BY <1>0, <1>4 DEF Collect
<1>5. \/ snapshots' = snapshots
      \/ GetOrCreateSnapshot \/ CleanSnapshot
      \/ \E b \in Backups : SnapshotReady(b) \/ Collect(b)
  <2>1. CASE Reconcile
    BY <2>1 DEF Reconcile, FindCurrentRunningBackups, GetBackup, DeleteExpired, CleanJob,
        CleanPvc, GetPvc, SetStarted, GetOrCreateClaim, GetOrCreateJob, SetFinished, Poll,
        PollTimesOut, CallFails
  <2>2. CASE \E b \in Backups : Dequeue(b) \/ Cluster(b) \/ Environment(b)
    BY <2>2 DEF Dequeue, Cluster, ProvisionClaim, JobCompletes, Environment, CreateBackup,
        UserDeletesBackup, OtherReleaseStarts, OtherReleaseFinishes, JobFails
  <2>3. CASE SyncBackups \/ SyncSnapshots \/ SyncPvcs \/ SyncJobs \/ Restart \/ Tick
               \/ UNCHANGED vars \/ \E c \in Claims : UserDeletesClaim(c)
    BY <2>3 DEF SyncBackups, SyncSnapshots, SyncPvcs, SyncJobs, Restart, Tick, vars,
        UserDeletesClaim
  <2> QED
    BY <2>1, <2>2, <2>3 DEF Next
<1> QED
  BY <1>1, <1>2, <1>3, <1>4, <1>5

\* and to a Job.
LEMMA JobSteps ==
    ASSUME TypeOK, [Next]_vars
    PROVE  \A b \in Backups :
               \/ jobs'[b] = jobs[b]
               \/ /\ GetOrCreateJob /\ req = b
                  /\ jobs[b].status = "none" /\ cachedJobs[b].status = "none"
                  /\ jobs'[b].status = "running"
                  /\ jobs'[b].owner = backup.uid
               \/ /\ jobs[b].status = "running"
                  /\ jobs'[b].status = "failed" \/ (jobs'[b].status = "complete" /\ JobCompletes(b))
                  /\ jobs'[b].owner = jobs[b].owner
                  /\ UNCHANGED <<backups, operator>>
               \/ /\ CleanJob /\ req = b
                  /\ jobs'[b] = NoJob
               \/ /\ Orphaned(b, jobs[b])
                  /\ jobs'[b] = NoJob
                  /\ UNCHANGED <<backups, operator>>
<1> USE DEF api
<1>0. jobs \in [Backups -> JobObjects]
  BY DEF TypeOK
<1>1. CASE GetOrCreateJob
  <2>1. req \in Backups
    BY <1>1 DEF GetOrCreateJob, TypeOK
  <2> QED
    BY <1>0, <1>1, <2>1 DEF GetOrCreateJob
<1>2. CASE CleanJob
  BY <1>0, <1>2 DEF CleanJob
<1>3. ASSUME NEW b \in Backups, JobCompletes(b) \/ JobFails(b)
      PROVE  /\ \A s \in Backups \ {b} : jobs'[s] = jobs[s]
             /\ jobs[b].status = "running"
             /\ jobs'[b].status = "failed" \/ (jobs'[b].status = "complete" /\ JobCompletes(b))
             /\ jobs'[b].owner = jobs[b].owner
             /\ UNCHANGED <<backups, operator>>
  <2>1. CASE JobCompletes(b)
    BY <1>0, <2>1 DEF JobCompletes, JobObjects
  <2>2. CASE JobFails(b)
    BY <1>0, <2>2 DEF JobFails, JobObjects
  <2> QED
    BY <1>3, <2>1, <2>2
<1>4. ASSUME NEW b \in Backups, Collect(b)
      PROVE  \/ jobs' = jobs
             \/ /\ \A s \in Backups \ {b} : jobs'[s] = jobs[s]
                /\ Orphaned(b, jobs[b])
                /\ jobs'[b] = NoJob
                /\ UNCHANGED <<backups, operator>>
  BY <1>0, <1>4 DEF Collect
<1>5. \/ jobs' = jobs
      \/ GetOrCreateJob \/ CleanJob
      \/ \E b \in Backups : JobCompletes(b) \/ JobFails(b) \/ Collect(b)
  <2>1. CASE Reconcile
    BY <2>1 DEF Reconcile, FindCurrentRunningBackups, GetBackup, DeleteExpired, CleanSnapshot,
        CleanPvc, GetPvc, SetStarted, GetOrCreateClaim, GetOrCreateSnapshot, SetFinished, Poll,
        PollTimesOut, CallFails
  <2>2. CASE \E b \in Backups : Dequeue(b) \/ Cluster(b) \/ Environment(b)
    BY <2>2 DEF Dequeue, Cluster, ProvisionClaim, SnapshotReady, Environment, CreateBackup,
        UserDeletesBackup, OtherReleaseStarts, OtherReleaseFinishes
  <2>3. CASE SyncBackups \/ SyncSnapshots \/ SyncPvcs \/ SyncJobs \/ Restart \/ Tick
               \/ UNCHANGED vars \/ \E c \in Claims : UserDeletesClaim(c)
    BY <2>3 DEF SyncBackups, SyncSnapshots, SyncPvcs, SyncJobs, Restart, Tick, vars,
        UserDeletesClaim
  <2> QED
    BY <2>1, <2>2, <2>3 DEF Next
<1> QED
  BY <1>1, <1>2, <1>3, <1>4, <1>5

\* How a call of Reconcile goes on: it ends, or it keeps the request; past
\* GetBackup it keeps the incarnation that it copied.
LEMMA ReconcileSteps ==
    ASSUME TypeOK, Reconcile
    PROVE  /\ pc # "idle" /\ req \in Backups
           /\ UNCHANGED caches
           /\ \/ Return \/ Requeue
              \/ /\ FindCurrentRunningBackups
                 /\ UNCHANGED <<worker, queue>>
              \/ /\ pc' \notin {"idle", "start"}
                 /\ req' = req
                 /\ queue' = queue
                 /\ pc = "start" => backup' = cachedBackups[req]
                 /\ pc # "start" => backup'.uid = backup.uid
<1> USE DEF TypeOK
<1>0. now \in {Never} \cup (0..MaxTime)
  OBVIOUS
<1>1. CASE FindCurrentRunningBackups \/ GetBackup
  BY <1>1 DEF FindCurrentRunningBackups, GetBackup, Goto
<1>2. CASE DeleteExpired \/ Poll \/ PollTimesOut \/ CallFails
  BY <1>2 DEF DeleteExpired, KeepLast, Poll, PollTimesOut, CallFails, Replied, Rejected
<1>3. CASE CleanSnapshot \/ CleanJob \/ CleanPvc \/ GetPvc
  BY <1>3 DEF CleanSnapshot, CleanJob, CleanPvc, GetPvc, WaitForSlot, Replied, Rejected, Goto
<1>4. CASE SetStarted
  <2> DEFINE copy == [backup EXCEPT !.started = TRUE]
  <2>1. copy.uid = backup.uid
    BY BackupFields
  <2>2. /\ StatusUpdate(backup, copy, Goto("snapshot", copy))
        /\ pc = "setStarted"
        /\ UNCHANGED caches
    BY <1>4 DEF SetStarted
  <2> HIDE DEF copy
  <2>3. Goto("snapshot", copy) \/ Requeue
    BY <2>2 DEF StatusUpdate, Replied, Rejected
  <2> QED
    BY <2>1, <2>2, <2>3 DEF Goto
<1>5. CASE GetOrCreateSnapshot \/ GetOrCreateClaim
  BY <1>5 DEF GetOrCreateSnapshot, GetOrCreateClaim, Replied, Rejected, Goto
<1>6. CASE GetOrCreateJob
  <2>1. setBackupFinished(backup).uid = backup.uid
    BY <1>0, BackupFields DEF setBackupFinished
  <2>2. /\ pc = "job"
        /\ UNCHANGED caches
        /\ Return \/ Requeue \/ Goto("finish", setBackupFinished(backup))
    BY <1>6 DEF GetOrCreateJob, Replied, Rejected
  <2> QED
    BY <2>1, <2>2 DEF Goto
<1>7. CASE SetFinished
  <2>1. /\ pc = "finish"
        /\ UNCHANGED caches
        /\ Requeue \/ Goto("poll", backup)
    BY <1>7 DEF SetFinished, StatusUpdate, Replied, Rejected
  <2> QED
    BY <2>1 DEF Goto
<1> QED
  BY <1>1, <1>2, <1>3, <1>4, <1>5, <1>6, <1>7 DEF Reconcile

\* The other steps leave the worker alone, but for a restart, and the caches
\* too, but for an informer that queues what has changed.
LEMMA OtherSteps ==
    ASSUME [Next]_vars, ~Reconcile
    PROVE  \/ /\ UNCHANGED <<worker, slots, queue>>
              /\ UNCHANGED <<cachedBackups, cachedSnapshots, cachedJobs>>
           \/ /\ UNCHANGED <<worker, slots, api>>
              /\ SyncBackups \/ SyncSnapshots \/ SyncPvcs \/ SyncJobs
           \/ \E b \in Backups : Dequeue(b)
           \/ Restart
<1> USE DEF operator, caches
<1>1. CASE \E b \in Backups : Cluster(b) \/ Environment(b)
  BY <1>1 DEF Cluster, SnapshotReady, ProvisionClaim, JobCompletes, Collect,
      Environment, CreateBackup, UserDeletesBackup, OtherReleaseStarts, OtherReleaseFinishes,
      JobFails
<1>2. CASE Tick \/ UNCHANGED vars \/ \E c \in Claims : UserDeletesClaim(c)
  BY <1>2 DEF Tick, vars, UserDeletesClaim
<1>3. CASE SyncBackups \/ SyncSnapshots \/ SyncPvcs \/ SyncJobs
  BY <1>3 DEF SyncBackups, SyncSnapshots, SyncPvcs, SyncJobs
<1> QED
  BY <1>1, <1>2, <1>3 DEF Next

LEMMA NextChildInv == TypeOK /\ CopyInv /\ ChildInv /\ [Next]_vars => ChildInv'
<1> SUFFICES ASSUME TypeOK, CopyInv, ChildInv, [Next]_vars, NEW b \in Backups
             PROVE  /\ snapshots'[b].status # "none" => snapshots'[b].owner > 0
                    /\ cachedSnapshots'[b].status # "none" => cachedSnapshots'[b].owner > 0
                    /\ cachedSnapshots'[b].status = "ready" => snapshots'[b].status # "pending"
                    /\ jobs'[b].status # "none" => jobs'[b].owner > 0
                    /\ cachedJobs'[b].status # "none" => cachedJobs'[b].owner > 0
                    /\ cachedJobs'[b].status = "complete" => jobs'[b].status # "running"
  BY DEF ChildInv
<1>1. /\ snapshots'[b].status # "none" => snapshots'[b].owner > 0
      /\ cachedSnapshots[b].status = "ready" => snapshots'[b].status # "pending"
  BY SnapshotSteps DEF ChildInv, CopyInv, GetOrCreateSnapshot, NoSnapshot
<1>2. /\ jobs'[b].status # "none" => jobs'[b].owner > 0
      /\ cachedJobs[b].status = "complete" => jobs'[b].status # "running"
  BY JobSteps DEF ChildInv, CopyInv, GetOrCreateJob, NoJob
<1>3. /\ cachedSnapshots'[b].status # "none" => cachedSnapshots'[b].owner > 0
      /\ cachedSnapshots'[b].status = "ready" => snapshots'[b].status # "pending"
  BY <1>1, CacheSteps DEF ChildInv, api
<1>4. /\ cachedJobs'[b].status # "none" => cachedJobs'[b].owner > 0
      /\ cachedJobs'[b].status = "complete" => jobs'[b].status # "running"
  BY <1>2, CacheSteps DEF ChildInv, api
<1> QED
  BY <1>1, <1>2, <1>3, <1>4

\* A backup that was started stays so, and the cache only advances.
LEMMA StartedStays ==
    ASSUME TypeOK, LagInv, [Next]_vars, NEW b \in Backups, NEW u \in Nat,
           u <= cachedBackups[b].uid
    PROVE  /\ u <= cachedBackups'[b].uid
           /\ (backups[b].uid = u => backups[b].started)
                  => (backups'[b].uid = u => backups'[b].started)
<1>1. /\ backups[b].uid \in Nat /\ cachedBackups[b].uid \in Nat
      /\ cachedBackups[b].uid <= backups[b].uid
  BY BackupNumbers DEF LagInv
<1>2. u <= cachedBackups'[b].uid
  BY <1>1, CacheSteps
<1>3. \/ backups'[b] = backups[b]
      \/ backups'[b].uid = backups[b].uid /\ (backups[b].started => backups'[b].started)
      \/ backups'[b].uid = backups[b].uid + 1
  BY BackupSteps DEF Deleted, Created, Started, FinishedNow, ElsewhereUpdated
<1> QED
  BY <1>1, <1>2, <1>3

\* Every call of Reconcile hands a copy on that is what its next call expects.
LEMMA ReconcileCopy == TypeOK /\ LagInv /\ CopyInv /\ Reconcile => CopyInv'
<1> SUFFICES ASSUME TypeOK, LagInv, CopyInv, Reconcile PROVE CopyInv'
  OBVIOUS
<1>0. /\ req \in Backups /\ pc # "idle" /\ UNCHANGED caches
      /\ backup \in BackupObjects
      /\ [Next]_vars
  BY ReconcileSteps DEF Next, TypeOK
<1>1. CASE pc' \in {"idle", "start"}
  BY <1>1 DEF CopyInv
<1>2. CASE GetBackup /\ pc' \notin {"idle", "start"}
  <2>1. /\ found' /\ Handled(req) /\ req' = req
        /\ backup' = cachedBackups[req] /\ cachedBackups' = cachedBackups
        /\ cachedBackups[req].present
        /\ \/ pc' \in {"expired", "cleanSnapshot"} /\ IsFinished(cachedBackups[req])
           \/ pc' = "getPvc" /\ ~IsFinished(cachedBackups[req])
    BY <1>0, <1>2 DEF GetBackup, Goto, Return, Finished, caches
  <2>2. cachedBackups[req].uid > 0 /\ cachedBackups[req].uid \in Nat
    BY <1>0, <2>1, BackupNumbers DEF LagInv
  <2>3. backups' = backups
    BY <1>2 DEF GetBackup, api
  <2> QED
    BY <1>0, <2>1, <2>2, <2>3 DEF CopyInv, LagInv, Handled, IsFinished
<1>3. CASE pc # "start" /\ pc' \notin {"idle", "start"}
  <2>1. /\ found /\ Handled(req) /\ backup.present /\ backup.uid > 0
        /\ backup.uid <= cachedBackups[req].uid
        /\ cachedBackups' = cachedBackups
        /\ backup.uid \in Nat
    BY <1>0, <1>3, BackupNumbers DEF CopyInv, caches
  <2>2. (backups[req].uid = backup.uid => backups[req].started)
            => (backups'[req].uid = backup.uid => backups'[req].started)
    BY <1>0, <2>1, StartedStays
  <2>3. CASE CleanSnapshot \/ CleanJob
    <3>1. /\ pc \in {"cleanSnapshot", "cleanJob"} /\ pc' \in {"cleanJob", "cleanPvc"}
          /\ req' = req /\ backup' = backup /\ found' = found
      BY <1>3, <2>3 DEF CleanSnapshot, CleanJob, Replied, Goto, Requeue, Finished, slots
    <3> QED
      BY <2>1, <2>2, <3>1 DEF CopyInv, Handled, IsFinished
  <2>4. CASE GetPvc
    <3>1. /\ pc = "getPvc" /\ req' = req /\ backup' = backup /\ found' = found
          /\ running' = running \cup {req}
          /\ pc' = IF backup.started THEN "snapshot" ELSE "setStarted"
      BY <1>3, <2>4 DEF GetPvc, WaitForSlot, Goto, Requeue, Finished
    <3> QED
      BY <2>1, <2>2, <3>1 DEF CopyInv, Handled, IsFinished
  <2>5. CASE SetStarted
    <3> DEFINE copy == [backup EXCEPT !.started = TRUE]
    <3>1. /\ copy.started /\ copy.uid = backup.uid
          /\ copy.present = backup.present /\ copy.finishedAt = backup.finishedAt
      BY <1>0, BackupFields
    <3>2. /\ pc = "setStarted"
          /\ StatusUpdate(backup, copy, Goto("snapshot", copy))
          /\ found' = found /\ running' = running
      BY <2>5 DEF SetStarted, slots
    <3> HIDE DEF copy
    <3>3. backups' = [backups EXCEPT ![req] = copy] /\ Goto("snapshot", copy)
      BY <1>3, <3>2 DEF StatusUpdate, Replied, Rejected, Requeue, Finished
    <3>4. backups'[req] = copy /\ backup' = copy /\ pc' = "snapshot" /\ req' = req
      BY <1>0, <3>3 DEF TypeOK, Goto
    <3>5. ~IsFinished(backup) /\ req \in running
      BY <3>2 DEF CopyInv
    <3> QED
      BY <2>1, <3>1, <3>2, <3>4, <3>5 DEF CopyInv, Handled, IsFinished
  <2>6. CASE GetOrCreateSnapshot \/ GetOrCreateClaim
    <3>1. /\ pc \in {"snapshot", "claim"} /\ pc' \in {"claim", "job"}
          /\ req' = req /\ backup' = backup /\ found' = found /\ running' = running
      BY <1>3, <2>6 DEF GetOrCreateSnapshot, GetOrCreateClaim, Replied, Rejected, Goto, Return,
          Requeue, Finished, slots
    <3> QED
      BY <2>1, <2>2, <3>1 DEF CopyInv, Handled, IsFinished
  <2>7. CASE GetOrCreateJob
    <3> DEFINE copy == setBackupFinished(backup)
    <3>1. /\ copy.finishedAt = now /\ copy.uid = backup.uid
          /\ copy.present = backup.present /\ copy.started = backup.started
      <4>1. now \in {Never} \cup (0..MaxTime)
        BY DEF TypeOK
      <4> QED
        BY <1>0, <4>1, BackupFields DEF setBackupFinished
    <3> HIDE DEF copy
    <3>2. /\ pc = "job" /\ pc' = "finish"
          /\ req' = req /\ backup' = copy /\ found' = found /\ running' = running
      BY <1>3, <2>7 DEF GetOrCreateJob, Replied, Rejected, Goto, Return, Requeue, Finished,
          slots, copy
    <3> QED
      BY <2>1, <2>2, <3>1, <3>2, BackupNumbers DEF CopyInv, Handled, IsFinished
  <2>8. CASE SetFinished
    <3>1. /\ pc = "finish" /\ pc' = "poll"
          /\ req' = req /\ backup' = backup /\ found' = found /\ running' = running
      BY <1>3, <2>8 DEF SetFinished, StatusUpdate, Replied, Rejected, Goto, Requeue, Finished,
          slots
    <3> QED
      BY <2>1, <2>2, <3>1 DEF CopyInv, Handled, IsFinished
  <2>9. ~(FindCurrentRunningBackups \/ GetBackup \/ DeleteExpired \/ CleanPvc \/ Poll
              \/ PollTimesOut \/ CallFails)
    BY <1>3 DEF FindCurrentRunningBackups, GetBackup, DeleteExpired, KeepLast, CleanPvc, Poll,
        PollTimesOut, CallFails, Replied, Rejected, Return, Requeue, Finished
  <2> QED
    BY <2>3, <2>4, <2>5, <2>6, <2>7, <2>8, <2>9 DEF Reconcile
<1>4. pc = "start" /\ pc' \notin {"idle", "start"} => GetBackup
  BY DEF Reconcile, FindCurrentRunningBackups, DeleteExpired, CleanSnapshot, CleanJob, CleanPvc,
      GetPvc, SetStarted, GetOrCreateSnapshot, GetOrCreateClaim, GetOrCreateJob, SetFinished,
      Poll, PollTimesOut, CallFails, Requeue, Finished, worker
<1> QED
  BY <1>1, <1>2, <1>3, <1>4

LEMMA NextCopyInv == TypeOK /\ LagInv /\ CopyInv /\ [Next]_vars => CopyInv'
<1> SUFFICES ASSUME TypeOK, LagInv, CopyInv, [Next]_vars PROVE CopyInv'
  OBVIOUS
<1>1. CASE Reconcile
  BY <1>1, ReconcileCopy
<1>2. CASE \E b \in Backups : Dequeue(b)
  BY <1>2 DEF Dequeue, CopyInv
<1>3. CASE Restart
  BY <1>3 DEF Restart, Finished, CopyInv
<1>4. CASE UNCHANGED <<worker, slots>> /\ pc \notin {"idle", "start"}
  <2>1. req \in Backups /\ backup.uid \in Nat /\ backup.uid <= cachedBackups[req].uid
    BY <1>4, BackupNumbers DEF TypeOK, CopyInv
  <2>2. /\ backup.uid <= cachedBackups'[req].uid
        /\ (backups[req].uid = backup.uid => backups[req].started)
               => (backups'[req].uid = backup.uid => backups'[req].started)
    BY <2>1, StartedStays
  <2> QED
    BY <1>4, <2>2 DEF CopyInv, worker, slots, Handled, IsFinished
<1>5. CASE UNCHANGED <<worker, slots>> /\ pc \in {"idle", "start"}
  BY <1>5 DEF CopyInv, worker
<1> QED
  BY <1>1, <1>2, <1>3, <1>4, <1>5, OtherSteps

LEMMA InitLag == Init => LagInv /\ ChildInv /\ CopyInv
<1> SUFFICES ASSUME Init PROVE LagInv /\ ChildInv /\ CopyInv
  OBVIOUS
<1>1. \A b \in Backups :
          /\ backups[b] = NoBackup /\ cachedBackups[b] = NoBackup
          /\ snapshots[b] = NoSnapshot /\ cachedSnapshots[b] = NoSnapshot
          /\ jobs[b] = NoJob /\ cachedJobs[b] = NoJob
  BY DEF Init
<1>2. LagInv
  BY <1>1 DEF LagInv, NoBackup
<1>3. ChildInv
  BY <1>1 DEF ChildInv, NoSnapshot, NoJob
<1>4. CopyInv
  BY DEF Init, CopyInv
<1> QED
  BY <1>2, <1>3, <1>4

LEMMA AlwaysLag == Spec => [](TypeOK /\ LagInv /\ ChildInv /\ CopyInv)
BY TypeCorrect, InitLag, NextLagInv, NextChildInv, NextCopyInv, PTL DEF Spec

-----------------------------------------------------------------------------
(* No lost wakeup.                                                           *)

\* Neither queued nor being reconciled.
Quiet(b) == b \notin queue /\ (pc = "idle" \/ req # b)

\* A change of the snapshot of b will come, or has come and is not yet cached:
\* the cache is behind, or the snapshot is not ready; or the cache does not
\* know a snapshot yet that is not going to be collected.
AwaitsSnapshot(b) ==
    \/ /\ cachedSnapshots[b].status # "none"
       /\ cachedSnapshots[b] # snapshots[b] \/ snapshots[b].status = "pending"
    \/ /\ cachedSnapshots[b].status = "none"
       /\ snapshots[b].status # "none"
       /\ snapshots[b].owner = backups[b].uid

\* The same for the Job.
AwaitsJob(b) ==
    \/ /\ cachedJobs[b].status # "none"
       /\ cachedJobs[b] # jobs[b] \/ jobs[b].status \in {"running", "failed"}
    \/ /\ cachedJobs[b].status = "none"
       /\ jobs[b].status # "none"
       /\ jobs[b].owner = backups[b].uid

Waiting(b) ==
    /\ found
    /\ b \in running
    /\ backups[b].started
    /\ AwaitsSnapshot(b) \/ AwaitsJob(b)

\* An unfinished backup that is quiet and up to date in the cache is waiting.
QuietInv(b) ==
    /\ Handled(b)
    /\ Quiet(b)
    /\ cachedBackups[b] = backups[b]
    /\ backups[b].present
    /\ ~IsFinished(backups[b])
    => Waiting(b)

\* While a PVCBackup is reconciled, a new incarnation of it in the cache has
\* put it into the queue again.
WakeupInv ==
    /\ pc \notin {"idle", "start"} /\ req \notin queue
           => cachedBackups[req].uid = backup.uid
    /\ \A b \in Backups : QuietInv(b)

\* A reconcile that returns without an error leaves the backup waiting, unless
\* the PVCBackup has changed.
LEMMA ReturnWaiting ==
    ASSUME TypeOK, LagInv, CopyInv, WakeupInv, Reconcile, Return,
           NEW b \in Backups, b = req, Handled(b), b \notin queue,
           cachedBackups[b] = backups'[b],
           backups'[b].present, ~IsFinished(backups'[b])
    PROVE  Waiting(b)'
<1>1. pc' = "idle" /\ queue' = queue
  BY DEF Return, Finished
<1>2. ~Requeue /\ \A label, copy : Goto(label, copy) => label = "idle"
  BY <1>1 DEF Requeue, Goto
<1>3. CASE GetOrCreateSnapshot
  <2>1. /\ pc = "snapshot" /\ cachedBackups[b].uid = backup.uid
        /\ found /\ b \in running /\ backup.started
        /\ backups[b].uid = backup.uid => backups[b].started
        /\ UNCHANGED <<backups, cachedSnapshots, found, running>>
        /\ snapshots \in [Backups -> SnapshotObjects]
    BY <1>3 DEF GetOrCreateSnapshot, CopyInv, WakeupInv, slots, caches, TypeOK
  <2>2. CASE cachedSnapshots[b].status = "none"
    <3>1. snapshots' = [snapshots EXCEPT ![b] = [owner |-> backup.uid, status |-> "pending"]]
      BY <1>2, <1>3, <2>2 DEF GetOrCreateSnapshot, Rejected
    <3>2. snapshots'[b].status = "pending" /\ snapshots'[b].owner = backups'[b].uid
      BY <2>1, <3>1
    <3>3. AwaitsSnapshot(b)'
      BY <2>1, <2>2, <3>2 DEF AwaitsSnapshot
    <3> QED
      BY <2>1, <3>3 DEF Waiting
  <2>3. CASE cachedSnapshots[b].status # "none"
    <3>1. cachedSnapshots[b].status = "pending" /\ snapshots' = snapshots
      BY <1>2, <1>3, <2>3 DEF GetOrCreateSnapshot
    <3>2. AwaitsSnapshot(b)'
      BY <2>1, <2>3, <3>1 DEF AwaitsSnapshot
    <3> QED
      BY <2>1, <3>2 DEF Waiting
  <2> QED
    BY <2>2, <2>3
<1>4. CASE GetOrCreateJob
  <2>1. /\ pc = "job" /\ cachedBackups[b].uid = backup.uid
        /\ found /\ b \in running /\ backup.started
        /\ backups[b].uid = backup.uid => backups[b].started
        /\ UNCHANGED <<backups, cachedJobs, found, running>>
        /\ jobs \in [Backups -> JobObjects] /\ cachedJobs[b] \in JobObjects
    BY <1>4 DEF GetOrCreateJob, CopyInv, WakeupInv, slots, caches, TypeOK
  <2>2. CASE cachedJobs[b].status = "none"
    <3>1. jobs' = [jobs EXCEPT ![b] = [owner |-> backup.uid, status |-> "running"]]
      BY <1>2, <1>4, <2>2 DEF GetOrCreateJob, Rejected, JobDone
    <3>2. jobs'[b].status = "running" /\ jobs'[b].owner = backups'[b].uid
      BY <2>1, <3>1
    <3>3. AwaitsJob(b)'
      BY <2>1, <2>2, <3>2 DEF AwaitsJob
    <3> QED
      BY <2>1, <3>3 DEF Waiting
  <2>3. CASE cachedJobs[b].status # "none"
    <3>1. ~JobDone(cachedJobs[b]) /\ jobs' = jobs
      BY <1>2, <1>4, <2>3 DEF GetOrCreateJob
    <3>2. cachedJobs[b].status \in {"running", "failed"}
      BY <2>1, <2>3, <3>1 DEF JobDone, JobObjects
    <3>3. AwaitsJob(b)'
      BY <2>1, <2>3, <3>1, <3>2 DEF AwaitsJob
    <3> QED
      BY <2>1, <3>3 DEF Waiting
  <2> QED
    BY <2>2, <2>3
<1>5. ~GetBackup
  BY <1>2 DEF GetBackup
<1>6. ~DeleteExpired
  <2>1. SUFFICES ASSUME DeleteExpired PROVE FALSE
    OBVIOUS
  <2>2. backups' = [backups EXCEPT ![b] = [backups[b] EXCEPT !.present = FALSE]]
    BY <1>2, <2>1 DEF DeleteExpired, KeepLast, Rejected
  <2> QED
    BY <2>2, BackupFields DEF TypeOK
<1>7. ~(FindCurrentRunningBackups \/ CleanSnapshot \/ CleanJob \/ CleanPvc \/ GetPvc
            \/ SetStarted \/ GetOrCreateClaim \/ SetFinished \/ Poll \/ PollTimesOut \/ CallFails)
  BY <1>1, <1>2 DEF FindCurrentRunningBackups, worker, CleanSnapshot, CleanJob, CleanPvc, GetPvc,
      WaitForSlot, SetStarted, GetOrCreateClaim, SetFinished, StatusUpdate, Replied, Rejected,
      Poll, PollTimesOut, CallFails
<1> QED
  BY <1>3, <1>4, <1>5, <1>6, <1>7 DEF Reconcile

\* What b awaits is not taken away while the cache has not seen it.
LEMMA AwaitsStays ==
    ASSUME TypeOK, ChildInv, [Next]_vars, NEW b \in Backups, Quiet(b),
           backups[b].present, backups'[b] = backups[b]
    PROVE  /\ AwaitsSnapshot(b) /\ cachedSnapshots'[b] = cachedSnapshots[b] => AwaitsSnapshot(b)'
           /\ AwaitsJob(b) /\ cachedJobs'[b] = cachedJobs[b] => AwaitsJob(b)'
<1>1. pc = "idle" \/ req # b
  BY DEF Quiet
<1>2. ASSUME AwaitsSnapshot(b), cachedSnapshots'[b] = cachedSnapshots[b]
      PROVE  AwaitsSnapshot(b)'
  <2>1. CASE snapshots'[b] = snapshots[b]
    BY <1>2, <2>1 DEF AwaitsSnapshot
  <2>2. CASE /\ snapshots[b].status = "pending" /\ snapshots'[b].status = "ready"
             /\ snapshots'[b].owner = snapshots[b].owner
    BY <1>2, <2>2 DEF AwaitsSnapshot, ChildInv
  <2>3. CASE Orphaned(b, snapshots[b]) /\ snapshots'[b] = NoSnapshot
    BY <1>2, <2>3 DEF AwaitsSnapshot, Orphaned, NoSnapshot
  <2> QED
    BY <1>1, <2>1, <2>2, <2>3, SnapshotSteps DEF GetOrCreateSnapshot, CleanSnapshot
<1>3. ASSUME AwaitsJob(b), cachedJobs'[b] = cachedJobs[b]
      PROVE  AwaitsJob(b)'
  <2>1. CASE jobs'[b] = jobs[b]
    BY <1>3, <2>1 DEF AwaitsJob
  <2>2. CASE /\ jobs[b].status = "running" /\ jobs'[b].status \in {"complete", "failed"}
             /\ jobs'[b].owner = jobs[b].owner
    BY <1>3, <2>2 DEF AwaitsJob, ChildInv
  <2>3. CASE Orphaned(b, jobs[b]) /\ jobs'[b] = NoJob
    BY <1>3, <2>3 DEF AwaitsJob, Orphaned, NoJob
  <2> QED
    BY <1>1, <2>1, <2>2, <2>3, JobSteps DEF GetOrCreateJob, CleanJob
<1> QED
  BY <1>2, <1>3

\* A backup that is quiet before a step is waiting after it, or queued.
LEMMA QuietStays ==
    ASSUME TypeOK, LagInv, ChildInv, [Next]_vars, NEW b \in Backups, Quiet(b), QuietInv(b),
           \/ b \in queue'
           \/ /\ cachedBackups'[b] = cachedBackups[b]
              /\ AwaitsSnapshot(b) => cachedSnapshots'[b] = cachedSnapshots[b]
              /\ AwaitsJob(b) => cachedJobs'[b] = cachedJobs[b]
              /\ found => found' /\ (b \in running => b \in running')
    PROVE  QuietInv(b)'
<1>1. CASE b \in queue'
  BY <1>1 DEF QuietInv, Quiet
<1>2. CASE b \notin queue'
  <2> SUFFICES ASSUME Handled(b), cachedBackups'[b] = backups'[b], backups'[b].present,
                      ~IsFinished(backups'[b])
               PROVE  Waiting(b)'
    BY DEF QuietInv, Handled, IsFinished
  <2>1. backups'[b] = backups[b]
    <3>1. /\ cachedBackups[b].uid \in Nat /\ backups[b].uid \in Nat
          /\ cachedBackups[b].uid <= backups[b].uid
      BY BackupNumbers DEF LagInv
    <3>2. ~Created(b)
      BY <1>2, <3>1 DEF Created
    <3>3. ~(Deleted(b) \/ ElsewhereUpdated(b))
      BY DEF Deleted, ElsewhereUpdated
    <3>4. ~(Started(b) \/ FinishedNow(b))
      BY DEF Started, SetStarted, FinishedNow, SetFinished, Quiet
    <3> QED
      BY <3>2, <3>3, <3>4, BackupSteps
  <2>2. Waiting(b) /\ backups[b].present
    BY <1>2, <2>1 DEF QuietInv
  <2>3. AwaitsSnapshot(b)' \/ AwaitsJob(b)'
    BY <1>2, <2>1, <2>2, AwaitsStays DEF Waiting
  <2> QED
    BY <1>2, <2>1, <2>2, <2>3 DEF Waiting
<1> QED
  BY <1>1, <1>2

\* The informers queue every backup whose wait is over.
LEMMA SyncWakes ==
    ASSUME TypeOK, ChildInv, SyncBackups \/ SyncSnapshots \/ SyncPvcs \/ SyncJobs,
           NEW b \in Backups
    PROVE  \/ b \in queue'
           \/ /\ cachedBackups'[b] = cachedBackups[b]
              /\ AwaitsSnapshot(b) => cachedSnapshots'[b] = cachedSnapshots[b]
              /\ AwaitsJob(b) => cachedJobs'[b] = cachedJobs[b]
<1>1. CASE SyncBackups \/ SyncPvcs
  BY <1>1 DEF SyncBackups, SyncPvcs
<1>2. CASE SyncSnapshots
  <2>1. SUFFICES ASSUME AwaitsSnapshot(b), cachedSnapshots[b] # snapshots[b] PROVE b \in queue'
    BY <1>2 DEF SyncSnapshots
  <2>2. cachedSnapshots[b].status # "none" \/ snapshots[b].status # "none"
    BY <2>1 DEF AwaitsSnapshot
  <2>3. cachedSnapshots[b].owner # 0 \/ snapshots[b].owner # 0
    BY <2>2 DEF ChildInv
  <2> QED
    BY <1>2, <2>1, <2>3 DEF SyncSnapshots, OwnerRequests
<1>3. CASE SyncJobs
  <2>1. SUFFICES ASSUME AwaitsJob(b), cachedJobs[b] # jobs[b] PROVE b \in queue'
    BY <1>3 DEF SyncJobs
  <2>2. cachedJobs[b].status # "none" \/ jobs[b].status # "none"
    BY <2>1 DEF AwaitsJob
  <2>3. cachedJobs[b].owner # 0 \/ jobs[b].owner # 0
    BY <2>2 DEF ChildInv
  <2> QED
    BY <1>3, <2>1, <2>3 DEF SyncJobs, OwnerRequests
<1> QED
  BY <1>1, <1>2, <1>3

LEMMA NextWakeupInv ==
    TypeOK /\ LagInv /\ ChildInv /\ CopyInv /\ WakeupInv /\ [Next]_vars => WakeupInv'
<1> SUFFICES ASSUME TypeOK, LagInv, ChildInv, CopyInv, WakeupInv, [Next]_vars
             PROVE  WakeupInv'
  OBVIOUS
<1>1. pc' \notin {"idle", "start"} /\ req' \notin queue' => cachedBackups'[req'].uid = backup'.uid
  <2>0. pc \notin {"idle", "start"} /\ req \notin queue => cachedBackups[req].uid = backup.uid
    BY DEF WakeupInv
  <2>1. CASE Reconcile
    <3>1. cachedBackups' = cachedBackups
      BY <2>1, ReconcileSteps DEF caches
    <3>2. CASE Return \/ Requeue
      BY <3>2 DEF Return, Requeue, Finished
    <3>3. CASE FindCurrentRunningBackups /\ UNCHANGED <<worker, queue>>
      BY <3>3 DEF FindCurrentRunningBackups, worker
    <3> QED
      BY <2>0, <2>1, <3>1, <3>2, <3>3, ReconcileSteps
  <2>2. CASE \E b \in Backups : Dequeue(b)
    BY <2>2 DEF Dequeue
  <2>3. CASE Restart
    BY <2>3 DEF Restart, Finished
  <2>4. CASE SyncBackups \/ SyncSnapshots \/ SyncPvcs \/ SyncJobs
    <3>1. pc \notin {"idle", "start"} => req \in Backups
      BY DEF TypeOK
    <3> QED
      BY <2>0, <2>4, <3>1 DEF SyncBackups, SyncSnapshots, SyncPvcs, SyncJobs, worker
  <2>5. CASE UNCHANGED <<worker, queue, cachedBackups>>
    BY <2>0, <2>5 DEF worker
  <2> QED
    BY <2>1, <2>2, <2>3, <2>4, <2>5, OtherSteps
<1>2. ASSUME NEW b \in Backups PROVE QuietInv(b)'
  <2>0. QuietInv(b)
    BY DEF WakeupInv
  <2>1. CASE Reconcile
    <3>1. /\ pc # "idle" /\ req \in Backups /\ UNCHANGED caches
          /\ b \in queue => b \in queue'
      BY <2>1, ReconcileSteps DEF Return, Requeue
    <3>2. CASE b = req
      <4>1. CASE Return
        BY <2>1, <3>1, <3>2, <4>1, ReturnWaiting DEF QuietInv, Quiet, Handled, IsFinished, Return,
            caches
      <4>2. CASE ~Return
        BY <2>1, <3>1, <3>2, <4>2, ReconcileSteps DEF QuietInv, Quiet, Requeue, worker
      <4> QED
        BY <4>1, <4>2
    <3>3. CASE b # req /\ b \notin queue
      <4>1. Quiet(b)
        BY <3>3 DEF Quiet
      <4>2. found => found' /\ (b \in running => b \in running')
        <5>1. CASE FindCurrentRunningBackups
          BY <5>1 DEF FindCurrentRunningBackups
        <5>2. CASE GetBackup \/ GetPvc \/ Poll
          BY <3>3, <5>2 DEF GetBackup, GetPvc, Poll, ReleaseSlot
        <5>3. CASE UNCHANGED slots
          BY <5>3 DEF slots
        <5> QED
          BY <2>1, <5>1, <5>2, <5>3 DEF Reconcile, DeleteExpired, CleanSnapshot, CleanJob, CleanPvc,
              SetStarted, GetOrCreateSnapshot, GetOrCreateClaim, GetOrCreateJob, SetFinished,
              PollTimesOut, CallFails
      <4> QED
        BY <2>0, <3>1, <4>1, <4>2, QuietStays DEF caches
    <3>4. CASE b \in queue
      BY <3>1, <3>4 DEF QuietInv, Quiet
    <3> QED
      BY <3>2, <3>3, <3>4
  <2>2. CASE \E q \in Backups : Dequeue(q)
    <3>1. PICK q \in Backups : Dequeue(q)
      BY <2>2
    <3>2. CASE b = q \/ b \in queue
      BY <3>1, <3>2 DEF Dequeue, QuietInv, Quiet
    <3>3. CASE b # q /\ b \notin queue
      BY <2>0, <3>1, <3>3, QuietStays DEF Dequeue, Quiet, caches, slots
    <3> QED
      BY <3>2, <3>3
  <2>3. CASE Restart
    BY <2>3 DEF Restart, QuietInv, Quiet, api
  <2>4. CASE UNCHANGED <<worker, slots>> /\ ~Quiet(b) /\ queue \subseteq queue'
    BY <2>4 DEF QuietInv, Quiet, worker
  <2>5. CASE /\ UNCHANGED <<worker, slots, queue>>
             /\ UNCHANGED <<cachedBackups, cachedSnapshots, cachedJobs>>
    BY <2>0, <2>4, <2>5, QuietStays DEF slots
  <2>6. CASE UNCHANGED <<worker, slots>>
             /\ (SyncBackups \/ SyncSnapshots \/ SyncPvcs \/ SyncJobs)
    <3>1. queue \subseteq queue'
      BY <2>6 DEF SyncBackups, SyncSnapshots, SyncPvcs, SyncJobs
    <3> QED
      BY <2>0, <2>4, <2>6, <3>1, SyncWakes, QuietStays DEF slots
  <2> QED
    BY <2>1, <2>2, <2>3, <2>5, <2>6, OtherSteps
<1> QED
  BY <1>1, <1>2 DEF WakeupInv

LEMMA InitWakeupInv == Init => WakeupInv
BY DEF Init, WakeupInv, QuietInv, NoBackup

LEMMA AlwaysWakeupInv == Spec => []WakeupInv
BY AlwaysLag, InitWakeupInv, NextWakeupInv, PTL DEF Spec

\* When the caches are up to date and the operator is idle, an unfinished
\* PVCBackup that it has to handle is in the queue, or it has a slot and waits
\* for a snapshot or a Job: no event that Reconcile relies on is lost, for every
\* order of the informers, every fault, and names that are used again.
THEOREM NoLostWakeupHolds == Spec => []NoLostWakeup
<1>1. WakeupInv => NoLostWakeup
  <2> SUFFICES ASSUME WakeupInv, NEW b \in Backups, Handled(b), backups[b].present,
                      ~IsFinished(backups[b]), caches = api, pc = "idle", b \notin queue
               PROVE  /\ b \in running
                      /\ backups[b].started
                      /\ \/ snapshots[b].status = "pending"
                         \/ jobs[b].status \in {"running", "failed"}
    BY DEF NoLostWakeup
  <2>1. cachedBackups = backups /\ cachedSnapshots = snapshots /\ cachedJobs = jobs
    BY DEF caches, api
  <2>2. Waiting(b)
    BY <2>1 DEF WakeupInv, QuietInv, Quiet
  <2> QED
    BY <2>1, <2>2 DEF Waiting, AwaitsSnapshot, AwaitsJob
<1> QED
  BY <1>1, AlwaysWakeupInv, PTL

-----------------------------------------------------------------------------
(* No leaked slot.                                                           *)

\* The calls of a reconcile that works on an unfinished backup.
Working == {"getPvc", "setStarted", "snapshot", "claim", "job", "finish"}

\* The PVCBackup exists and is finished.
Done(o) == o.present /\ IsFinished(o)

\* Between SetFinished and the end of its poll, and only then, the operator may
\* hold a slot for a finished backup, or not know that it is finished.
LeakInv ==
    /\ budget["lostReply"] = 0
    /\ budget["pollTimeout"] = 0
    /\ \A b \in Backups : Handled(b) /\ Done(backups[b]) =>
           \/ cachedBackups[b] = backups[b] /\ b \notin running
           \/ pc = "poll" /\ req = b /\ backups[b] = backup
    /\ NoLeakedSlot
    /\ pc \in Working => ~Done(cachedBackups[req])
    /\ pc = "poll" /\ Done(cachedBackups[req]) => cachedBackups[req] = backup

\* A fault that is spent does not happen again.
LEMMA SpentStays ==
    ASSUME TypeOK, [Next]_vars, NEW f \in Faults, budget[f] = 0
    PROVE  budget'[f] = 0
<1>1. UNCHANGED budget \/ \E g \in Faults : Spend(g)
  <2> USE DEF Faults
  <2>1. CASE FindCurrentRunningBackups \/ GetBackup \/ GetPvc \/ Poll \/ PollTimesOut \/ CallFails
    BY <2>1 DEF FindCurrentRunningBackups, GetBackup, GetPvc, Poll, PollTimesOut, CallFails
  <2>2. CASE DeleteExpired \/ CleanSnapshot \/ CleanJob \/ CleanPvc
    BY <2>2 DEF DeleteExpired, CleanSnapshot, CleanJob, CleanPvc, Replied, Rejected
  <2>3. CASE GetOrCreateSnapshot \/ GetOrCreateClaim \/ GetOrCreateJob
    BY <2>3 DEF GetOrCreateSnapshot, GetOrCreateClaim, GetOrCreateJob, Replied, Rejected
  <2>4. CASE SetStarted \/ SetFinished
    BY <2>4 DEF SetStarted, SetFinished, StatusUpdate, Replied, Rejected
  <2>5. CASE \E b \in Backups : Dequeue(b) \/ Cluster(b) \/ Environment(b)
    BY <2>5 DEF Dequeue, Cluster, Environment, SnapshotReady, ProvisionClaim, JobCompletes,
        Collect, CreateBackup, UserDeletesBackup, OtherReleaseStarts, OtherReleaseFinishes,
        JobFails
  <2>6. CASE SyncBackups \/ SyncSnapshots \/ SyncPvcs \/ SyncJobs \/ Tick \/ UNCHANGED vars
               \/ Restart \/ \E c \in Claims : UserDeletesClaim(c)
    BY <2>6 DEF SyncBackups, SyncSnapshots, SyncPvcs, SyncJobs, Tick, vars, Restart,
        UserDeletesClaim
  <2> QED
    BY <2>1, <2>2, <2>3, <2>4, <2>5, <2>6 DEF Next, Reconcile
<1>2. CASE UNCHANGED budget
  BY <1>2
<1>3. CASE \E g \in Faults : Spend(g)
  BY <1>3 DEF Spend, TypeOK
<1> QED
  BY <1>1, <1>2, <1>3

\* What a step may do to the slots.
LEMMA SlotSteps ==
    ASSUME TypeOK, [Next]_vars
    PROVE  \/ running' \subseteq running
           \/ GetPvc /\ running' = running \cup {req}
           \/ /\ FindCurrentRunningBackups
              /\ \A b \in running' : backupIsRunning(cachedBackups[b])
<1>1. CASE FindCurrentRunningBackups
  <2>1. PICK listed : running' = FoundIn(listed)
    BY <1>1 DEF FindCurrentRunningBackups
  <2>2. \A b \in FoundIn(listed) : backupIsRunning(cachedBackups[b])
    BY DEF FoundIn, ListedIn
  <2> QED
    BY <1>1, <2>1, <2>2
<1>2. CASE GetBackup \/ GetPvc \/ Poll
  BY <1>2 DEF GetBackup, GetPvc, Poll, ReleaseSlot
<1>3. CASE UNCHANGED slots
  BY <1>3 DEF slots
<1>4. CASE Reconcile
  BY <1>1, <1>2, <1>3, <1>4 DEF Reconcile, DeleteExpired, CleanSnapshot, CleanJob, CleanPvc,
      SetStarted, GetOrCreateSnapshot, GetOrCreateClaim, GetOrCreateJob, SetFinished,
      PollTimesOut, CallFails
<1>5. CASE \E b \in Backups : Dequeue(b)
  BY <1>3, <1>5 DEF Dequeue
<1>6. CASE Restart
  BY <1>6 DEF Restart
<1> QED
  BY <1>3, <1>4, <1>5, <1>6, OtherSteps

\* The poll of a finished backup ends when the cache shows it as finished, and
\* then takes its slot away.
LEMMA PollSteps ==
    ASSUME TypeOK, LagInv, CopyInv, LeakInv, Reconcile, pc = "poll"
    PROVE  /\ pc' = "idle"
           /\ UNCHANGED <<backups, cachedBackups>>
           /\ Done(cachedBackups[req]) => req \notin running'
           /\ backups[req] = backup => Done(cachedBackups[req])
<1>1. CASE Poll
  <2>1. pc' = "idle" /\ UNCHANGED <<backups, cachedBackups>>
    BY <1>1 DEF Poll, Requeue, Finished, api, caches
  <2>2. Done(cachedBackups[req]) => req \notin running'
    BY <1>1 DEF Poll, Done, ReleaseSlot
  <2>3. ASSUME backups[req] = backup PROVE cachedBackups[req].present
    <3>1. req \in Backups /\ backup.present /\ backup.uid <= cachedBackups[req].uid
      BY DEF CopyInv, TypeOK
    <3>2. /\ cachedBackups[req].uid <= backups[req].uid
          /\ cachedBackups[req].uid \in Nat /\ backups[req].uid \in Nat
      BY <3>1, BackupNumbers DEF LagInv
    <3>3. cachedBackups[req].uid = backups[req].uid
      BY <2>3, <3>1, <3>2
    <3> QED
      BY <2>3, <3>1, <3>3 DEF LagInv
  <2> QED
    BY <1>1, <2>1, <2>2, <2>3 DEF Poll, Done
<1>2. CASE PollTimesOut
  <2>1. cachedBackups[req].uid # backup.uid
    BY <1>2 DEF PollTimesOut, Spend, LeakInv
  <2>2. pc' = "idle" /\ UNCHANGED <<backups, cachedBackups>> /\ ~Done(cachedBackups[req])
    BY <1>2 DEF PollTimesOut, Requeue, Finished, api, caches, Done
  <2>3. backups[req] # backup
    <3>1. req \in Backups /\ backup.uid <= cachedBackups[req].uid
      BY DEF CopyInv, TypeOK
    <3>2. /\ cachedBackups[req].uid <= backups[req].uid
          /\ cachedBackups[req].uid \in Nat /\ backups[req].uid \in Nat
      BY <3>1, BackupNumbers DEF LagInv
    <3> QED
      BY <2>1, <3>1, <3>2
  <2> QED
    BY <2>2, <2>3
<1> QED
  BY <1>1, <1>2 DEF Reconcile, FindCurrentRunningBackups, GetBackup, DeleteExpired, CleanSnapshot,
      CleanJob, CleanPvc, GetPvc, SetStarted, GetOrCreateSnapshot, GetOrCreateClaim,
      GetOrCreateJob, SetFinished, CallFails

\* Such a reconcile starts with a copy of an unfinished backup and ends in a poll.
LEMMA WorkSteps ==
    ASSUME TypeOK, Reconcile, pc' \in Working \cup {"poll"}
    PROVE  /\ req' = req
           /\ \/ pc' = "getPvc" /\ ~IsFinished(cachedBackups[req])
              \/ pc' \in Working /\ pc \in Working
              \/ pc' = "poll" /\ pc = "finish" /\ backup' = backup
<1> USE DEF Working
<1>0. pc' \notin {"idle", "start"}
  OBVIOUS
<1>1. CASE GetBackup
  BY <1>1 DEF GetBackup, Goto, Return, Finished
<1>2. CASE GetPvc
  BY <1>2 DEF GetPvc, WaitForSlot, Goto, Requeue, Finished
<1>3. CASE SetStarted \/ SetFinished
  BY <1>3 DEF SetStarted, SetFinished, StatusUpdate, Replied, Rejected, Goto, Requeue, Finished
<1>4. CASE GetOrCreateSnapshot \/ GetOrCreateClaim \/ GetOrCreateJob
  BY <1>4 DEF GetOrCreateSnapshot, GetOrCreateClaim, GetOrCreateJob, Replied, Rejected, Goto,
      Return, Requeue, Finished
<1>5. ~(FindCurrentRunningBackups \/ DeleteExpired \/ CleanSnapshot \/ CleanJob \/ CleanPvc \/ Poll
            \/ PollTimesOut \/ CallFails)
  BY <1>0 DEF FindCurrentRunningBackups, DeleteExpired, KeepLast, CleanSnapshot, CleanJob, CleanPvc,
      Poll, PollTimesOut, CallFails, Replied, Rejected, Goto, Return, Requeue, Finished, worker
<1> QED
  BY <1>1, <1>2, <1>3, <1>4, <1>5 DEF Reconcile

LEMMA NextLeakInv ==
    TypeOK /\ LagInv /\ CopyInv /\ HandledInv /\ LeakInv /\ [Next]_vars => LeakInv'
<1> SUFFICES ASSUME TypeOK, LagInv, CopyInv, HandledInv, LeakInv, [Next]_vars PROVE LeakInv'
  OBVIOUS
<1>1. budget'["lostReply"] = 0 /\ budget'["pollTimeout"] = 0
  BY SpentStays DEF LeakInv, Faults
<1>2. /\ \A b \in Backups : Handled(b) /\ Done(backups[b]) =>
             \/ cachedBackups[b] = backups[b] /\ b \notin running
             \/ pc = "poll" /\ req = b /\ backups[b] = backup
      /\ \A b \in running : Done(cachedBackups[b]) => pc = "poll" /\ req = b
      /\ pc \in Working => ~Done(cachedBackups[req])
      /\ pc = "poll" /\ Done(cachedBackups[req]) => cachedBackups[req] = backup
  BY DEF LeakInv, NoLeakedSlot, Done, Working
<1>3. \A b \in Backups : Done(cachedBackups[b]) /\ b \notin running => b \notin running'
  BY <1>2, SlotSteps DEF GetPvc, Working, Done, backupIsRunning
<1>4. \/ Reconcile \/ UNCHANGED worker \/ Restart \/ \E b \in Backups : Dequeue(b)
  BY OtherSteps
<1>5. ASSUME NEW b \in Backups, Handled(b), Done(backups'[b])
      PROVE  \/ cachedBackups'[b] = backups'[b] /\ b \notin running'
             \/ pc' = "poll" /\ req' = b /\ backups'[b] = backup'
  <2>1. CASE backups'[b] = backups[b]
    <3>1. CASE cachedBackups[b] = backups[b] /\ b \notin running
      <4>1. cachedBackups'[b] = backups[b]
        BY <3>1, CacheSteps
      <4> QED
        BY <1>3, <1>5, <2>1, <3>1, <4>1
    <3>2. CASE pc = "poll" /\ req = b /\ backups[b] = backup
      <4>1. CASE Reconcile
        <5>1. cachedBackups[b] = backup
          BY <1>2, <3>2, <4>1, PollSteps
        <5> QED
          BY <1>2, <2>1, <3>2, <4>1, <5>1, PollSteps
      <4>2. CASE UNCHANGED worker
        BY <2>1, <3>2, <4>2 DEF worker
      <4>3. CASE Restart
        BY <2>1, <4>3 DEF Restart, api
      <4>4. CASE \E q \in Backups : Dequeue(q)
        BY <3>2, <4>4 DEF Dequeue
      <4> QED
        BY <1>4, <4>1, <4>2, <4>3, <4>4
    <3> QED
      BY <1>2, <1>5, <2>1, <3>1, <3>2
  <2>2. CASE FinishedNow(b)
    <3>1. Goto("poll", backup)
      BY <2>2 DEF FinishedNow, Spend, LeakInv
    <3> QED
      BY <2>2, <3>1 DEF FinishedNow, Goto
  <2>3. ~Started(b)
    BY <1>5 DEF Started, SetStarted, CopyInv, Done, IsFinished
  <2>4. ~(Deleted(b) \/ Created(b) \/ ElsewhereUpdated(b))
    BY <1>5 DEF Deleted, Created, ElsewhereUpdated, Done
  <2> QED
    BY <2>1, <2>2, <2>3, <2>4, BackupSteps
<1>6. ASSUME NEW b \in running', Done(cachedBackups'[b])
      PROVE  pc' = "poll" /\ req' = b
  <2>1. b \in Backups
    BY NextTypeOK DEF TypeOK
  <2>2. CASE cachedBackups' = cachedBackups
    <3>1. b \in running
      BY <1>3, <1>6, <2>1, <2>2
    <3>2. pc = "poll" /\ req = b
      BY <1>2, <1>6, <2>2, <3>1
    <3>3. ~Reconcile
      BY <1>6, <2>2, <3>2, PollSteps
    <3> QED
      BY <1>4, <1>6, <3>2, <3>3 DEF worker, Restart, Dequeue
  <2>3. CASE cachedBackups' # cachedBackups
    <3>1. UNCHANGED api /\ cachedBackups' = backups
      BY <2>3, CacheSteps
    <3>2. ~Reconcile /\ ~Restart /\ ~\E q \in Backups : Dequeue(q)
      BY <1>6, <2>3, ReconcileSteps DEF caches, Restart, Dequeue
    <3>3. UNCHANGED <<worker, slots>>
      BY <3>2, OtherSteps
    <3>4. Handled(b) /\ b \in running
      BY <1>6, <3>3 DEF HandledInv, SlotsOnlyHandled, slots
    <3> QED
      BY <1>2, <1>6, <2>1, <3>1, <3>3, <3>4 DEF worker
  <2> QED
    BY <2>2, <2>3
<1>7. /\ pc' \in Working => ~Done(cachedBackups'[req'])
      /\ pc' = "poll" /\ Done(cachedBackups'[req']) => cachedBackups'[req'] = backup'
  <2>1. CASE Reconcile
    <3>1. cachedBackups' = cachedBackups
      BY <2>1, ReconcileSteps DEF caches
    <3> QED
      BY <1>2, <2>1, <3>1, WorkSteps DEF Working, Done
  <2>2. CASE Restart \/ \E q \in Backups : Dequeue(q)
    BY <2>2 DEF Restart, Finished, Dequeue, Working
  <2>3. CASE UNCHANGED worker /\ cachedBackups' = cachedBackups
    BY <1>2, <2>3 DEF worker
  <2>4. CASE UNCHANGED worker /\ cachedBackups' = backups
    <3>1. pc \in Working \cup {"poll"} => Handled(req) /\ req \in Backups
      BY DEF CopyInv, TypeOK, Working
    <3> QED
      BY <1>2, <2>4, <3>1 DEF worker, Working
  <2> QED
    BY <1>4, <2>1, <2>2, <2>3, <2>4, CacheSteps
<1> QED
  BY <1>1, <1>5, <1>6, <1>7 DEF LeakInv, NoLeakedSlot, Done, Working, Handled, IsFinished

\* If no poll times out and no reply is lost, the slot of a backup that the
\* operator sees as finished is free again, whatever else happens to it: names
\* used again, restarts, failing Lists and other failing calls.
THEOREM NoLeakedSlotHolds ==
    ASSUME Budget["lostReply"] = 0, Budget["pollTimeout"] = 0
    PROVE  Spec => []NoLeakedSlot
<1>1. Init => HandledInv /\ LeakInv
  <2> SUFFICES ASSUME Init PROVE HandledInv /\ LeakInv
    OBVIOUS
  <2>1. HandledInv
    BY DEF Init, HandledInv, SlotsOnlyHandled
  <2>2. LeakInv
    BY DEF Init, LeakInv, NoLeakedSlot, Done, NoBackup, Working
  <2> QED
    BY <2>1, <2>2
<1>2. LeakInv => NoLeakedSlot
  BY DEF LeakInv
<1> QED
  BY <1>1, <1>2, AlwaysLag, NextHandled, NextLeakInv, PTL DEF Spec
=============================================================================
