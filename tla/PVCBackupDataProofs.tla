------------------------- MODULE PVCBackupDataProofs -------------------------
(***************************************************************************)
(* Proofs about PVCBackupReconciler: that the last backup of a claim is    *)
(* kept, that its children are kept until it is finished and, when the     *)
(* name of a PVCBackup is used once, as the automatic creator does, what a *)
(* finished PVCBackup promises about the restic repository and about its   *)
(* children, and that the controller implements BackupLifecycle.           *)
(***************************************************************************)
EXTENDS PVCBackupLagProofs

-----------------------------------------------------------------------------
(* Inductive invariants.                                                     *)

\* No PVCBackup is made with the name of one that was deleted.
NamesUsedOnce == MaxUid <= 1

\* What was done was done by the one incarnation.
FirstInv ==
    \A b \in Backups :
        /\ backups[b].started \/ IsFinished(backups[b]) => backups[b].uid = 1
        /\ IsFinished(cachedBackups[b]) => cachedBackups[b].uid = 1

\* Everything is made for it, after it was started; the data in the repository
\* is its own.
DataInv ==
    /\ FirstInv
    /\ \A b \in Backups :
           /\ snapshots[b].status # "none" => backups[b].started /\ snapshots[b].owner = 1
           /\ pvcs[b].status # "none" => backups[b].started
           /\ pvcs[b].status = "bound" => pvcs[b].data = 1
           /\ jobs[b].status # "none" => backups[b].started
           /\ jobs[b].status = "complete" => <<b, 1>> \in repo
           /\ cachedJobs[b].status = "complete" => <<b, 1>> \in repo
           /\ Handled(b) /\ IsFinished(backups[b]) => <<b, 1>> \in repo
    /\ \A entry \in repo : entry[2] = 1 /\ backups[entry[1]].uid = 1
    /\ pc \in {"finish", "poll"} => <<req, 1>> \in repo

\* A sibling of b, or b itself, exists that finished at this time or later.
Kept(b, time) ==
    \E s \in Backups : /\ Siblings(b, s)
                       /\ backups[s].present
                       /\ backups[s].finishedAt >= time

\* For every backup that finished, also for those that only a stale cache still
\* shows.  When a handled backup finishes the cache knows it, so the copy that an
\* expired backup is judged by is right, or what has its name now is unfinished.
KeptInv ==
    /\ budget["deleteBackup"] = 0
    /\ \A b \in Backups :
           /\ IsFinished(backups[b]) => Kept(b, backups[b].finishedAt)
           /\ IsFinished(cachedBackups[b]) => Kept(b, cachedBackups[b].finishedAt)
           /\ Handled(b) /\ IsFinished(backups[b]) => cachedBackups[b].uid = backups[b].uid
    /\ pc = "expired" /\ IsFinished(backups[req]) =>
           backup.finishedAt = backups[req].finishedAt

\* The cleanup of b has not begun: the cache does not show it as finished, or a
\* reconcile is under way that still works on it.
Uncleaned(b) == ~IsFinished(cachedBackups[b]) \/ (req = b /\ pc \in Working)

\* Until then nothing is taken away.
CleanupInv ==
    /\ budget["deleteBackup"] = 0
    /\ \A b \in Backups : Handled(b) /\ Uncleaned(b) =>
           /\ backups[b].uid = 1 => backups[b].present
           /\ cachedSnapshots[b].status # "none" => snapshots[b].status # "none"
           /\ cachedPvcs[b].status # "none" => pvcs[b].status # "none"
           /\ cachedJobs[b].status # "none" => jobs[b].status # "none"
           /\ IsFinished(backups[b]) =>
                  /\ snapshots[b].status # "none"
                  /\ pvcs[b].status # "none"
                  /\ jobs[b].status # "none"
    /\ pc \in {"claim", "job", "finish"} => snapshots[req].status # "none"
    /\ pc \in {"job", "finish"} => pvcs[req].status # "none"
    /\ pc = "finish" => jobs[req].status # "none"
    /\ pc \in {"expired", "cleanSnapshot", "cleanJob", "cleanPvc"} =>
           IsFinished(cachedBackups[req])

-----------------------------------------------------------------------------
(* What steps do.                                                            *)

\* What a step may do to a claim: a backup's own claim is made, bound, cleaned
\* up or collected; a user's claim is deleted by a user.
LEMMA PvcSteps ==
    ASSUME TypeOK, [Next]_vars
    PROVE  \A n \in PvcNames :
               \/ pvcs'[n] = pvcs[n]
               \/ /\ GetOrCreateClaim /\ req = n /\ n \in Backups
                  /\ pvcs[n].status = "none" /\ cachedPvcs[n].status = "none"
                  /\ pvcs'[n].status = "pending" /\ pvcs'[n].owner = backup.uid
               \/ /\ n \in Backups
                  /\ pvcs[n].status = "pending" /\ snapshots[n].status = "ready"
                  /\ pvcs'[n].status = "bound"
                  /\ pvcs'[n].data = snapshots[n].owner
                  /\ pvcs'[n].owner = pvcs[n].owner
                  /\ UNCHANGED <<backups, operator>>
               \/ /\ CleanPvc /\ req = n /\ n \in Backups
                  /\ pvcs'[n] = NoPvc
               \/ /\ n \in Backups /\ Orphaned(n, pvcs[n])
                  /\ pvcs'[n] = NoPvc
                  /\ UNCHANGED <<backups, operator>>
               \/ /\ n \in Claims /\ UserDeletesClaim(n)
                  /\ pvcs'[n] = NoPvc
<1> USE DEF api
<1>0. pvcs \in [PvcNames -> PvcObjects] /\ Backups \subseteq PvcNames /\ Claims \subseteq PvcNames
  BY DEF TypeOK, PvcNames
<1>1. CASE GetOrCreateClaim
  <2>1. req \in Backups
    BY <1>1 DEF GetOrCreateClaim, TypeOK
  <2> QED
    BY <1>0, <1>1, <2>1 DEF GetOrCreateClaim
<1>2. CASE CleanPvc
  <2>1. req \in Backups
    BY <1>2 DEF CleanPvc, TypeOK
  <2> QED
    BY <1>0, <1>2, <2>1 DEF CleanPvc
<1>3. ASSUME NEW b \in Backups, ProvisionClaim(b)
      PROVE  /\ \A n \in PvcNames \ {b} : pvcs'[n] = pvcs[n]
             /\ pvcs[b].status = "pending" /\ snapshots[b].status = "ready"
             /\ pvcs'[b].status = "bound"
             /\ pvcs'[b].data = snapshots[b].owner
             /\ pvcs'[b].owner = pvcs[b].owner
             /\ UNCHANGED <<backups, operator>>
  <2>1. LET bound == [pvcs[b] EXCEPT !.status = "bound", !.data = snapshots[b].owner]
        IN  /\ bound.status = "bound" /\ bound.data = snapshots[b].owner
            /\ bound.owner = pvcs[b].owner
    BY <1>0 DEF PvcObjects
  <2>2. pvcs' = [pvcs EXCEPT ![b] = [pvcs[b] EXCEPT !.status = "bound",
                                                     !.data = snapshots[b].owner]]
    BY <1>0, <1>3 DEF ProvisionClaim
  <2> QED
    BY <1>0, <1>3, <2>1, <2>2 DEF ProvisionClaim
<1>4. ASSUME NEW b \in Backups, Collect(b)
      PROVE  \/ pvcs' = pvcs
             \/ /\ \A n \in PvcNames \ {b} : pvcs'[n] = pvcs[n]
                /\ Orphaned(b, pvcs[b])
                /\ pvcs'[b] = NoPvc
                /\ UNCHANGED <<backups, operator>>
  BY <1>0, <1>4 DEF Collect
<1>5. ASSUME NEW c \in Claims, UserDeletesClaim(c)
      PROVE  /\ \A n \in PvcNames \ {c} : pvcs'[n] = pvcs[n]
             /\ pvcs'[c] = NoPvc
  BY <1>0, <1>5 DEF UserDeletesClaim
<1>6. \/ pvcs' = pvcs
      \/ GetOrCreateClaim \/ CleanPvc
      \/ \E b \in Backups : ProvisionClaim(b) \/ Collect(b)
      \/ \E c \in Claims : UserDeletesClaim(c)
  <2>1. CASE Reconcile
    BY <2>1 DEF Reconcile, FindCurrentRunningBackups, GetBackup, DeleteExpired, CleanSnapshot,
        CleanJob, GetPvc, SetStarted, GetOrCreateSnapshot, GetOrCreateJob, SetFinished, Poll,
        PollTimesOut, CallFails
  <2>2. CASE \E b \in Backups : Dequeue(b) \/ Cluster(b) \/ Environment(b)
    BY <2>2 DEF Dequeue, Cluster, SnapshotReady, JobCompletes, Environment, CreateBackup,
        UserDeletesBackup, OtherReleaseStarts, OtherReleaseFinishes, JobFails
  <2>3. CASE SyncBackups \/ SyncSnapshots \/ SyncPvcs \/ SyncJobs \/ Restart \/ Tick
               \/ UNCHANGED vars
    BY <2>3 DEF SyncBackups, SyncSnapshots, SyncPvcs, SyncJobs, Restart, Tick, vars
  <2> QED
    BY <2>1, <2>2, <2>3 DEF Next
<1> QED
  BY <1>0, <1>1, <1>2, <1>3, <1>4, <1>5, <1>6

\* The repository only grows, by what the Jobs that complete back up.
LEMMA RepoSteps ==
    ASSUME [Next]_vars
    PROVE  \/ repo' = repo
           \/ \E b \in Backups : JobCompletes(b)
<1>1. CASE Reconcile
  BY <1>1 DEF Reconcile, FindCurrentRunningBackups, GetBackup, DeleteExpired, CleanSnapshot,
      CleanJob, CleanPvc, GetPvc, SetStarted, GetOrCreateSnapshot, GetOrCreateClaim,
      GetOrCreateJob, SetFinished, Poll, PollTimesOut, CallFails
<1>2. CASE \E b \in Backups : Dequeue(b) \/ Cluster(b) \/ Environment(b)
  BY <1>2 DEF Dequeue, Cluster, SnapshotReady, ProvisionClaim, Collect, Environment,
      CreateBackup, UserDeletesBackup, OtherReleaseStarts, OtherReleaseFinishes, JobFails
<1>3. CASE SyncBackups \/ SyncSnapshots \/ SyncPvcs \/ SyncJobs \/ Restart \/ Tick
             \/ UNCHANGED vars \/ \E c \in Claims : UserDeletesClaim(c)
  BY <1>3 DEF SyncBackups, SyncSnapshots, SyncPvcs, SyncJobs, Restart, Tick, vars,
      UserDeletesClaim
<1> QED
  BY <1>1, <1>2, <1>3 DEF Next

-----------------------------------------------------------------------------
(* The children of an unfinished backup.                                     *)

Cleaning == {"cleanSnapshot", "cleanJob", "cleanPvc"}

\* This incarnation of b, and the earlier ones, own the children of b.
OwnedUpTo(b, uid) ==
    /\ snapshots[b].status # "none" => snapshots[b].owner <= uid
    /\ pvcs[b].status # "none" => pvcs[b].owner <= uid
    /\ jobs[b].status # "none" => jobs[b].owner <= uid

\* Children are made by incarnations that the cache has shown, so a cleanup that the
\* cache has asked for finds none of a later one, and the one it cleans up after is
\* finished.
OwnerInv ==
    /\ \A b \in Backups : OwnedUpTo(b, cachedBackups[b].uid)
    /\ pc \in Cleaning =>
           /\ OwnedUpTo(req, backup.uid)
           /\ backups[req].uid = backup.uid => IsFinished(backups[req])

\* A step adds children of the worker's incarnation only.
LEMMA OwnersStay ==
    ASSUME TypeOK, [Next]_vars, NEW b \in Backups, NEW uid \in Nat, OwnedUpTo(b, uid),
           req = b /\ pc \in {"snapshot", "claim", "job"} => backup.uid <= uid
    PROVE  OwnedUpTo(b, uid)'
<1>1. snapshots'[b].status # "none" => snapshots'[b].owner <= uid
  BY SnapshotSteps DEF OwnedUpTo, GetOrCreateSnapshot, NoSnapshot
<1>2. pvcs'[b].status # "none" => pvcs'[b].owner <= uid
  <2>1. b \in PvcNames
    BY DEF PvcNames
  <2> QED
    BY <2>1, PvcSteps DEF OwnedUpTo, GetOrCreateClaim, NoPvc
<1>3. jobs'[b].status # "none" => jobs'[b].owner <= uid
  BY JobSteps DEF OwnedUpTo, GetOrCreateJob, NoJob
<1> QED
  BY <1>1, <1>2, <1>3 DEF OwnedUpTo

\* A cleanup begins with the copy that the cache holds, and goes on with it.
LEMMA CleaningSteps ==
    ASSUME TypeOK, [Next]_vars, pc' \in Cleaning
    PROVE  /\ req' = req
           /\ req \in Backups
           /\ \/ /\ pc = "start" /\ backup' = cachedBackups[req]
                 /\ IsFinished(cachedBackups[req])
                 /\ UNCHANGED api
              \/ pc \in Cleaning /\ backup' = backup
<1> USE DEF Cleaning
<1>1. CASE Reconcile
  <2>1. pc # "idle" /\ req \in Backups
    BY <1>1, ReconcileSteps
  <2>2. CASE FindCurrentRunningBackups
    BY <2>1, <2>2 DEF FindCurrentRunningBackups, worker, Requeue, Finished
  <2>3. CASE GetBackup
    BY <2>1, <2>3 DEF GetBackup, Return, Finished, Goto
  <2>4. CASE CleanSnapshot \/ CleanJob \/ CleanPvc
    BY <2>1, <2>4 DEF CleanSnapshot, CleanJob, CleanPvc, Replied, Requeue, Finished, Goto
  <2>5. CASE DeleteExpired \/ GetPvc \/ SetStarted \/ GetOrCreateSnapshot \/ GetOrCreateClaim
               \/ GetOrCreateJob \/ SetFinished \/ Poll \/ PollTimesOut \/ CallFails
    BY <2>5 DEF DeleteExpired, GetPvc, SetStarted, GetOrCreateSnapshot, GetOrCreateClaim,
        GetOrCreateJob, SetFinished, Poll, PollTimesOut, CallFails, KeepLast, WaitForSlot,
        StatusUpdate, Replied, Rejected, Return, Requeue, Finished, Goto
  <2> QED
    BY <1>1, <2>2, <2>3, <2>4, <2>5 DEF Reconcile
<1>2. CASE ~Reconcile
  <2>1. UNCHANGED worker
    BY <1>2, OtherSteps DEF Dequeue, Restart, Finished
  <2> QED
    BY <2>1 DEF worker, TypeOK
<1> QED
  BY <1>1, <1>2

LEMMA NextOwnerInv ==
    TypeOK /\ LagInv /\ CopyInv /\ OwnerInv /\ [Next]_vars => OwnerInv'
<1> SUFFICES ASSUME TypeOK, LagInv, CopyInv, OwnerInv, [Next]_vars PROVE OwnerInv'
  OBVIOUS
<1>1. /\ \A b \in Backups : backups[b].uid \in Nat /\ cachedBackups[b].uid \in Nat
      /\ backup.uid \in Nat
  BY BackupNumbers
<1>2. ASSUME NEW b \in Backups
      PROVE  OwnedUpTo(b, cachedBackups[b].uid)'
  <2>1. req = b /\ pc \in {"snapshot", "claim", "job"} => backup.uid <= cachedBackups[b].uid
    BY DEF CopyInv
  <2>2. CASE cachedBackups' = cachedBackups
    <3>1. OwnedUpTo(b, cachedBackups[b].uid) /\ cachedBackups[b].uid \in Nat
      BY <1>1 DEF OwnerInv
    <3> DEFINE u == cachedBackups[b].uid
    <3>2. u' = u
      BY <2>2
    <3>3. /\ snapshots'[b].status # "none" => snapshots'[b].owner <= u
          /\ pvcs'[b].status # "none" => pvcs'[b].owner <= u
          /\ jobs'[b].status # "none" => jobs'[b].owner <= u
      BY <2>1, <3>1, OwnersStay DEF OwnedUpTo
    <3> QED
      BY <3>2, <3>3 DEF OwnedUpTo
  <2>3. CASE UNCHANGED api /\ cachedBackups' = backups
    <3>1. cachedBackups[b].uid <= cachedBackups'[b].uid
      BY <2>3 DEF LagInv
    <3>2. /\ b \in PvcNames
          /\ snapshots[b].owner \in Int /\ pvcs[b].owner \in Int /\ jobs[b].owner \in Int
      BY DEF TypeOK, PvcNames, SnapshotObjects, PvcObjects, JobObjects
    <3> QED
      BY <1>1, <2>3, <3>1, <3>2 DEF OwnerInv, OwnedUpTo, api
  <2> QED
    BY <2>2, <2>3, CacheSteps
<1>3. ASSUME pc' \in Cleaning
      PROVE  /\ OwnedUpTo(req, backup.uid)'
             /\ backups'[req'].uid = backup'.uid => IsFinished(backups'[req'])
  <2>1. CASE pc = "start" /\ backup' = cachedBackups[req] /\ IsFinished(cachedBackups[req])
               /\ UNCHANGED api /\ req' = req /\ req \in Backups
    BY <2>1 DEF OwnerInv, OwnedUpTo, LagInv, IsFinished, api
  <2>2. CASE pc \in Cleaning /\ backup' = backup /\ req' = req /\ req \in Backups
    <3>1. OwnedUpTo(req, backup.uid) /\ (backups[req].uid = backup.uid => IsFinished(backups[req]))
      BY <2>2 DEF OwnerInv
    <3>2. pc \notin {"snapshot", "claim", "job"}
      BY <2>2 DEF Cleaning
    <3>3. /\ snapshots'[req].status # "none" => snapshots'[req].owner <= backup.uid
          /\ pvcs'[req].status # "none" => pvcs'[req].owner <= backup.uid
          /\ jobs'[req].status # "none" => jobs'[req].owner <= backup.uid
      BY <1>1, <2>2, <3>1, <3>2, OwnersStay DEF OwnedUpTo
    <3>4. backup.uid <= backups[req].uid
      BY <1>1, <2>2 DEF CopyInv, LagInv, Cleaning
    <3>5. backups'[req].uid = backup.uid => IsFinished(backups'[req])
      <4>1. CASE backups'[req] = backups[req] \/ Deleted(req) \/ Started(req)
        BY <3>1, <4>1 DEF Deleted, Started, IsFinished
      <4>2. CASE Created(req)
        BY <1>1, <2>2, <3>4, <4>2 DEF Created
      <4>3. CASE FinishedNow(req) \/ ElsewhereUpdated(req)
        BY <2>2, <3>1, <4>3 DEF FinishedNow, SetFinished, ElsewhereUpdated, IsFinished, Cleaning,
            CopyInv
      <4> QED
        BY <2>2, <4>1, <4>2, <4>3, BackupSteps
    <3> QED
      BY <2>2, <3>3, <3>5 DEF OwnedUpTo
  <2> QED
    BY <1>3, <2>1, <2>2, CleaningSteps
<1> QED
  BY <1>2, <1>3 DEF OwnerInv, IsFinished

\* NotCleanedEarly holds, however often a name is used again: the worker that makes
\* children for an incarnation has seen it in the cache, and a later reconcile never
\* sees an older one.
THEOREM NotCleanedEarlyHolds == Spec => NotCleanedEarly
<1> DEFINE Spared ==
               \A b \in Backups :
                   backups[b].present /\ ~IsFinished(backups[b]) =>
                       /\ Keeps(b, snapshots[b], snapshots'[b])
                       /\ Keeps(b, pvcs[b], pvcs'[b])
                       /\ Keeps(b, jobs[b], jobs'[b])
<1>1. Init => OwnerInv
  <2> SUFFICES ASSUME Init PROVE OwnerInv
    OBVIOUS
  <2>1. \A b \in Backups : /\ snapshots[b] = NoSnapshot /\ jobs[b] = NoJob
                           /\ pvcs[b] \in {NoPvc, UserPvc} /\ cachedBackups[b] = NoBackup
    BY DEF Init, PvcNames
  <2>2. \A b \in Backups : /\ snapshots[b].status = "none" /\ jobs[b].status = "none"
                           /\ pvcs[b].owner = 0 /\ cachedBackups[b].uid = 0
    BY <2>1 DEF NoSnapshot, NoJob, NoPvc, UserPvc, NoBackup
  <2>3. pc \notin Cleaning
    BY DEF Init, Cleaning
  <2> QED
    BY <2>2, <2>3 DEF OwnerInv, OwnedUpTo
<1>2. ASSUME TypeOK, LagInv, CopyInv, OwnerInv, [Next]_vars PROVE Spared
  <2> SUFFICES ASSUME NEW b \in Backups, backups[b].present, ~IsFinished(backups[b])
               PROVE  /\ Keeps(b, snapshots[b], snapshots'[b])
                      /\ Keeps(b, pvcs[b], pvcs'[b])
                      /\ Keeps(b, jobs[b], jobs'[b])
    OBVIOUS
  <2>1. backups[b].uid \in Nat /\ backup.uid \in Nat /\ cachedBackups[b].uid \in Nat
        /\ backups[b].uid > 0
    BY <1>2, BackupNumbers DEF LagInv
  <2>2. ASSUME req = b, pc \in Cleaning, NEW owner, owner <= backup.uid
        PROVE  owner # backups[b].uid
    <3>1. backup.uid <= backups[b].uid /\ backups[b].uid # backup.uid
      BY <1>2, <2>1, <2>2 DEF CopyInv, LagInv, OwnerInv, Cleaning
    <3> QED
      BY <2>1, <2>2, <3>1
  <2>3. Keeps(b, snapshots[b], snapshots'[b])
    <3>1. CASE CleanSnapshot /\ req = b
      BY <1>2, <2>2, <3>1 DEF CleanSnapshot, OwnerInv, OwnedUpTo, Keeps, Cleaning
    <3>2. CASE Orphaned(b, snapshots[b])
      BY <3>2 DEF Orphaned, Keeps
    <3> QED
      BY <1>2, <3>1, <3>2, SnapshotSteps DEF Keeps
  <2>4. Keeps(b, pvcs[b], pvcs'[b])
    <3>1. CASE CleanPvc /\ req = b
      BY <1>2, <2>2, <3>1 DEF CleanPvc, OwnerInv, OwnedUpTo, Keeps, Cleaning
    <3>2. CASE Orphaned(b, pvcs[b])
      BY <3>2 DEF Orphaned, Keeps
    <3>3. CASE UserDeletesClaim(b)
      BY <2>1, <3>3 DEF UserDeletesClaim, UserPvc, Keeps
    <3>4. b \in PvcNames
      BY DEF PvcNames
    <3> QED
      BY <1>2, <3>1, <3>2, <3>3, <3>4, PvcSteps DEF Keeps
  <2>5. Keeps(b, jobs[b], jobs'[b])
    <3>1. CASE CleanJob /\ req = b
      BY <1>2, <2>2, <3>1 DEF CleanJob, OwnerInv, OwnedUpTo, Keeps, Cleaning
    <3>2. CASE Orphaned(b, jobs[b])
      BY <3>2 DEF Orphaned, Keeps
    <3> QED
      BY <1>2, <3>1, <3>2, JobSteps DEF Keeps
  <2> QED
    BY <2>3, <2>4, <2>5
<1>3. TypeOK /\ LagInv /\ CopyInv /\ OwnerInv /\ [Next]_vars => [Spared]_vars
  BY <1>2
<1>4. Spec => [][Spared]_vars
  <2> HIDE DEF Spared
  <2> QED
    BY <1>1, <1>3, NextOwnerInv, AlwaysLag, PTL DEF Spec
<1> QED
  BY <1>4 DEF NotCleanedEarly

-----------------------------------------------------------------------------
(* What is in the repository.                                                *)

\* Past GetBackup the worker is on the one incarnation of its PVCBackup, which
\* is started by the time that children are made.
LEMMA WorkerOnFirst ==
    ASSUME NamesUsedOnce, TypeOK, LagInv, CopyInv, pc \notin {"idle", "start"}
    PROVE  /\ req \in Backups /\ Handled(req)
           /\ backup.uid = 1 /\ backups[req].uid = 1
           /\ pc \in {"snapshot", "claim", "job", "finish", "poll"} => backups[req].started
<1>1. /\ req \in Backups /\ Handled(req)
      /\ backup.uid > 0 /\ backup.uid <= cachedBackups[req].uid
      /\ backup.started /\ backups[req].uid = backup.uid => backups[req].started
      /\ pc \in {"snapshot", "claim", "job", "finish", "poll"} => backup.started
  BY DEF TypeOK, CopyInv
<1>2. cachedBackups[req].uid <= backups[req].uid
  BY <1>1 DEF LagInv
<1>3. backups[req].uid \in 0..MaxUid /\ cachedBackups[req].uid \in 0..MaxUid
      /\ backup.uid \in 0..MaxUid
  BY <1>1 DEF TypeOK, BackupObjects
<1>4. backup.uid = 1 /\ backups[req].uid = 1
  BY <1>1, <1>2, <1>3, BoundsAssumption DEF NamesUsedOnce
<1> QED
  BY <1>1, <1>4

\* A name that is used once is not used again: what was recorded of the backup
\* stays recorded.
LEMMA FirstStays ==
    ASSUME NamesUsedOnce, TypeOK, [Next]_vars, NEW b \in Backups, backups[b].uid = 1
    PROVE  /\ backups'[b].uid = 1
           /\ backups[b].started => backups'[b].started
           /\ IsFinished(backups[b]) => backups'[b].finishedAt = backups[b].finishedAt
<1>1. ~Created(b)
  BY BoundsAssumption DEF Created, NamesUsedOnce
<1> QED
  BY <1>1, BackupSteps DEF Deleted, Started, FinishedNow, ElsewhereUpdated, IsFinished

LEMMA NextFirstInv ==
    NamesUsedOnce /\ TypeOK /\ LagInv /\ CopyInv /\ FirstInv /\ [Next]_vars => FirstInv'
<1> SUFFICES ASSUME NamesUsedOnce, TypeOK, LagInv, CopyInv, FirstInv, [Next]_vars PROVE FirstInv'
  OBVIOUS
<1>1. ASSUME NEW b \in Backups, backups'[b].started \/ IsFinished(backups'[b])
      PROVE  backups'[b].uid = 1
  <2>1. CASE backups'[b] = backups[b] \/ Deleted(b)
    BY <1>1, <2>1 DEF Deleted, FirstInv, IsFinished
  <2>2. CASE Created(b)
    BY <1>1, <2>2 DEF Created
  <2>3. CASE Started(b)
    BY <2>3, WorkerOnFirst DEF Started, SetStarted
  <2>4. CASE FinishedNow(b)
    BY <2>4, WorkerOnFirst DEF FinishedNow, SetFinished
  <2>5. CASE ElsewhereUpdated(b)
    <3>1. backups[b].uid > 0 /\ backups[b].uid \in 0..MaxUid /\ backups'[b].uid = backups[b].uid
      BY <2>5 DEF ElsewhereUpdated, LagInv, TypeOK, BackupObjects
    <3> QED
      BY <3>1, BoundsAssumption DEF NamesUsedOnce
  <2> QED
    BY <2>1, <2>2, <2>3, <2>4, <2>5, BackupSteps
<1>2. ASSUME NEW b \in Backups, IsFinished(cachedBackups'[b])
      PROVE  cachedBackups'[b].uid = 1
  BY <1>2, CacheSteps DEF FirstInv
<1> QED
  BY <1>1, <1>2 DEF FirstInv, IsFinished

\* What a step adds to the repository is the first incarnation's.
LEMMA RepoGrows ==
    ASSUME DataInv, [Next]_vars
    PROVE  /\ repo \subseteq repo'
           /\ \A entry \in repo' \ repo :
                  \E b \in Backups : JobCompletes(b) /\ entry = <<b, 1>>
<1>1. ASSUME NEW b \in Backups, JobCompletes(b)
      PROVE  repo' = repo \cup {<<b, 1>>}
  BY <1>1 DEF JobCompletes, DataInv
<1> QED
  BY <1>1, RepoSteps

LEMMA NextDataInv ==
    NamesUsedOnce /\ TypeOK /\ LagInv /\ CopyInv /\ DataInv /\ [Next]_vars => DataInv'
<1> SUFFICES ASSUME NamesUsedOnce, TypeOK, LagInv, CopyInv, DataInv, [Next]_vars PROVE DataInv'
  OBVIOUS
<1>0. repo \subseteq repo'
  BY RepoGrows
<1>1. FirstInv'
  BY NextFirstInv DEF DataInv
<1>2. ASSUME NEW b \in Backups
      PROVE  /\ backups[b].started => backups'[b].started
             /\ snapshots'[b].status # "none" => backups'[b].started /\ snapshots'[b].owner = 1
             /\ pvcs'[b].status # "none" => backups'[b].started
             /\ pvcs'[b].status = "bound" => pvcs'[b].data = 1
             /\ jobs'[b].status # "none" => backups'[b].started
             /\ jobs'[b].status = "complete" => <<b, 1>> \in repo'
  <2>0. req = b /\ pc \in {"snapshot", "claim", "job"} => backups[b].started /\ backup.uid = 1
    BY WorkerOnFirst
  <2>1. backups[b].started => backups'[b].started
    BY FirstStays DEF DataInv, FirstInv
  <2>2. snapshots'[b].status # "none" => backups'[b].started /\ snapshots'[b].owner = 1
    <3>1. /\ snapshots[b].status # "none" => backups[b].started /\ snapshots[b].owner = 1
          /\ GetOrCreateSnapshot => pc = "snapshot"
      BY DEF DataInv, GetOrCreateSnapshot
    <3> QED
      BY <2>0, <2>1, <3>1, SnapshotSteps DEF NoSnapshot
  <2>3. /\ pvcs'[b].status # "none" => backups'[b].started
        /\ pvcs'[b].status = "bound" => pvcs'[b].data = 1
    <3>1. /\ snapshots[b].status # "none" => snapshots[b].owner = 1
          /\ pvcs[b].status # "none" => backups[b].started
          /\ pvcs[b].status = "bound" => pvcs[b].data = 1
          /\ GetOrCreateClaim => pc = "claim"
          /\ b \in PvcNames
      BY DEF DataInv, GetOrCreateClaim, PvcNames
    <3> QED
      BY <2>0, <2>1, <3>1, PvcSteps DEF NoPvc
  <2>4. jobs'[b].status # "none" => backups'[b].started
    <3>1. /\ jobs[b].status # "none" => backups[b].started
          /\ GetOrCreateJob => pc = "job"
      BY DEF DataInv, GetOrCreateJob
    <3> QED
      BY <2>0, <2>1, <3>1, JobSteps DEF NoJob
  <2>5. ASSUME jobs'[b].status = "complete" PROVE <<b, 1>> \in repo'
    <3>1. jobs'[b] = jobs[b] \/ JobCompletes(b)
      BY <2>5, JobSteps DEF NoJob
    <3>2. CASE jobs'[b] = jobs[b]
      BY <1>0, <2>5, <3>2 DEF DataInv
    <3>3. CASE JobCompletes(b)
      BY <3>3 DEF JobCompletes, DataInv
    <3> QED
      BY <3>1, <3>2, <3>3
  <2> QED
    BY <2>1, <2>2, <2>3, <2>4, <2>5
<1>3. ASSUME NEW b \in Backups, cachedJobs'[b].status = "complete" PROVE <<b, 1>> \in repo'
  BY <1>0, <1>3, CacheSteps DEF DataInv
<1>4. ASSUME NEW b \in Backups, Handled(b), IsFinished(backups'[b]) PROVE <<b, 1>> \in repo'
  <2>1. CASE IsFinished(backups[b])
    BY <1>0, <1>4, <2>1 DEF DataInv
  <2>2. CASE ~IsFinished(backups[b])
    <3>1. FinishedNow(b)
      BY <1>4, <2>2, BackupSteps DEF Deleted, Created, Started, ElsewhereUpdated, IsFinished
    <3> QED
      BY <1>0, <3>1 DEF FinishedNow, SetFinished, DataInv
  <2> QED
    BY <2>1, <2>2
<1>5. ASSUME NEW entry \in repo' PROVE entry[2] = 1 /\ backups'[entry[1]].uid = 1
  <2>1. entry \in repo \/ \E b \in Backups : JobCompletes(b) /\ entry = <<b, 1>>
    BY RepoGrows
  <2>2. CASE entry \in repo
    <3>1. entry[1] \in Backups /\ entry[2] = 1 /\ backups[entry[1]].uid = 1
      BY <2>2 DEF DataInv, TypeOK
    <3> QED
      BY <3>1, FirstStays
  <2>3. ASSUME NEW b \in Backups, JobCompletes(b), entry = <<b, 1>>
        PROVE  entry[2] = 1 /\ backups'[entry[1]].uid = 1
    <3>1. backups[b].uid = 1
      BY <2>3 DEF JobCompletes, DataInv, FirstInv
    <3> QED
      BY <2>3, <3>1, FirstStays
  <2> QED
    BY <2>1, <2>2, <2>3
<1>6. ASSUME pc' \in {"finish", "poll"} PROVE <<req', 1>> \in repo'
  <2>1. CASE pc' = pc /\ req' = req
    BY <1>0, <1>6, <2>1 DEF DataInv
  <2>2. CASE Reconcile
    <3>1. req' = req /\ (pc = "finish" \/ GetOrCreateJob)
      BY <1>6, <2>2, WorkSteps DEF Working, Reconcile, FindCurrentRunningBackups, GetBackup,
          DeleteExpired, KeepLast, CleanSnapshot, CleanJob, CleanPvc, GetPvc, WaitForSlot, SetStarted,
          GetOrCreateSnapshot, GetOrCreateClaim, SetFinished, Poll, PollTimesOut, CallFails,
          StatusUpdate, Replied, Rejected, Goto, Return, Requeue, Finished, worker
    <3>2. CASE pc = "finish"
      BY <1>0, <3>1, <3>2 DEF DataInv
    <3>3. CASE GetOrCreateJob
      <4>1. JobDone(cachedJobs[req]) /\ req \in Backups
        BY <1>6, <3>3 DEF GetOrCreateJob, Replied, Rejected, Return, Requeue, Finished, TypeOK
      <4> QED
        BY <1>0, <3>1, <4>1 DEF DataInv, JobDone
    <3> QED
      BY <3>1, <3>2, <3>3
  <2>3. CASE ~Reconcile
    <3>1. UNCHANGED worker
      BY <1>6, <2>3, OtherSteps DEF Dequeue, Restart, Finished
    <3> QED
      BY <2>1, <3>1 DEF worker
  <2> QED
    BY <2>2, <2>3
<1> QED
  BY <1>1, <1>2, <1>3, <1>4, <1>5, <1>6 DEF DataInv, IsFinished, Handled

LEMMA InitFirstInv == Init => FirstInv
BY DEF Init, FirstInv, NoBackup, IsFinished

LEMMA InitDataInv == ASSUME Backups \cap Claims = {}, Init PROVE DataInv
<1>1. \A b \in Backups : pvcs[b] = NoPvc
  BY DEF Init, PvcNames
<1>2. \A b \in Backups :
          /\ ~backups[b].started /\ ~IsFinished(backups[b])
          /\ snapshots[b].status = "none" /\ pvcs[b].status = "none"
          /\ jobs[b].status = "none" /\ cachedJobs[b].status = "none"
  <2>1. \A b \in Backups : ~backups[b].started /\ ~IsFinished(backups[b])
    BY DEF Init, NoBackup, IsFinished
  <2>2. \A b \in Backups : jobs[b].status = "none" /\ cachedJobs[b].status = "none"
    BY DEF Init, NoJob
  <2>3. \A b \in Backups : snapshots[b].status = "none"
    BY DEF Init, NoSnapshot
  <2>4. \A b \in Backups : pvcs[b].status = "none"
    BY <1>1 DEF NoPvc
  <2> QED
    BY <2>1, <2>2, <2>3, <2>4
<1>3. repo = {} /\ pc = "idle"
  BY DEF Init
<1> QED
  BY <1>2, <1>3, InitFirstInv DEF DataInv

LEMMA AlwaysDataInv ==
    ASSUME NamesUsedOnce, Backups \cap Claims = {}
    PROVE  Spec => []DataInv
<1>1. /\ Init => DataInv
      /\ TypeOK /\ LagInv /\ CopyInv /\ DataInv /\ [Next]_vars => DataInv'
  BY InitDataInv, NextDataInv
<1> QED
  BY <1>1, AlwaysLag, PTL DEF Spec

\* A PVCBackup that says Succeeded has its own data in the restic repository,
\* for every number of backups, claims, restarts, lost replies, failing calls and
\* deletions, if a name is used once.  (The data of an earlier PVCBackup of the
\* same name could be taken otherwise: the claim made for it may still be there.)
THEOREM SucceededMeansBackedUpHolds ==
    ASSUME MaxUid <= 1, Backups \cap Claims = {}
    PROVE  Spec => []SucceededMeansBackedUp
<1>1. NamesUsedOnce
  BY DEF NamesUsedOnce
<1>2. DataInv => SucceededMeansBackedUp
  BY DEF DataInv, FirstInv, SucceededMeansBackedUp
<1> QED
  BY <1>1, <1>2, AlwaysDataInv, PTL

-----------------------------------------------------------------------------
(* The last backup of a claim is kept.                                       *)

\* The times at which backups finish, in order.
LEMMA FinishTimes ==
    ASSUME TypeOK, NEW b \in Backups
    PROVE  /\ backups[b].finishedAt \in Int
           /\ IsFinished(backups[b]) <=> backups[b].finishedAt >= 0
BY DEF TypeOK, BackupObjects, IsFinished, Never

\* A finished backup that exists is only changed by being deleted.
LEMMA FinishedOrDeleted ==
    ASSUME TypeOK, [Next]_vars, NEW b \in Backups,
           backups[b].present, IsFinished(backups[b])
    PROVE  /\ backups'[b].finishedAt = backups[b].finishedAt
           /\ backups'[b].present \/ Deleted(b)
BY BackupSteps DEF Deleted, Created, Started, FinishedNow, ElsewhereUpdated

\* A finished backup is deleted only if a sibling that finished later stays.
LEMMA DeletedHasSuccessor ==
    ASSUME TypeOK, KeptInv, [Next]_vars,
           NEW b \in Backups, Deleted(b), IsFinished(backups[b])
    PROVE  \E s \in Backups : /\ Siblings(b, s)
                              /\ backups'[s].present
                              /\ backups'[s].finishedAt > backups[b].finishedAt
<1>1. DeleteExpired /\ req = b /\ HasLaterSibling(b)
  BY DEF Deleted, KeptInv, Spend
<1>2. backup.finishedAt = backups[b].finishedAt
  BY <1>1 DEF DeleteExpired, KeptInv
<1>3. PICK t \in Backups : /\ Siblings(b, t)
                           /\ IsFinished(cachedBackups[t])
                           /\ cachedBackups[t].finishedAt > backups[b].finishedAt
  BY <1>1, <1>2 DEF HasLaterSibling, Siblings
<1>4. PICK s \in Backups : /\ Siblings(t, s)
                           /\ backups[s].present
                           /\ backups[s].finishedAt >= cachedBackups[t].finishedAt
  BY <1>3 DEF KeptInv, Kept
<1>5. cachedBackups[t].finishedAt \in Int
  BY DEF TypeOK, BackupObjects, Never
<1>6. /\ backups[s].finishedAt > backups[b].finishedAt
      /\ IsFinished(backups[s])
      /\ s # b
  BY <1>3, <1>4, <1>5, FinishTimes
<1>7. ~Deleted(s)
  BY <1>1, <1>6 DEF Deleted, KeptInv, Spend
<1>8. backups'[s].finishedAt = backups[s].finishedAt /\ backups'[s].present
  BY <1>4, <1>6, <1>7, FinishedOrDeleted
<1> QED
  BY <1>3, <1>4, <1>6, <1>8 DEF Siblings

\* So what was kept in place of a finished backup is, or has a successor.
LEMMA KeptStays ==
    ASSUME TypeOK, KeptInv, [Next]_vars,
           NEW b \in Backups, NEW time \in Nat, Kept(b, time)
    PROVE  Kept(b, time)'
<1>1. PICK s \in Backups : /\ Siblings(b, s)
                           /\ backups[s].present
                           /\ backups[s].finishedAt >= time
  BY DEF Kept
<1>2. IsFinished(backups[s]) /\ backups[s].finishedAt \in Int
  BY <1>1, FinishTimes
<1>3. backups'[s].finishedAt = backups[s].finishedAt /\ (backups'[s].present \/ Deleted(s))
  BY <1>1, <1>2, FinishedOrDeleted
<1>4. CASE backups'[s].present
  BY <1>1, <1>3, <1>4 DEF Kept, Siblings
<1>5. CASE Deleted(s)
  <2>1. PICK t \in Backups : /\ Siblings(s, t)
                             /\ backups'[t].present
                             /\ backups'[t].finishedAt > backups[s].finishedAt
    BY <1>2, <1>5, DeletedHasSuccessor
  <2>2. backups'[t].finishedAt \in Int
    BY NextTypeOK DEF TypeOK, BackupObjects, Never
  <2>3. backups'[t].finishedAt >= time /\ Siblings(b, t)
    BY <1>1, <1>2, <2>1, <2>2 DEF Siblings
  <2> QED
    BY <2>1, <2>3 DEF Kept, Siblings
<1> QED
  BY <1>3, <1>4, <1>5

LEMMA NextKeptInv ==
    TypeOK /\ LagInv /\ CopyInv /\ KeptInv /\ [Next]_vars => KeptInv'
<1> SUFFICES ASSUME TypeOK, LagInv, CopyInv, KeptInv, [Next]_vars PROVE KeptInv'
  OBVIOUS
<1>0. TypeOK' /\ LagInv'
  BY NextTypeOK, NextLagInv
<1>1. budget'["deleteBackup"] = 0
  BY SpentStays DEF KeptInv, Faults
<1>2. ASSUME NEW b \in Backups, IsFinished(backups'[b])
      PROVE  Kept(b, backups[b].finishedAt)'
  <2>1. CASE IsFinished(backups[b]) /\ backups'[b].finishedAt = backups[b].finishedAt
    <3>1. backups[b].finishedAt \in Nat /\ Kept(b, backups[b].finishedAt)
      BY <2>1, FinishTimes DEF KeptInv
    <3> QED
      BY <2>1, <3>1, KeptStays
  <2>2. CASE ~(IsFinished(backups[b]) /\ backups'[b].finishedAt = backups[b].finishedAt)
    <3>1. FinishedNow(b) \/ ElsewhereUpdated(b)
      BY <1>2, <2>2, BackupSteps DEF Deleted, Created, Started, IsFinished
    <3>2. backups'[b].present
      BY <3>1 DEF FinishedNow, SetFinished, ElsewhereUpdated, CopyInv
    <3>3. backups'[b].finishedAt \in Int
      BY <1>0 DEF TypeOK, BackupObjects, Never
    <3> QED
      BY <3>2, <3>3 DEF Kept, Siblings
  <2> QED
    BY <2>1, <2>2
<1>3. ASSUME NEW b \in Backups, IsFinished(cachedBackups'[b])
      PROVE  Kept(b, cachedBackups[b].finishedAt)'
  <2>1. CASE cachedBackups' = cachedBackups
    <3>1. cachedBackups[b].finishedAt \in Nat /\ Kept(b, cachedBackups[b].finishedAt)
      BY <1>3, <2>1 DEF KeptInv, TypeOK, BackupObjects, IsFinished, Never
    <3> QED
      BY <2>1, <3>1, KeptStays
  <2>2. CASE cachedBackups' = backups /\ backups' = backups
    BY <1>2, <1>3, <2>2
  <2> QED
    BY <2>1, <2>2, CacheSteps DEF api
<1>4. ASSUME NEW b \in Backups, Handled(b), IsFinished(backups'[b])
      PROVE  cachedBackups'[b].uid = backups'[b].uid
  <2>1. CASE cachedBackups' = backups /\ backups' = backups
    BY <2>1
  <2>2. CASE cachedBackups' = cachedBackups /\ IsFinished(backups[b])
    <3>1. backups'[b].uid = backups[b].uid
      BY <1>4, <2>2, BackupSteps DEF Deleted, Created, Started, FinishedNow, ElsewhereUpdated
    <3> QED
      BY <1>4, <2>2, <3>1 DEF KeptInv
  <2>3. CASE cachedBackups' = cachedBackups /\ ~IsFinished(backups[b])
    <3>1. FinishedNow(b)
      BY <1>4, <2>3, BackupSteps DEF Deleted, Created, Started, ElsewhereUpdated, IsFinished
    <3>2. /\ backups'[b].uid = backup.uid /\ backups[b].uid = backup.uid
          /\ backup.uid <= cachedBackups[b].uid
          /\ cachedBackups[b].uid <= backups[b].uid
      BY <3>1 DEF FinishedNow, SetFinished, CopyInv, LagInv
    <3>3. backups[b].uid \in Int /\ cachedBackups[b].uid \in Int
      BY DEF TypeOK, BackupObjects
    <3> QED
      BY <2>3, <3>2, <3>3
  <2> QED
    BY <2>1, <2>2, <2>3, CacheSteps DEF api
<1>5. ASSUME pc' = "expired", IsFinished(backups'[req'])
      PROVE  backup'.finishedAt = backups'[req'].finishedAt
  <2>1. CASE Reconcile
    <3>1. GetBackup
      BY <1>5, <2>1 DEF Reconcile, FindCurrentRunningBackups,
          DeleteExpired, KeepLast, CleanSnapshot, CleanJob, CleanPvc, GetPvc, WaitForSlot, SetStarted,
          GetOrCreateSnapshot, GetOrCreateClaim, GetOrCreateJob, SetFinished, Poll, PollTimesOut,
          CallFails, StatusUpdate, Replied, Rejected, Goto, Return, Requeue, Finished, worker
    <3>2. /\ req \in Backups /\ req' = req /\ backups' = backups
          /\ Handled(req) /\ IsFinished(cachedBackups[req])
          /\ backup' = cachedBackups[req]
      BY <1>5, <3>1 DEF GetBackup, Goto, Return, Finished, api, TypeOK
    <3>3. cachedBackups[req].uid = backups[req].uid
      BY <1>5, <3>2 DEF KeptInv
    <3> QED
      BY <3>2, <3>3 DEF LagInv
  <2>2. CASE ~Reconcile
    <3>1. pc' = pc /\ req' = req /\ backup' = backup
      BY <1>5, <2>2, OtherSteps DEF worker, Dequeue, Restart, Finished
    <3>2. req \in Backups /\ Handled(req)
      BY <1>5, <3>1 DEF CopyInv, TypeOK
    <3>3. /\ IsFinished(backups[req])
          /\ backups'[req].finishedAt = backups[req].finishedAt
      BY <1>5, <2>2, <3>1, <3>2, BackupSteps DEF Deleted, Created, Started, FinishedNow,
          ElsewhereUpdated, Reconcile, IsFinished
    <3> QED
      BY <1>5, <3>1, <3>3 DEF KeptInv
  <2> QED
    BY <2>1, <2>2
<1> QED
  BY <1>1, <1>2, <1>3, <1>4, <1>5 DEF KeptInv, Handled, IsFinished

\* Unless users delete PVCBackups, the last backup to finish for a claim exists
\* forever, however stale the List is that looks for a later one, and although an
\* expired PVCBackup is deleted by name, so that a new one of this name is hit.
THEOREM NewestFinishedKeptHolds ==
    ASSUME Budget["deleteBackup"] = 0
    PROVE  Spec => []NewestFinishedKept
<1>1. Init => KeptInv
  BY DEF Init, NoBackup, IsFinished, KeptInv
<1>2. TypeOK /\ LagInv /\ CopyInv /\ KeptInv /\ [Next]_vars => KeptInv'
  BY NextKeptInv
<1>3. KeptInv => NewestFinishedKept
  BY DEF KeptInv, Kept, NewestFinishedKept
<1> QED
  BY <1>1, <1>2, <1>3, AlwaysLag, PTL DEF Spec

-----------------------------------------------------------------------------
(* What was cleaned up is not made again.                                    *)

\* A backup that the cache shows as finished is finished, and stays so there.
LEMMA CachedFinishStays ==
    ASSUME NamesUsedOnce, TypeOK, LagInv, FirstInv, [Next]_vars, NEW b \in Backups,
           IsFinished(cachedBackups[b])
    PROVE  IsFinished(cachedBackups'[b])
<1>1. /\ backups[b].uid \in 0..MaxUid /\ cachedBackups[b].uid = 1
      /\ cachedBackups[b].uid <= backups[b].uid
  BY DEF TypeOK, BackupObjects, LagInv, FirstInv
<1>2. cachedBackups[b].uid = backups[b].uid
  BY <1>1, BoundsAssumption DEF NamesUsedOnce
<1>3. IsFinished(backups[b])
  BY <1>2 DEF LagInv, IsFinished
<1> QED
  BY <1>3, CacheSteps

\* A reconcile that works on an unfinished backup began when the cache showed
\* it like that: the cleanup, once begun, is not followed by new work.
LEMMA UncleanedBefore ==
    ASSUME NamesUsedOnce, TypeOK, LagInv, FirstInv, [Next]_vars, NEW b \in Backups,
           Uncleaned(b)'
    PROVE  Uncleaned(b)
<1>1. CASE ~IsFinished(cachedBackups'[b])
  BY <1>1, CachedFinishStays DEF Uncleaned
<1>2. CASE req' = b /\ pc' \in Working
  <2>1. CASE Reconcile
    BY <1>2, <2>1, WorkSteps DEF Uncleaned, Working
  <2>2. CASE ~Reconcile
    <3>1. UNCHANGED worker
      BY <1>2, <2>2, OtherSteps DEF Dequeue, Restart, Finished, Working
    <3> QED
      BY <1>2, <3>1 DEF worker, Uncleaned
  <2> QED
    BY <2>1, <2>2
<1> QED
  BY <1>1, <1>2 DEF Uncleaned, IsFinished

\* Until the cleanup begins, the PVCBackup and its children are not deleted.
LEMMA UncleanedStays ==
    ASSUME NamesUsedOnce, Backups \cap Claims = {}, TypeOK, DataInv, CleanupInv, [Next]_vars,
           NEW b \in Backups, Handled(b), Uncleaned(b)
    PROVE  /\ backups'[b].uid = 1 => backups'[b].present
           /\ snapshots[b].status # "none" => snapshots'[b].status # "none"
           /\ pvcs[b].status # "none" => pvcs'[b].status # "none"
           /\ jobs[b].status # "none" => jobs'[b].status # "none"
<1>1. ~(req = b /\ pc \in {"expired", "cleanSnapshot", "cleanJob", "cleanPvc"})
  BY DEF Uncleaned, CleanupInv, Working
<1>2. backups[b].uid = 1 => backups[b].present
  BY DEF CleanupInv
<1>3. ~Deleted(b)
  BY <1>1 DEF Deleted, Spend, CleanupInv, DeleteExpired
<1>4. backups'[b].uid = 1 => backups'[b].present
  BY <1>2, <1>3, BackupSteps DEF Created, Started, FinishedNow, ElsewhereUpdated
<1>5. ASSUME NEW child, child.owner \in 0..MaxUid,
             child.status # "none" => backups[b].started
      PROVE  ~Orphaned(b, child)
  <2>1. child.owner \in {0, 1}
    BY <1>5, BoundsAssumption DEF NamesUsedOnce
  <2> QED
    BY <1>2, <1>5, <2>1 DEF Orphaned, DataInv, FirstInv
<1>6. ~Orphaned(b, snapshots[b]) /\ ~Orphaned(b, jobs[b]) /\ ~Orphaned(b, pvcs[b])
  <2>1. /\ snapshots[b].owner \in 0..MaxUid /\ jobs[b].owner \in 0..MaxUid
        /\ pvcs[b].owner \in 0..MaxUid
    BY DEF TypeOK, SnapshotObjects, JobObjects, PvcObjects, PvcNames
  <2> QED
    BY <1>5, <2>1 DEF DataInv
<1>7. snapshots[b].status # "none" => snapshots'[b].status # "none"
  BY <1>1, <1>6, SnapshotSteps DEF CleanSnapshot
<1>8. pvcs[b].status # "none" => pvcs'[b].status # "none"
  <2>1. b \in PvcNames /\ b \notin Claims
    BY DEF PvcNames
  <2> QED
    BY <1>1, <1>6, <2>1, PvcSteps DEF CleanPvc
<1>9. jobs[b].status # "none" => jobs'[b].status # "none"
  BY <1>1, <1>6, JobSteps DEF CleanJob
<1> QED
  BY <1>4, <1>7, <1>8, <1>9

\* The calls of a reconcile in their order.
LEMMA CallOrder ==
    ASSUME TypeOK, Reconcile
    PROVE  /\ pc' = "claim" =>
                  /\ pc = "snapshot" /\ cachedSnapshots[req].status = "ready"
                  /\ UNCHANGED snapshots
           /\ pc' = "job" =>
                  /\ pc = "claim"
                  /\ UNCHANGED snapshots
                  /\ \/ cachedPvcs[req].status # "none" /\ UNCHANGED pvcs
                     \/ pvcs'[req].status = "pending"
           /\ pc' = "finish" =>
                  /\ pc = "job" /\ cachedJobs[req].status = "complete"
                  /\ UNCHANGED <<snapshots, pvcs, jobs>>
           /\ pc' \in {"expired", "cleanSnapshot", "cleanJob", "cleanPvc"} =>
                  \/ pc \in {"cleanSnapshot", "cleanJob"}
                  \/ IsFinished(cachedBackups[req])
<1> USE DEF Return, Requeue, Finished, Goto, Replied, Rejected
<1>1. CASE FindCurrentRunningBackups \/ GetBackup
  BY <1>1 DEF FindCurrentRunningBackups, GetBackup, worker
<1>2. CASE DeleteExpired \/ Poll \/ PollTimesOut \/ CallFails
  BY <1>2 DEF DeleteExpired, KeepLast, Poll, PollTimesOut, CallFails
<1>3. CASE CleanSnapshot \/ CleanJob \/ CleanPvc \/ GetPvc
  BY <1>3 DEF CleanSnapshot, CleanJob, CleanPvc, GetPvc, WaitForSlot
<1>4. CASE SetStarted \/ SetFinished
  BY <1>4 DEF SetStarted, SetFinished, StatusUpdate
<1>5. CASE GetOrCreateSnapshot \/ GetOrCreateJob
  BY <1>5 DEF GetOrCreateSnapshot, GetOrCreateJob, JobDone
<1>6. CASE GetOrCreateClaim
  <2>1. req \in PvcNames /\ pvcs \in [PvcNames -> PvcObjects]
    BY <1>6 DEF GetOrCreateClaim, TypeOK, PvcNames
  <2> QED
    BY <1>6, <2>1 DEF GetOrCreateClaim
<1> QED
  BY <1>1, <1>2, <1>3, <1>4, <1>5, <1>6 DEF Reconcile

LEMMA NextCleanupInv ==
    ASSUME NamesUsedOnce, Backups \cap Claims = {},
           TypeOK, LagInv, CopyInv, DataInv, CleanupInv, [Next]_vars
    PROVE  CleanupInv'
<1>0. FirstInv
  BY DEF DataInv
<1>1. budget'["deleteBackup"] = 0
  BY SpentStays DEF CleanupInv, Faults
<1>2. ASSUME NEW b \in Backups, Handled(b), Uncleaned(b)'
      PROVE  /\ backups'[b].uid = 1 => backups'[b].present
             /\ cachedSnapshots'[b].status # "none" => snapshots'[b].status # "none"
             /\ cachedPvcs'[b].status # "none" => pvcs'[b].status # "none"
             /\ cachedJobs'[b].status # "none" => jobs'[b].status # "none"
             /\ IsFinished(backups'[b]) =>
                    /\ snapshots'[b].status # "none"
                    /\ pvcs'[b].status # "none"
                    /\ jobs'[b].status # "none"
  <2>1. Uncleaned(b)
    BY <1>0, <1>2, UncleanedBefore
  <2>2. /\ backups'[b].uid = 1 => backups'[b].present
        /\ snapshots[b].status # "none" => snapshots'[b].status # "none"
        /\ pvcs[b].status # "none" => pvcs'[b].status # "none"
        /\ jobs[b].status # "none" => jobs'[b].status # "none"
    BY <1>2, <2>1, UncleanedStays
  <2>3. /\ cachedSnapshots[b].status # "none" => snapshots[b].status # "none"
        /\ cachedPvcs[b].status # "none" => pvcs[b].status # "none"
        /\ cachedJobs[b].status # "none" => jobs[b].status # "none"
    BY <1>2, <2>1 DEF CleanupInv
  <2>4. /\ cachedSnapshots'[b].status # "none" => snapshots'[b].status # "none"
        /\ cachedPvcs'[b].status # "none" => pvcs'[b].status # "none"
        /\ cachedJobs'[b].status # "none" => jobs'[b].status # "none"
    BY <2>2, <2>3, CacheSteps DEF api
  <2>5. ASSUME IsFinished(backups'[b])
        PROVE  /\ snapshots[b].status # "none"
               /\ pvcs[b].status # "none"
               /\ jobs[b].status # "none"
    <3>1. CASE IsFinished(backups[b])
      BY <1>2, <2>1, <3>1 DEF CleanupInv
    <3>2. CASE ~IsFinished(backups[b])
      <4>1. FinishedNow(b)
        BY <1>2, <2>5, <3>2, BackupSteps DEF Deleted, Created, Started, ElsewhereUpdated, IsFinished
      <4>2. req = b /\ pc = "finish"
        BY <4>1 DEF FinishedNow, SetFinished
      <4> QED
        BY <4>2 DEF CleanupInv
    <3> QED
      BY <3>1, <3>2
  <2> QED
    BY <2>2, <2>4, <2>5
<1>3. ASSUME pc' \in {"claim", "job", "finish"}
      PROVE  /\ snapshots'[req'].status # "none"
             /\ pc' \in {"job", "finish"} => pvcs'[req'].status # "none"
             /\ pc' = "finish" => jobs'[req'].status # "none"
  <2>1. CASE Reconcile
    <3>1. req' = req /\ req \in Backups
      BY <1>3, <2>1, ReconcileSteps, WorkSteps DEF Working
    <3>2. pc \in {"snapshot", "claim", "job"}
      BY <1>3, <2>1, CallOrder
    <3>3. Handled(req) /\ Uncleaned(req)
      BY <3>2 DEF CopyInv, Uncleaned, Working
    <3>4. /\ cachedSnapshots[req].status # "none" => snapshots[req].status # "none"
          /\ cachedPvcs[req].status # "none" => pvcs[req].status # "none"
          /\ cachedJobs[req].status # "none" => jobs[req].status # "none"
      BY <3>1, <3>3 DEF CleanupInv
    <3>5. /\ pc \in {"claim", "job"} => snapshots[req].status # "none"
          /\ pc = "job" => pvcs[req].status # "none"
      BY DEF CleanupInv
    <3> QED
      BY <1>3, <2>1, <3>1, <3>4, <3>5, CallOrder
  <2>2. CASE ~Reconcile
    <3>1. pc' = pc /\ req' = req
      BY <1>3, <2>2, OtherSteps DEF Dequeue, Restart, Finished, worker
    <3>2. req \in Backups /\ Handled(req) /\ Uncleaned(req)
      BY <1>3, <3>1 DEF CopyInv, Uncleaned, Working, TypeOK
    <3>3. /\ snapshots[req].status # "none" => snapshots'[req].status # "none"
          /\ pvcs[req].status # "none" => pvcs'[req].status # "none"
          /\ jobs[req].status # "none" => jobs'[req].status # "none"
      BY <3>2, UncleanedStays
    <3> QED
      BY <1>3, <3>1, <3>3 DEF CleanupInv
  <2> QED
    BY <2>1, <2>2
<1>4. ASSUME pc' \in {"expired", "cleanSnapshot", "cleanJob", "cleanPvc"}
      PROVE  IsFinished(cachedBackups'[req'])
  <2>1. CASE Reconcile
    <3>1. /\ req' = req /\ cachedBackups' = cachedBackups
      BY <1>4, <2>1, ReconcileSteps DEF caches, Return, Requeue, Finished,
          FindCurrentRunningBackups, worker
    <3> QED
      BY <1>4, <2>1, <3>1, CallOrder DEF CleanupInv
  <2>2. CASE ~Reconcile
    <3>1. pc' = pc /\ req' = req
      BY <1>4, <2>2, OtherSteps DEF Dequeue, Restart, Finished, worker
    <3>2. req \in Backups /\ IsFinished(cachedBackups[req])
      BY <1>4, <3>1 DEF CleanupInv, TypeOK
    <3> QED
      BY <1>0, <3>1, <3>2, CachedFinishStays
  <2> QED
    BY <2>1, <2>2
<1> QED
  BY <1>1, <1>2, <1>3, <1>4 DEF CleanupInv, Handled, IsFinished

\* Nothing is made again for a finished backup, for every number of backups,
\* restarts, lost replies, failing calls and lagging caches, if a name is used once
\* and users delete no PVCBackups (a reconcile that works on a stale copy could
\* otherwise make a child that the garbage collector has deleted).
THEOREM NoResurrectionHolds ==
    ASSUME MaxUid <= 1, Backups \cap Claims = {}, Budget["deleteBackup"] = 0
    PROVE  Spec => NoResurrection
<1>1. NamesUsedOnce
  BY DEF NamesUsedOnce
<1>2. Init => CleanupInv
  <2> SUFFICES ASSUME Init PROVE CleanupInv
    OBVIOUS
  <2>1. \A b \in Backups : ~IsFinished(backups[b]) /\ backups[b].uid = 0
    BY DEF Init, NoBackup, IsFinished
  <2>2. /\ cachedSnapshots = snapshots /\ cachedPvcs = pvcs /\ cachedJobs = jobs
        /\ pc = "idle" /\ budget["deleteBackup"] = 0
    BY DEF Init
  <2> QED
    BY <2>1, <2>2 DEF CleanupInv
<1>3. TypeOK /\ LagInv /\ CopyInv /\ DataInv /\ CleanupInv /\ [Next]_vars => CleanupInv'
  BY <1>1, NextCleanupInv
<1>4. ASSUME TypeOK, CopyInv, CleanupInv, [Next]_vars, NEW b \in Backups, IsFinished(backups[b])
      PROVE  /\ snapshots[b].status = "none" => snapshots'[b].status = "none"
             /\ pvcs[b].status = "none" => pvcs'[b].status = "none"
             /\ jobs[b].status = "none" => jobs'[b].status = "none"
  <2>1. req = b /\ pc \in {"snapshot", "claim", "job"} =>
            /\ snapshots[b].status # "none"
            /\ pvcs[b].status # "none"
            /\ jobs[b].status # "none"
    BY <1>4 DEF CleanupInv, CopyInv, Uncleaned, Working
  <2>2. b \in PvcNames /\ b \notin Claims
    BY DEF PvcNames
  <2> QED
    BY <1>4, <2>1, <2>2, SnapshotSteps, PvcSteps, JobSteps DEF GetOrCreateSnapshot,
        GetOrCreateClaim, GetOrCreateJob, NoSnapshot, NoPvc, NoJob
<1>5. TypeOK /\ CopyInv /\ CleanupInv /\ [Next]_vars =>
          \A b \in Backups : IsFinished(backups[b]) =>
             /\ snapshots[b].status = "none" => snapshots'[b].status = "none"
             /\ pvcs[b].status = "none" => pvcs'[b].status = "none"
             /\ jobs[b].status = "none" => jobs'[b].status = "none"
  BY <1>4
<1> QED
  BY <1>1, <1>2, <1>3, <1>5, AlwaysLag, AlwaysDataInv, PTL DEF Spec, NoResurrection

-----------------------------------------------------------------------------
(* The controller implements BackupLifecycle.                                *)

\* The refinement mapping.
PhaseMap == [b \in HandledBackups |-> Phase(backups[b])]
StoredMap == {b \in HandledBackups : <<b, backups[b].uid>> \in repo}

\* The phases, one by one.
LEMMA Phases ==
    ASSUME NEW o
    PROVE  /\ ~o.present => Phase(o) = "absent"
           /\ o.present => Phase(o) # "absent"
           /\ o.present /\ IsFinished(o) => Phase(o) = "finished"
           /\ o.present /\ ~IsFinished(o) /\ o.started => Phase(o) = "running"
           /\ o.present /\ ~IsFinished(o) /\ ~o.started => Phase(o) = "requested"
           /\ Phase(o) = "running" => backupIsRunning(o)
<1>1. CASE ~o.present
  BY <1>1 DEF Phase
<1>2. CASE o.present /\ IsFinished(o)
  BY <1>2 DEF Phase
<1>3. CASE o.present /\ ~IsFinished(o) /\ o.started
  BY <1>3 DEF Phase, backupIsRunning
<1>4. CASE o.present /\ ~IsFinished(o) /\ ~o.started
  BY <1>4 DEF Phase
<1> QED
  BY <1>1, <1>2, <1>3, <1>4

\* The mapping where it has not changed, and where it has.
LEMMA MapUnchanged ==
    ASSUME \A b \in HandledBackups : backups'[b] = backups[b], repo' = repo
    PROVE  PhaseMap' = PhaseMap /\ StoredMap' = StoredMap
BY DEF PhaseMap, StoredMap, Phase, IsFinished, HandledBackups, Handled

LEMMA MapChanged ==
    ASSUME NEW b \in HandledBackups,
           \A s \in HandledBackups \ {b} : backups'[s] = backups[s], repo' = repo,
           NEW p, Phase(backups'[b]) = p
    PROVE  /\ PhaseMap' = [PhaseMap EXCEPT ![b] = p]
           /\ backups'[b].uid = backups[b].uid => StoredMap' = StoredMap
<1>1. PhaseMap' = [s \in HandledBackups |-> Phase(backups'[s])]
  BY DEF PhaseMap, Phase, IsFinished, HandledBackups, Handled
<1>2. StoredMap' = {s \in HandledBackups : <<s, backups'[s].uid>> \in repo}
  BY DEF StoredMap, HandledBackups, Handled
<1>3. PhaseMap' = [PhaseMap EXCEPT ![b] = p]
  BY <1>1 DEF PhaseMap
<1>4. backups'[b].uid = backups[b].uid => StoredMap' = StoredMap
  BY <1>2 DEF StoredMap
<1> QED
  BY <1>3, <1>4

\* A step writes one PVCBackup at most, and then not the repository.
LEMMA OneBackup ==
    ASSUME TypeOK, [Next]_vars
    PROVE  \/ UNCHANGED backups
           \/ /\ repo' = repo
              /\ \E b \in Backups : \A s \in Backups \ {b} : backups'[s] = backups[s]
<1>0. backups \in [Backups -> BackupObjects]
  BY DEF TypeOK
<1>1. CASE SetStarted \/ SetFinished \/ DeleteExpired
  <2>1. req \in Backups /\ repo' = repo
    BY <1>1 DEF SetStarted, SetFinished, DeleteExpired, TypeOK
  <2>2. \A s \in Backups \ {req} : backups'[s] = backups[s]
    BY <1>0, <1>1, <2>1 DEF SetStarted, SetFinished, DeleteExpired, StatusUpdate
  <2> QED
    BY <2>1, <2>2
<1>2. ASSUME NEW b \in Backups, CreateBackup(b) \/ UserDeletesBackup(b)
                                    \/ OtherReleaseStarts(b) \/ OtherReleaseFinishes(b)
      PROVE  repo' = repo /\ \A s \in Backups \ {b} : backups'[s] = backups[s]
  BY <1>0, <1>2 DEF CreateBackup, UserDeletesBackup, OtherReleaseStarts, OtherReleaseFinishes
<1> QED
  BY <1>1, <1>2, BackupWriters

LEMMA InitLifecycle == Init => Lifecycle!Init
<1> SUFFICES ASSUME Init PROVE Lifecycle!Init
  OBVIOUS
<1>1. \A b \in HandledBackups : Phase(backups[b]) = "absent"
  BY Phases DEF Init, NoBackup, HandledBackups
<1>2. repo = {}
  BY DEF Init
<1> QED
  BY <1>1, <1>2 DEF Lifecycle!Init

\* A backup that takes its slot leaves the others within the limit.
LEMMA StartLimit ==
    ASSUME RunningLimit', NEW b \in Active', b \notin Active, Active' \subseteq Active \cup {b},
           Active \subseteq Active', MaxRunningBackups > 0
    PROVE  Cardinality(Active) < MaxRunningBackups
<1>1. IsFiniteSet(Active)
  BY NamesAssumption, FS_Subset DEF Active
<1>2. Active' = Active \cup {b}
  OBVIOUS
<1>3. Cardinality(Active \cup {b}) = Cardinality(Active) + 1 /\ Cardinality(Active) \in Nat
  BY <1>1, FS_AddElement, FS_CardinalityType
<1>4. Cardinality(Active') <= MaxRunningBackups
  BY BoundsAssumption DEF RunningLimit
<1> QED
  BY <1>2, <1>3, <1>4, BoundsAssumption

\* A step that writes the PVCBackup b alone moves b from one phase to the next.
LEMMA BackupStepLifecycle ==
    ASSUME NamesUsedOnce, TypeOK, LagInv, CopyInv, DataInv, RunningLimit', [Next]_vars,
           NEW b \in HandledBackups, backups'[b] # backups[b], repo' = repo,
           \A s \in Backups \ {b} : backups'[s] = backups[s]
    PROVE  Lifecycle!Next
<1>0. b \in Backups /\ Handled(b) /\ \A s \in HandledBackups \ {b} : backups'[s] = backups[s]
  BY DEF HandledBackups
<1>1. CASE Deleted(b)
  <2>1. /\ PhaseMap' = [PhaseMap EXCEPT ![b] = "absent"]
        /\ StoredMap' = StoredMap
    BY <1>0, <1>1, MapChanged, Phases DEF Deleted
  <2>2. PhaseMap[b] # "absent"
    BY <1>1, Phases DEF Deleted, PhaseMap
  <2>3. Lifecycle!Delete(b)
    BY <2>1, <2>2 DEF Lifecycle!Delete, PhaseMap, StoredMap
  <2> QED
    BY <2>3 DEF Lifecycle!Next
<1>2. CASE Created(b)
  <2>1. PhaseMap' = [PhaseMap EXCEPT ![b] = "requested"] /\ PhaseMap[b] = "absent"
    BY <1>0, <1>2, MapChanged, Phases DEF Created, PhaseMap
  <2>2. \A entry \in repo : entry[1] # b
    BY <1>2, BoundsAssumption DEF Created, DataInv, NamesUsedOnce
  <2>3. StoredMap' = StoredMap \ {b}
    BY <1>0, <2>2 DEF StoredMap, HandledBackups, Handled
  <2>4. Lifecycle!Create(b)
    BY <2>1, <2>3 DEF Lifecycle!Create, PhaseMap, StoredMap
  <2> QED
    BY <2>4 DEF Lifecycle!Next
<1>3. CASE Started(b)
  <2>1. /\ req = b /\ pc = "setStarted" /\ backups[b] = backup
        /\ backups[b].present /\ ~backups[b].started /\ ~IsFinished(backups[b])
    BY <1>3 DEF Started, SetStarted, CopyInv
  <2>2. /\ backups'[b].present /\ backups'[b].started /\ ~IsFinished(backups'[b])
        /\ backups'[b].uid = backups[b].uid
    BY <1>3, <2>1 DEF Started, IsFinished
  <2>3. /\ PhaseMap' = [PhaseMap EXCEPT ![b] = "running"] /\ PhaseMap[b] = "requested"
        /\ StoredMap' = StoredMap
    BY <1>0, <2>1, <2>2, MapChanged, Phases DEF PhaseMap
  <2>4. MaxRunningBackups <= 0 \/ Cardinality(Active) < MaxRunningBackups
    <3>1. /\ b \in Active' /\ b \notin Active
          /\ Active' \subseteq Active \cup {b} /\ Active \subseteq Active'
      BY <1>0, <2>1, <2>2 DEF Active, backupIsRunning, IsFinished, Handled
    <3> QED
      BY <3>1, StartLimit, BoundsAssumption
  <2>5. Lifecycle!Running = Active
    <3>1. \A s \in HandledBackups : PhaseMap[s] = "running" <=> backupIsRunning(backups[s])
      BY Phases DEF PhaseMap, backupIsRunning
    <3>2. Active = {s \in HandledBackups : PhaseMap[s] = "running"}
      BY <3>1 DEF Active, HandledBackups
    <3> QED
      BY <3>2 DEF Lifecycle!Running, PhaseMap
  <2>6. Lifecycle!Cardinality(Active) = Cardinality(Active)
    BY DEF Lifecycle!Cardinality, Cardinality
  <2>7. Lifecycle!Start(b)
    BY <2>3, <2>4, <2>5, <2>6 DEF Lifecycle!Start, PhaseMap, StoredMap
  <2> QED
    BY <2>7 DEF Lifecycle!Next
<1>4. CASE FinishedNow(b)
  <2>1. /\ req = b /\ pc = "finish" /\ backups'[b] = backup
        /\ backup.present /\ backup.started /\ IsFinished(backup)
        /\ backups[b].present /\ backups[b].started /\ ~IsFinished(backups[b])
        /\ backups'[b].uid = backups[b].uid
    BY <1>4 DEF FinishedNow, SetFinished, CopyInv
  <2>2. /\ PhaseMap' = [PhaseMap EXCEPT ![b] = "finished"] /\ PhaseMap[b] = "running"
        /\ StoredMap' = StoredMap
    BY <1>0, <2>1, MapChanged, Phases DEF PhaseMap
  <2>3. b \in StoredMap
    BY <1>0, <2>1 DEF DataInv, FirstInv, StoredMap
  <2>4. Lifecycle!Finish(b)
    BY <2>2, <2>3 DEF Lifecycle!Finish, PhaseMap, StoredMap
  <2> QED
    BY <2>4 DEF Lifecycle!Next
<1>5. ~ElsewhereUpdated(b)
  BY <1>0 DEF ElsewhereUpdated
<1> QED
  BY <1>0, <1>1, <1>2, <1>3, <1>4, <1>5, BackupSteps

\* A Job that completes stores the data of its PVCBackup.
LEMMA StoreLifecycle ==
    ASSUME TypeOK, DataInv, NEW b \in Backups, JobCompletes(b)
    PROVE  Lifecycle!Next \/ (PhaseMap' = PhaseMap /\ StoredMap' = StoredMap)
<1>1. /\ backups' = backups /\ repo' = repo \cup {<<b, 1>>}
      /\ backups[b].started /\ backups[b].uid = 1
  BY DEF JobCompletes, DataInv, FirstInv
<1>2. PhaseMap' = PhaseMap
  BY <1>1 DEF PhaseMap, Phase, IsFinished, HandledBackups, Handled
<1>3. CASE ~Handled(b)
  <2>1. StoredMap' = StoredMap
    BY <1>1, <1>3 DEF StoredMap, HandledBackups, Handled
  <2> QED
    BY <1>2, <2>1
<1>4. CASE Handled(b) /\ IsFinished(backups[b])
  <2>1. repo' = repo
    BY <1>1, <1>4 DEF DataInv
  <2> QED
    BY <1>1, <2>1, MapUnchanged
<1>5. CASE Handled(b) /\ ~IsFinished(backups[b])
  <2>1. b \in HandledBackups /\ StoredMap' = StoredMap \cup {b}
    BY <1>1, <1>5 DEF StoredMap, HandledBackups, Handled
  <2>2. PhaseMap[b] \in {"running", "absent"}
    BY <1>1, <1>5, <2>1, Phases DEF PhaseMap
  <2>3. Lifecycle!Store(b)
    BY <1>2, <2>1, <2>2 DEF Lifecycle!Store, PhaseMap, StoredMap
  <2> QED
    BY <2>1, <2>3 DEF Lifecycle!Next
<1> QED
  BY <1>3, <1>4, <1>5

\* Every step of the controller is a step of the lifecycle, or stutters.
LEMMA NextLifecycle ==
    ASSUME NamesUsedOnce, TypeOK, LagInv, CopyInv, DataInv, RunningLimit', [Next]_vars
    PROVE  [Lifecycle!Next]_(Lifecycle!vars)
<1>1. Lifecycle!Next \/ (PhaseMap' = PhaseMap /\ StoredMap' = StoredMap)
  <2>1. CASE UNCHANGED backups
    <3>1. CASE repo' = repo
      BY <2>1, <3>1, MapUnchanged
    <3>2. CASE \E b \in Backups : JobCompletes(b)
      BY <3>2, StoreLifecycle
    <3> QED
      BY <3>1, <3>2, RepoSteps
  <2>2. ASSUME NEW b \in Backups, \A s \in Backups \ {b} : backups'[s] = backups[s], repo' = repo
        PROVE  Lifecycle!Next \/ (PhaseMap' = PhaseMap /\ StoredMap' = StoredMap)
    <3>1. CASE b \in HandledBackups /\ backups'[b] # backups[b]
      BY <2>2, <3>1, BackupStepLifecycle
    <3>2. CASE ~(b \in HandledBackups /\ backups'[b] # backups[b])
      <4>1. \A s \in HandledBackups : backups'[s] = backups[s]
        BY <2>2, <3>2 DEF HandledBackups
      <4> QED
        BY <2>2, <4>1, MapUnchanged
    <3> QED
      BY <3>1, <3>2
  <2> QED
    BY <2>1, <2>2, OneBackup
<1> QED
  BY <1>1 DEF Lifecycle!vars, PhaseMap, StoredMap

\* The controller implements BackupLifecycle: with its caches, its workqueue, its
\* restarts and its lost replies it takes the PVCBackups through their phases in
\* order, within the limit, and finishes one after its own data was stored; for
\* every number of backups, claims and faults, if a name is used once and the
\* Lists that count the running backups do not fail.
THEOREM ImplementsLifecycleHolds ==
    ASSUME MaxUid <= 1, Backups \cap Claims = {}, Budget["listError"] = 0
    PROVE  Spec => ImplementsLifecycle
<1>1. NamesUsedOnce
  BY DEF NamesUsedOnce
<1>2. TypeOK /\ LagInv /\ CopyInv /\ DataInv /\ RunningLimit' /\ [Next]_vars
          => [Lifecycle!Next]_(Lifecycle!vars)
  BY <1>1, NextLifecycle
<1>3. Spec => []RunningLimit
  BY RunningLimitHolds
<1>4. Spec => []DataInv
  BY <1>1, AlwaysDataInv
<1> QED
  BY <1>2, <1>3, <1>4, InitLifecycle, AlwaysLag, PTL DEF Spec, ImplementsLifecycle, Lifecycle!Spec
=============================================================================
