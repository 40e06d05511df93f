------------------------- MODULE PVCBackupReconciler -------------------------
(***************************************************************************)
(* The PVCBackup controller, internal/controller/pvcbackup_controller.go.  *)
(*                                                                         *)
(* One worker takes a PVCBackup from the workqueue and reconciles it: it   *)
(* takes one of MaxRunningBackups slots, records StartedAt, creates a      *)
(* VolumeSnapshot, a PersistentVolumeClaim made from it and a Job that     *)
(* runs restic on it, records FinishedAt when the Job is complete, deletes *)
(* the three children, and deletes the PVCBackup itself once its TTL has   *)
(* passed and a later backup of the same claim has finished.               *)
(*                                                                         *)
(* Every read is from the informer caches, which lag behind the API server *)
(* kind by kind; every write goes to the API server and may fail, or may   *)
(* succeed with its reply lost.  Between two calls of a reconcile, users,  *)
(* the snapshot controller, the volume provisioner, the Job controller,    *)
(* the garbage collector and the informers take their own steps.           *)
(***************************************************************************)
EXTENDS Integers, FiniteSets

CONSTANTS
    Backups,            \* names of PVCBackup objects (namespace included)
    Claims,             \* names of the users' PersistentVolumeClaims
    NoRequest,          \* the idle worker's request
    PVCName,            \* Spec.PVCName of each backup
    NamespaceOf,        \* the namespace of each backup
    TTL,                \* Spec.TTL of each backup, in seconds
    MaxRunningBackups,  \* the -max-running-backups flag; no maximum unless positive
    Namespaces,         \* the -namespaces flag; AllNamespaces is ""
    ExcludeNamespaces,  \* the -exclude-namespaces flag
    MaxUid,             \* bound: incarnations of one PVCBackup name
    MaxTime,            \* bound: the last second of the clock
    Budget              \* bound: how often each fault happens

AllNamespaces == ""
Never == -1

\* What may go wrong, each at most Budget[f] times.
Faults == {"restart",       \* the operator process is killed and started again
           "listError",     \* a List in FindCurrentRunningBackups fails
           "callError",     \* a call of a reconcile fails and changes nothing
           "lostReply",     \* a write is applied, but the caller sees an error
           "pollTimeout",   \* the cache lags more than 2s behind the API server
           "jobFails",      \* the Job exhausts its BackoffLimit
           "deleteBackup",  \* a user deletes a PVCBackup
           "deleteClaim"}   \* a user deletes a claim

ASSUME NamesAssumption ==
    /\ IsFiniteSet(Backups)
    /\ NoRequest \notin Backups
    /\ PVCName \in [Backups -> Claims]
    /\ TTL \in [Backups -> Nat]
ASSUME BoundsAssumption ==
    /\ MaxRunningBackups \in Int
    /\ MaxUid \in Nat
    /\ MaxTime \in Nat
    /\ Budget \in [Faults -> Nat]
\* cmd/main.go drops "" from a longer -namespaces list.
ASSUME NamespacesAssumption ==
    AllNamespaces \in Namespaces => Namespaces = {AllNamespaces}

VARIABLES
    \* at the API server
    backups,            \* [uid, present, started, finishedAt] of each PVCBackup
    snapshots,          \* [owner, status] of the VolumeSnapshot of each name
    pvcs,               \* [owner, status, data] of each PersistentVolumeClaim
    jobs,               \* [owner, status] of the Job of each name
    \* the informer caches of the operator
    cachedBackups, cachedSnapshots, cachedPvcs, cachedJobs,
    \* the operator process
    queue,              \* the workqueue: backups waiting to be reconciled
    pc,                 \* the next call of the worker
    req,                \* the backup it reconciles
    backup,             \* its copy of the PVCBackup
    found,              \* CurrentRunningBackups is not nil
    running,            \* the keys of CurrentRunningBackups
    \* the rest of the world
    now,                \* the clock, in seconds
    repo,               \* <<b, u>>: restic holds data that incarnation u of b took
    budget              \* faults left

api      == <<backups, snapshots, pvcs, jobs>>
caches   == <<cachedBackups, cachedSnapshots, cachedPvcs, cachedJobs>>
worker   == <<pc, req, backup>>
slots    == <<found, running>>
operator == <<caches, queue, worker, slots>>
vars     == <<api, operator, now, repo, budget>>

-----------------------------------------------------------------------------
(* Objects.  A deleted PVCBackup keeps its last fields, with present FALSE.  *)

NoBackup   == [uid |-> 0, present |-> FALSE, started |-> FALSE, finishedAt |-> Never]
NoSnapshot == [owner |-> 0, status |-> "none"]
NoJob      == [owner |-> 0, status |-> "none"]
NoPvc      == [owner |-> 0, status |-> "none", data |-> 0]
UserPvc    == [owner |-> 0, status |-> "bound", data |-> 0]

BackupObjects   == [uid : 0..MaxUid, present : BOOLEAN, started : BOOLEAN,
                    finishedAt : {Never} \cup (0..MaxTime)]
SnapshotObjects == [owner : 0..MaxUid, status : {"none", "pending", "ready"}]
JobObjects      == [owner : 0..MaxUid, status : {"none", "running", "complete", "failed"}]
PvcObjects      == [owner : 0..MaxUid, status : {"none", "pending", "bound"},
                    data : 0..MaxUid]
PvcNames        == Backups \cup Claims

IsFinished(o) == o.finishedAt # Never

backupIsRunning(o) == o.present /\ o.started /\ ~IsFinished(o)

\* The owner of a child of b is gone: the garbage collector may delete it.
Orphaned(b, child) ==
    /\ child.status # "none"
    /\ child.owner # 0
    /\ ~(backups[b].present /\ backups[b].uid = child.owner)

\* Reconcile works on the backups of these namespaces only.
Handled(b) ==
    /\ NamespaceOf[b] \notin ExcludeNamespaces
    /\ AllNamespaces \in Namespaces \/ NamespaceOf[b] \in Namespaces

\* FindCurrentRunningBackups lists one namespace ("" lists all of them).
ListedIn(namespace) ==
    {b \in Backups : /\ backupIsRunning(cachedBackups[b])
                     /\ namespace \in {AllNamespaces, NamespaceOf[b]}}

\* Mutant of FoundIn: the excluded namespaces are counted when all are listed.
FoundInAny(listed) == UNION {ListedIn(n) : n \in listed}

\* What FindCurrentRunningBackups finds in the namespaces it has listed.
FoundIn(listed) ==
    IF Namespaces = {AllNamespaces}
    THEN {b \in UNION {ListedIn(n) : n \in listed} :
              NamespaceOf[b] \notin ExcludeNamespaces}
    ELSE UNION {ListedIn(n) : n \in listed \ ExcludeNamespaces}

\* The TTL of a finished backup has passed.
Expired(b, o) == o.finishedAt + TTL[b] - now <= 0

\* Mutant of HasLaterSibling: a sibling that finished in the same second counts.
HasSameOrLaterSibling(b) ==
    \E s \in Backups \ {b} :
        /\ cachedBackups[s].present
        /\ NamespaceOf[s] = NamespaceOf[b]
        /\ PVCName[s] = PVCName[b]
        /\ IsFinished(cachedBackups[s])
        /\ cachedBackups[s].finishedAt >= backup.finishedAt

\* A backup of the same claim finished after b did, as far as the cache knows.
\* (The code calls such a sibling "older".)
HasLaterSibling(b) ==
    \E s \in Backups :
        /\ cachedBackups[s].present
        /\ NamespaceOf[s] = NamespaceOf[b]
        /\ PVCName[s] = PVCName[b]
        /\ IsFinished(cachedBackups[s])
        /\ cachedBackups[s].finishedAt > backup.finishedAt

\* Mutant of SlotFor: one backup too many.
SlotOffByOne(b) ==
    \/ b \in running
    \/ MaxRunningBackups <= 0
    \/ Cardinality(running) <= MaxRunningBackups

\* There is a slot for b, or b has one already.
SlotFor(b) ==
    \/ b \in running
    \/ MaxRunningBackups <= 0
    \/ Cardinality(running) < MaxRunningBackups

-----------------------------------------------------------------------------
TypeOK ==
    /\ backups \in [Backups -> BackupObjects]
    /\ snapshots \in [Backups -> SnapshotObjects]
    /\ pvcs \in [PvcNames -> PvcObjects]
    /\ jobs \in [Backups -> JobObjects]
    /\ cachedBackups \in [Backups -> BackupObjects]
    /\ cachedSnapshots \in [Backups -> SnapshotObjects]
    /\ cachedPvcs \in [PvcNames -> PvcObjects]
    /\ cachedJobs \in [Backups -> JobObjects]
    /\ queue \subseteq Backups
    /\ pc \in {"idle", "start", "expired", "cleanSnapshot", "cleanJob", "cleanPvc",
               "getPvc", "setStarted", "snapshot", "claim", "job", "finish", "poll"}
    /\ req \in Backups \cup {NoRequest}
    /\ pc # "idle" => req \in Backups
    /\ backup \in BackupObjects
    /\ found \in BOOLEAN
    /\ running \subseteq Backups
    /\ now \in 0..MaxTime
    /\ repo \subseteq Backups \X (0..MaxUid)
    /\ budget \in [Faults -> Nat]

Init ==
    /\ backups = [b \in Backups |-> NoBackup]
    /\ snapshots = [b \in Backups |-> NoSnapshot]
    /\ pvcs = [n \in PvcNames |-> IF n \in Claims THEN UserPvc ELSE NoPvc]
    /\ jobs = [b \in Backups |-> NoJob]
    /\ cachedBackups = backups
    /\ cachedSnapshots = snapshots
    /\ cachedPvcs = pvcs
    /\ cachedJobs = jobs
    /\ queue = {}
    /\ pc = "idle"
    /\ req = NoRequest
    /\ backup = NoBackup
    /\ found = FALSE
    /\ running = {}
    /\ now = 0
    /\ repo = {}
    /\ budget = Budget

-----------------------------------------------------------------------------
(* How a call of Reconcile continues.                                        *)

Spend(f) ==
    /\ budget[f] > 0
    /\ budget' = [budget EXCEPT ![f] = @ - 1]

\* Continue with the next call, with copy as the local PVCBackup.
Goto(label, copy) ==
    /\ pc' = label
    /\ backup' = copy
    /\ UNCHANGED <<req, queue>>

Finished ==
    /\ pc' = "idle"
    /\ req' = NoRequest
    /\ backup' = NoBackup

\* return ctrl.Result{}, nil: only an event brings the backup back.
Return == Finished /\ UNCHANGED queue

\* return requeueAfter(d), nil, or return an error: the backup is reconciled
\* again after a delay, which is left out.
Requeue == Finished /\ queue' = queue \cup {req}

\* A write has been applied: its caller learns it, or sees an error.
Replied(continue) ==
    \/ continue /\ UNCHANGED budget
    \/ Spend("lostReply") /\ Requeue

\* Create fails with AlreadyExists, Delete with NotFound, Update with Conflict.
Rejected == Requeue /\ UNCHANGED budget

\* Mutant of Current: Status().Patch, which does not look at the resourceVersion.
CurrentUid(base) == backups[req].present /\ backups[req].uid = base.uid

\* Mutant of Current: the last update alone is a Patch.
CurrentUnlessFinishing(base) ==
    IF pc = "finish" THEN backups[req].present ELSE backups[req] = base

\* The resourceVersion of a copy read as base is still the one at the API server.
Current(base) == backups[req] = base

\* Status().Update of a copy read as base: only if nobody wrote in between.
StatusUpdate(base, copy, continue) ==
    \/ /\ Current(base)
       /\ backups' = [backups EXCEPT ![req] = copy]
       /\ Replied(continue)
    \/ /\ ~Current(base)
       /\ Rejected
       /\ UNCHANGED backups

\* Mutant of ReleaseSlot: the backup stays in CurrentRunningBackups.
KeepSlot == UNCHANGED running

\* delete(r.CurrentRunningBackups, qualifiedName)
ReleaseSlot == running' = running \ {req}

\* Mutant of WaitForSlot: a backup that found no slot is not tried again.
WaitForEvent == Return

\* All slots are taken: requeueAfter(30s).
WaitForSlot == Requeue

\* Mutant of KeepLast: the last backup of a claim is not looked at again.
KeepForever == Return

\* The last backup to finish is kept: requeueAfter(TTL, or 1h without one).
KeepLast == Requeue

\* Mutant of setBackupFinished: the time at which the TTL passes is recorded.
setBackupFinishedTTL(o) == [o EXCEPT !.finishedAt = now + TTL[req]]

setBackupFinished(o) == [o EXCEPT !.finishedAt = now]

\* Mutant of JobDone: a Job that failed for good counts too.
JobEnded(job) == job.status \in {"complete", "failed"}

\* CompletionTime is set: on a complete Job only.
JobDone(job) == job.status = "complete"

-----------------------------------------------------------------------------
(* Reconcile, one action per call to the API server or the cache.            *)

Dequeue(b) ==
    /\ pc = "idle"
    /\ b \in queue
    /\ queue' = queue \ {b}
    /\ pc' = "start"
    /\ req' = b
    /\ UNCHANGED <<api, caches, backup, slots, now, repo, budget>>

\* The map is assigned before the namespaces are listed; a List that fails
\* leaves it with what the namespaces listed so far gave.
FindCurrentRunningBackups ==
    /\ pc = "start"
    /\ ~found
    /\ found' = TRUE
    /\ \/ /\ running' = FoundIn(Namespaces)
          /\ UNCHANGED <<worker, queue, budget>>
       \/ /\ Spend("listError")
          /\ \E failed \in Namespaces \ (ExcludeNamespaces \ {AllNamespaces}) :
                 \E listed \in SUBSET (Namespaces \ {failed}) :
                     running' = FoundIn(listed)
          /\ Requeue
    /\ UNCHANGED <<api, caches, now, repo>>

\* The namespace filter, the Get of the PVCBackup and the branch on FinishedAt.
GetBackup ==
    LET seen == cachedBackups[req] IN
    /\ pc = "start"
    /\ found
    /\ \/ /\ ~Handled(req)
          /\ Return
          /\ UNCHANGED running
       \/ /\ Handled(req)
          /\ ~seen.present
          /\ ReleaseSlot
          /\ Return
       \/ /\ Handled(req)
          /\ seen.present
          /\ IsFinished(seen)
          /\ Goto(IF Expired(req, seen) THEN "expired" ELSE "cleanSnapshot", seen)
          /\ UNCHANGED running
       \/ /\ Handled(req)
          /\ seen.present
          /\ ~IsFinished(seen)
          /\ Goto("getPvc", seen)
          /\ UNCHANGED running
    /\ UNCHANGED <<api, caches, found, now, repo, budget>>

\* Deletes by name: whatever PVCBackup has that name now.
DeleteExpired ==
    /\ pc = "expired"
    /\ \/ /\ ~HasLaterSibling(req)
          /\ KeepLast
          /\ UNCHANGED <<backups, budget>>
       \/ /\ HasLaterSibling(req)
          /\ backups[req].present
          /\ backups' = [backups EXCEPT ![req].present = FALSE]
          /\ Replied(Return)
       \/ /\ HasLaterSibling(req)
          /\ ~backups[req].present
          /\ Rejected
          /\ UNCHANGED backups
    /\ UNCHANGED <<snapshots, pvcs, jobs, caches, slots, now, repo>>

CleanSnapshot ==
    /\ pc = "cleanSnapshot"
    /\ snapshots' = [snapshots EXCEPT ![req] = NoSnapshot]
    /\ Replied(Goto("cleanJob", backup))
    /\ UNCHANGED <<backups, pvcs, jobs, caches, slots, now, repo>>

\* Mutant of CleanJob: the cleanup ends here.
CleanJobLast ==
    /\ pc = "cleanJob"
    /\ jobs' = [jobs EXCEPT ![req] = NoJob]
    /\ Replied(Requeue)
    /\ UNCHANGED <<backups, snapshots, pvcs, caches, slots, now, repo>>

CleanJob ==
    /\ pc = "cleanJob"
    /\ jobs' = [jobs EXCEPT ![req] = NoJob]
    /\ Replied(Goto("cleanPvc", backup))
    /\ UNCHANGED <<backups, snapshots, pvcs, caches, slots, now, repo>>

CleanPvc ==
    /\ pc = "cleanPvc"
    /\ pvcs' = [pvcs EXCEPT ![req] = NoPvc]
    /\ Replied(Requeue)
    /\ UNCHANGED <<backups, snapshots, jobs, caches, slots, now, repo>>

\* The Get of the claim to back up, and the slot.
GetPvc ==
    /\ pc = "getPvc"
    /\ \/ /\ cachedPvcs[PVCName[req]].status = "none"
          /\ Requeue
          /\ UNCHANGED running
       \/ /\ cachedPvcs[PVCName[req]].status # "none"
          /\ ~SlotFor(req)
          /\ WaitForSlot
          /\ UNCHANGED running
       \/ /\ cachedPvcs[PVCName[req]].status # "none"
          /\ SlotFor(req)
          /\ running' = running \cup {req}
          /\ Goto(IF backup.started THEN "snapshot" ELSE "setStarted", backup)
    /\ UNCHANGED <<api, caches, found, now, repo, budget>>

SetStarted ==
    LET copy == [backup EXCEPT !.started = TRUE] IN
    /\ pc = "setStarted"
    /\ StatusUpdate(backup, copy, Goto("snapshot", copy))
    /\ UNCHANGED <<snapshots, pvcs, jobs, caches, slots, now, repo>>

\* A snapshot that was just created is not ready: the reconcile ends.
GetOrCreateSnapshot ==
    LET seen == cachedSnapshots[req] IN
    /\ pc = "snapshot"
    /\ \/ /\ seen.status = "none"
          /\ snapshots[req].status = "none"
          /\ snapshots' = [snapshots EXCEPT
                 ![req] = [owner |-> backup.uid, status |-> "pending"]]
          /\ Replied(Return)
       \/ /\ seen.status = "none"
          /\ snapshots[req].status # "none"
          /\ Rejected
          /\ UNCHANGED snapshots
       \/ /\ seen.status = "pending"
          /\ Return
          /\ UNCHANGED <<snapshots, budget>>
       \/ /\ seen.status = "ready"
          /\ Goto("claim", backup)
          /\ UNCHANGED <<snapshots, budget>>
    /\ UNCHANGED <<backups, pvcs, jobs, caches, slots, now, repo>>

\* A claim of this name is used whoever made it.
GetOrCreateClaim ==
    LET seen == cachedPvcs[req] IN
    /\ pc = "claim"
    /\ \/ /\ seen.status = "none"
          /\ pvcs[req].status = "none"
          /\ pvcs' = [pvcs EXCEPT
                 ![req] = [owner |-> backup.uid, status |-> "pending", data |-> 0]]
          /\ Replied(Goto("job", backup))
       \/ /\ seen.status = "none"
          /\ pvcs[req].status # "none"
          /\ Rejected
          /\ UNCHANGED pvcs
       \/ /\ seen.status # "none"
          /\ Goto("job", backup)
          /\ UNCHANGED <<pvcs, budget>>
    /\ UNCHANGED <<backups, snapshots, jobs, caches, slots, now, repo>>

\* Mutant of GetOrCreateJob: the children are deleted before FinishedAt is recorded.
GetOrCreateJobThenClean ==
    LET seen == cachedJobs[req] IN
    /\ pc = "job"
    /\ \/ /\ seen.status = "none"
          /\ jobs[req].status = "none"
          /\ jobs' = [jobs EXCEPT
                 ![req] = [owner |-> backup.uid, status |-> "running"]]
          /\ Replied(Return)
       \/ /\ JobDone(seen)
          /\ Goto("cleanSnapshot", setBackupFinished(backup))
          /\ UNCHANGED <<jobs, budget>>
    /\ UNCHANGED <<backups, snapshots, pvcs, caches, slots, now, repo>>

\* FinishedAt is taken here, before the sleep between backups.
GetOrCreateJob ==
    LET seen == cachedJobs[req] IN
    /\ pc = "job"
    /\ \/ /\ seen.status = "none"
          /\ jobs[req].status = "none"
          /\ jobs' = [jobs EXCEPT
                 ![req] = [owner |-> backup.uid, status |-> "running"]]
          /\ Replied(Return)
       \/ /\ seen.status = "none"
          /\ jobs[req].status # "none"
          /\ Rejected
          /\ UNCHANGED jobs
       \/ /\ seen.status # "none"
          /\ ~JobDone(seen)
          /\ Return
          /\ UNCHANGED <<jobs, budget>>
       \/ /\ JobDone(seen)
          /\ Goto("finish", setBackupFinished(backup))
          /\ UNCHANGED <<jobs, budget>>
    /\ UNCHANGED <<backups, snapshots, pvcs, caches, slots, now, repo>>

\* Mutant of SetFinished: the children are deleted right away.
SetFinishedAndClean ==
    /\ pc = "finish"
    /\ StatusUpdate([backup EXCEPT !.finishedAt = Never], backup,
                    Goto("cleanSnapshot", backup))
    /\ UNCHANGED <<snapshots, pvcs, jobs, caches, slots, now, repo>>

\* Mutant of SetFinished: the slot is released without polling the cache.
SetFinishedAndRelease ==
    /\ pc = "finish"
    /\ StatusUpdate([backup EXCEPT !.finishedAt = Never], backup, Requeue)
    /\ running' = IF backups'[req] = backup THEN running \ {req} ELSE running
    /\ UNCHANGED <<snapshots, pvcs, jobs, caches, found, now, repo>>

\* After the sleep.
SetFinished ==
    /\ pc = "finish"
    /\ StatusUpdate([backup EXCEPT !.finishedAt = Never], backup, Goto("poll", backup))
    /\ UNCHANGED <<snapshots, pvcs, jobs, caches, slots, now, repo>>

\* The poll sees the update, or no PVCBackup (an error: the slot is kept).
Poll ==
    LET seen == cachedBackups[req] IN
    /\ pc = "poll"
    /\ \/ /\ seen.present
          /\ IsFinished(seen)
          /\ ReleaseSlot
       \/ /\ ~seen.present
          /\ UNCHANGED running
    /\ Requeue
    /\ UNCHANGED <<api, caches, found, now, repo, budget>>

\* The poll gives up after 2s, and the slot is kept: the cache lags, or
\* holds the next PVCBackup of this name.
PollTimesOut ==
    LET seen == cachedBackups[req] IN
    /\ pc = "poll"
    /\ seen.present
    /\ ~IsFinished(seen)
    /\ \/ seen.uid = backup.uid /\ Spend("pollTimeout")
       \/ seen.uid # backup.uid /\ UNCHANGED budget
    /\ Requeue
    /\ UNCHANGED <<api, caches, slots, now, repo>>

\* Any other call fails without effect.
CallFails ==
    /\ pc \notin {"idle", "poll"}
    /\ pc = "start" => found /\ Handled(req)
    /\ Spend("callError")
    /\ Requeue
    /\ UNCHANGED <<api, caches, slots, now, repo>>

Reconcile ==
    \/ FindCurrentRunningBackups
    \/ GetBackup
    \/ DeleteExpired
    \/ CleanSnapshot
    \/ CleanJob
    \/ CleanPvc
    \/ GetPvc
    \/ SetStarted
    \/ GetOrCreateSnapshot
    \/ GetOrCreateClaim
    \/ GetOrCreateJob
    \/ SetFinished
    \/ Poll
    \/ PollTimesOut
    \/ CallFails

-----------------------------------------------------------------------------
(* The informers (SetupWithManager: For PVCBackup, Owns the three kinds).    *)
(* A change of an object enqueues the PVCBackup, or the PVCBackup that owns  *)
(* the object; a kind is brought up to date as a whole, as its watch does.   *)

\* Mutant of OwnerRequests: the deletion of a child is no event.
OwnerRequestsIfPresent(cached, actual) ==
    {b \in Backups : cached[b] # actual[b] /\ actual[b].owner # 0}

\* The backups to reconcile because a child changed; a user's claim has no owner.
OwnerRequests(cached, actual) ==
    {b \in Backups : /\ cached[b] # actual[b]
                     /\ cached[b].owner # 0 \/ actual[b].owner # 0}

SyncBackups ==
    /\ cachedBackups # backups
    /\ cachedBackups' = backups
    /\ queue' = queue \cup {b \in Backups : cachedBackups[b] # backups[b]}
    /\ UNCHANGED <<api, cachedSnapshots, cachedPvcs, cachedJobs,
                   worker, slots, now, repo, budget>>

SyncSnapshots ==
    /\ cachedSnapshots # snapshots
    /\ cachedSnapshots' = snapshots
    /\ queue' = queue \cup OwnerRequests(cachedSnapshots, snapshots)
    /\ UNCHANGED <<api, cachedBackups, cachedPvcs, cachedJobs,
                   worker, slots, now, repo, budget>>

SyncPvcs ==
    /\ cachedPvcs # pvcs
    /\ cachedPvcs' = pvcs
    /\ queue' = queue \cup OwnerRequests(cachedPvcs, pvcs)
    /\ UNCHANGED <<api, cachedBackups, cachedSnapshots, cachedJobs,
                   worker, slots, now, repo, budget>>

SyncJobs ==
    /\ cachedJobs # jobs
    /\ cachedJobs' = jobs
    /\ queue' = queue \cup OwnerRequests(cachedJobs, jobs)
    /\ UNCHANGED <<api, cachedBackups, cachedSnapshots, cachedPvcs,
                   worker, slots, now, repo, budget>>

\* A new process: the caches are filled before the worker starts, every
\* PVCBackup and every owner of a child is enqueued, CurrentRunningBackups is nil.
Restart ==
    /\ Spend("restart")
    /\ cachedBackups' = backups
    /\ cachedSnapshots' = snapshots
    /\ cachedPvcs' = pvcs
    /\ cachedJobs' = jobs
    /\ queue' = {b \in Backups : \/ backups[b].present
                                 \/ snapshots[b].owner # 0
                                 \/ pvcs[b].owner # 0
                                 \/ jobs[b].owner # 0}
    /\ Finished
    /\ found' = FALSE
    /\ running' = {}
    /\ UNCHANGED <<api, now, repo>>

-----------------------------------------------------------------------------
(* The rest of the world.                                                    *)

\* By a user, or by the automatic creator (automatic.go).
CreateBackup(b) ==
    /\ ~backups[b].present
    /\ backups[b].uid < MaxUid
    /\ backups' = [backups EXCEPT
           ![b] = [NoBackup EXCEPT !.uid = backups[b].uid + 1, !.present = TRUE]]
    /\ UNCHANGED <<snapshots, pvcs, jobs, operator, now, repo, budget>>

UserDeletesBackup(b) ==
    /\ Spend("deleteBackup")
    /\ backups[b].present
    /\ backups' = [backups EXCEPT ![b].present = FALSE]
    /\ UNCHANGED <<snapshots, pvcs, jobs, operator, now, repo>>

UserDeletesClaim(c) ==
    /\ Spend("deleteClaim")
    /\ pvcs[c] = UserPvc
    /\ pvcs' = [pvcs EXCEPT ![c] = NoPvc]
    /\ UNCHANGED <<backups, snapshots, jobs, operator, now, repo>>

\* Another release of the operator handles the other namespaces.
OtherReleaseStarts(b) ==
    /\ ~Handled(b)
    /\ backups[b].present
    /\ ~backups[b].started
    /\ backups' = [backups EXCEPT ![b].started = TRUE]
    /\ UNCHANGED <<snapshots, pvcs, jobs, operator, now, repo, budget>>

OtherReleaseFinishes(b) ==
    /\ ~Handled(b)
    /\ backupIsRunning(backups[b])
    /\ backups' = [backups EXCEPT ![b].finishedAt = now]
    /\ UNCHANGED <<snapshots, pvcs, jobs, operator, now, repo, budget>>

\* The snapshot controller.
SnapshotReady(b) ==
    /\ snapshots[b].status = "pending"
    /\ snapshots' = [snapshots EXCEPT ![b].status = "ready"]
    /\ UNCHANGED <<backups, pvcs, jobs, operator, now, repo, budget>>

\* The volume provisioner copies the snapshot of this name into the claim.
ProvisionClaim(b) ==
    /\ pvcs[b].status = "pending"
    /\ snapshots[b].status = "ready"
    /\ pvcs' = [pvcs EXCEPT ![b].status = "bound", ![b].data = snapshots[b].owner]
    /\ UNCHANGED <<backups, snapshots, jobs, operator, now, repo, budget>>

\* The Job controller: a Pod mounts the claim of this name and runs restic.sh.
JobCompletes(b) ==
    /\ jobs[b].status = "running"
    /\ pvcs[b].status = "bound"
    /\ jobs' = [jobs EXCEPT ![b].status = "complete"]
    /\ repo' = repo \cup {<<b, pvcs[b].data>>}
    /\ UNCHANGED <<backups, snapshots, pvcs, operator, now, budget>>

JobFails(b) ==
    /\ Spend("jobFails")
    /\ jobs[b].status = "running"
    /\ jobs' = [jobs EXCEPT ![b].status = "failed"]
    /\ UNCHANGED <<backups, snapshots, pvcs, operator, now, repo>>

\* The garbage collector deletes the children of a deleted PVCBackup.
Collect(b) ==
    /\ \/ /\ Orphaned(b, snapshots[b])
          /\ snapshots' = [snapshots EXCEPT ![b] = NoSnapshot]
          /\ UNCHANGED <<pvcs, jobs>>
       \/ /\ Orphaned(b, pvcs[b])
          /\ pvcs' = [pvcs EXCEPT ![b] = NoPvc]
          /\ UNCHANGED <<snapshots, jobs>>
       \/ /\ Orphaned(b, jobs[b])
          /\ jobs' = [jobs EXCEPT ![b] = NoJob]
          /\ UNCHANGED <<snapshots, pvcs>>
    /\ UNCHANGED <<backups, operator, now, repo, budget>>

Tick ==
    /\ now < MaxTime
    /\ now' = now + 1
    /\ UNCHANGED <<api, operator, repo, budget>>

Cluster(b) ==
    \/ SnapshotReady(b)
    \/ ProvisionClaim(b)
    \/ JobCompletes(b)
    \/ Collect(b)

Environment(b) ==
    \/ CreateBackup(b)
    \/ UserDeletesBackup(b)
    \/ OtherReleaseStarts(b)
    \/ OtherReleaseFinishes(b)
    \/ JobFails(b)

Next ==
    \/ Reconcile
    \/ \E b \in Backups : Dequeue(b) \/ Cluster(b) \/ Environment(b)
    \/ SyncBackups \/ SyncSnapshots \/ SyncPvcs \/ SyncJobs
    \/ Restart
    \/ \E c \in Claims : UserDeletesClaim(c)
    \/ Tick

Spec == Init /\ [][Next]_vars

-----------------------------------------------------------------------------
(* Fairness.  The workqueue is first in, first out, and a reconcile ends, so *)
(* a queued backup has its turn (strong: the worker is busy in between).     *)
(* The worker, the informers, the clock and the cluster's controllers keep   *)
(* going.  Nothing makes a user act or a fault happen.                       *)

Fairness ==
    /\ \A b \in Backups : SF_vars(Dequeue(b))
    /\ WF_vars(Reconcile)
    /\ WF_vars(SyncBackups)
    /\ WF_vars(SyncSnapshots)
    /\ WF_vars(SyncPvcs)
    /\ WF_vars(SyncJobs)
    /\ WF_vars(Tick)
    /\ \A b \in Backups : WF_vars(Cluster(b))

FairSpec == Spec /\ Fairness

-----------------------------------------------------------------------------
(* Safety.                                                                   *)

\* The PVCBackups this release works on that are started and not finished.
Active == {b \in Backups : Handled(b) /\ backupIsRunning(backups[b])}

\* Never more than MaxRunningBackups backups are running, however stale the
\* caches and wherever the process was killed: the slot check of Reconcile
\* and what FindCurrentRunningBackups finds after a restart agree with the
\* API server.
RunningLimit ==
    MaxRunningBackups > 0 => Cardinality(Active) <= MaxRunningBackups

\* A slot is held for a backup that this release handles, never for one that
\* another release is running in a namespace excluded here.
SlotsOnlyHandled == \A b \in running : Handled(b)

\* Once the operator itself can see that a backup is finished, the backup
\* holds no slot, except while the poll that releases it is under way.
NoLeakedSlot ==
    \A b \in running :
        cachedBackups[b].present /\ IsFinished(cachedBackups[b])
            => pc = "poll" /\ req = b

\* A PVCBackup that says Succeeded has its own data in the restic repository:
\* taken from a snapshot that was made for it.
SucceededMeansBackedUp ==
    \A b \in Backups :
        Handled(b) /\ backups[b].present /\ IsFinished(backups[b])
            => <<b, backups[b].uid>> \in repo

\* Reconcile returns without asking for a requeue where an event is sure to
\* come: an unfinished backup that nobody will reconcile waits for its
\* snapshot or for its Job.
NoLostWakeup ==
    \A b \in Backups :
        /\ Handled(b)
        /\ backups[b].present
        /\ ~IsFinished(backups[b])
        /\ caches = api
        /\ pc = "idle"
        /\ b \notin queue
        => /\ b \in running
           /\ backups[b].started
           /\ \/ snapshots[b].status = "pending"
              \/ jobs[b].status \in {"running", "failed"}

\* s is a backup of the same claim as b.
Siblings(b, s) == NamespaceOf[s] = NamespaceOf[b] /\ PVCName[s] = PVCName[b]

\* The last backup to finish for a claim is kept: for every PVCBackup that
\* ever finished, even if it was deleted by now, one that finished at the
\* same second or later still exists.
NewestFinishedKept ==
    \A b \in Backups :
        IsFinished(backups[b]) =>
            \E s \in Backups : /\ Siblings(b, s)
                              /\ backups[s].present
                              /\ backups[s].finishedAt >= backups[b].finishedAt

-----------------------------------------------------------------------------
(* Action properties.                                                        *)

\* FinishedAt is written once: a reconcile that works on a stale copy can not
\* finish a backup a second time.
FinishedIsFinal ==
    [][\A b \in Backups :
           IsFinished(backups[b]) /\ backups'[b].uid = backups[b].uid
               => backups'[b].finishedAt = backups[b].finishedAt]_vars

\* Nothing is created for a backup that is finished: what the cleanup deleted
\* is not made again from a stale view of the PVCBackup.
NoResurrection ==
    [][\A b \in Backups :
           IsFinished(backups[b]) =>
               /\ snapshots[b].status = "none" => snapshots'[b].status = "none"
               /\ pvcs[b].status = "none" => pvcs'[b].status = "none"
               /\ jobs[b].status = "none" => jobs'[b].status = "none"]_vars

\* What is made for a backup is kept until the API server has it as finished.  The
\* cleanup deletes by name, and a user may delete the PVCBackup and create it again
\* meanwhile: it does not take the children of the new one for those of the old.
Keeps(b, child, next) ==
    child.status # "none" /\ child.owner = backups[b].uid => next.status # "none"

NotCleanedEarly ==
    [][\A b \in Backups :
           backups[b].present /\ ~IsFinished(backups[b]) =>
               /\ Keeps(b, snapshots[b], snapshots'[b])
               /\ Keeps(b, pvcs[b], pvcs'[b])
               /\ Keeps(b, jobs[b], jobs'[b])]_vars

-----------------------------------------------------------------------------
(* Refinement.                                                               *)

\* The phase of a PVCBackup, as its status shows it at the API server.
Phase(o) ==
    CASE ~o.present                                 -> "absent"
      [] o.present /\ IsFinished(o)                 -> "finished"
      [] o.present /\ ~IsFinished(o) /\ o.started   -> "running"
      [] o.present /\ ~IsFinished(o) /\ ~o.started  -> "requested"

HandledBackups == {b \in Backups : Handled(b)}

Lifecycle == INSTANCE BackupLifecycle WITH
    Backups <- HandledBackups,
    Limit   <- MaxRunningBackups,
    phase   <- [b \in HandledBackups |-> Phase(backups[b])],
    stored  <- {b \in HandledBackups : <<b, backups[b].uid>> \in repo}

\* Whatever the caches, the workqueue and the process do, the PVCBackups only
\* ever go through their phases in order, within the limit, and are finished
\* after their own data was stored.
ImplementsLifecycle == Lifecycle!Spec

-----------------------------------------------------------------------------
(* Liveness, under FairSpec.                                                 *)

NoChildren(b) ==
    /\ snapshots[b].status = "none"
    /\ pvcs[b].status = "none"
    /\ jobs[b].status = "none"

\* Every PVCBackup is finished in the end, also the ones that had to wait for
\* a slot (or it is deleted).
EveryBackupFinishes ==
    \A b \in Backups :
        Handled(b) /\ backups[b].present
            ~> ~backups[b].present \/ IsFinished(backups[b])

\* The snapshot, the claim and the Job of a finished backup are gone in the
\* end.
CleanedUp ==
    \A b \in Backups :
        Handled(b) /\ IsFinished(backups[b]) ~> NoChildren(b)

\* A finished backup whose TTL has passed, and which is not the last to
\* finish for its claim, is deleted.
ExpiredIsDeleted ==
    \A b \in Backups : \A s \in Backups \ {b} :
        (/\ Handled(b)
         /\ Siblings(b, s)
         /\ backups[s].present
         /\ IsFinished(backups[b])
         /\ backups[s].finishedAt > backups[b].finishedAt
         /\ Expired(b, backups[b]))
            ~> ~backups[b].present \/ ~backups[s].present

\* A deleted PVCBackup gives its slot back.
DeletedFreesSlot ==
    \A b \in Backups :
        ~backups[b].present ~> b \notin running \/ backups[b].present

\* A Job that failed for good is recorded on its PVCBackup.
FailureIsReported ==
    \A b \in Backups :
        Handled(b) /\ backups[b].present /\ jobs[b].status = "failed"
            ~> ~backups[b].present \/ IsFinished(backups[b])
=============================================================================
