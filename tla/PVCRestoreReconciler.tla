------------------------ MODULE PVCRestoreReconciler ------------------------
(***************************************************************************)
(* The PVCRestore controller, internal/controller/pvcrestore_controller.go.*)
(*                                                                         *)
(* A reconcile creates the target claim, annotated with the UID of the     *)
(* PVCRestore, and a Job that fills it with restic; when the Job is        *)
(* complete it takes the annotation away and records the result.  A claim  *)
(* or a Job that carries another UID, or none, makes the restore fail.     *)
(*                                                                         *)
(* The API server, the caches, the workqueue and the faults are those of   *)
(* PVCBackupReconciler; the operator owns Jobs here, but not the claims.   *)
(***************************************************************************)
EXTENDS Integers, FiniteSets

CONSTANTS
    Restores,           \* names of PVCRestore objects (namespace included)
    Claims,             \* names of PersistentVolumeClaims
    NoRequest,          \* the idle worker's request
    NoTarget,           \* the target of a restore without any PVC name
    Target,             \* Spec.TargetPVC, or Spec.SourcePVC if it is empty
    HandledRestores,    \* the restores in the namespaces of this release
    MaxUid,             \* bound: incarnations of one PVCRestore name
    Budget              \* bound: how often each fault happens

Faults == {"restart", "callError", "lostReply",
           "jobFails",       \* the Job exhausts its BackoffLimit
           "deleteRestore",  \* a user deletes a PVCRestore
           "createClaim"}    \* a user creates a claim

ASSUME RestoresAssumption ==
    /\ NoRequest \notin Restores
    /\ NoTarget \notin Claims
    /\ Target \in [Restores -> Claims \cup {NoTarget}]
    /\ HandledRestores \subseteq Restores
    /\ MaxUid \in Nat
    /\ Budget \in [Faults -> Nat]

VARIABLES
    \* at the API server
    restores,           \* [uid, present, started, result] of each PVCRestore
    pvcs,               \* [status, restoring] of each claim
    jobs,               \* [owner, status] of the Job of each name
    \* the informer caches of the operator
    cachedRestores, cachedPvcs, cachedJobs,
    \* the operator process
    queue,              \* the workqueue
    pc,                 \* the next call of the worker
    req,                \* the restore it reconciles
    restore, pvc,       \* its copies of the PVCRestore and of the claim
    \* the rest of the world
    creator,            \* who made each claim: a UID, or NoUid for a user
    written,            \* the UIDs whose Job wrote to each claim
    restored,           \* the UIDs whose Job filled each claim completely
    budget              \* faults left

api    == <<restores, pvcs, jobs>>
caches == <<cachedRestores, cachedPvcs, cachedJobs>>
worker == <<pc, req, restore, pvc>>
data   == <<creator, written, restored>>
vars   == <<api, caches, queue, worker, data, budget>>

-----------------------------------------------------------------------------
NoUid     == <<NoRequest, 0>>
NoRestore == [uid |-> 0, present |-> FALSE, started |-> FALSE, result |-> "none"]
NoPvc     == [status |-> "none", restoring |-> NoUid]
NoJob     == [owner |-> 0, status |-> "none"]

Uids           == Restores \X (1..MaxUid)
RestoreObjects == [uid : 0..MaxUid, present : BOOLEAN, started : BOOLEAN,
                   result : {"none", "Succeeded", "Failed"}]
PvcObjects     == [status : {"none", "pending", "bound"}, restoring : Uids \cup {NoUid}]
JobObjects     == [owner : 0..MaxUid, status : {"none", "running", "complete", "failed"}]

IsFinished(o) == o.result # "none"

\* Mutant of UID: the annotation is made before the PVCRestore was read.
UIDBeforeGet(o) == <<req, 0>>

\* The UID of the PVCRestore that is reconciled.
UID(o) == <<req, o.uid>>

\* Mutant of MarkedByUs: any claim that is being restored will do.
Marked(claim) == claim.restoring # NoUid

\* The claim carries the restoring annotation of the PVCRestore that is reconciled.
MarkedByUs(claim) == claim.restoring = UID(restore)

\* Mutant of JobDone: a Job that failed for good counts too.
JobEnded(job) == job.status \in {"complete", "failed"}

\* CompletionTime is set: on a complete Job only.
JobDone(job) == job.status = "complete"

setRestoreFinished(o, result) == [o EXCEPT !.result = result]

-----------------------------------------------------------------------------
TypeOK ==
    /\ restores \in [Restores -> RestoreObjects]
    /\ cachedRestores \in [Restores -> RestoreObjects]
    /\ pvcs \in [Claims -> PvcObjects]
    /\ cachedPvcs \in [Claims -> PvcObjects]
    /\ jobs \in [Restores -> JobObjects]
    /\ cachedJobs \in [Restores -> JobObjects]
    /\ queue \subseteq Restores
    /\ pc \in {"idle", "start", "setStarted", "pvc", "job", "unmark", "finish"}
    /\ req \in Restores \cup {NoRequest}
    /\ pc # "idle" => req \in Restores
    /\ restore \in RestoreObjects
    /\ pvc \in PvcObjects
    /\ creator \in [Claims -> Uids \cup {NoUid}]
    /\ written \in [Claims -> SUBSET Uids]
    /\ restored \in [Claims -> SUBSET Uids]
    /\ budget \in [Faults -> Nat]

Init ==
    /\ restores = [r \in Restores |-> NoRestore]
    /\ pvcs = [c \in Claims |-> NoPvc]
    /\ jobs = [r \in Restores |-> NoJob]
    /\ cachedRestores = restores
    /\ cachedPvcs = pvcs
    /\ cachedJobs = jobs
    /\ queue = {}
    /\ pc = "idle"
    /\ req = NoRequest
    /\ restore = NoRestore
    /\ pvc = NoPvc
    /\ creator = [c \in Claims |-> NoUid]
    /\ written = [c \in Claims |-> {}]
    /\ restored = [c \in Claims |-> {}]
    /\ budget = Budget

-----------------------------------------------------------------------------
(* How a call of Reconcile continues.                                        *)

Spend(f) ==
    /\ budget[f] > 0
    /\ budget' = [budget EXCEPT ![f] = @ - 1]

\* Continue with the next call, with these copies.
Goto(label, restoreCopy, pvcCopy) ==
    /\ pc' = label
    /\ restore' = restoreCopy
    /\ pvc' = pvcCopy
    /\ UNCHANGED <<req, queue>>

\* setRestoreFinished and Status().Update.
Finish(result) == Goto("finish", setRestoreFinished(restore, result), pvc)

Finished ==
    /\ pc' = "idle"
    /\ req' = NoRequest
    /\ restore' = NoRestore
    /\ pvc' = NoPvc

\* return ctrl.Result{}, nil: only an event brings the restore back.
Return == Finished /\ UNCHANGED queue

\* return an error: the restore is reconciled again.
Requeue == Finished /\ queue' = queue \cup {req}

\* A write has been applied: its caller learns it, or sees an error.
Replied(continue, failure) ==
    \/ continue /\ UNCHANGED budget
    \/ Spend("lostReply") /\ failure

\* Mutant of Current: Status().Patch, which does not look at the resourceVersion.
CurrentUid(base) == restores[req].present /\ restores[req].uid = base.uid

\* The resourceVersion of a copy read as base is still the one at the API server.
Current(base) == restores[req] = base

StatusUpdate(base, copy, continue) ==
    \/ /\ Current(base)
       /\ restores' = [restores EXCEPT ![req] = copy]
       /\ Replied(continue, Requeue)
    \/ /\ ~Current(base)
       /\ Requeue
       /\ UNCHANGED <<restores, budget>>

-----------------------------------------------------------------------------
(* Reconcile, one action per call to the API server or the cache.            *)

Dequeue(r) ==
    /\ pc = "idle"
    /\ r \in queue
    /\ queue' = queue \ {r}
    /\ pc' = "start"
    /\ req' = r
    /\ UNCHANGED <<api, caches, restore, pvc, data, budget>>

\* The namespace filter, the Get, and the checks up to StartedAt.
GetRestore ==
    LET seen == cachedRestores[req]
        ours == req \in HandledRestores /\ seen.present /\ ~IsFinished(seen) IN
    /\ pc = "start"
    /\ \/ ~ours /\ Return
       \/ ours /\ Target[req] = NoTarget /\ Requeue
       \/ /\ ours
          /\ Target[req] # NoTarget
          /\ Goto(IF seen.started THEN "pvc" ELSE "setStarted", seen, NoPvc)
    /\ UNCHANGED <<api, caches, data, budget>>

SetStarted ==
    LET copy == [restore EXCEPT !.started = TRUE] IN
    /\ pc = "setStarted"
    /\ StatusUpdate(restore, copy, Goto("pvc", copy, pvc))
    /\ UNCHANGED <<pvcs, jobs, caches, data>>

\* The claim must be ours: not there yet, or annotated with our UID.
GetOrCreatePvc ==
    LET target == Target[req]
        seen   == cachedPvcs[target]
        new    == [status |-> "pending", restoring |-> UID(restore)] IN
    /\ pc = "pvc"
    /\ \/ /\ seen.status = "none"
          /\ pvcs[target].status = "none"
          /\ pvcs' = [pvcs EXCEPT ![target] = new]
          /\ creator' = [creator EXCEPT ![target] = UID(restore)]
          /\ Replied(Goto("job", restore, new), Requeue)
       \/ /\ seen.status = "none"
          /\ pvcs[target].status # "none"
          /\ Requeue
          /\ UNCHANGED <<pvcs, creator, budget>>
       \/ /\ seen.status # "none"
          /\ IF MarkedByUs(seen) THEN Goto("job", restore, seen) ELSE Finish("Failed")
          /\ UNCHANGED <<pvcs, creator, budget>>
    /\ UNCHANGED <<restores, jobs, caches, written, restored>>

\* A Job must be ours too; its annotation and its owner are the same UID.
GetOrCreateJob ==
    LET seen == cachedJobs[req] IN
    /\ pc = "job"
    /\ \/ /\ seen.status = "none"
          /\ jobs[req].status = "none"
          /\ jobs' = [jobs EXCEPT ![req] = [owner |-> restore.uid, status |-> "running"]]
          /\ Replied(Return, Requeue)
       \/ /\ seen.status = "none"
          /\ jobs[req].status # "none"
          /\ Requeue
          /\ UNCHANGED <<jobs, budget>>
       \/ /\ seen.status # "none"
          /\ \/ seen.owner # restore.uid /\ Finish("Failed")
             \/ seen.owner = restore.uid /\ ~JobDone(seen) /\ Return
             \/ seen.owner = restore.uid /\ JobDone(seen) /\ Goto("unmark", restore, pvc)
          /\ UNCHANGED <<jobs, budget>>
    /\ UNCHANGED <<restores, pvcs, caches, data>>

\* The annotation is taken away; when that fails, so does the restore.
UnmarkPvc ==
    LET target == Target[req] IN
    /\ pc = "unmark"
    /\ \/ /\ pvcs[target] = pvc
          /\ pvcs' = [pvcs EXCEPT ![target].restoring = NoUid]
          /\ Replied(Finish("Succeeded"), Finish("Failed"))
       \/ /\ pvcs[target] # pvc
          /\ Finish("Failed")
          /\ UNCHANGED <<pvcs, budget>>
       \/ /\ Spend("callError")
          /\ Finish("Failed")
          /\ UNCHANGED pvcs
    /\ UNCHANGED <<restores, jobs, caches, data>>

SetFinished ==
    /\ pc = "finish"
    /\ StatusUpdate([restore EXCEPT !.result = "none"], restore, Return)
    /\ UNCHANGED <<pvcs, jobs, caches, data>>

\* Any other call fails without effect.
CallFails ==
    /\ pc \notin {"idle", "unmark"}
    /\ req \in HandledRestores
    /\ Spend("callError")
    /\ Requeue
    /\ UNCHANGED <<api, caches, data>>

Reconcile ==
    \/ GetRestore
    \/ SetStarted
    \/ GetOrCreatePvc
    \/ GetOrCreateJob
    \/ UnmarkPvc
    \/ SetFinished
    \/ CallFails

-----------------------------------------------------------------------------
(* The informers: For PVCRestore, Owns Job.  The claims have no owner, so    *)
(* that they outlive the PVCRestore, and their changes are no events.        *)

SyncRestores ==
    /\ cachedRestores # restores
    /\ cachedRestores' = restores
    /\ queue' = queue \cup {r \in Restores : cachedRestores[r] # restores[r]}
    /\ UNCHANGED <<api, cachedPvcs, cachedJobs, worker, data, budget>>

SyncPvcs ==
    /\ cachedPvcs # pvcs
    /\ cachedPvcs' = pvcs
    /\ UNCHANGED <<api, cachedRestores, cachedJobs, queue, worker, data, budget>>

\* Mutant of SyncJobs: without Owns(&batchv1.Job{}) there is no event.
SyncJobsQuietly ==
    /\ cachedJobs # jobs
    /\ cachedJobs' = jobs
    /\ UNCHANGED <<api, cachedRestores, cachedPvcs, queue, worker, data, budget>>

SyncJobs ==
    /\ cachedJobs # jobs
    /\ cachedJobs' = jobs
    /\ queue' = queue \cup {r \in Restores : cachedJobs[r] # jobs[r]}
    /\ UNCHANGED <<api, cachedRestores, cachedPvcs, worker, data, budget>>

Restart ==
    /\ Spend("restart")
    /\ cachedRestores' = restores
    /\ cachedPvcs' = pvcs
    /\ cachedJobs' = jobs
    /\ queue' = {r \in Restores : restores[r].present \/ jobs[r].owner # 0}
    /\ Finished
    /\ UNCHANGED <<api, data>>

-----------------------------------------------------------------------------
(* The rest of the world.                                                    *)

operator == <<caches, queue, worker>>

CreateRestore(r) ==
    /\ ~restores[r].present
    /\ restores[r].uid < MaxUid
    /\ restores' = [restores EXCEPT
           ![r] = [NoRestore EXCEPT !.uid = restores[r].uid + 1, !.present = TRUE]]
    /\ UNCHANGED <<pvcs, jobs, operator, data, budget>>

DeleteRestore(r) ==
    /\ Spend("deleteRestore")
    /\ restores[r].present
    /\ restores' = [restores EXCEPT ![r].present = FALSE]
    /\ UNCHANGED <<pvcs, jobs, operator, data>>

UserCreatesClaim(c) ==
    /\ Spend("createClaim")
    /\ pvcs[c].status = "none"
    /\ pvcs' = [pvcs EXCEPT ![c].status = "pending"]
    /\ UNCHANGED <<restores, jobs, operator, data>>

BindClaim(c) ==
    /\ pvcs[c].status = "pending"
    /\ pvcs' = [pvcs EXCEPT ![c].status = "bound"]
    /\ UNCHANGED <<restores, jobs, operator, data, budget>>

\* The Pod of the Job mounts the target claim and runs restic restore.
JobCompletes(r) ==
    LET target == Target[r] IN
    /\ jobs[r].status = "running"
    /\ pvcs[target].status = "bound"
    /\ jobs' = [jobs EXCEPT ![r].status = "complete"]
    /\ written' = [written EXCEPT ![target] = @ \cup {<<r, jobs[r].owner>>}]
    /\ restored' = [restored EXCEPT ![target] = @ \cup {<<r, jobs[r].owner>>}]
    /\ UNCHANGED <<restores, pvcs, operator, creator, budget>>

JobFails(r) ==
    LET target == Target[r] IN
    /\ Spend("jobFails")
    /\ jobs[r].status = "running"
    /\ pvcs[target].status = "bound"
    /\ jobs' = [jobs EXCEPT ![r].status = "failed"]
    /\ written' = [written EXCEPT ![target] = @ \cup {<<r, jobs[r].owner>>}]
    /\ UNCHANGED <<restores, pvcs, operator, creator, restored>>

CollectJob(r) ==
    /\ jobs[r].status # "none"
    /\ ~(restores[r].present /\ restores[r].uid = jobs[r].owner)
    /\ jobs' = [jobs EXCEPT ![r] = NoJob]
    /\ UNCHANGED <<restores, pvcs, operator, data, budget>>

Next ==
    \/ Reconcile
    \/ \E r \in Restores :
           \/ Dequeue(r) \/ CreateRestore(r) \/ DeleteRestore(r)
           \/ JobCompletes(r) \/ JobFails(r) \/ CollectJob(r)
    \/ \E c \in Claims : UserCreatesClaim(c) \/ BindClaim(c)
    \/ SyncRestores \/ SyncPvcs \/ SyncJobs
    \/ Restart

Spec == Init /\ [][Next]_vars

\* As for PVCBackupReconciler: the queue is first in, first out, and the
\* worker, the informers and the cluster's controllers keep going.
Fairness ==
    /\ \A r \in Restores : /\ SF_vars(Dequeue(r))
                           /\ WF_vars(JobCompletes(r))
                           /\ WF_vars(CollectJob(r))
    /\ \A c \in Claims : WF_vars(BindClaim(c))
    /\ WF_vars(Reconcile)
    /\ WF_vars(SyncRestores)
    /\ WF_vars(SyncPvcs)
    /\ WF_vars(SyncJobs)

FairSpec == Spec /\ Fairness

-----------------------------------------------------------------------------
(* Properties.                                                               *)

\* A restore Job writes only to a claim that its own PVCRestore created:
\* never to one a user made, and never to one another restore is filling.
NeverOverwrites ==
    \A c \in Claims : \A u \in written[c] : u = creator[c]

\* A restore that says Succeeded has filled its target completely, and has
\* handed it over: the restoring annotation is gone.
SucceededMeansRestored ==
    \A r \in Restores :
        restores[r].present /\ restores[r].result = "Succeeded" =>
            /\ <<r, restores[r].uid>> \in restored[Target[r]]
            /\ pvcs[Target[r]].restoring = NoUid

\* A restore that says Failed has not filled its target.
FailedMeansNotRestored ==
    \A r \in Restores :
        restores[r].present /\ restores[r].result = "Failed" =>
            <<r, restores[r].uid>> \notin restored[Target[r]]

\* An unfinished restore that nobody will reconcile waits for its own Job.
NoLostWakeup ==
    \A r \in HandledRestores :
        /\ restores[r].present
        /\ ~IsFinished(restores[r])
        /\ caches = api
        /\ pc = "idle"
        /\ r \notin queue
        => /\ jobs[r].status \in {"running", "failed"}
           /\ jobs[r].owner = restores[r].uid

\* The result is written once: a reconcile that sees the claim without its
\* annotation, but not yet the result, can not turn Succeeded into Failed.
ResultIsFinal ==
    [][\A r \in Restores :
           IsFinished(restores[r]) /\ restores'[r].uid = restores[r].uid
               => restores'[r].result = restores[r].result]_vars

\* Every restore with a target has a result in the end (or is deleted).
EveryRestoreFinishes ==
    \A r \in HandledRestores :
        restores[r].present /\ Target[r] # NoTarget
            ~> ~restores[r].present \/ IsFinished(restores[r])
=============================================================================
