-------------------------- MODULE PVCRestoreProofs --------------------------
(***************************************************************************)
(* Proofs about PVCRestoreReconciler, for every number of restores, claims *)
(* and incarnations, every assignment of targets and every budget of       *)
(* faults.                                                                 *)
(***************************************************************************)
EXTENDS PVCRestoreReconciler, TLAPS

-----------------------------------------------------------------------------
(* Inductive invariants.                                                     *)

\* Objects that exist have a UID; past GetRestore the worker has a copy of
\* such a PVCRestore, and a target.
UidInv ==
    /\ \A r \in Restores :
           /\ restores[r].present => restores[r].uid > 0
           /\ cachedRestores[r].present => cachedRestores[r].uid > 0
           /\ jobs[r].status # "none" => jobs[r].owner > 0 /\ Target[r] \in Claims
           /\ cachedJobs[r].status # "none" => Target[r] \in Claims
    /\ pc \notin {"idle", "start"} => restore.uid > 0 /\ Target[req] \in Claims

TypeInv == TypeOK /\ UidInv

\* A claim that does not exist has no history; the restoring annotation, in
\* the cache too, is the UID of the restore that made the claim, or is gone.
ClaimInv ==
    \A c \in Claims :
        /\ pvcs[c].status = "none" =>
               /\ pvcs[c].restoring = NoUid
               /\ creator[c] = NoUid
               /\ written[c] = {}
        /\ pvcs[c].restoring \in {NoUid, creator[c]}
        /\ cachedPvcs[c].restoring \in {NoUid, creator[c]}

\* A Job, and a worker past GetOrCreatePvc, belong to the restore that made
\* their target.
OwnerInv ==
    /\ \A r \in Restores :
           jobs[r].status # "none" => creator[Target[r]] = <<r, jobs[r].owner>>
    /\ pc \in {"job", "unmark"} => creator[Target[req]] = <<req, restore.uid>>

OverwriteInv == ClaimInv /\ OwnerInv /\ NeverOverwrites

\* Incarnation u of r has filled its target and has handed it over.
HandedOver(r, u) ==
    /\ Target[r] \in Claims
    /\ <<r, u>> \in restored[Target[r]]
    /\ pvcs[Target[r]].status # "none"
    /\ pvcs[Target[r]].restoring = NoUid

\* What the result Succeeded is derived from: the objects,
ObjectResults ==
    \A r \in Restores :
        /\ jobs[r].status = "complete" => <<r, jobs[r].owner>> \in restored[Target[r]]
        /\ cachedJobs[r].status = "complete" =>
               <<r, cachedJobs[r].owner>> \in restored[Target[r]]
        /\ restores[r].result = "Succeeded" => HandedOver(r, restores[r].uid)

\* and the worker, step by step.
WorkerResults ==
    /\ pc \notin {"idle", "start", "finish"} => restore.result = "none"
    /\ pc = "unmark" => <<req, restore.uid>> \in restored[Target[req]]
    /\ pc = "finish" /\ restore.result = "Succeeded" => HandedOver(req, restore.uid)

ResultInv == ObjectResults /\ WorkerResults

\* A Job that is in the cache is only replaced after the cache has seen it go.
JobLag(r) ==
    /\ jobs[r].owner <= restores[r].uid
    /\ cachedJobs[r].owner <= restores[r].uid
    /\ cachedJobs[r].status # "none" =>
           \/ /\ jobs[r].status # "none"
              /\ jobs[r].owner = cachedJobs[r].owner
              /\ cachedJobs[r].status # "running" => jobs[r] = cachedJobs[r]
           \/ /\ jobs[r].status = "none"
              /\ ~(restores[r].present /\ restores[r].uid = cachedJobs[r].owner)

\* The caches and the worker are behind the API server.
LagInv ==
    /\ \A r \in Restores : cachedRestores[r].uid <= restores[r].uid /\ JobLag(r)
    /\ pc \notin {"idle", "start"} => restore.uid <= restores[req].uid
    /\ pc = "finish" => IsFinished(restore)

\* Neither queued nor being reconciled.
Quiet(r) == r \notin queue /\ (pc = "idle" \/ req # r)

\* An unfinished restore that is quiet and up to date in the cache waits for its
\* Job, which is not complete, or the cache does not know it yet.
Waiting(r) ==
    /\ Quiet(r)
    /\ cachedRestores[r] = restores[r]
    /\ restores[r].present
    /\ ~IsFinished(restores[r])
    => /\ jobs[r].status # "none"
       /\ jobs[r].owner = restores[r].uid
       /\ cachedJobs[r] = jobs[r] => jobs[r].status # "complete"

\* While a PVCRestore is reconciled, a new incarnation of it in the cache has
\* put it into the queue again.
WakeupInv ==
    /\ pc \notin {"idle", "start"} /\ req \notin queue
           => cachedRestores[req].uid = restore.uid
    /\ \A r \in HandledRestores : Waiting(r)

-----------------------------------------------------------------------------
(* Type correctness.                                                         *)

\* Every kind of object is well typed when it does not exist.
LEMMA ObjectTypes ==
    /\ NoRestore \in RestoreObjects
    /\ NoPvc \in PvcObjects
    /\ NoJob \in JobObjects
BY RestoresAssumption DEF NoRestore, NoPvc, NoJob, RestoreObjects, PvcObjects, JobObjects

\* The updates of a PVCRestore keep it well typed.
LEMMA RestoreUpdateTypes ==
    ASSUME NEW o \in RestoreObjects
    PROVE  /\ o.uid \in 0..MaxUid
           /\ [o EXCEPT !.present = FALSE] \in RestoreObjects
           /\ [o EXCEPT !.started = TRUE] \in RestoreObjects
           /\ \A x \in {"none", "Succeeded", "Failed"} :
                  [o EXCEPT !.result = x] \in RestoreObjects
BY DEF RestoreObjects

\* A deleted PVCRestore keeps its other fields.
LEMMA DeletedFields ==
    ASSUME NEW o \in RestoreObjects
    PROVE  LET gone == [o EXCEPT !.present = FALSE]
           IN  /\ ~gone.present
               /\ gone.uid = o.uid
               /\ gone.result = o.result
BY DEF RestoreObjects

\* A new PVCRestore has a UID of its own and nothing else.
LEMMA NewRestoreFields ==
    ASSUME NEW u \in 1..MaxUid
    PROVE  LET new == [NoRestore EXCEPT !.uid = u, !.present = TRUE]
           IN  /\ new \in RestoreObjects
               /\ new.uid = u
               /\ new.result = "none"
<1> DEFINE new == [NoRestore EXCEPT !.uid = u, !.present = TRUE]
<1>0. u \in 0..MaxUid
  OBVIOUS
<1>1. new \in RestoreObjects
  BY <1>0 DEF NoRestore, RestoreObjects
<1>2. new.uid = u
  BY DEF NoRestore
<1>3. new.result = "none"
  BY DEF NoRestore
<1> QED
  BY <1>1, <1>2, <1>3

\* So do the updates of a claim,
LEMMA PvcUpdateTypes ==
    ASSUME NEW o \in PvcObjects
    PROVE  /\ [o EXCEPT !.restoring = NoUid] \in PvcObjects
           /\ \A x \in {"pending", "bound"} : [o EXCEPT !.status = x] \in PvcObjects
BY DEF PvcObjects

\* and of a Job.
LEMMA JobUpdateTypes ==
    ASSUME NEW o \in JobObjects
    PROVE  \A x \in {"complete", "failed"} :
               /\ [o EXCEPT !.status = x] \in JobObjects
               /\ [o EXCEPT !.status = x].owner = o.owner
               /\ [o EXCEPT !.status = x].status = x
BY DEF JobObjects

\* Spending a fault leaves a budget.
LEMMA SpendType ==
    ASSUME TypeOK, NEW f \in Faults, Spend(f)
    PROVE  budget' \in [Faults -> Nat]
BY DEF TypeOK, Spend

\* The end of a reconcile, or the next call of it, is well typed.
LEMMA WorkerTypes ==
    ASSUME TypeOK, pc # "idle"
    PROVE  /\ Return \/ Requeue =>
                  /\ queue' \subseteq Restores
                  /\ pc' = "idle"
                  /\ req' = NoRequest
                  /\ restore' \in RestoreObjects
                  /\ pvc' \in PvcObjects
           /\ \A x \in {"Succeeded", "Failed"} : Finish(x) =>
                  /\ queue' = queue
                  /\ pc' = "finish"
                  /\ req' = req
                  /\ restore' \in RestoreObjects
                  /\ restore'.uid = restore.uid
                  /\ restore'.result = x
                  /\ pvc' = pvc
<1>1. Return \/ Requeue => /\ queue' \subseteq Restores
                           /\ pc' = "idle"
                           /\ req' = NoRequest
                           /\ restore' \in RestoreObjects
                           /\ pvc' \in PvcObjects
  BY ObjectTypes DEF TypeOK, Return, Requeue, Finished
<1>2. ASSUME NEW x \in {"Succeeded", "Failed"}, Finish(x)
      PROVE  /\ queue' = queue
             /\ pc' = "finish"
             /\ req' = req
             /\ restore' \in RestoreObjects
             /\ restore'.uid = restore.uid
             /\ restore'.result = x
             /\ pvc' = pvc
  BY <1>2 DEF TypeOK, Finish, Goto, setRestoreFinished, RestoreObjects
<1> QED
  BY <1>1, <1>2

\* A status update writes a well-typed copy, or nothing.
LEMMA StatusUpdateTypes ==
    ASSUME TypeOK, pc # "idle", NEW base, NEW copy \in RestoreObjects,
           NEW continue, StatusUpdate(base, copy, continue)
    PROVE  /\ restores' \in [Restores -> RestoreObjects]
           /\ budget' \in [Faults -> Nat]
           /\ continue \/ Requeue
<1>1. budget' \in [Faults -> Nat]
  BY SpendType DEF StatusUpdate, Replied, TypeOK, Faults
<1> QED
  BY <1>1 DEF TypeOK, StatusUpdate, Replied

\* Every call of Reconcile keeps the types.
LEMMA ReconcileTypeInv == TypeInv /\ Reconcile => TypeInv'
<1> SUFFICES ASSUME TypeInv, Reconcile PROVE TypeInv'
  OBVIOUS
<1> USE RestoresAssumption, ObjectTypes DEF TypeInv
<1>1. CASE GetRestore
  <2>1. TypeOK'
    BY <1>1, WorkerTypes DEF GetRestore, Goto, Return, Requeue, Finished, TypeOK, api, caches, data
  <2>2. UidInv'
    BY <1>1 DEF GetRestore, Goto, Return, Requeue, Finished, TypeOK, UidInv, api, caches, data
  <2> QED
    BY <2>1, <2>2
<1>2. CASE SetStarted
  <2> DEFINE copy == [restore EXCEPT !.started = TRUE]
  <2>1. /\ copy \in RestoreObjects
        /\ copy.uid = restore.uid
        /\ copy.present = restore.present
        /\ restore.present \in BOOLEAN
    BY DEF TypeOK, RestoreObjects
  <2>2. pc = "setStarted" /\ StatusUpdate(restore, copy, Goto("pvc", copy, pvc))
    BY <1>2 DEF SetStarted
  <2> HIDE DEF copy
  <2>3. /\ restores' \in [Restores -> RestoreObjects]
        /\ budget' \in [Faults -> Nat]
        /\ Goto("pvc", copy, pvc) \/ Requeue
    BY <2>1, <2>2, StatusUpdateTypes
  <2>4. UNCHANGED <<pvcs, jobs, caches, data>>
    BY <1>2 DEF SetStarted
  <2>5. TypeOK'
    BY <2>1, <2>2, <2>3, <2>4, WorkerTypes DEF Goto, TypeOK, caches, data
  <2>6. \A r \in Restores : restores'[r].present => restores'[r].uid > 0
    BY <2>1, <2>2 DEF StatusUpdate, UidInv, TypeOK
  <2>7. pc' \notin {"idle", "start"} => restore'.uid > 0 /\ Target[req'] \in Claims
    BY <2>1, <2>2, <2>3, WorkerTypes DEF Goto, UidInv
  <2> QED
    BY <2>4, <2>5, <2>6, <2>7 DEF UidInv, caches
<1>3. CASE GetOrCreatePvc
  <2> DEFINE target == Target[req]
             new    == [status |-> "pending", restoring |-> UID(restore)]
  <2>1. pc = "pvc" /\ req \in Restores /\ restore.uid > 0 /\ target \in Claims
    BY <1>3 DEF GetOrCreatePvc, UidInv, TypeOK
  <2>2. UID(restore) \in Uids /\ new \in PvcObjects
    BY <2>1 DEF TypeOK, RestoreObjects, UID, Uids, PvcObjects
  <2>3. pvcs' \in [Claims -> PvcObjects] /\ creator' \in [Claims -> Uids \cup {NoUid}]
    BY <1>3, <2>1, <2>2 DEF GetOrCreatePvc, TypeOK
  <2>4. budget' \in [Faults -> Nat]
    BY <1>3, SpendType DEF GetOrCreatePvc, Replied, TypeOK, Faults
  <2>5. \/ Requeue
        \/ Goto("job", restore, new)
        \/ Goto("job", restore, cachedPvcs[target])
        \/ Finish("Failed")
    BY <1>3 DEF GetOrCreatePvc, Replied
  <2>6. /\ queue' \subseteq Restores
        /\ pc' \in {"idle", "job", "finish"}
        /\ req' \in {NoRequest, req}
        /\ pc' # "idle" => req' = req /\ restore'.uid = restore.uid
        /\ restore' \in RestoreObjects
        /\ pvc' \in PvcObjects
    BY <2>1, <2>2, <2>5, WorkerTypes DEF Goto, TypeOK
  <2>7. UNCHANGED <<restores, jobs, caches, written, restored>>
    BY <1>3 DEF GetOrCreatePvc
  <2>8. TypeOK'
    BY <2>1, <2>3, <2>4, <2>6, <2>7 DEF TypeOK, caches
  <2> QED
    BY <2>1, <2>6, <2>7, <2>8 DEF UidInv, caches
<1>4. CASE GetOrCreateJob
  <2> DEFINE new == [owner |-> restore.uid, status |-> "running"]
  <2>1. pc = "job" /\ req \in Restores /\ restore.uid > 0 /\ Target[req] \in Claims
    BY <1>4 DEF GetOrCreateJob, UidInv, TypeOK
  <2>2. new \in JobObjects
    BY DEF TypeOK, RestoreObjects, JobObjects
  <2>3. /\ jobs' \in [Restores -> JobObjects]
        /\ \A r \in Restores : jobs'[r].status # "none" => jobs'[r].owner > 0 /\ Target[r] \in Claims
    BY <1>4, <2>1, <2>2 DEF GetOrCreateJob, TypeOK, UidInv
  <2>4. budget' \in [Faults -> Nat]
    BY <1>4, SpendType DEF GetOrCreateJob, Replied, TypeOK, Faults
  <2>5. Requeue \/ Return \/ Goto("unmark", restore, pvc) \/ Finish("Failed")
    BY <1>4 DEF GetOrCreateJob, Replied
  <2>6. /\ queue' \subseteq Restores
        /\ pc' \in {"idle", "unmark", "finish"}
        /\ req' \in {NoRequest, req}
        /\ pc' # "idle" => req' = req /\ restore'.uid = restore.uid
        /\ restore' \in RestoreObjects
        /\ pvc' \in PvcObjects
    BY <2>1, <2>5, WorkerTypes DEF Goto, TypeOK
  <2>7. UNCHANGED <<restores, pvcs, caches, data>>
    BY <1>4 DEF GetOrCreateJob
  <2>8. TypeOK'
    BY <2>1, <2>3, <2>4, <2>6, <2>7 DEF TypeOK, caches, data
  <2> QED
    BY <2>1, <2>3, <2>6, <2>7, <2>8 DEF UidInv, caches
<1>5. CASE UnmarkPvc
  <2>1. pc = "unmark" /\ req \in Restores /\ restore.uid > 0 /\ Target[req] \in Claims
    BY <1>5 DEF UnmarkPvc, UidInv, TypeOK
  <2>2. pvcs' \in [Claims -> PvcObjects]
    <3>1. [pvcs[Target[req]] EXCEPT !.restoring = NoUid] \in PvcObjects
      BY <2>1, PvcUpdateTypes DEF TypeOK
    <3> QED
      BY <1>5, <2>1, <3>1 DEF UnmarkPvc, TypeOK
  <2>3. budget' \in [Faults -> Nat]
    BY <1>5, SpendType DEF UnmarkPvc, Replied, TypeOK, Faults
  <2>4. Finish("Succeeded") \/ Finish("Failed")
    BY <1>5 DEF UnmarkPvc, Replied
  <2>5. /\ queue' = queue
        /\ pc' = "finish"
        /\ req' = req
        /\ restore' \in RestoreObjects
        /\ restore'.uid = restore.uid
        /\ pvc' = pvc
    BY <2>1, <2>4, WorkerTypes
  <2>6. UNCHANGED <<restores, jobs, caches, data>>
    BY <1>5 DEF UnmarkPvc
  <2>7. TypeOK'
    BY <2>1, <2>2, <2>3, <2>5, <2>6 DEF TypeOK, caches, data
  <2> QED
    BY <2>1, <2>5, <2>6, <2>7 DEF UidInv, caches
<1>6. CASE SetFinished
  <2>1. /\ pc = "finish"
        /\ restore \in RestoreObjects
        /\ StatusUpdate([restore EXCEPT !.result = "none"], restore, Return)
    BY <1>6 DEF SetFinished, TypeOK
  <2>2. /\ restores' \in [Restores -> RestoreObjects]
        /\ budget' \in [Faults -> Nat]
        /\ Return \/ Requeue
    BY <2>1, StatusUpdateTypes
  <2>3. UNCHANGED <<pvcs, jobs, caches, data>>
    BY <1>6 DEF SetFinished
  <2>4. /\ queue' \subseteq Restores
        /\ pc' = "idle"
        /\ req' = NoRequest
        /\ restore' \in RestoreObjects
        /\ pvc' \in PvcObjects
    BY <2>1, <2>2, WorkerTypes
  <2>5. TypeOK'
    BY <2>2, <2>3, <2>4 DEF TypeOK, caches, data
  <2>6. \A r \in Restores : restores'[r].present => restores'[r].uid > 0
    BY <2>1 DEF StatusUpdate, UidInv, TypeOK
  <2> QED
    BY <2>3, <2>4, <2>5, <2>6 DEF UidInv, caches
<1>7. CASE CallFails
  <2>1. /\ queue' \subseteq Restores
        /\ pc' = "idle"
        /\ req' = NoRequest
        /\ restore' \in RestoreObjects
        /\ pvc' \in PvcObjects
    BY <1>7, WorkerTypes DEF CallFails
  <2>2. budget' \in [Faults -> Nat]
    BY <1>7, SpendType DEF CallFails, Faults
  <2> QED
    BY <1>7, <2>1, <2>2 DEF CallFails, TypeOK, UidInv, api, caches, data
<1> QED
  BY <1>1, <1>2, <1>3, <1>4, <1>5, <1>6, <1>7 DEF Reconcile

\* The users and the cluster keep the types.
LEMMA EnvironmentTypeInv ==
    ASSUME TypeInv, NEW r \in Restores,
           \/ Dequeue(r) \/ CreateRestore(r) \/ DeleteRestore(r)
           \/ JobCompletes(r) \/ JobFails(r) \/ CollectJob(r)
    PROVE  TypeInv'
<1> USE RestoresAssumption, ObjectTypes
    DEF TypeInv, operator, api, caches, worker, data
<1>1. CASE Dequeue(r)
  BY <1>1 DEF Dequeue, TypeOK, UidInv
<1>2. CASE CreateRestore(r)
  <2> DEFINE new == [NoRestore EXCEPT !.uid = restores[r].uid + 1, !.present = TRUE]
  <2>1. restores[r].uid \in 0..MaxUid /\ restores[r].uid < MaxUid
    BY <1>2, RestoreUpdateTypes DEF CreateRestore, TypeOK
  <2>2. new \in RestoreObjects /\ new.uid > 0
    <3>1. restores[r].uid + 1 \in 1..MaxUid
      BY <2>1
    <3>2. new \in RestoreObjects /\ new.uid = restores[r].uid + 1
      BY <3>1, NewRestoreFields
    <3> QED
      BY <3>1, <3>2
  <2>3. restores' = [restores EXCEPT ![r] = new]
    BY <1>2 DEF CreateRestore
  <2> HIDE DEF new
  <2>4. UNCHANGED <<pvcs, jobs, operator, data, budget>>
    BY <1>2 DEF CreateRestore
  <2>5. TypeOK'
    BY <2>2, <2>3, <2>4 DEF TypeOK
  <2> QED
    BY <2>2, <2>3, <2>4, <2>5 DEF TypeOK, UidInv
<1>3. CASE DeleteRestore(r)
  <2> DEFINE gone == [restores[r] EXCEPT !.present = FALSE]
  <2>1. gone \in RestoreObjects /\ ~gone.present
    BY RestoreUpdateTypes, DeletedFields DEF TypeOK
  <2>2. restores' = [restores EXCEPT ![r] = gone] /\ budget' \in [Faults -> Nat]
    BY <1>3, SpendType DEF DeleteRestore, Faults
  <2> HIDE DEF gone
  <2> QED
    BY <1>3, <2>1, <2>2 DEF DeleteRestore, TypeOK, UidInv
<1>4. CASE JobCompletes(r) \/ JobFails(r)
  <2>1. PICK x \in {"complete", "failed"} : jobs' = [jobs EXCEPT ![r].status = x]
    BY <1>4 DEF JobCompletes, JobFails
  <2> DEFINE new == [jobs[r] EXCEPT !.status = x]
  <2>2. /\ new \in JobObjects
        /\ new.owner = jobs[r].owner
        /\ jobs[r].owner \in 1..MaxUid
        /\ Target[r] \in Claims
    <3>1. jobs[r] \in JobObjects /\ jobs[r].status = "running"
      BY <1>4 DEF JobCompletes, JobFails, TypeOK
    <3>2. jobs[r].owner \in 1..MaxUid /\ Target[r] \in Claims
      BY <3>1 DEF JobObjects, UidInv
    <3> QED
      BY <3>1, <3>2, JobUpdateTypes
  <2>3. jobs' = [jobs EXCEPT ![r] = new]
    BY <2>1
  <2> HIDE DEF new
  <2>4. <<r, jobs[r].owner>> \in Uids
    BY <2>2 DEF Uids
  <2>5. written' \in [Claims -> SUBSET Uids] /\ restored' \in [Claims -> SUBSET Uids]
    BY <1>4, <2>4 DEF JobCompletes, JobFails, TypeOK
  <2>6. budget' \in [Faults -> Nat]
    BY <1>4, SpendType DEF JobCompletes, JobFails, Faults, TypeOK
  <2>7. UNCHANGED <<restores, pvcs, operator, creator>>
    BY <1>4 DEF JobCompletes, JobFails
  <2>8. TypeOK'
    BY <2>2, <2>3, <2>5, <2>6, <2>7 DEF TypeOK
  <2> QED
    BY <2>2, <2>3, <2>7, <2>8 DEF TypeOK, UidInv
<1>5. CASE CollectJob(r)
  BY <1>5 DEF CollectJob, TypeOK, UidInv, NoJob
<1> QED
  BY <1>1, <1>2, <1>3, <1>4, <1>5

\* TypeInv is inductive.
LEMMA NextTypeInv == TypeInv /\ [Next]_vars => TypeInv'
<1> SUFFICES ASSUME TypeInv, [Next]_vars PROVE TypeInv'
  OBVIOUS
<1> USE RestoresAssumption, ObjectTypes DEF TypeInv, operator, api, caches, worker, data
<1>1. CASE Reconcile
  BY <1>1, ReconcileTypeInv
<1>2. CASE \E r \in Restores : \/ Dequeue(r) \/ CreateRestore(r) \/ DeleteRestore(r)
                               \/ JobCompletes(r) \/ JobFails(r) \/ CollectJob(r)
  BY <1>2, EnvironmentTypeInv
<1>3. ASSUME NEW c \in Claims, UserCreatesClaim(c) \/ BindClaim(c) PROVE TypeInv'
  <2>1. PICK x \in {"pending", "bound"} : pvcs' = [pvcs EXCEPT ![c].status = x]
    BY <1>3 DEF UserCreatesClaim, BindClaim
  <2>2. [pvcs[c] EXCEPT !.status = x] \in PvcObjects
    BY <1>3, PvcUpdateTypes DEF TypeOK
  <2>3. pvcs' \in [Claims -> PvcObjects]
    BY <2>1, <2>2 DEF TypeOK
  <2>4. budget' \in [Faults -> Nat]
    BY <1>3, SpendType DEF UserCreatesClaim, BindClaim, Faults, TypeOK
  <2> QED
    BY <1>3, <2>3, <2>4 DEF UserCreatesClaim, BindClaim, TypeOK, UidInv
<1>4. CASE SyncRestores \/ SyncPvcs \/ SyncJobs
  BY <1>4 DEF SyncRestores, SyncPvcs, SyncJobs, TypeOK, UidInv
<1>5. CASE Restart
  <2>1. budget' \in [Faults -> Nat]
    BY <1>5, SpendType DEF Restart, Faults
  <2> QED
    BY <1>5, <2>1 DEF Restart, Finished, TypeOK, UidInv
<1>6. CASE UNCHANGED vars
  BY <1>6 DEF vars, TypeOK, UidInv
<1> QED
  BY <1>1, <1>2, <1>3, <1>4, <1>5, <1>6 DEF Next

\* The first state is well typed.
LEMMA InitTypeInv == Init => TypeInv
BY RestoresAssumption, ObjectTypes
   DEF Init, TypeInv, TypeOK, UidInv, NoRestore, NoJob

LEMMA AlwaysTypeInv == Spec => []TypeInv
BY InitTypeInv, NextTypeInv, PTL DEF Spec

\* Every behaviour of the controller is well typed: no UID that was never given
\* to a PVCRestore is written into a claim, a Job or the history.
THEOREM TypeCorrect == Spec => []TypeOK
<1>1. TypeInv => TypeOK
  BY DEF TypeInv
<1> QED
  BY <1>1, AlwaysTypeInv, PTL

-----------------------------------------------------------------------------
(* NeverOverwrites.                                                          *)

\* No UID of a PVCRestore is NoUid, which stands for a user.
LEMMA UidsAreRestores ==
    ASSUME NEW r \in Restores, NEW u
    PROVE  <<r, u>> # NoUid
BY RestoresAssumption DEF NoUid

\* The worker does not come past GetOrCreatePvc in this step.
OwnerSame ==
    \/ pc' \notin {"job", "unmark"}
    \/ /\ pc \in {"job", "unmark"}
       /\ req' = req
       /\ restore'.uid = restore.uid

\* Steps that touch neither claims nor Jobs.
LEMMA OverwriteFrame ==
    ASSUME OverwriteInv, OwnerSame, UNCHANGED <<pvcs, cachedPvcs, jobs, creator, written>>
    PROVE  OverwriteInv'
<1> USE DEF OverwriteInv
<1>1. ClaimInv'
  BY DEF ClaimInv
<1>2. OwnerInv'
  BY DEF OwnerInv, OwnerSame
<1>3. NeverOverwrites'
  BY DEF NeverOverwrites
<1> QED
  BY <1>1, <1>2, <1>3

\* Every call of Reconcile keeps to the claims that its restore has made.
LEMMA ReconcileOverwrite ==
    ASSUME TypeInv, OverwriteInv, Reconcile
    PROVE  OverwriteInv'
<1> USE DEF TypeInv
<1>1. CASE GetRestore \/ SetStarted \/ SetFinished \/ CallFails
  <2>1. UNCHANGED <<pvcs, cachedPvcs, jobs, creator, written>>
    BY <1>1 DEF GetRestore, SetStarted, SetFinished, CallFails, api, caches, data
  <2>2. OwnerSame
    BY <1>1 DEF GetRestore, SetStarted, SetFinished, CallFails, StatusUpdate, Replied,
        Return, Requeue, Finished, Goto, OwnerSame
  <2> QED
    BY <2>1, <2>2, OverwriteFrame
<1>2. CASE GetOrCreatePvc
  <2> DEFINE target == Target[req]
             new    == [status |-> "pending", restoring |-> UID(restore)]
  <2>1. pc = "pvc" /\ req \in Restores /\ target \in Claims
    BY <1>2 DEF GetOrCreatePvc, UidInv, TypeOK
  <2>2. UNCHANGED <<jobs, cachedPvcs, written>>
    BY <1>2 DEF GetOrCreatePvc, caches
  <2>3. UID(restore) = <<req, restore.uid>> /\ UID(restore) # NoUid
    BY <2>1, UidsAreRestores DEF UID
  <2>4. CASE /\ pvcs[target].status = "none"
             /\ pvcs' = [pvcs EXCEPT ![target] = new]
             /\ creator' = [creator EXCEPT ![target] = UID(restore)]
             /\ Goto("job", restore, new) \/ Requeue
    <3>1. creator[target] = NoUid /\ written[target] = {}
      BY <2>1, <2>4 DEF OverwriteInv, ClaimInv
    <3>2. ClaimInv'
      BY <2>1, <2>2, <2>4, <3>1 DEF OverwriteInv, ClaimInv, TypeOK
    <3>3. \A r \in Restores : jobs[r].status # "none" => Target[r] # target
      BY <3>1, UidsAreRestores DEF OverwriteInv, OwnerInv
    <3>4. \A r \in Restores : jobs'[r].status # "none" =>
              creator'[Target[r]] = <<r, jobs'[r].owner>>
      BY <2>2, <2>4, <3>3 DEF OverwriteInv, OwnerInv, TypeOK, UidInv
    <3>5. pc' \in {"job", "unmark"} => creator'[Target[req']] = <<req', restore'.uid>>
      BY <2>1, <2>3, <2>4 DEF Goto, Requeue, Finished, TypeOK
    <3>6. NeverOverwrites'
      BY <2>2, <2>4, <3>1 DEF OverwriteInv, NeverOverwrites, TypeOK
    <3> QED
      BY <3>2, <3>4, <3>5, <3>6 DEF OverwriteInv, OwnerInv
  <2>5. CASE /\ UNCHANGED <<pvcs, creator>>
             /\ Requeue \/ Finish("Failed")
    BY <2>2, <2>5, OverwriteFrame DEF Requeue, Finished, Finish, Goto, OwnerSame
  <2>6. CASE /\ UNCHANGED <<pvcs, creator>>
             /\ MarkedByUs(cachedPvcs[target])
             /\ Goto("job", restore, cachedPvcs[target])
    <3>1. creator[target] = <<req, restore.uid>>
      BY <2>1, <2>3, <2>6 DEF MarkedByUs, OverwriteInv, ClaimInv
    <3>2. ClaimInv' /\ NeverOverwrites'
      BY <2>2, <2>6 DEF OverwriteInv, ClaimInv, NeverOverwrites
    <3>3. OwnerInv'
      BY <2>1, <2>2, <2>6, <3>1 DEF OverwriteInv, OwnerInv, Goto
    <3> QED
      BY <3>2, <3>3 DEF OverwriteInv
  <2>7. \/ /\ pvcs[target].status = "none"
           /\ pvcs' = [pvcs EXCEPT ![target] = new]
           /\ creator' = [creator EXCEPT ![target] = UID(restore)]
           /\ Goto("job", restore, new) \/ Requeue
        \/ UNCHANGED <<pvcs, creator>> /\ (Requeue \/ Finish("Failed"))
        \/ /\ UNCHANGED <<pvcs, creator>>
           /\ MarkedByUs(cachedPvcs[target])
           /\ Goto("job", restore, cachedPvcs[target])
    BY <1>2 DEF GetOrCreatePvc, Replied
  <2> QED
    BY <2>4, <2>5, <2>6, <2>7
<1>3. CASE GetOrCreateJob
  <2> DEFINE new == [owner |-> restore.uid, status |-> "running"]
  <2>1. pc = "job" /\ req \in Restores /\ creator[Target[req]] = <<req, restore.uid>>
    BY <1>3 DEF GetOrCreateJob, OverwriteInv, OwnerInv, TypeOK
  <2>2. UNCHANGED <<pvcs, cachedPvcs, creator, written>>
    BY <1>3 DEF GetOrCreateJob, caches, data
  <2>3. OwnerSame
    <3>1. Requeue \/ Return \/ Goto("unmark", restore, pvc) \/ Finish("Failed")
      BY <1>3 DEF GetOrCreateJob, Replied
    <3> QED
      BY <2>1, <3>1 DEF Return, Requeue, Finished, Goto, Finish, OwnerSame
  <2>4. jobs' = jobs \/ jobs' = [jobs EXCEPT ![req] = new]
    BY <1>3 DEF GetOrCreateJob
  <2>5. OwnerInv'
    <3>1. jobs \in [Restores -> JobObjects]
      BY DEF TypeOK
    <3>2. \A r \in Restores : jobs'[r].status # "none" =>
              creator[Target[r]] = <<r, jobs'[r].owner>>
      BY <2>1, <2>4, <3>1 DEF OverwriteInv, OwnerInv
    <3>3. pc' \in {"job", "unmark"} => creator[Target[req']] = <<req', restore'.uid>>
      BY <2>1, <2>3 DEF OwnerSame
    <3> QED
      BY <2>2, <3>2, <3>3 DEF OwnerInv
  <2>6. ClaimInv' /\ NeverOverwrites'
    BY <2>2 DEF OverwriteInv, ClaimInv, NeverOverwrites
  <2> QED
    BY <2>5, <2>6 DEF OverwriteInv
<1>4. CASE UnmarkPvc
  <2>1. pc = "unmark" /\ Target[req] \in Claims
    BY <1>4 DEF UnmarkPvc, UidInv
  <2>2. UNCHANGED <<jobs, cachedPvcs, creator, written>>
    BY <1>4 DEF UnmarkPvc, caches, data
  <2>3. pc' = "finish"
    BY <1>4 DEF UnmarkPvc, Replied, Finish, Goto
  <2>4. \A c \in Claims : /\ pvcs'[c].status = pvcs[c].status
                          /\ pvcs'[c].restoring \in {NoUid, pvcs[c].restoring}
    BY <1>4, <2>1 DEF UnmarkPvc, TypeOK, PvcObjects
  <2>5. ClaimInv'
    BY <2>2, <2>4 DEF OverwriteInv, ClaimInv
  <2>6. OwnerInv' /\ NeverOverwrites'
    BY <2>2, <2>3 DEF OverwriteInv, OwnerInv, NeverOverwrites
  <2> QED
    BY <2>5, <2>6 DEF OverwriteInv
<1> QED
  BY <1>1, <1>2, <1>3, <1>4 DEF Reconcile

\* So do the Jobs.
LEMMA JobOverwrite ==
    ASSUME TypeInv, OverwriteInv, NEW r \in Restores, JobCompletes(r) \/ JobFails(r)
    PROVE  OverwriteInv'
<1>1. PICK x \in {"complete", "failed"} : jobs' = [jobs EXCEPT ![r].status = x]
  BY DEF JobCompletes, JobFails
<1>2. /\ UNCHANGED <<pvcs, cachedPvcs, creator, pc, req, restore>>
      /\ written' = [written EXCEPT ![Target[r]] = @ \cup {<<r, jobs[r].owner>>}]
      /\ jobs[r].status = "running"
      /\ pvcs[Target[r]].status = "bound"
  BY DEF JobCompletes, JobFails, operator, caches, worker
<1>3. creator[Target[r]] = <<r, jobs[r].owner>>
  BY <1>2 DEF OverwriteInv, OwnerInv
<1>4. \A s \in Restores : /\ jobs'[s].owner = jobs[s].owner
                          /\ jobs'[s].status # "none" => jobs[s].status # "none"
  BY <1>1, <1>2 DEF TypeInv, TypeOK, JobObjects
<1>5. OwnerInv'
  BY <1>2, <1>4 DEF OverwriteInv, OwnerInv
<1>6. ClaimInv'
  BY <1>2 DEF OverwriteInv, ClaimInv, TypeInv, TypeOK
<1>7. NeverOverwrites'
  BY <1>2, <1>3 DEF OverwriteInv, NeverOverwrites, TypeInv, TypeOK
<1> QED
  BY <1>5, <1>6, <1>7 DEF OverwriteInv

\* OverwriteInv is inductive.
LEMMA NextOverwriteInv == TypeInv /\ OverwriteInv /\ [Next]_vars => OverwriteInv'
<1> SUFFICES ASSUME TypeInv, OverwriteInv, [Next]_vars PROVE OverwriteInv'
  OBVIOUS
<1> USE DEF operator, api, caches, worker, data
<1>1. CASE Reconcile
  BY <1>1, ReconcileOverwrite
<1>2. ASSUME NEW r \in Restores, Dequeue(r) \/ CreateRestore(r) \/ DeleteRestore(r)
      PROVE  OverwriteInv'
  BY <1>2, OverwriteFrame DEF Dequeue, CreateRestore, DeleteRestore, OwnerSame
<1>3. ASSUME NEW r \in Restores, JobCompletes(r) \/ JobFails(r) PROVE OverwriteInv'
  BY <1>3, JobOverwrite
<1>4. ASSUME NEW r \in Restores, CollectJob(r) PROVE OverwriteInv'
  <2>1. /\ UNCHANGED <<pvcs, cachedPvcs, creator, written, pc, req, restore>>
        /\ jobs' = [jobs EXCEPT ![r] = NoJob]
    BY <1>4 DEF CollectJob
  <2>2. OwnerInv'
    BY <2>1 DEF OverwriteInv, OwnerInv, NoJob, TypeInv, TypeOK
  <2> QED
    BY <2>1, <2>2 DEF OverwriteInv, ClaimInv, NeverOverwrites
<1>5. ASSUME NEW c \in Claims, UserCreatesClaim(c) \/ BindClaim(c) PROVE OverwriteInv'
  <2>1. UNCHANGED <<jobs, cachedPvcs, creator, written, pc, req, restore>>
    BY <1>5 DEF UserCreatesClaim, BindClaim
  <2>2. \A d \in Claims : /\ pvcs'[d].restoring = pvcs[d].restoring
                          /\ pvcs'[d].status = "none" => pvcs[d].status = "none"
    BY <1>5 DEF UserCreatesClaim, BindClaim, TypeInv, TypeOK, PvcObjects
  <2>3. ClaimInv'
    BY <2>1, <2>2 DEF OverwriteInv, ClaimInv
  <2> QED
    BY <2>1, <2>3 DEF OverwriteInv, OwnerInv, NeverOverwrites
<1>6. CASE SyncRestores \/ SyncJobs \/ UNCHANGED vars
  BY <1>6, OverwriteFrame DEF SyncRestores, SyncJobs, vars, OwnerSame
<1>7. CASE SyncPvcs \/ Restart
  <2>1. /\ UNCHANGED <<pvcs, jobs, creator, written>>
        /\ cachedPvcs' = pvcs
        /\ OwnerSame
    BY <1>7 DEF SyncPvcs, Restart, Finished, OwnerSame
  <2>2. ClaimInv'
    BY <2>1 DEF OverwriteInv, ClaimInv
  <2> QED
    BY <2>1, <2>2 DEF OverwriteInv, OwnerInv, OwnerSame, NeverOverwrites
<1> QED
  BY <1>1, <1>2, <1>3, <1>4, <1>5, <1>6, <1>7 DEF Next

LEMMA InitOverwriteInv == Init => OverwriteInv
BY DEF Init, OverwriteInv, ClaimInv, OwnerInv, NeverOverwrites, NoPvc, NoJob

LEMMA AlwaysOverwriteInv == Spec => []OverwriteInv
BY InitOverwriteInv, NextOverwriteInv, AlwaysTypeInv, PTL DEF Spec

\* A restore Job writes only to a claim that its own PVCRestore has created, for
\* any number of restores of the same claim, any incarnations of them, claims
\* that users create, lost replies, lagging caches and restarts.
THEOREM NeverOverwritesHolds == Spec => []NeverOverwrites
<1>1. OverwriteInv => NeverOverwrites
  BY DEF OverwriteInv
<1> QED
  BY <1>1, AlwaysOverwriteInv, PTL

-----------------------------------------------------------------------------
(* Results.                                                                  *)

\* What restores have filled stays filled, and a claim that was handed over is
\* not marked again.
LEMMA ClaimsStay ==
    ASSUME TypeInv, [Next]_vars
    PROVE  \A c \in Claims :
               /\ restored[c] \subseteq restored'[c]
               /\ pvcs[c].status # "none" =>
                      /\ pvcs'[c].status # "none"
                      /\ pvcs[c].restoring = NoUid => pvcs'[c].restoring = NoUid
<1> USE DEF TypeInv, TypeOK, PvcObjects, operator, api, caches, worker, data
<1>1. CASE UNCHANGED <<pvcs, restored>>
  BY <1>1
<1>2. CASE GetOrCreatePvc
  BY <1>2 DEF GetOrCreatePvc
<1>3. CASE UnmarkPvc
  <2>1. Target[req] \in Claims
    BY <1>3 DEF UnmarkPvc, UidInv
  <2>2. \A c \in Claims : /\ pvcs'[c].status = pvcs[c].status
                          /\ pvcs'[c].restoring \in {NoUid, pvcs[c].restoring}
    BY <1>3, <2>1 DEF UnmarkPvc
  <2> QED
    BY <1>3, <2>2 DEF UnmarkPvc
<1>4. ASSUME NEW r \in Restores, JobCompletes(r)
      PROVE  /\ UNCHANGED pvcs
             /\ \A c \in Claims : restored[c] \subseteq restored'[c]
  BY <1>4 DEF JobCompletes
<1>5. ASSUME NEW c \in Claims, UserCreatesClaim(c) \/ BindClaim(c)
      PROVE  /\ UNCHANGED restored
             /\ \A d \in Claims : pvcs[d].status # "none" =>
                    /\ pvcs'[d].status # "none"
                    /\ pvcs[d].restoring = NoUid => pvcs'[d].restoring = NoUid
  BY <1>5 DEF UserCreatesClaim, BindClaim
<1>6. \/ UNCHANGED <<pvcs, restored>>
      \/ GetOrCreatePvc
      \/ UnmarkPvc
      \/ \E r \in Restores : JobCompletes(r)
      \/ \E c \in Claims : UserCreatesClaim(c) \/ BindClaim(c)
  <2>1. CASE Reconcile
    BY <2>1 DEF Reconcile, GetRestore, SetStarted, GetOrCreateJob, SetFinished, CallFails
  <2>2. CASE \E r \in Restores : Dequeue(r) \/ CreateRestore(r) \/ DeleteRestore(r)
                                     \/ JobFails(r) \/ CollectJob(r)
    BY <2>2 DEF Dequeue, CreateRestore, DeleteRestore, JobFails, CollectJob
  <2>3. CASE SyncRestores \/ SyncPvcs \/ SyncJobs \/ Restart \/ UNCHANGED vars
    BY <2>3 DEF SyncRestores, SyncPvcs, SyncJobs, Restart, vars
  <2> QED
    BY <2>1, <2>2, <2>3 DEF Next
<1> QED
  BY <1>1, <1>2, <1>3, <1>4, <1>5, <1>6

LEMMA HandedOverStays ==
    ASSUME TypeInv, [Next]_vars, NEW r, NEW u, HandedOver(r, u)
    PROVE  HandedOver(r, u)'
BY ClaimsStay DEF HandedOver

\* Objects that do not change, or do not claim more, keep what they say.
LEMMA ObjectFrame ==
    ASSUME TypeInv, ObjectResults, [Next]_vars,
           \A r \in Restores :
               /\ jobs'[r].status = "complete" => jobs'[r] = jobs[r]
               /\ cachedJobs'[r].status = "complete" => cachedJobs'[r] \in {cachedJobs[r], jobs[r]}
               /\ restores'[r].result = "Succeeded" =>
                      /\ restores[r].result = "Succeeded"
                      /\ restores'[r].uid = restores[r].uid
    PROVE  ObjectResults'
<1> SUFFICES ASSUME NEW r \in Restores
             PROVE  /\ jobs'[r].status = "complete" =>
                           <<r, jobs'[r].owner>> \in restored'[Target[r]]
                    /\ cachedJobs'[r].status = "complete" =>
                           <<r, cachedJobs'[r].owner>> \in restored'[Target[r]]
                    /\ restores'[r].result = "Succeeded" => HandedOver(r, restores[r].uid)'
  BY DEF ObjectResults
<1>1. /\ jobs[r].status # "none" => Target[r] \in Claims
      /\ cachedJobs[r].status # "none" => Target[r] \in Claims
  BY DEF TypeInv, UidInv
<1>2. PICK u : u = restores[r].uid
  OBVIOUS
<1>3. restores'[r].result = "Succeeded" => HandedOver(r, u)'
  BY <1>2, HandedOverStays DEF ObjectResults
<1>4. restores'[r].result = "Succeeded" => HandedOver(r, restores[r].uid)'
  BY <1>2, <1>3 DEF HandedOver
<1> QED
  BY <1>1, <1>4, ClaimsStay DEF ObjectResults

\* A worker that goes on without a result, or with Failed, says nothing new.
LEMMA WorkerFrame ==
    ASSUME TypeInv, WorkerResults, [Next]_vars,
           \/ pc' \in {"idle", "start"}
           \/ /\ pc' \in {"setStarted", "pvc", "job"}
              /\ restore'.result = "none"
           \/ pc' = "finish" /\ restore'.result = "Failed"
           \/ UNCHANGED <<pc, req, restore>>
    PROVE  WorkerResults'
<1>1. CASE UNCHANGED <<pc, req, restore>>
  <2>1. pc' = "unmark" => <<req, restore.uid>> \in restored'[Target[req]]
    BY <1>1, ClaimsStay DEF WorkerResults, TypeInv, UidInv
  <2>2. PICK r, u : r = req /\ u = restore.uid
    OBVIOUS
  <2>3. pc' = "finish" /\ restore'.result = "Succeeded" => HandedOver(r, u)'
    BY <1>1, <2>2, HandedOverStays DEF WorkerResults
  <2>4. pc' = "finish" /\ restore'.result = "Succeeded" => HandedOver(req, restore.uid)'
    BY <1>1, <2>2, <2>3 DEF HandedOver
  <2> QED
    BY <1>1, <2>1, <2>4 DEF WorkerResults
<1>2. CASE ~UNCHANGED <<pc, req, restore>>
  BY <1>2 DEF WorkerResults
<1> QED
  BY <1>1, <1>2

\* The end of a reconcile, or its next call, as far as results go.
LEMMA ContinueResults ==
    ASSUME TypeOK, pc # "idle"
    PROVE  /\ Return \/ Requeue => pc' = "idle"
           /\ Finish("Failed") => pc' = "finish" /\ restore'.result = "Failed"
BY WorkerTypes

\* Every call of Reconcile keeps the results true.
LEMMA ReconcileResult ==
    ASSUME TypeInv, OverwriteInv, ObjectResults, WorkerResults, Reconcile
    PROVE  ObjectResults' /\ WorkerResults'
<1> USE DEF TypeInv
<1>0. [Next]_vars
  BY DEF Next
<1>1. CASE GetRestore
  <2>1. ObjectResults'
    BY <1>0, <1>1, ObjectFrame DEF GetRestore, api, caches
  <2>2. \/ pc' = "idle"
        \/ pc' \in {"setStarted", "pvc"} /\ restore'.result = "none"
    BY <1>1 DEF GetRestore, Return, Requeue, Finished, Goto, IsFinished
  <2> QED
    BY <1>0, <2>1, <2>2, WorkerFrame
<1>2. CASE SetStarted
  <2> DEFINE copy == [restore EXCEPT !.started = TRUE]
  <2>1. /\ pc = "setStarted"
        /\ req \in Restores
        /\ restore.result = "none"
        /\ copy.result = "none"
    BY <1>2 DEF SetStarted, WorkerResults, TypeOK, RestoreObjects
  <2>2. /\ StatusUpdate(restore, copy, Goto("pvc", copy, pvc))
        /\ UNCHANGED <<pvcs, jobs, caches, data>>
    BY <1>2 DEF SetStarted
  <2> HIDE DEF copy
  <2>3. restores' = restores \/ restores' = [restores EXCEPT ![req] = copy]
    BY <2>2 DEF StatusUpdate
  <2>4. ObjectResults'
    BY <1>0, <2>1, <2>2, <2>3, ObjectFrame DEF caches, TypeOK
  <2>5. Goto("pvc", copy, pvc) \/ Requeue
    BY <2>2 DEF StatusUpdate, Replied
  <2>6. pc' = "idle" \/ (pc' = "pvc" /\ restore'.result = "none")
    BY <2>1, <2>5, ContinueResults DEF Goto
  <2> QED
    BY <1>0, <2>4, <2>6, WorkerFrame
<1>3. CASE GetOrCreatePvc
  <2>1. ObjectResults'
    BY <1>0, <1>3, ObjectFrame DEF GetOrCreatePvc, caches
  <2>2. pc = "pvc" /\ restore.result = "none"
    BY <1>3 DEF GetOrCreatePvc, WorkerResults
  <2>3. \/ Requeue
        \/ Finish("Failed")
        \/ \E copy : Goto("job", restore, copy)
    BY <1>3 DEF GetOrCreatePvc, Replied
  <2>4. \/ pc' = "idle"
        \/ pc' = "job" /\ restore'.result = "none"
        \/ pc' = "finish" /\ restore'.result = "Failed"
    BY <2>2, <2>3, ContinueResults DEF Goto
  <2> QED
    BY <1>0, <2>1, <2>4, WorkerFrame
<1>4. CASE GetOrCreateJob
  <2>1. /\ pc = "job"
        /\ req \in Restores
        /\ restore.result = "none"
        /\ UNCHANGED <<restores, pvcs, caches, data>>
    BY <1>4 DEF GetOrCreateJob, WorkerResults, TypeOK
  <2>2. \/ jobs' = jobs
        \/ jobs' = [jobs EXCEPT ![req] = [owner |-> restore.uid, status |-> "running"]]
    BY <1>4 DEF GetOrCreateJob
  <2>3. \A r \in Restores : jobs'[r].status = "complete" => jobs'[r] = jobs[r]
    BY <2>1, <2>2 DEF TypeOK
  <2>4. ObjectResults'
    BY <1>0, <2>1, <2>3, ObjectFrame DEF caches
  <2>5. \/ Requeue \/ Return \/ Finish("Failed")
        \/ /\ Goto("unmark", restore, pvc)
           /\ cachedJobs[req].status = "complete"
           /\ cachedJobs[req].owner = restore.uid
    BY <1>4 DEF GetOrCreateJob, Replied, JobDone
  <2>6. CASE Requeue \/ Return \/ Finish("Failed")
    BY <1>0, <2>1, <2>4, <2>6, ContinueResults, WorkerFrame
  <2>7. CASE /\ Goto("unmark", restore, pvc)
             /\ cachedJobs[req].status = "complete"
             /\ cachedJobs[req].owner = restore.uid
    BY <2>1, <2>4, <2>7 DEF Goto, ObjectResults, WorkerResults, data
  <2> QED
    BY <2>5, <2>6, <2>7
<1>5. CASE UnmarkPvc
  <2>1. /\ pc = "unmark"
        /\ req \in Restores
        /\ Target[req] \in Claims
        /\ <<req, restore.uid>> \in restored[Target[req]]
        /\ UNCHANGED <<restores, jobs, caches, data>>
    BY <1>5 DEF UnmarkPvc, WorkerResults, TypeOK, UidInv
  <2>2. ObjectResults'
    BY <1>0, <2>1, ObjectFrame DEF caches
  <2>3. \/ Finish("Failed")
        \/ /\ Finish("Succeeded")
           /\ pvcs' = [pvcs EXCEPT ![Target[req]].restoring = NoUid]
    BY <1>5 DEF UnmarkPvc, Replied
  <2>4. CASE Finish("Failed")
    BY <1>0, <2>1, <2>2, <2>4, ContinueResults, WorkerFrame
  <2>5. CASE /\ Finish("Succeeded")
             /\ pvcs' = [pvcs EXCEPT ![Target[req]].restoring = NoUid]
    <3>1. pc' = "finish" /\ req' = req /\ restore'.uid = restore.uid
      BY <2>1, <2>5, WorkerTypes
    <3>2. pvcs[Target[req]].status # "none"
      <4>1. creator[Target[req]] # NoUid
        BY <2>1, UidsAreRestores DEF OverwriteInv, OwnerInv
      <4> QED
        BY <2>1, <4>1 DEF OverwriteInv, ClaimInv
    <3>3. pvcs'[Target[req]].status # "none" /\ pvcs'[Target[req]].restoring = NoUid
      BY <2>1, <2>5, <3>2 DEF TypeOK, PvcObjects
    <3>4. HandedOver(req, restore.uid)'
      BY <2>1, <3>1, <3>3 DEF HandedOver, data
    <3> QED
      BY <2>2, <3>1, <3>4 DEF WorkerResults
  <2> QED
    BY <2>3, <2>4, <2>5
<1>6. CASE SetFinished
  <2>1. /\ pc = "finish"
        /\ req \in Restores
        /\ StatusUpdate([restore EXCEPT !.result = "none"], restore, Return)
        /\ UNCHANGED <<pvcs, jobs, caches, data>>
    BY <1>6 DEF SetFinished, TypeOK
  <2>2. WorkerResults'
    BY <1>0, <2>1, ContinueResults, WorkerFrame DEF StatusUpdate, Replied
  <2>3. restores' = restores \/ restores' = [restores EXCEPT ![req] = restore]
    BY <2>1 DEF StatusUpdate
  <2>4. CASE restore.result # "Succeeded" \/ restores' = restores
    BY <1>0, <2>1, <2>2, <2>3, <2>4, ObjectFrame DEF caches, TypeOK
  <2>5. CASE restore.result = "Succeeded" /\ restores' = [restores EXCEPT ![req] = restore]
    <3>1. HandedOver(req, restore.uid)
      BY <2>1, <2>5 DEF WorkerResults
    <3>2. UNCHANGED <<pvcs, restored, jobs, cachedJobs>>
      BY <2>1 DEF caches, data
    <3>3. restores'[req] = restore /\ \A r \in Restores \ {req} : restores'[r] = restores[r]
      BY <2>1, <2>5 DEF TypeOK
    <3>4. \A r \in Restores :
              restores'[r].result = "Succeeded" => HandedOver(r, restores'[r].uid)
      BY <3>1, <3>3 DEF ObjectResults
    <3>5. \A r \in Restores :
              restores'[r].result = "Succeeded" => HandedOver(r, restores[r].uid)'
      BY <3>2, <3>4 DEF HandedOver
    <3> QED
      BY <2>2, <3>2, <3>5 DEF ObjectResults
  <2> QED
    BY <2>3, <2>4, <2>5
<1>7. CASE CallFails
  BY <1>0, <1>7, ObjectFrame, WorkerFrame, ContinueResults DEF CallFails, api, caches
<1> QED
  BY <1>1, <1>2, <1>3, <1>4, <1>5, <1>6, <1>7 DEF Reconcile

\* So do all other steps.
LEMMA NextResultInv == TypeInv /\ OverwriteInv /\ ResultInv /\ [Next]_vars => ResultInv'
<1> SUFFICES ASSUME TypeInv, OverwriteInv, ResultInv, [Next]_vars PROVE ResultInv'
  OBVIOUS
<1> USE DEF operator, api, caches, worker, data
<1>0. ObjectResults /\ WorkerResults
  BY DEF ResultInv
<1>1. CASE Reconcile
  BY <1>0, <1>1, ReconcileResult DEF ResultInv
<1>2. ASSUME NEW r \in Restores, Dequeue(r) PROVE ResultInv'
  BY <1>0, <1>2, ObjectFrame, WorkerFrame DEF ResultInv, Dequeue
<1>3. ASSUME NEW r \in Restores, CreateRestore(r) \/ DeleteRestore(r) PROVE ResultInv'
  <2>1. restores \in [Restores -> RestoreObjects]
    BY DEF TypeInv, TypeOK
  <2>2. \/ restores' = [restores EXCEPT ![r] = [restores[r] EXCEPT !.present = FALSE]]
        \/ /\ restores[r].uid < MaxUid
           /\ restores' = [restores EXCEPT
                  ![r] = [NoRestore EXCEPT !.uid = restores[r].uid + 1, !.present = TRUE]]
    BY <1>3 DEF CreateRestore, DeleteRestore
  <2>3. restores'[r].result = "Succeeded" =>
            restores[r].result = "Succeeded" /\ restores'[r].uid = restores[r].uid
    <3>1. [restores[r] EXCEPT !.present = FALSE].uid = restores[r].uid
      BY <1>3, <2>1, DeletedFields
    <3>2. [restores[r] EXCEPT !.present = FALSE].result = restores[r].result
      BY <1>3, <2>1, DeletedFields
    <3>3. ASSUME restores[r].uid < MaxUid
          PROVE  [NoRestore EXCEPT !.uid = restores[r].uid + 1, !.present = TRUE].result = "none"
      <4>1. restores[r].uid + 1 \in 1..MaxUid
        BY <1>3, <2>1, <3>3, RestoresAssumption DEF RestoreObjects
      <4> QED
        BY <4>1, NewRestoreFields
    <3> QED
      BY <1>3, <2>1, <2>2, <3>1, <3>2, <3>3
  <2>4. \A s \in Restores \ {r} : restores'[s] = restores[s]
    BY <2>1, <2>2
  <2>5. UNCHANGED <<jobs, cachedJobs, pc, req, restore>>
    BY <1>3 DEF CreateRestore, DeleteRestore
  <2>6. ObjectResults'
    BY <1>0, <2>3, <2>4, <2>5, ObjectFrame
  <2>7. WorkerResults'
    BY <1>0, <2>5, WorkerFrame
  <2> QED
    BY <2>6, <2>7 DEF ResultInv
<1>4. ASSUME NEW r \in Restores, JobCompletes(r) PROVE ResultInv'
  <2>1. /\ jobs' = [jobs EXCEPT ![r].status = "complete"]
        /\ restored' = [restored EXCEPT ![Target[r]] = @ \cup {<<r, jobs[r].owner>>}]
        /\ UNCHANGED <<restores, cachedJobs, pc, req, restore>>
        /\ Target[r] \in Claims
    BY <1>4 DEF JobCompletes, TypeInv, UidInv
  <2>2. \A s \in Restores : jobs'[s].status = "complete" =>
            <<s, jobs'[s].owner>> \in restored'[Target[s]]
    <3>1. \A s \in Restores \ {r} : jobs'[s] = jobs[s]
      BY <2>1 DEF TypeInv, TypeOK
    <3>2. jobs'[r].owner = jobs[r].owner
      BY <1>4, <2>1 DEF TypeInv, TypeOK, JobObjects
    <3>3. \A s \in Restores : jobs[s].status = "complete" => Target[s] \in Claims
      BY DEF TypeInv, UidInv
    <3>4. \A s \in Restores \ {r} : jobs'[s].status = "complete" =>
              <<s, jobs'[s].owner>> \in restored'[Target[s]]
      BY <1>0, <3>1, <3>3, ClaimsStay DEF ObjectResults
    <3>5. <<r, jobs[r].owner>> \in restored'[Target[r]]
      BY <2>1 DEF TypeInv, TypeOK
    <3> QED
      BY <3>2, <3>4, <3>5
  <2>3. \A s \in Restores : cachedJobs'[s].status = "complete" =>
            <<s, cachedJobs'[s].owner>> \in restored'[Target[s]]
    BY <1>0, <2>1, ClaimsStay DEF ObjectResults, TypeInv, UidInv
  <2>4. \A s \in Restores : restores'[s].result = "Succeeded" => HandedOver(s, restores[s].uid)'
    <3> SUFFICES ASSUME NEW s \in Restores, restores'[s].result = "Succeeded"
                 PROVE  HandedOver(s, restores[s].uid)'
      OBVIOUS
    <3>1. PICK u : u = restores[s].uid
      OBVIOUS
    <3>2. HandedOver(s, u)'
      BY <1>0, <2>1, <3>1, HandedOverStays DEF ObjectResults
    <3> QED
      BY <2>1, <3>1, <3>2 DEF HandedOver
  <2>5. WorkerResults'
    BY <1>0, <2>1, WorkerFrame
  <2> QED
    BY <2>2, <2>3, <2>4, <2>5 DEF ResultInv, ObjectResults
<1>5. ASSUME NEW r \in Restores, JobFails(r) \/ CollectJob(r) PROVE ResultInv'
  <2>1. UNCHANGED <<restores, cachedJobs, pc, req, restore>>
    BY <1>5 DEF JobFails, CollectJob
  <2>2. \A s \in Restores : jobs'[s].status = "complete" => jobs'[s] = jobs[s]
    BY <1>5 DEF JobFails, CollectJob, NoJob, TypeInv, TypeOK, JobObjects
  <2> QED
    BY <1>0, <2>1, <2>2, ObjectFrame, WorkerFrame DEF ResultInv
<1>6. ASSUME NEW c \in Claims, UserCreatesClaim(c) \/ BindClaim(c) PROVE ResultInv'
  BY <1>0, <1>6, ObjectFrame, WorkerFrame DEF ResultInv, UserCreatesClaim, BindClaim
<1>7. CASE SyncRestores \/ SyncPvcs \/ SyncJobs \/ UNCHANGED vars
  BY <1>0, <1>7, ObjectFrame, WorkerFrame DEF ResultInv,
         SyncRestores, SyncPvcs, SyncJobs, vars
<1>8. CASE Restart
  BY <1>0, <1>8, ObjectFrame, WorkerFrame DEF ResultInv, Restart, Finished
<1> QED
  BY <1>1, <1>2, <1>3, <1>4, <1>5, <1>6, <1>7, <1>8 DEF Next

LEMMA InitResultInv == Init => ResultInv
BY DEF Init, ResultInv, ObjectResults, WorkerResults, NoRestore, NoJob

LEMMA AlwaysResultInv == Spec => []ResultInv
BY InitResultInv, NextResultInv, AlwaysTypeInv, AlwaysOverwriteInv, PTL DEF Spec

\* A PVCRestore that says Succeeded has filled its target completely and has
\* taken its annotation off, whatever stale copies the reconcile worked on.
THEOREM SucceededMeansRestoredHolds == Spec => []SucceededMeansRestored
<1>1. ResultInv => SucceededMeansRestored
  BY DEF ResultInv, ObjectResults, SucceededMeansRestored, HandedOver
<1> QED
  BY <1>1, AlwaysResultInv, PTL

-----------------------------------------------------------------------------
(* Results are final.                                                        *)

\* What a step may do to a PVCRestore: nothing; a status update, or a deletion,
\* of an incarnation that exists; or the creation of the next one.
LEMMA RestoreSteps ==
    ASSUME TypeInv, [Next]_vars
    PROVE  \A r \in Restores :
               \/ restores'[r] = restores[r]
               \/ /\ restores'[r].uid = restores[r].uid
                  /\ restores'[r].present => restores[r].present
                  /\ restores'[r].present => pc # "idle" /\ req = r
                  /\ IsFinished(restores[r]) => restores'[r].result = restores[r].result
               \/ /\ restores'[r].uid = restores[r].uid + 1
                  /\ restores'[r].result = "none"
<1> USE DEF TypeInv, operator, api, caches, worker, data
<1>0. restores \in [Restores -> RestoreObjects] /\ restore \in RestoreObjects
  BY DEF TypeOK
<1>1. CASE SetStarted
  <2> DEFINE copy == [restore EXCEPT !.started = TRUE]
  <2>1. copy.uid = restore.uid /\ copy.present = restore.present /\ copy.result = restore.result
    BY <1>0 DEF RestoreObjects
  <2>2. StatusUpdate(restore, copy, Goto("pvc", copy, pvc))
    BY <1>1 DEF SetStarted
  <2> HIDE DEF copy
  <2>3. \/ restores' = restores
        \/ restores[req] = restore /\ restores' = [restores EXCEPT ![req] = copy]
    BY <2>2 DEF StatusUpdate, Current
  <2> QED
    BY <1>0, <1>1, <2>1, <2>3 DEF SetStarted
<1>2. CASE SetFinished
  <2> DEFINE base == [restore EXCEPT !.result = "none"]
  <2>1. base.uid = restore.uid /\ base.present = restore.present /\ base.result = "none"
    BY <1>0 DEF RestoreObjects
  <2>2. StatusUpdate(base, restore, Return)
    BY <1>2 DEF SetFinished
  <2> HIDE DEF base
  <2>3. \/ restores' = restores
        \/ restores[req] = base /\ restores' = [restores EXCEPT ![req] = restore]
    BY <2>2 DEF StatusUpdate, Current
  <2> QED
    BY <1>0, <1>2, <2>1, <2>3 DEF IsFinished, SetFinished
<1>3. ASSUME NEW r \in Restores, CreateRestore(r)
      PROVE  /\ \A s \in Restores \ {r} : restores'[s] = restores[s]
             /\ restores'[r].uid = restores[r].uid + 1
             /\ restores'[r].result = "none"
  <2>1. restores[r].uid \in 0..MaxUid /\ restores[r].uid < MaxUid
    BY <1>0, <1>3 DEF RestoreObjects, CreateRestore
  <2>2. restores[r].uid + 1 \in 1..MaxUid
    BY <2>1, RestoresAssumption
  <2>3. restores' = [restores EXCEPT
            ![r] = [NoRestore EXCEPT !.uid = restores[r].uid + 1, !.present = TRUE]]
    BY <1>3 DEF CreateRestore
  <2> QED
    BY <1>0, <2>2, <2>3, NewRestoreFields
<1>4. ASSUME NEW r \in Restores, DeleteRestore(r)
      PROVE  /\ \A s \in Restores \ {r} : restores'[s] = restores[s]
             /\ restores'[r].uid = restores[r].uid
             /\ ~restores'[r].present
             /\ restores'[r].result = restores[r].result
  <2>1. restores' = [restores EXCEPT ![r] = [restores[r] EXCEPT !.present = FALSE]]
    BY <1>4 DEF DeleteRestore
  <2> QED
    BY <1>0, <2>1, DeletedFields
<1>5. \/ UNCHANGED restores
      \/ SetStarted
      \/ SetFinished
      \/ \E r \in Restores : CreateRestore(r) \/ DeleteRestore(r)
  <2>1. CASE Reconcile
    BY <2>1 DEF Reconcile, GetRestore, GetOrCreatePvc, GetOrCreateJob, UnmarkPvc, CallFails
  <2>2. CASE \E r \in Restores : Dequeue(r) \/ JobCompletes(r) \/ JobFails(r) \/ CollectJob(r)
    BY <2>2 DEF Dequeue, JobCompletes, JobFails, CollectJob
  <2>3. CASE \E c \in Claims : UserCreatesClaim(c) \/ BindClaim(c)
    BY <2>3 DEF UserCreatesClaim, BindClaim
  <2>4. CASE SyncRestores \/ SyncPvcs \/ SyncJobs \/ Restart \/ UNCHANGED vars
    BY <2>4 DEF SyncRestores, SyncPvcs, SyncJobs, Restart, vars
  <2> QED
    BY <2>1, <2>2, <2>3, <2>4 DEF Next
<1>6. CASE \E r \in Restores : CreateRestore(r) \/ DeleteRestore(r)
  BY <1>3, <1>4, <1>6
<1> QED
  BY <1>1, <1>2, <1>5, <1>6

\* No step takes back or changes the result of a PVCRestore: neither a reconcile
\* that worked on a stale copy, nor a retry after a lost reply.
THEOREM ResultIsFinalHolds == Spec => ResultIsFinal
<1> DEFINE Final == \A r \in Restores :
               IsFinished(restores[r]) /\ restores'[r].uid = restores[r].uid
                   => restores'[r].result = restores[r].result
<1>1. TypeInv /\ [Next]_vars => [Final]_vars
  <2> SUFFICES ASSUME TypeInv, [Next]_vars PROVE Final
    OBVIOUS
  <2>1. \A r \in Restores : restores[r].uid \in Int
    BY DEF TypeInv, TypeOK, RestoreObjects
  <2> QED
    BY <2>1, RestoreSteps
<1> QED
  BY <1>1, AlwaysTypeInv, PTL DEF Spec, ResultIsFinal

-----------------------------------------------------------------------------
(* No lost wakeup.                                                           *)

\* The UIDs and owners are numbers.
LEMMA Numbers ==
    ASSUME TypeOK
    PROVE  /\ \A r \in Restores :
                  /\ restores[r].uid \in Int
                  /\ cachedRestores[r].uid \in Int
                  /\ jobs[r].owner \in Int
                  /\ cachedJobs[r].owner \in Int
           /\ restore.uid \in Int
BY DEF TypeOK, RestoreObjects, JobObjects

\* What a step may do to the Job of r, seen from the cache.
LEMMA JobSteps ==
    ASSUME TypeInv, LagInv, [Next]_vars
    PROVE  \A r \in Restores :
               /\ cachedJobs'[r] \in {cachedJobs[r], jobs[r]}
               /\ cachedJobs'[r] # cachedJobs[r] => jobs'[r] = jobs[r]
               /\ \/ jobs'[r] = jobs[r]
                  \/ /\ jobs[r].status = "none" /\ cachedJobs[r].status = "none"
                     /\ jobs'[r].status = "running"
                     /\ GetOrCreateJob /\ req = r
                     /\ jobs'[r].owner = restore.uid
                     /\ restores' = restores
                  \/ /\ jobs[r].status = "running"
                     /\ jobs'[r].status \in {"complete", "failed"}
                     /\ jobs'[r].owner = jobs[r].owner
                     /\ UNCHANGED <<restores, cachedJobs>>
                  \/ /\ jobs[r].status # "none" /\ jobs'[r] = NoJob
                     /\ ~(restores[r].present /\ restores[r].uid = jobs[r].owner)
                     /\ UNCHANGED <<restores, cachedJobs>>
<1> USE DEF TypeInv, operator, api, caches, worker, data
<1>0. jobs \in [Restores -> JobObjects]
  BY DEF TypeOK
<1>1. CASE GetOrCreateJob
  <2>1. req \in Restores
    BY <1>1 DEF GetOrCreateJob, TypeOK
  <2> QED
    BY <1>0, <1>1, <2>1 DEF GetOrCreateJob
<1>2. ASSUME NEW r \in Restores, JobCompletes(r) \/ JobFails(r)
      PROVE  /\ \A s \in Restores \ {r} : jobs'[s] = jobs[s]
             /\ jobs[r].status = "running"
             /\ jobs'[r].status \in {"complete", "failed"}
             /\ jobs'[r].owner = jobs[r].owner
             /\ UNCHANGED <<restores, cachedJobs>>
  <2>1. PICK x \in {"complete", "failed"} :
            jobs' = [jobs EXCEPT ![r] = [jobs[r] EXCEPT !.status = x]]
    BY <1>2 DEF JobCompletes, JobFails
  <2> QED
    BY <1>0, <1>2, <2>1, JobUpdateTypes DEF JobCompletes, JobFails
<1>3. ASSUME NEW r \in Restores, CollectJob(r)
      PROVE  /\ \A s \in Restores \ {r} : jobs'[s] = jobs[s]
             /\ jobs[r].status # "none" /\ jobs'[r] = NoJob
             /\ ~(restores[r].present /\ restores[r].uid = jobs[r].owner)
             /\ UNCHANGED <<restores, cachedJobs>>
  BY <1>0, <1>3 DEF CollectJob
<1>4. \/ UNCHANGED jobs /\ cachedJobs' \in {cachedJobs, jobs}
      \/ GetOrCreateJob
      \/ \E r \in Restores : JobCompletes(r) \/ JobFails(r)
      \/ \E r \in Restores : CollectJob(r)
  <2>1. CASE Reconcile
    BY <2>1 DEF Reconcile, GetRestore, SetStarted, GetOrCreatePvc, UnmarkPvc, SetFinished, CallFails
  <2>2. CASE \E r \in Restores : Dequeue(r) \/ CreateRestore(r) \/ DeleteRestore(r)
    BY <2>2 DEF Dequeue, CreateRestore, DeleteRestore
  <2>3. CASE \E c \in Claims : UserCreatesClaim(c) \/ BindClaim(c)
    BY <2>3 DEF UserCreatesClaim, BindClaim
  <2>4. CASE SyncRestores \/ SyncPvcs \/ SyncJobs \/ Restart \/ UNCHANGED vars
    BY <2>4 DEF SyncRestores, SyncPvcs, SyncJobs, Restart, vars
  <2> QED
    BY <2>1, <2>2, <2>3, <2>4 DEF Next
<1>5. CASE \E r \in Restores : JobCompletes(r) \/ JobFails(r)
  BY <1>2, <1>5
<1>6. CASE \E r \in Restores : CollectJob(r)
  BY <1>3, <1>6
<1> QED
  BY <1>1, <1>4, <1>5, <1>6

\* The lag of a Job is kept.
LEMMA NextJobLag ==
    ASSUME TypeInv, TypeInv', LagInv, [Next]_vars, NEW r \in Restores
    PROVE  JobLag(r)'
<1>1. /\ JobLag(r)
      /\ pc \notin {"idle", "start"} => restore.uid <= restores[req].uid
  BY DEF LagInv, JobLag
<1>2. /\ restores[r].uid \in Int /\ restores'[r].uid \in Int
      /\ jobs[r].owner \in Int /\ cachedJobs[r].owner \in Int
      /\ restore.uid \in Int
      /\ restores[r].uid >= 0
  BY Numbers DEF TypeInv, TypeOK, RestoreObjects, JobObjects
<1>3. /\ restores'[r].uid >= restores[r].uid
      /\ restores'[r].uid = restores[r].uid /\ restores'[r].present => restores[r].present
  BY <1>2, RestoreSteps
<1>4. CASE jobs'[r] = jobs[r]
  <2>1. cachedJobs'[r] \in {cachedJobs[r], jobs[r]}
    BY JobSteps
  <2>2. CASE cachedJobs'[r] = cachedJobs[r]
    BY <1>1, <1>2, <1>3, <1>4, <2>2 DEF JobLag
  <2>3. CASE cachedJobs'[r] = jobs[r]
    BY <1>1, <1>2, <1>3, <1>4, <2>3 DEF JobLag
  <2> QED
    BY <2>1, <2>2, <2>3
<1>5. CASE jobs'[r] # jobs[r]
  <2>1. cachedJobs'[r] = cachedJobs[r]
    BY <1>5, JobSteps
  <2>2. CASE jobs[r].status = "none"
    <3>1. /\ cachedJobs[r].status = "none"
          /\ jobs'[r].owner = restore.uid
          /\ restores' = restores
          /\ restore.uid <= restores[r].uid
      BY <1>1, <1>5, <2>2, JobSteps DEF GetOrCreateJob
    <3> QED
      BY <1>1, <1>2, <2>1, <3>1 DEF JobLag
  <2>3. CASE jobs[r].status # "none" /\ jobs'[r].status # "none"
    <3>1. /\ jobs[r].status = "running"
          /\ jobs'[r].owner = jobs[r].owner
      BY <1>5, <2>3, JobSteps DEF NoJob
    <3>2. cachedJobs[r].status \in {"none", "running"}
      BY <1>1, <3>1 DEF JobLag
    <3> QED
      BY <1>1, <1>2, <1>3, <2>1, <2>3, <3>1, <3>2 DEF JobLag
  <2>4. CASE jobs[r].status # "none" /\ jobs'[r].status = "none"
    <3>1. /\ jobs'[r] = NoJob
          /\ ~(restores[r].present /\ restores[r].uid = jobs[r].owner)
          /\ restores' = restores
      BY <1>5, <2>4, JobSteps
    <3>2. jobs'[r].owner = 0
      BY <3>1 DEF NoJob
    <3> QED
      BY <1>1, <1>2, <2>1, <2>4, <3>1, <3>2 DEF JobLag
  <2> QED
    BY <2>2, <2>3, <2>4
<1> QED
  BY <1>4, <1>5

\* How a call of Reconcile goes on: it ends, or it keeps the request and, once
\* it has read it, the incarnation.
LEMMA ReconcileSteps ==
    ASSUME TypeInv, Reconcile
    PROVE  /\ pc # "idle" /\ req \in Restores
           /\ cachedRestores' = cachedRestores
           /\ \/ Return \/ Requeue
              \/ /\ pc' \notin {"idle", "start"}
                 /\ req' = req
                 /\ queue' = queue
                 /\ pc = "start" => restore' = cachedRestores[req] /\ pc' # "finish"
                 /\ pc # "start" => restore'.uid = restore.uid
                 /\ pc' = "finish" => IsFinished(restore')
<1> USE DEF TypeInv, caches, api, data
<1>0. restore \in RestoreObjects
  BY DEF TypeOK
<1>1. CASE GetRestore
  BY <1>1 DEF GetRestore, Goto, TypeOK
<1>2. CASE SetStarted
  <2> DEFINE copy == [restore EXCEPT !.started = TRUE]
  <2>1. copy.uid = restore.uid
    BY <1>0 DEF RestoreObjects
  <2>2. /\ StatusUpdate(restore, copy, Goto("pvc", copy, pvc))
        /\ pc = "setStarted"
        /\ cachedRestores' = cachedRestores
    BY <1>2 DEF SetStarted
  <2> HIDE DEF copy
  <2>3. Goto("pvc", copy, pvc) \/ Requeue
    BY <2>2 DEF StatusUpdate, Replied
  <2> QED
    BY <2>1, <2>2, <2>3 DEF Goto, TypeOK
<1>3. ASSUME NEW x \in {"Succeeded", "Failed"}, Finish(x), pc \notin {"idle", "start"}
      PROVE  /\ pc' = "finish" /\ req' = req /\ queue' = queue
             /\ restore'.uid = restore.uid
             /\ IsFinished(restore')
  BY <1>0, <1>3 DEF Finish, Goto, setRestoreFinished, IsFinished, RestoreObjects
<1>4. CASE GetOrCreatePvc
  <2>1. /\ pc = "pvc"
        /\ cachedRestores' = cachedRestores
        /\ \/ Requeue
           \/ Finish("Failed")
           \/ \E p : Goto("job", restore, p)
    BY <1>4 DEF GetOrCreatePvc, Replied
  <2> QED
    BY <1>3, <2>1 DEF Goto, TypeOK
<1>5. CASE GetOrCreateJob
  <2>1. /\ pc = "job"
        /\ cachedRestores' = cachedRestores
        /\ Requeue \/ Return \/ Goto("unmark", restore, pvc) \/ Finish("Failed")
    BY <1>5 DEF GetOrCreateJob, Replied
  <2> QED
    BY <1>3, <2>1 DEF Goto, TypeOK
<1>6. CASE UnmarkPvc
  <2>1. /\ pc = "unmark"
        /\ cachedRestores' = cachedRestores
        /\ Finish("Succeeded") \/ Finish("Failed")
    BY <1>6 DEF UnmarkPvc, Replied
  <2> QED
    BY <1>3, <2>1 DEF TypeOK
<1>7. CASE SetFinished
  BY <1>7 DEF SetFinished, StatusUpdate, Replied, TypeOK
<1>8. CASE CallFails
  BY <1>8 DEF CallFails, TypeOK
<1> QED
  BY <1>1, <1>2, <1>4, <1>5, <1>6, <1>7, <1>8 DEF Reconcile

\* Steps of the rest of the world leave the worker alone, but for a restart, and
\* the cache too, but for an informer that queues what has changed.
LEMMA OtherSteps ==
    ASSUME TypeInv, [Next]_vars, ~Reconcile
    PROVE  \/ UNCHANGED <<pc, req, restore, queue, cachedRestores, cachedJobs>>
           \/ /\ UNCHANGED <<pc, req, restore, api>>
              /\ queue \subseteq queue'
              /\ \A r \in Restores :
                     \/ r \in queue'
                     \/ cachedRestores'[r] = cachedRestores[r] /\ cachedJobs'[r] = cachedJobs[r]
              /\ cachedRestores' \in {cachedRestores, restores}
           \/ \E r \in Restores : Dequeue(r)
           \/ Restart
<1> USE DEF operator, api, caches, worker, data
<1>1. CASE \E r \in Restores : CreateRestore(r) \/ DeleteRestore(r)
                                   \/ JobCompletes(r) \/ JobFails(r) \/ CollectJob(r)
  BY <1>1 DEF CreateRestore, DeleteRestore, JobCompletes, JobFails, CollectJob
<1>2. CASE \E c \in Claims : UserCreatesClaim(c) \/ BindClaim(c)
  BY <1>2 DEF UserCreatesClaim, BindClaim
<1>3. CASE SyncPvcs \/ UNCHANGED vars
  BY <1>3 DEF SyncPvcs, vars
<1>4. CASE SyncRestores
  BY <1>4 DEF SyncRestores
<1>5. CASE SyncJobs
  BY <1>5 DEF SyncJobs
<1> QED
  BY <1>1, <1>2, <1>3, <1>4, <1>5 DEF Next

LEMMA NextLagInv == TypeInv /\ TypeInv' /\ LagInv /\ [Next]_vars => LagInv'
<1> SUFFICES ASSUME TypeInv, TypeInv', LagInv, [Next]_vars PROVE LagInv'
  OBVIOUS
<1>1. \A r \in Restores : restores'[r].uid >= restores[r].uid
  BY RestoreSteps, Numbers DEF TypeInv
<1>2. \A r \in Restores : /\ cachedRestores[r].uid \in Int
                          /\ restores[r].uid \in Int
                          /\ restores'[r].uid \in Int
                          /\ cachedRestores[r].uid <= restores[r].uid
  BY DEF TypeInv, TypeOK, RestoreObjects, LagInv
<1>3. /\ restore.uid \in Int
      /\ pc \notin {"idle", "start"} => req \in Restores /\ restore.uid <= restores[req].uid
      /\ pc = "finish" => IsFinished(restore)
  BY Numbers DEF TypeInv, TypeOK, LagInv
<1>4. /\ \A r \in Restores : cachedRestores'[r].uid <= restores'[r].uid
      /\ pc' \notin {"idle", "start"} => restore'.uid <= restores'[req'].uid
      /\ pc' = "finish" => IsFinished(restore')
  <2>1. CASE Reconcile
    BY <1>1, <1>2, <1>3, <2>1, ReconcileSteps DEF Return, Requeue, Finished
  <2>2. CASE \E r \in Restores : Dequeue(r)
    BY <1>1, <1>2, <2>2 DEF Dequeue, caches
  <2>3. CASE Restart
    BY <1>2, <2>3 DEF Restart, Finished, api
  <2>4. CASE UNCHANGED <<pc, req, restore, queue, cachedRestores>>
    BY <1>1, <1>2, <1>3, <2>4 DEF IsFinished
  <2>5. CASE /\ UNCHANGED <<pc, req, restore, api>>
             /\ cachedRestores' \in {cachedRestores, restores}
    BY <1>2, <1>3, <2>5 DEF api, IsFinished
  <2> QED
    BY <2>1, <2>2, <2>3, <2>4, <2>5, OtherSteps
<1>5. \A r \in Restores : JobLag(r)'
  BY NextJobLag
<1> QED
  BY <1>4, <1>5 DEF LagInv, JobLag, IsFinished

\* A reconcile that returns without an error leaves a Job behind that it does
\* not see complete, unless the PVCRestore has changed.
LEMMA ReturnWakeup ==
    ASSUME TypeInv, LagInv, WakeupInv, Reconcile, Return,
           req \in HandledRestores, req \notin queue,
           cachedRestores[req] = restores'[req],
           restores'[req].present, ~IsFinished(restores'[req])
    PROVE  /\ jobs'[req].status # "none"
           /\ jobs'[req].owner = restores'[req].uid
           /\ cachedJobs'[req] = jobs'[req] => jobs'[req].status # "complete"
<1> USE DEF TypeInv, api, caches, data
<1>0. /\ req \in Restores
      /\ pc \notin {"idle", "start"} => cachedRestores[req].uid = restore.uid
      /\ pc # "idle"
      /\ jobs \in [Restores -> JobObjects]
  BY ReconcileSteps DEF WakeupInv, TypeOK
<1>1. pc' = "idle"
  BY DEF Return, Finished
<1>2. CASE GetRestore
  BY <1>1, <1>2 DEF GetRestore, Goto, Requeue, Return, Finished
<1>3. CASE GetOrCreateJob
  <2>1. cachedRestores[req].uid = restore.uid /\ restores'[req] = restores[req]
    BY <1>0, <1>3 DEF GetOrCreateJob
  <2>2. CASE cachedJobs[req].status = "none"
    <3>1. jobs' = [jobs EXCEPT ![req] = [owner |-> restore.uid, status |-> "running"]]
      BY <1>3, <2>2 DEF GetOrCreateJob, Requeue, Return
    <3> QED
      BY <1>0, <2>1, <3>1
  <2>3. CASE cachedJobs[req].status # "none"
    <3>1. /\ cachedJobs[req].owner = restore.uid
          /\ ~JobDone(cachedJobs[req])
          /\ jobs' = jobs /\ cachedJobs' = cachedJobs
      BY <1>1, <1>3, <2>3 DEF GetOrCreateJob, Goto, Finish
    <3> QED
      BY <1>0, <2>1, <2>3, <3>1 DEF LagInv, JobLag, JobDone
  <2> QED
    BY <2>2, <2>3
<1>4. CASE SetFinished
  <2>1. restores' = [restores EXCEPT ![req] = restore]
    BY <1>4 DEF SetFinished, StatusUpdate, Requeue, Return
  <2>2. restores'[req] = restore
    BY <1>0, <2>1 DEF TypeOK
  <2> QED
    BY <1>4, <2>2 DEF SetFinished, LagInv
<1>5. ~(SetStarted \/ GetOrCreatePvc \/ UnmarkPvc \/ CallFails)
  BY <1>0, <1>1 DEF SetStarted, StatusUpdate, Replied, GetOrCreatePvc, UnmarkPvc, CallFails,
         Finish, Goto, Requeue, Return
<1> QED
  BY <1>2, <1>3, <1>4, <1>5 DEF Reconcile

\* When the restore was quiet before the step, its Job can only have ended.
LEMMA WaitingStays ==
    ASSUME TypeInv, LagInv, [Next]_vars, NEW r \in HandledRestores,
           Waiting(r), Quiet(r),
           \/ cachedRestores'[r] = cachedRestores[r] /\ cachedJobs'[r] = cachedJobs[r]
           \/ r \in queue'
    PROVE  Waiting(r)'
<1>1. r \in Restores
  BY RestoresAssumption
<1>2. CASE r \in queue'
  BY <1>2 DEF Waiting, Quiet
<1>3. CASE /\ r \notin queue'
           /\ cachedRestores'[r] = cachedRestores[r] /\ cachedJobs'[r] = cachedJobs[r]
  <2> SUFFICES ASSUME cachedRestores'[r] = restores'[r],
                      restores'[r].present, ~IsFinished(restores'[r])
               PROVE  /\ jobs'[r].status # "none"
                      /\ jobs'[r].owner = restores'[r].uid
                      /\ cachedJobs'[r] = jobs'[r] => jobs'[r].status # "complete"
    BY DEF Waiting, IsFinished
  <2>1. cachedRestores[r].uid \in Int /\ restores[r].uid \in Int
    BY <1>1, Numbers DEF TypeInv
  <2>2. restores'[r].uid # restores[r].uid + 1
    BY <1>1, <1>3, <2>1 DEF LagInv
  <2>3. restores'[r] = restores[r]
    BY <1>1, <2>2, RestoreSteps DEF Quiet
  <2>4. /\ jobs[r].status # "none"
        /\ jobs[r].owner = restores[r].uid
        /\ cachedJobs[r] = jobs[r] => jobs[r].status # "complete"
    BY <1>3, <2>3 DEF Waiting
  <2>5. CASE jobs'[r] = jobs[r]
    BY <1>3, <2>3, <2>4, <2>5
  <2>6. CASE jobs'[r] # jobs[r]
    <3>1. /\ jobs[r].status = "running"
          /\ jobs'[r].status \in {"complete", "failed"}
          /\ jobs'[r].owner = jobs[r].owner
      BY <1>1, <2>3, <2>4, <2>6, JobSteps
    <3>2. cachedJobs[r] # jobs'[r]
      BY <1>1, <3>1 DEF LagInv, JobLag
    <3> QED
      BY <1>3, <2>3, <2>4, <3>1, <3>2
  <2> QED
    BY <2>5, <2>6
<1> QED
  BY <1>2, <1>3

LEMMA NextWakeupInv == TypeInv /\ LagInv /\ WakeupInv /\ [Next]_vars => WakeupInv'
<1> SUFFICES ASSUME TypeInv, LagInv, WakeupInv, [Next]_vars PROVE WakeupInv'
  OBVIOUS
<1>1. pc' \notin {"idle", "start"} /\ req' \notin queue' => cachedRestores'[req'].uid = restore'.uid
  <2>0. pc \notin {"idle", "start"} /\ req \notin queue => cachedRestores[req].uid = restore.uid
    BY DEF WakeupInv
  <2>1. CASE Reconcile
    BY <2>0, <2>1, ReconcileSteps DEF Return, Requeue, Finished
  <2>2. CASE \E r \in Restores : Dequeue(r)
    BY <2>2 DEF Dequeue
  <2>3. CASE Restart
    BY <2>3 DEF Restart, Finished
  <2>4. CASE ~Reconcile /\ ~Restart /\ ~\E r \in Restores : Dequeue(r)
    <3>1. pc \notin {"idle", "start"} => req \in Restores
      BY DEF TypeInv, TypeOK
    <3> QED
      BY <2>0, <2>4, <3>1, OtherSteps
  <2> QED
    BY <2>1, <2>2, <2>3, <2>4
<1>2. ASSUME NEW r \in HandledRestores PROVE Waiting(r)'
  <2>0. r \in Restores /\ Waiting(r)
    BY <1>2, RestoresAssumption DEF WakeupInv, Waiting
  <2>1. CASE Reconcile
    <3>1. pc # "idle" /\ req \in Restores /\ cachedRestores' = cachedRestores /\ cachedJobs' = cachedJobs
      BY <2>1, ReconcileSteps DEF Reconcile, GetRestore, SetStarted, GetOrCreatePvc,
             GetOrCreateJob, UnmarkPvc, SetFinished, CallFails, caches
    <3>2. CASE r = req
      <4>1. CASE Return
        BY <1>2, <2>1, <3>1, <3>2, <4>1, ReturnWakeup DEF Waiting, Quiet, IsFinished, Return
      <4>2. CASE ~Return
        BY <2>1, <3>2, <4>2, ReconcileSteps DEF Waiting, Quiet, Requeue
      <4> QED
        BY <4>1, <4>2
    <3>3. CASE r # req /\ r \notin queue
      <4>1. Quiet(r)
        BY <3>3 DEF Quiet
      <4> QED
        BY <1>2, <2>0, <3>1, <4>1, WaitingStays
    <3>4. CASE r # req /\ r \in queue
      BY <2>1, <3>4, ReconcileSteps DEF Waiting, Quiet, Return, Requeue
    <3> QED
      BY <3>2, <3>3, <3>4
  <2>2. CASE \E q \in Restores : Dequeue(q)
    <3>1. PICK q \in Restores : Dequeue(q)
      BY <2>2
    <3>2. CASE r = q \/ r \in queue
      BY <3>1, <3>2 DEF Dequeue, Waiting, Quiet
    <3>3. CASE r # q /\ r \notin queue
      BY <1>2, <2>0, <3>1, <3>3, WaitingStays DEF Dequeue, Quiet, caches
    <3> QED
      BY <3>2, <3>3
  <2>3. CASE Restart
    BY <2>0, <2>3 DEF Restart, Waiting, Quiet, api
  <2>4. CASE ~Reconcile /\ ~Restart /\ ~\E q \in Restores : Dequeue(q)
    <3>1. /\ UNCHANGED <<pc, req>>
          /\ queue \subseteq queue'
          /\ \/ r \in queue'
             \/ cachedRestores'[r] = cachedRestores[r] /\ cachedJobs'[r] = cachedJobs[r]
      BY <2>0, <2>4, OtherSteps
    <3>2. CASE Quiet(r)
      BY <1>2, <2>0, <3>1, <3>2, WaitingStays
    <3>3. CASE ~Quiet(r)
      BY <3>1, <3>3 DEF Waiting, Quiet
    <3> QED
      BY <3>2, <3>3
  <2> QED
    BY <2>1, <2>2, <2>3, <2>4
<1> QED
  BY <1>1, <1>2 DEF WakeupInv, Waiting

LEMMA InitWakeupInv == Init => LagInv /\ WakeupInv
<1> SUFFICES ASSUME Init PROVE LagInv /\ WakeupInv
  OBVIOUS
<1>1. \A r \in Restores : /\ restores[r] = NoRestore /\ cachedRestores[r] = NoRestore
                          /\ jobs[r] = NoJob /\ cachedJobs[r] = NoJob
  BY DEF Init
<1>2. pc = "idle"
  BY DEF Init
<1>3. LagInv
  BY <1>1, <1>2 DEF LagInv, JobLag, NoRestore, NoJob
<1>4. WakeupInv
  BY <1>1, <1>2, RestoresAssumption DEF WakeupInv, Waiting, NoRestore
<1> QED
  BY <1>3, <1>4

LEMMA AlwaysWakeupInv == Spec => []WakeupInv
<1>1. Spec => []LagInv
  BY InitWakeupInv, NextLagInv, AlwaysTypeInv, PTL DEF Spec
<1> QED
  BY <1>1, InitWakeupInv, NextWakeupInv, AlwaysTypeInv, PTL DEF Spec

\* When the caches are up to date and the operator is idle, a PVCRestore that it
\* has to handle has its result, is in the queue, or has a Job that has not
\* completed: no event is lost, in whatever order the informers see them.
THEOREM NoLostWakeupHolds == Spec => []NoLostWakeup
<1>1. TypeInv /\ WakeupInv => NoLostWakeup
  <2> SUFFICES ASSUME TypeInv, WakeupInv, NEW r \in HandledRestores,
                      restores[r].present, ~IsFinished(restores[r]),
                      caches = api, pc = "idle", r \notin queue
               PROVE  /\ jobs[r].status \in {"running", "failed"}
                      /\ jobs[r].owner = restores[r].uid
    BY DEF NoLostWakeup
  <2>1. cachedRestores = restores /\ cachedJobs = jobs
    BY DEF caches, api
  <2>2. r \in Restores /\ jobs[r].status \in {"none", "running", "complete", "failed"}
    BY RestoresAssumption DEF TypeInv, TypeOK, JobObjects
  <2> QED
    BY <2>1, <2>2 DEF WakeupInv, Waiting, Quiet
<1> QED
  BY <1>1, AlwaysTypeInv, AlwaysWakeupInv, PTL
=============================================================================
