# A verification of the backsnap operator

backsnap backs up PersistentVolumeClaims of a Kubernetes cluster with restic.
This directory holds TLA+ models of its three reconcilers and of the script in
its backup Jobs, the TLC configurations that check them on small instances, and
TLAPS proofs of their safety properties and of the refinement. Paths such as
`pvcbackup_controller.go:458` are relative to `internal/controller/` unless they
say otherwise. `PROJECT.json` maps every
definition that models code to its lines.

## Inventory

| Part | State | Operations | Interacts with |
|---|---|---|---|
| PVCBackup controller (`pvcbackup_controller.go`) | `CurrentRunningBackups` in memory; status of PVCBackups; a snapshot, a claim and a Job per PVCBackup | `Reconcile`, `FindCurrentRunningBackups`, watches | API server, informer caches, snapshot / volume / Job controllers, garbage collector |
| PVCRestore controller (`pvcrestore_controller.go`) | status of PVCRestores; the `restoring` annotation on the target claim; a Job | `Reconcile`, watches | the same |
| Automatic creator (`automatic.go`) | none of its own; reads creation times | `Reconcile` on claims and namespaces, creates PVCBackups | PVCBackup controller (creates what it works on, reads what it deletes), PVCRestore controller (skips claims with the annotation) |
| `restic.sh` | the restic repository and its keys | init, password rotation, unlock, backup, check, forget, prune | run by the Job of a PVCBackup, retried by the Job controller; shares repositories with restores |
| Helpers (`util.go`) | none | `requeueAfter`, `resticEnv`, storage class names | called by the controllers |
| Start-up (`cmd/main.go`) | flags | parses flags, wires the controllers to one manager | all controllers |
| API types (`api/v1alpha1`) | spec and status of the two kinds | generated deep copies | all controllers |
| Helm chart, manifests, docs | configuration | none | |

What is hard here is not the data but the timing. Each controller has one
worker, but a reconcile is a sequence of separate calls. Reads come from
informer caches that lag behind the API server, kind by kind. Writes may
conflict, fail, or be applied while the reply is lost. Between two calls users
delete and create objects, the cluster's controllers make progress and the
process may be killed. The memory that counts running backups is lost then and
is rebuilt from a cache. Nothing but an event or a requeue brings an object back
to the worker.

What makes each part correct:

- PVCBackup controller: the limit on running backups; slots are given back; a
  PVCBackup that says Succeeded has its data in the repository; no event is
  missed; children are cleaned up and not made again; of the finished backups of
  a claim the last one is kept and the others expire; nothing is deleted that a
  running backup needs, and users' claims are left alone.
- PVCRestore controller: only a claim that the restore itself made is written
  to; the result is right, final, and comes in the end.
- Automatic creator: a PVCBackup for every time of the schedule, and only one;
  none while a claim is restored; none outside the configured namespaces.
- `restic.sh`: a rotation that is interrupted anywhere never loses the last
  working key, and ends; a failed step is not reported as a backup; locks that
  are left behind do not block the repository for good.
- Helpers and start-up: managed variables win over configured ones; the
  namespace flags mean the same to every controller.

The hazards that follow from this are listed in `PROJECT.json`, each at its line.

## Modules

| Module | What it is |
|---|---|
| `PVCBackupReconciler` | the PVCBackup controller, the objects it works on and the rest of the cluster |
| `BackupLifecycle` | what it promises: the phases of a PVCBackup; abstract |
| `MCPVCBackupReconciler` | small instances of `PVCBackupReconciler` |
| `PVCBackupProofs` | theorems about it, proved with TLAPS: types, limit, namespaces, final results |
| `PVCBackupLagProofs` | more of them: lagging caches, wakeups, slots |
| `PVCBackupDataProofs` | more of them: the data, the children, the backups that are kept, the refinement |
| `PVCRestoreReconciler` | the PVCRestore controller with its environment |
| `MCPVCRestoreReconciler` | its small instances |
| `PVCRestoreProofs` | theorems about it, proved with TLAPS |
| `AutomaticPVCBackupCreator` | the automatic creator, with the namespace flags and the other two controllers as its environment |
| `MCAutomaticPVCBackupCreator` | its small instances |
| `AutomaticProofs` | theorems about it, proved with TLAPS |
| `ResticScript` | `restic.sh` in several Pods on one restic repository, with `resticEnv` and the rotation of the password |
| `MCResticScript` | its small instances |
| `ResticProofs` | theorems about it, proved with TLAPS |

An operator whose comment starts with "Mutant of" is a plausible mistake in the
operator that follows it. No action uses it; with it in place of the original,
the property it is paired with in `PROJECT.json` must fail.

### PVCBackupReconciler

State. `backups`, `snapshots`, `pvcs` and `jobs` are the objects at the API
server; `cachedX` is the operator's cache of each kind; `queue`, `pc`, `req` and
`backup` are the workqueue and the worker's place, request and local copy;
`found` and `running` are `CurrentRunningBackups` (not nil, and its keys). `now`
is the clock, `repo` says which incarnation's data is in restic, and `budget`
counts the faults that may still happen.

Actions. Each call of `Reconcile` to the API server or the cache is one action,
from the namespace filter and the first `Get` (`GetBackup`) to the poll that
ends it (`Poll`, `PollTimesOut`); early returns are the ways an action ends in
`Return` (no requeue) or `Requeue` (`requeueAfter`, or an error).
`FindCurrentRunningBackups` assigns the map first and may stop at a failing
List. `CallFails` is any other call that fails without effect; `Replied` lets a
write be applied and its reply be lost. `SyncX` is the informer of a kind with
the requests its events make (`For` and `Owns`). `Restart` kills the process.

The environment is modelled from how the code uses it: the API server checks the
resourceVersion of status updates and refuses to create what exists; the
snapshot controller, the provisioner, the Job controller and the garbage
collector do their steps; users create and delete PVCBackups and delete claims;
another release of the operator may run backups of namespaces excluded here.

Abstractions, and why they are sound:

- A read from the cache and the write that follows are one action when nothing
  is decided in between on other data. A cache update between them changes
  neither the value read nor the object at the API server, so it can be moved
  behind the write. Writes by others in between make the write fail, which is
  the action's other outcome.
- A cache is brought up to date for a whole kind at once. Any prefix of a watch
  is reachable, since the informer may take its step after every change.
- The resourceVersion check compares objects. No object returns to an earlier
  value of the same incarnation, so equality of values is equality of versions.
- Delays of `requeueAfter` are left out: a requeued backup may be reconciled at
  once or much later. Times are whole seconds, as `metav1.Time` is stored.
- Of a status only StartedAt (set or not) and FinishedAt are kept. Result is
  "Succeeded" whenever FinishedAt is set, because `setBackupFinished` is called
  with nothing else; the branch at `pvcbackup_controller.go:97` is dead code for
  backups.
- After a restart the caches are complete before the worker starts, as
  controller-runtime guarantees. Deletions take effect at once; finalizers are
  not modelled. A deleted Job takes its Pods with it.
- `MaxRunningBackups` is an integer; zero or less means no limit, as at
  `pvcbackup_controller.go:197`.
- There is one worker: `SetupWithManager` leaves MaxConcurrentReconciles at its
  default. A second manager is assumed not to be active (`-leader-elect`).

### PVCRestoreReconciler

The same scheme. A claim has a status and the UID in its `restoring` annotation;
a Job has the UID that is both its annotation and its owner. `creator`, `written`
and `restored` record who made a claim and whose Job wrote to it, for the
properties. `UnmarkPvc` is the Update that removes the annotation; its failure
leads to the result Failed. Claims are not owned by the PVCRestore, so their
changes are no events, although `SetupWithManager` lists them under `Owns`.
Users create claims but do not delete the target of a restore.

### BackupLifecycle

What a user of PVCBackups sees: each one is absent, requested, running or
finished, in this order, at most `Limit` are running, and one is finished only
after its data has been stored. There are no caches, no queue and no process.
`PVCBackupReconciler` instantiates it as `Lifecycle`: the phase is read off the
status at the API server (`Phase`), the stored backups are the ones whose own
incarnation has data in restic, and the names are those this release handles.
`ImplementsLifecycle` says that every step of the controller and of the cluster is
a step of the life cycle or leaves it alone. It says more than `RunningLimit` and
`SucceededMeansBackedUp` together: a backup is not finished before it is started,
does not go back, and no data is stored for one that has not been started.

### AutomaticPVCBackupCreator

State. `namespaces`, `claims` and `backups` at the API server, a cache of each;
`queue` and `timers`, the workqueue with its delayed requests; `now`. `made`
records every PVCBackup that was created, for the properties; `disturbed` and
`outlived` record that certain faults happened (below), `unlisted` the claims
whose requests were lost. `backups` are the
creator's PVCBackups. Of the ones that users make for a claim, which the creator
does not see because the claim does not own them (`automatic.go:192`), only the
last time that one finished counts, for the PVCBackup controller: `manual`.

Actions. `Reconcile(p)` is one whole reconcile with all its returns: it reads
only caches and the clock and makes one write at its end, so nothing can be told
apart by splitting it. `CreateBackup` is that write; the API server's clock,
which stamps PVCBackups and claims, is the operator's plus one of `ClockSkew`.
`requeueAfter` sets a
timer, at least a second ahead; `TimerFires` puts the claim into the queue.
`SyncClaims` and `SyncNamespaces` are the two watches, with the filter `InScope`;
PVCBackups are not watched. When the List in `namespaceToRequests` fails, the
namespace's requests are lost (fault "listError", `unlisted`). `Restart` fills the caches and has an event for every
claim. The PVCBackup controller is `FinishBackup` and `ExpireBackup`: which
PVCBackups it deletes, after `DefaultTTL`, decides what the schedule continues
from. As in `pvcbackup_controller.go:108`, one is deleted when any other
PVCBackup of the claim, a user's (`ManualBackup`) included, finished later. Users
also delete PVCBackups (`DeleteBackup`). The PVCRestore
controller is `CreateClaim(p, TRUE)` and `RestoreEnds`.

Abstractions. A cron expression is a period: its times are the multiples of a
number of seconds. What the code asks of a schedule is only the next time after
a given one. `TolerancePercent` is 60 in the run where the code has 1, so that one
second of skew is within the tolerance of a schedule of 2 or 4 seconds. The flags
are sets of the entries between the commas: the code only tests membership, and
whether there is more than one entry, where `","` and `""` come to the same.

Time. `Tick` lets a second pass when the operator has nothing left to do, or, as
the fault "slow", although it has. Some faults are there because the code has
nothing against them:

- "cacheLag", a second passes before a new PVCBackup is in the cache, and
  "deleteBackup", a user deletes the newest PVCBackup. The creator may then make a
  second one for the same time. These set `disturbed`.
- "overtake", a PVCBackup finishes before an older one, and "manual", a user's
  PVCBackup finishes. The creator's newest PVCBackup is then not the last to
  finish, and the TTL deletion may take it. These set `outlived`. When the TTL is
  at least the interval (`OutlastsInterval`; 3 days and a day by default), it is
  deleted only after the next time of the schedule has come, which does no harm.
  With a longer interval the creator goes back to an older PVCBackup, or to the
  creation of the claim, and serves the time again.

`ScheduledOnce` is stated for behaviours that are not `disturbed`, and for the
pairs of PVCBackups whose schedule outlasts, or behaviours that are not `outlived`
either. `ScheduledOnce` also needs a skew below the tolerance:
with the 1% of the code, a schedule of 100 seconds or less has a tolerance below
one second, and one second of skew gives two backups. `DueIsMade` is stated for
all claims but those in `unlisted`, for which it fails (below).

### ResticScript

State. The repository: whether it exists, its `keys` (a password and a number,
since restic lets a password have several), the `leftover` lock of a restic that
was killed, the runs that `stored` a snapshot. The flags: `config`, the password
and the old password, and `moved`, whether a Job made with them has succeeded
(the README's condition for ending a rotation). Each Pod: its environment, its
command, its lock, `OLD_KEY` and how often its Job was retried.

Actions. Each command is one action that runs under the lock of that command;
`Open` is where it opens the repository with a password and takes the lock, or
where restic exits with 10 (no repository) or 12 (wrong password), and `GiveUp`
where it exits with 11 (no lock in time). `Fail` is `exit 1` or `set -e`.
`Interrupted` is a failing command or a SIGTERM, `NodeFails` a Pod that is gone
with its lock left behind. `Retry` is the Job controller's next Pod with the same
environment, `NewJob` the Job of the next PVCBackup with the present flags.
`Rotate` and `EndRotation` follow the steps of "Rotating the restic password" in
the repository's README: one rotation after the other, each ended once the claim
was backed up. restic's locks and keys are modelled from how the script uses
them: `cat`, `key list`, `key add` and `backup` take shared locks, `key remove`,
`check`, `forget` and `prune` exclusive ones, `unlock` and `init` none.

`restic init` is one step: two that run at the same time, or one that is killed
after the key and before the config is written, are left to restic. `restic
forget`, `prune` and `snapshots` at the end of the script are the one action
`Prune` under one exclusive lock: a failure between them is its failure before or
after, for what is modelled. `restic snapshots` and the retention policy change
nothing that is modelled:
`--keep-last 1` keeps the last snapshot, so a run that stored one leaves that one
or a later one.

## Runs

Every run takes less than three minutes with two workers. Each fault in a
budget happens at most once, at any place. Each property of a passing run has a
mutant that breaks it.

| Run | Instance | What it shows |
|---|---|---|
| `backup_limit` | two backups of one claim, one slot, clock 0..1; restart, poll timeout, lost reply, failing call, failing Job | `RunningLimit`, `SucceededMeansBackedUp`, `NoLostWakeup`, `FinishedIsFinal`, also when the clock moves between two final updates, `NoResurrection`, `TypeOK`, and the refinement `ImplementsLifecycle` |
| `backup_delete` | one backup with two incarnations; PVCBackup and source claim deleted | `NoLostWakeup`, `NoLeakedSlot`, `NotCleanedEarly`: the cleanup, which goes by name, takes nothing of the next incarnation; and, under fairness, `DeletedFreesSlot` |
| `backup_expiry` | two backups of one claim, one slot, TTL 1 s, clock 0..1; restart | `NewestFinishedKept`, also when both finish in the same second, `ExpiredIsDeleted` and `EveryBackupFinishes` |
| `backup_progress` | one backup here, one that another release runs in an excluded namespace, one slot; restart, failing List, failing call | `SlotsOnlyHandled`, `EveryBackupFinishes`, `CleanedUp` |
| `restore_safety` | two restores of one claim with two incarnations; every fault | `NeverOverwrites`, `SucceededMeansRestored`, `NoLostWakeup`, `ResultIsFinal`, `TypeOK` |
| `restore_progress` | a restore with a target, one without, one of another release; restart, lost reply, failing call, a user's claim | `EveryRestoreFinishes` |
| `schedule` | one claim, deleted and created again, in a namespace that the flags include, leave out or exclude; schedules of 2 and 4 s, none, or an invalid one; TTL 3 s, clock 0..6; the API server's clock 0 or 1 s behind; any one fault | `ScheduledOnce`, `OnlyWanted`, `TypeOK`, and, under fairness, `DueIsMade` |
| `restic_rotation` | two Jobs at a time, one rotation, one retry; an interruption, a node failure, a lock not got in time | `Openable`, `SucceededMeansStored`, `SucceededMeansMoved`, `TypeOK`, and, under fairness, `RotationFinishes` |

Two backups with one slot are the smallest instance in which a backup waits, is
overtaken, or is counted twice; a third would only wait as the second does. Two
incarnations are enough for everything that is keyed by a name and meant for a
UID. A restart may happen in any state and starts from caches equal to the API
server; more than one at a time between the same writes adds nothing, and the
theorems hold for any number. With seconds 0 and 1 and a TTL of 1, two
backups finish together or apart, and one that finished at 0 expires, before or
after the other has finished. Seven seconds hold three times of a schedule of
2, so that a backup is followed by the next, and a change to a schedule of 4 in
between; with a TTL of 3 a PVCBackup outlasts the interval of 2 and expires
before the last of them. Two Jobs are enough for every pair of commands to meet; one rotation
with a retry meets every interruption, and keys of more than two passwords are
covered by the theorem about `Openable`. `CHECK_DEADLOCK FALSE` is set where
the system may come to rest: all is finished, or a failed Job, or a deleted
PVCBackup leaves nothing to do.

Fairness (`FairSpec`). The workqueue is first in, first out and each reconcile
ends, so a queued object is dequeued in the end although the worker is busy in
between: strong fairness of `Dequeue(b)`. The worker, the informers, the clock
and the cluster's controllers are weakly fair. No user has to act and no fault
has to happen. A backup that finds no slot is requeued, so it competes again;
that it gets a slot follows from the fairness of the queue and of the cluster.
In `AutomaticPVCBackupCreator` the worker, the timers, the informers and the
clock are weakly fair, and again nobody else. In `ResticScript` a script goes on,
a failed Job is retried and the schedule brings new Jobs; a restic that waits for
a lock asks for it again and again, so `Open` is strongly fair; time passes for a
lock that nobody refreshes (`LockGoesStale`). The administrator need not rotate.
That the schedule brings new Jobs is taken for granted there: a Job that failed
for good keeps its PVCBackup's slot (run `job_failure`), and with all slots gone no
Job would come, so `RotationFinishes` is about a claim that still gets its Jobs.

### Runs that refute a claim

| Run | What TLC finds |
|---|---|
| `slot_leak` | The poll of the cache (`pvcbackup_controller.go:458`) times out; the function returns before it releases the slot and the finished backup holds it until a restart. With one slot, the next backup never starts. |
| `job_failure` | A Job at its BackoffLimit has no CompletionTime; the PVCBackup never gets a result. |
| `restore_misreported` | The cached claim is behind, the Update that removes the annotation conflicts, and the completed restore is recorded as Failed. |
| `stale_lock` | A node fails while restic checks or prunes, with an exclusive lock. `restic cat config` (`restic.sh:24`) waits for that lock and fails, the script exits before `unlock` (`restic.sh:72`), and so does every later one, however stale the lock is. The lock in the repository's test is a shared one. |

`findings` in `PROJECT.json` quotes what each one contradicts. More is visible
in the models although no run is kept for it; the notes of the hazards say how:

- With `MaxUid = 2`, `SucceededMeansBackedUp` and `ImplementsLifecycle` fail: a
  PVCBackup that is created again adopts the snapshot or the Job of its
  predecessor by name. The Delete of an expired PVCBackup carries no UID and can
  hit its successor.
- With a fault "listError" after a "restart", `RunningLimit` fails:
  `FindCurrentRunningBackups` assigns the empty map before it lists, so the search
  is not repeated and the running backups are forgotten.
- With TTL 0, `CleanedUp` fails for the last backup of a claim, which takes the
  branch of an expired backup at once.
- A restore Job that fails for good leaves the PVCRestore without a result, as
  for backups.
- With `MaxPassword = 3`, `SucceededMeansMoved` fails: two Jobs may both add the new
  password, and in the next rotation a backup removes only one of its two keys.
- With a PVCBackup that has the name of a claim, that claim is taken for the copy
  (`pvcbackup_controller.go:271`), backed up directly, and deleted by the cleanup
  (`:166`). This needs no fault. A property that users' claims are left alone would
  hold only for names that differ by assumption, and is not kept.
- A claim is seen before its namespace and its reconcile returns
  (`automatic.go:71`); the event of the namespace comes and its List of claims
  fails (`:250`): nothing brings the claim back and no backup is made of it, while
  the repository's README promises a daily snapshot of all claims, "even new ones".
- A claim is deleted and a restore makes it again. A creator whose cache still has
  the former claim sees no annotation (`automatic.go:90`) and makes a PVCBackup
  while the restore goes on; the PVCBackup controller does not look at the
  annotation. Within one incarnation the annotation is never added later, so
  there is no property for the rest.
- With a TTL below the interval, a user's PVCBackup that finishes after the
  creator's newest one lets that one be deleted, and its time is served again.
  `ScheduledOnce` leaves this out by `OutlastsInterval`.

## Proofs

Every invariant and every action property of the passing runs is also a theorem,
and so is the refinement: TLC shows them on the small instances, TLAPS for every
value of the constants. The modules' own assumptions about their constants are
weak, and TLC evaluates them in every run. What a theorem assumes beyond them is
in its statement. Each such assumption is there because the property is false
without it, in the model and in the code, or, where this is said below, because
the property is about what happens without that fault.

### PVCBackup controller

For every finite set of backups, every set of claims, every setting of the flags
and TTLs and every budget of faults. `NamespacesAssumption` is what
`cmd/main.go:152` makes of the flags.

| Theorem | Beyond the module's assumptions | Why |
|---|---|---|
| `TypeCorrect`, `SlotsOnlyHandledHolds`, `FinishedIsFinalHolds`, `NoLostWakeupHolds`, `NotCleanedEarlyHolds` | nothing | |
| `RunningLimitHolds` | no failing List | otherwise the running backups are forgotten after a restart |
| `NoLeakedSlotHolds` | no poll timeout, no lost reply | run `slot_leak`; a lost reply of the last status update takes the same way out |
| `SucceededMeansBackedUpHolds` | no PVCBackup has the name of a claim; a name is used once (`MaxUid <= 1`) | otherwise that claim, or the children of the predecessor, are adopted |
| `NewestFinishedKeptHolds` | users delete no PVCBackups | a user may delete the last one |
| `NoResurrectionHolds` | the same; a name is used once, no name of a claim | children of a deleted PVCBackup are collected while a reconcile still works on a copy of it |
| `ImplementsLifecycleHolds` | a name is used once, no name of a claim, no failing List | it implies `SucceededMeansBackedUp` and `RunningLimit` |

A name is used once for PVCBackups of the automatic creator, whose names end in
the second of their creation.

- `TypeOK` is inductive as it stands, except that a write needs `req \in Backups`,
  which it contains for a busy worker.
- `RunningLimit` speaks of the API server, but the code decides on the map in
  memory and on cached copies. The inductive invariant `LimitInv` connects them.
  `CacheInv`: the cache is never ahead, and it knows every handled PVCBackup that
  has been started, since only the operator starts one, and only when its copy
  equals the object at the API server. `WorkerInv`: a backup past the slot check is
  in `running`, and the local copy is not newer than the cache. `SlotInv`: every
  running backup is in `running` and `running` is within the limit; before
  `FindCurrentRunningBackups`, the same holds of what it will find. The delicate
  steps are the releases: in `GetBackup` the PVCBackup is not in the cache, in
  `Poll` it is finished there, and by `CacheInv` it is then not running at the API
  server either.
- `SlotsOnlyHandled` adds that the worker past the filter is on a handled backup;
  the lemma about `FoundIn` needs that "" is the only namespace when it occurs.
- `FinishedIsFinal` follows from `TypeOK`: the only write of FinishedAt is a status
  update whose base is an unfinished copy equal to the object at the API server.
- `NoLostWakeup` is about states in which all caches are up to date, so it is far
  from inductive. `LagInv`, `ChildInv` and `CopyInv` say how a cache, and the worker's
  copy, may differ from what they are behind of. `WakeupInv` then says of each
  backup that is neither queued nor being reconciled, whatever the other caches
  show, that it waits for a snapshot or a Job whose next event is still to come.
  The steps that matter are the ends of a reconcile without requeue, and the
  informers, whose events make the requests.
- `NoLeakedSlot` needs `LeakInv`: a slot is held only by a backup that is not finished
  at the API server, or whose reconcile is in the poll that will free it.
- `NotCleanedEarly` needs `OwnerInv`: children belong to incarnations that the cache
  has shown, so a cleanup, which works on a copy from the cache, meets no child of
  a later incarnation than its own; and its own is finished at the API server. The
  children that a user deletes with the PVCBackup itself are not in question.
- `SucceededMeansBackedUp` needs `DataInv`, along the chain from the snapshot to the
  claim, the Job, the cached Job and the worker that finishes.
- `NewestFinishedKept` needs `KeptInv`. The later sibling that the stale List shows may
  be gone, and its name used again: but for its time, too, one as late exists. The
  Delete is by name and may hit a new incarnation: but one that is not finished,
  because the cache knows every handled backup that finishes, and the worker that
  deletes is the only one that finishes them.
- `NoResurrection` needs `CleanupInv`: until the cache shows a backup as finished, all
  its children exist, so that no reconcile that works on it finds one missing.
- The refinement maps each step to a step of `BackupLifecycle` or to a stutter, with
  `PhaseMap` and `StoredMap` for its variables; the start of a backup needs
  `RunningLimit` in the next state, its finish and the end of its Job `DataInv`.

### PVCRestore controller

`TypeCorrect`, `NeverOverwritesHolds`, `SucceededMeansRestoredHolds`,
`ResultIsFinalHolds` and `NoLostWakeupHolds`, for any number of restores, claims and
incarnations, every assignment of targets and every budget of faults, without
further assumptions.

- `NeverOverwrites` needs who made a claim to be known wherever a decision is taken:
  the annotation at the API server and in the cache is the creator's or gone
  (`ClaimInv`), and a Job, and a worker past `GetOrCreatePvc`, belong to the creator
  of their target (`OwnerInv`).
- `SucceededMeansRestored` follows the result from the Job to the cached Job, the
  worker and the status (`ResultInv`); that the claim handed over stays handed over
  is `ClaimInv` again.
- `ResultIsFinal` follows from the resourceVersion check and `WorkerResults`.
- `NoLostWakeup` is as for backups. `JobLag` says that a Job of the same name is only
  replaced after the cache has seen the old one go.

### Automatic creator

- `TypeCorrect`, `OnlyWantedHolds`: for any claims, namespaces, flags, schedules,
  skews and faults. `ScopeInv` says that only claims in scope are in the queue or
  have a timer, since Reconcile itself does not look at the flags;
  `InScopeIsWanted` that the filter, with `main`'s treatment of "", is what the
  flags' help text says.
- `ScheduledOnceHolds`: `Spec => []ScheduledOnce` under `ClocksAgree`: the tolerance is at
  most 100% (it is 1%), and the API server's clock is behind the operator's by less than the
  tolerance of each schedule in use. Without the latter, a PVCBackup made on time
  seems to be early and is made again (above). The API server's clock may go back.
  The argument has two halves. The arithmetic: `ServedTime` is monotone
  (`ServedTimeMonotone`), and a PVCBackup that is made when `NextBackup` has come has a
  later timestamp (`DueIsLater`) and serves a later time (`DueServesLater`) than the
  newest one seen, tolerance and skew included, for all intervals; one that is made
  an interval later does so whatever is seen (`IntervalLater`). The state:
  `CachedInv` says that each PVCBackup not made in this second is seen, or a newer
  one, so that otherwise the name of the Create is taken; `CreatedInv` that a later
  name has no earlier timestamp. Of each PVCBackup that was made for the present
  claim, either one as new is still at the API server or an interval has passed
  (`KeptOrOld`), for one of two reasons. `MadeInv`: as long as nothing has finished
  out of order, the newest one is never deleted; that it survives `ExpireBackup`
  needs `NameInv`, the order of names, owners and creation timestamps, and
  `FinishInv`, that PVCBackups finish in this order and no user's beside them.
  `FreshInv`: whatever finishes when, none is deleted before its TTL has passed
  since it was made, which for a schedule that it outlasts is after the next time;
  this needs `FinishedInv`, that none finishes before it is made. The lemmas about
  `Max` rest on one that a finite set of integers has a largest element, by
  well-foundedness of the subset order.

### restic.sh

For every finite set of Pods, every number of rotations, every `ResticEnv`,
`BackoffLimit` and budget of faults; `SucceededMeansMovedHolds` for one rotation
(`MaxPassword <= 2`): in the next one a password may have two keys, of which a
backup removes one (above).

- `TypeCorrect`: `Spec => []TypeOK`. A new key has the smallest number that is
  free; that it is at most the number of Pods needs finiteness.
- `OpenableHolds`: `Spec => []Openable`. A key is removed by a Pod that may have been
  made with older flags than the present ones, so `Openable` is not inductive. The
  invariant `KeyInv` adds: the passwords of a Pod are those of some flags, the old
  one next before the new one (`EnvInv`; the lemma `ManagedVariables` shows that
  `resticEnv` lets nothing replace them); a Pod that holds a lock has opened the
  repository, and an exclusive lock is alone, so no key can be removed under it
  (`LockInv`); `OLD_KEY` is a key of the old password (`OldKeyInv`); once a Job with
  the present flags has succeeded the present password opens the repository, and
  before the repository exists no Pod is more than one rotation behind
  (`MovedInv`). In `KeyRemove` the key that goes is that of the password before the
  Pod's own: if the Pod is up to date its own key stays, and if it is behind, its
  old password is neither of the configured ones. It uses that a rotation is ended
  only after a backup, as `EndRotation` has it from the repository's README.
- `SucceededMeansStoredHolds`: `Spec => []SucceededMeansStored`, with the invariant
  that a Pod past `restic backup` has stored a snapshot.
- `SucceededMeansMovedHolds`: `RotationInv` says what opens the repository by the place
  that a Pod with an old password has come to.

### Only model-checked

The liveness properties: `DeletedFreesSlot`, `ExpiredIsDeleted`, `EveryBackupFinishes`,
`CleanedUp`, `EveryRestoreFinishes`, `DueIsMade`, `RotationFinishes`. Fairness and ENABLED
are out of the prover's reach. The counterexamples of the runs that refute a claim
are TLC's too.

## Not modelled

The pod templates, labels, annotations other than `restoring` and the schedule,
storage classes and sizes (a ready VolumeSnapshot without RestoreSize, which
`pvcbackup_controller.go:304` dereferences, included): data that the controllers
pass through and decide nothing on. Cron expressions, restic's repository format
and its retention policy: external. Restore Pods, which run `restic restore` from
the command line and not `restic.sh`, are a step of the Job controller. Logging,
metrics, flag parsing, health checks, leader election, the Helm chart, generated
code.

## Plan

1. Done: the three controllers and the script, with their runs; the abstract life
   cycle and its refinement; theorems for all their invariants and action
   properties and for the refinement.
2. Left: theorems that keep more of what holds when names are used again, such as
   the data of the first incarnation of a PVCBackup, and of later rotations.
