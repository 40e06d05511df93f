---------------------------- MODULE ResticScript ----------------------------
(***************************************************************************)
(* restic.sh, the script in the Pods of backup Jobs, on the repository of  *)
(* one claim, with the environment that resticEnv (util.go) gives it.      *)
(*                                                                         *)
(* Several Jobs of a claim may run at the same time.  A Job keeps the      *)
(* environment it was made with, also when the administrator rotates the   *)
(* restic password meanwhile.  Any command may fail, a Pod may be stopped  *)
(* or its node may fail at any moment, and the Job controller retries.     *)
(*                                                                         *)
(* A restic command opens the repository with a password, takes a lock, or *)
(* waits for it (Open), then does its work and removes its lock.           *)
(***************************************************************************)
EXTENDS Integers, FiniteSets

CONSTANTS
    Pods,           \* the Pods, one for each Job that runs at the same time
    MaxPassword,    \* bound: passwords are 1..MaxPassword, in order of use
    ResticEnv,      \* the variables set with -restic-env
    BackoffLimit,   \* retries of a Job (4 in the code)
    Budget          \* bound: how often each fault happens

\* What may go wrong, each at most Budget[f] times.
Faults == {"interrupted",   \* a command fails, or the Pod is stopped with SIGTERM
           "nodeFailure",   \* the Pod is gone, and its lock is left behind
           "lockTimeout"}   \* --retry-lock expires while others hold locks

NoPassword == 0     \* the empty string
NoKey == <<0, 0>>

ASSUME PodsAssumption == IsFiniteSet(Pods) /\ Pods # {}
ASSUME LimitsAssumption ==
    /\ MaxPassword \in Nat \ {0}
    /\ BackoffLimit \in Nat
    /\ Budget \in [Faults -> Nat]

VARIABLES
    \* the repository
    exists,     \* it has been initialised
    keys,       \* its keys: <<password, number>>
    leftover,   \* the lock of a restic that is gone: [kind, stale]
    stored,     \* the Pods whose run stored a snapshot: it is there, or a later one
    \* the operator's flags
    config,     \* [password, oldPassword]
    moved,      \* a Job made with these flags has succeeded
    \* each Pod
    env,        \* its environment
    pc,         \* its command
    lock,       \* the lock it holds
    oldKey,     \* OLD_KEY
    attempts,   \* how often its Job was retried
    budget      \* faults left

repository == <<exists, keys, leftover, stored>>
flags      == <<config, moved>>
pods       == <<env, pc, lock, oldKey, attempts>>
vars       == <<repository, flags, pods, budget>>

-----------------------------------------------------------------------------
(* The environment of a backup container.                                    *)

defaultResticEnv == [BACKSNAP_RETRY_LOCK |-> "30m", BACKSNAP_CHECK_SUBSET |-> "10%"]

\* lo.Assign: the entries of over win.
Assign(base, over) ==
    [v \in DOMAIN base \cup DOMAIN over |-> IF v \in DOMAIN over THEN over[v] ELSE base[v]]

\* Mutant of resticEnv: the configured variables win over the managed ones.
resticEnvConfigured(managed) == Assign(Assign(defaultResticEnv, managed), ResticEnv)

\* The managed variables, then the configured ones, then the defaults.
resticEnv(managed) == Assign(Assign(defaultResticEnv, ResticEnv), managed)

JobEnv == resticEnv([RESTIC_PASSWORD |-> config.password,
                     BACKSNAP_OLD_RESTIC_PASSWORD |-> config.oldPassword])

Password(p)    == env[p].RESTIC_PASSWORD
OldPassword(p) == env[p].BACKSNAP_OLD_RESTIC_PASSWORD

-----------------------------------------------------------------------------
(* restic.                                                                   *)

Opens(password) == \E k \in keys : k[1] = password

\* The lock that each command takes; unlock and init take none.
LockOf == [cat |-> "shared", keyAdd |-> "shared", keyList |-> "shared",
           keyRemove |-> "exclusive", backup |-> "shared", check |-> "exclusive",
           prune |-> "exclusive", recheck |-> "exclusive"]

NoLock == [kind |-> "none", stale |-> FALSE]

Compatible(held, wanted) ==
    held = "none" \/ (held = "shared" /\ wanted = "shared")

FreeOfPods(p, wanted) == \A q \in Pods \ {p} : Compatible(lock[q], wanted)

OpensWith(p) ==
    IF pc[p] \in {"keyAdd", "keyList"} THEN OldPassword(p) ELSE Password(p)

Ended == {"none", "succeeded", "failed"}

TypeOK ==
    /\ exists \in BOOLEAN
    /\ keys \subseteq (1..MaxPassword) \X (1..Cardinality(Pods))
    /\ leftover \in [kind : {"none", "shared", "exclusive"}, stale : BOOLEAN]
    /\ stored \subseteq Pods
    /\ config \in [password : 1..MaxPassword, oldPassword : 0..MaxPassword]
    /\ moved \in BOOLEAN
    /\ \A p \in Pods : {Password(p), OldPassword(p)} \subseteq 0..MaxPassword
    /\ pc \in [Pods -> DOMAIN LockOf \cup {"init", "unlock"} \cup Ended]
    /\ lock \in [Pods -> {"none", "shared", "exclusive"}]
    /\ oldKey \in [Pods -> (0..MaxPassword) \X (0..Cardinality(Pods))]
    /\ attempts \in [Pods -> 0..BackoffLimit]
    /\ budget \in [Faults -> Nat]

Init ==
    /\ exists \in BOOLEAN
    /\ keys = IF exists THEN {<<1, 1>>} ELSE {}
    /\ leftover = NoLock
    /\ stored = {}
    /\ config = [password |-> 1, oldPassword |-> NoPassword]
    /\ moved = exists
    /\ env = [p \in Pods |-> JobEnv]
    /\ pc = [p \in Pods |-> "none"]
    /\ lock = [p \in Pods |-> "none"]
    /\ oldKey = [p \in Pods |-> NoKey]
    /\ attempts = [p \in Pods |-> 0]
    /\ budget = Budget

Spend(f) ==
    /\ budget[f] > 0
    /\ budget' = [budget EXCEPT ![f] = @ - 1]

\* The command of p is over, its lock is removed, and the script goes on.
Goto(p, command) ==
    /\ pc' = [pc EXCEPT ![p] = command]
    /\ lock' = [lock EXCEPT ![p] = "none"]
    /\ UNCHANGED <<env, attempts>>

\* Mutant of Fail: without set -e, a failing backup is followed by the check.
GoOn(p) == Goto(p, IF pc[p] = "backup" THEN "check" ELSE "failed") /\ UNCHANGED oldKey

\* exit 1, or set -e
Fail(p) == Goto(p, "failed") /\ UNCHANGED oldKey

\* Mutant of AfterCheck: the old key is removed by the Pod that added the new one.
AfterOwnAdd(p) == IF pc[p] = "keyAdd" THEN "keyList" ELSE "unlock"

\* The old password is looked for while a rotation is configured.
AfterCheck(p) ==
    IF OldPassword(p) \notin {NoPassword, Password(p)} THEN "keyList" ELSE "unlock"

\* Mutant of WrongPassword: the new password is never added.
WrongPasswordFails(p) ==
    \/ /\ pc[p] = "keyList"
       /\ Goto(p, "unlock")
       /\ UNCHANGED oldKey
    \/ pc[p] # "keyList" /\ Fail(p)

\* What the script does when a command of p exits with 12, wrong password.
WrongPassword(p) ==
    \/ /\ pc[p] = "cat"
       /\ OldPassword(p) # NoPassword
       /\ Goto(p, "keyAdd")
       /\ UNCHANGED oldKey
    \/ /\ pc[p] = "keyList"
       /\ Goto(p, "unlock")
       /\ UNCHANGED oldKey
    \/ /\ pc[p] # "keyList"
       /\ pc[p] = "cat" => OldPassword(p) = NoPassword
       /\ Fail(p)

\* p opens the repository and takes its lock, when that is free.
Open(p) ==
    /\ pc[p] \in DOMAIN LockOf
    /\ lock[p] = "none"
    /\ \/ /\ ~exists
          /\ pc[p] = "cat"
          /\ Goto(p, "init")
          /\ UNCHANGED oldKey
       \/ /\ exists
          /\ ~Opens(OpensWith(p))
          /\ WrongPassword(p)
       \/ /\ exists
          /\ Opens(OpensWith(p))
          /\ FreeOfPods(p, LockOf[pc[p]])
          /\ Compatible(leftover.kind, LockOf[pc[p]])
          /\ lock' = [lock EXCEPT ![p] = LockOf[pc[p]]]
          /\ UNCHANGED <<env, pc, oldKey, attempts>>
    /\ UNCHANGED <<repository, flags, budget>>

\* --retry-lock expires: exit 11.
GiveUp(p) ==
    /\ pc[p] \in DOMAIN LockOf
    /\ lock[p] = "none"
    /\ exists
    /\ Opens(OpensWith(p))
    /\ \/ /\ ~Compatible(leftover.kind, LockOf[pc[p]])
          /\ UNCHANGED budget
       \/ /\ ~FreeOfPods(p, LockOf[pc[p]])
          /\ Spend("lockTimeout")
    /\ Fail(p)
    /\ UNCHANGED <<repository, flags>>

-----------------------------------------------------------------------------
(* The script, one action per command.                                       *)

\* p runs command, and has the lock it needs.
Runs(p, command) ==
    /\ pc[p] = command
    /\ command \in DOMAIN LockOf => lock[p] = LockOf[command]

\* The repository may have been made by another Job in the meantime.
InitRepository(p) ==
    /\ Runs(p, "init")
    /\ \/ /\ ~exists
          /\ exists' = TRUE
          /\ keys' = {<<Password(p), 1>>}
          /\ Goto(p, AfterCheck(p))
          /\ UNCHANGED oldKey
       \/ /\ exists
          /\ Fail(p)
          /\ UNCHANGED <<exists, keys>>
    /\ UNCHANGED <<leftover, stored, flags, budget>>

CatConfig(p) ==
    /\ Runs(p, "cat")
    /\ Goto(p, AfterCheck(p))
    /\ UNCHANGED <<repository, flags, oldKey, budget>>

\* restic does not mind that there is a key for this password already.
KeyAdd(p) ==
    /\ Runs(p, "keyAdd")
    /\ \E n \in 1..Cardinality(Pods) :
           /\ <<Password(p), n>> \notin keys
           /\ \A m \in 1..(n - 1) : <<Password(p), m>> \in keys
           /\ keys' = keys \cup {<<Password(p), n>>}
    /\ Goto(p, AfterCheck(p))
    /\ UNCHANGED <<exists, leftover, stored, flags, oldKey, budget>>

\* OLD_KEY is the key that the old password opens.  No key is removed while a
\* shared lock is held, so it is in the list.
KeyList(p) ==
    /\ Runs(p, "keyList")
    /\ \E k \in keys : /\ k[1] = OldPassword(p)
                       /\ oldKey' = [oldKey EXCEPT ![p] = k]
    /\ Goto(p, "keyRemove")
    /\ UNCHANGED <<repository, flags, budget>>

\* Fails when another Job has removed that key.
KeyRemove(p) ==
    /\ Runs(p, "keyRemove")
    /\ \/ /\ oldKey[p] \in keys
          /\ keys' = keys \ {oldKey[p]}
          /\ Goto(p, "unlock")
          /\ oldKey' = [oldKey EXCEPT ![p] = NoKey]
       \/ /\ oldKey[p] \notin keys
          /\ Fail(p)
          /\ UNCHANGED keys
    /\ UNCHANGED <<exists, leftover, stored, flags, budget>>

\* Removes locks that were not refreshed for 30 minutes.
Unlock(p) ==
    /\ Runs(p, "unlock")
    /\ \/ /\ Opens(Password(p))
          /\ leftover' = IF leftover.stale THEN NoLock ELSE leftover
          /\ Goto(p, "backup")
          /\ UNCHANGED oldKey
       \/ /\ ~Opens(Password(p))
          /\ Fail(p)
          /\ UNCHANGED leftover
    /\ UNCHANGED <<exists, keys, stored, flags, budget>>

Backup(p) ==
    /\ Runs(p, "backup")
    /\ stored' = stored \cup {p}
    /\ Goto(p, "check")
    /\ UNCHANGED <<exists, keys, leftover, flags, oldKey, budget>>

\* With restic snapshots after it, which changes nothing.
Check(p) ==
    /\ Runs(p, "check")
    /\ Goto(p, "prune")
    /\ UNCHANGED <<repository, flags, oldKey, budget>>

\* forget, prune and snapshots.  --keep-last 1 keeps the last snapshot: for each
\* Pod its own, or a later one.
Prune(p) ==
    /\ Runs(p, "prune")
    /\ Goto(p, "recheck")
    /\ UNCHANGED <<repository, flags, oldKey, budget>>

\* check --read-data-subset, and exit 0.
Recheck(p) ==
    /\ Runs(p, "recheck")
    /\ Goto(p, "succeeded")
    /\ moved' = (moved \/ JobEnv = env[p])
    /\ UNCHANGED <<repository, config, oldKey, budget>>

\* A command fails without effect, or tini passes SIGTERM on to restic: it
\* removes its lock, and the script exits with 143.
Interrupted(p) ==
    /\ pc[p] \notin Ended
    /\ Spend("interrupted")
    /\ Fail(p)
    /\ UNCHANGED <<repository, flags>>

Step(p) ==
    \/ GiveUp(p)
    \/ InitRepository(p)
    \/ CatConfig(p)
    \/ KeyAdd(p)
    \/ KeyList(p)
    \/ KeyRemove(p)
    \/ Unlock(p)
    \/ Backup(p)
    \/ Check(p)
    \/ Prune(p)
    \/ Recheck(p)

-----------------------------------------------------------------------------
(* The cluster and the administrator.                                        *)

NodeFails(p) ==
    /\ pc[p] \notin Ended
    /\ Spend("nodeFailure")
    /\ Fail(p)
    /\ leftover' = IF lock[p] = "none" THEN leftover ELSE [kind |-> lock[p], stale |-> FALSE]
    /\ UNCHANGED <<exists, keys, stored, flags>>

LockGoesStale ==
    /\ leftover.kind # "none"
    /\ ~leftover.stale
    /\ leftover' = [leftover EXCEPT !.stale = TRUE]
    /\ UNCHANGED <<exists, keys, stored, flags, pods, budget>>

\* A run of the script begins.
Begin(p, environment, attempt) ==
    /\ pc' = [pc EXCEPT ![p] = "cat"]
    /\ env' = [env EXCEPT ![p] = environment]
    /\ oldKey' = [oldKey EXCEPT ![p] = NoKey]
    /\ attempts' = [attempts EXCEPT ![p] = attempt]
    /\ stored' = stored \ {p}
    /\ UNCHANGED <<exists, keys, leftover, flags, lock, budget>>

\* Mutant of Retry: one retry too many.
RetryOnceMore(p) ==
    /\ pc[p] = "failed"
    /\ attempts[p] <= BackoffLimit
    /\ Begin(p, env[p], attempts[p] + 1)

\* The Job controller starts another Pod for the same Job.
Retry(p) ==
    /\ pc[p] = "failed"
    /\ attempts[p] < BackoffLimit
    /\ Begin(p, env[p], attempts[p] + 1)

\* The next PVCBackup of the claim: GetOrCreateJob of PVCBackupReconciler.
NewJob(p) ==
    /\ pc[p] \in Ended
    /\ pc[p] = "failed" => attempts[p] = BackoffLimit
    /\ Begin(p, JobEnv, 0)

\* The current password becomes the old one, after the last rotation has ended.
Rotate ==
    /\ config.oldPassword = NoPassword
    /\ config.password < MaxPassword
    /\ exists => moved
    /\ config' = [password |-> config.password + 1, oldPassword |-> config.password]
    /\ moved' = FALSE
    /\ UNCHANGED <<repository, pods, budget>>

\* Once the claim has been backed up, the old password is no longer configured.
EndRotation ==
    /\ config.oldPassword # NoPassword
    /\ moved
    /\ config' = [config EXCEPT !.oldPassword = NoPassword]
    /\ UNCHANGED <<repository, moved, pods, budget>>

Next ==
    \/ \E p \in Pods : \/ Open(p) \/ Step(p) \/ Retry(p) \/ NewJob(p)
                       \/ Interrupted(p) \/ NodeFails(p)
    \/ LockGoesStale
    \/ Rotate
    \/ EndRotation

Spec == Init /\ [][Next]_vars

\* A script goes on, failed Jobs are retried, and the schedule brings new ones.
\* A restic that waits for a lock asks again and again (strong fairness).
Fairness ==
    /\ \A p \in Pods : SF_vars(Open(p)) /\ WF_vars(Step(p)) /\ WF_vars(Retry(p) \/ NewJob(p))
    /\ WF_vars(LockGoesStale)

FairSpec == Spec /\ Fairness

-----------------------------------------------------------------------------
\* The configured password opens the repository, or the old one does during a
\* rotation, wherever the rotation was interrupted and whatever Jobs with older
\* passwords still run: the last working key is never removed.
Openable ==
    exists => \E k \in keys : k[1] \in {config.password, config.oldPassword}

\* A Pod that exits with 0 has stored a snapshot in this run: no command that
\* failed is passed over.
SucceededMeansStored == \A p \in Pods : pc[p] = "succeeded" => p \in stored

\* A Pod that exits with 0 has moved the repository to the new password, or
\* found that another one did: the old password does not open it any more.
\* (As long as the old password has one key.)
SucceededMeansMoved ==
    \A p \in Pods :
        pc[p] = "succeeded" /\ OldPassword(p) # NoPassword
            => Opens(Password(p)) /\ ~Opens(OldPassword(p))

\* A rotation ends with the new password: the old one no longer opens the
\* repository, also when the Pod that added the new one was stopped before it
\* removed the old one.  (Unless a restic was killed and left its lock.)
RotationFinishes ==
    config.oldPassword # NoPassword /\ exists
        ~> \/ Opens(config.password) /\ ~Opens(config.password - 1)
           \/ leftover.kind # "none"

\* The lock that an interrupted restic left behind is removed by a later Job,
\* once it is stale.
StaleLockRemoved == leftover.kind # "none" ~> leftover.kind = "none"
=============================================================================
