---------------------------- MODULE ResticProofs ----------------------------
(***************************************************************************)
(* Theorems about ResticScript: however many Jobs run on a repository, with *)
(* whatever passwords, and wherever they are stopped, the configured       *)
(* password opens it, or the old one does during a rotation.               *)
(***************************************************************************)
EXTENDS ResticScript, FiniteSetTheorems, TLAPS

\* The parts of the state that the proofs are about have their types.
KeyTypes ==
    /\ exists \in BOOLEAN
    /\ keys \subseteq (Nat \ {0}) \X Nat
    /\ config \in [password : Nat \ {0}, oldPassword : Nat]
    /\ moved \in BOOLEAN
    /\ DOMAIN env = Pods
    /\ pc \in [Pods -> DOMAIN LockOf \cup {"init", "unlock"} \cup Ended]
    /\ lock \in [Pods -> {"none", "shared", "exclusive"}]
    /\ oldKey \in [Pods -> Nat \X Nat]

\* The passwords of a Pod are those of some earlier or the present flags.
EnvInv ==
    /\ config.oldPassword \in {NoPassword, config.password - 1}
    /\ \A p \in Pods :
           /\ Password(p) \in 1..config.password
           /\ OldPassword(p) \in {NoPassword, Password(p) - 1}

\* A Pod that holds a lock has opened the repository, and an exclusive lock is
\* alone.
LockInv ==
    /\ \A p \in Pods : lock[p] # "none" =>
           /\ exists
           /\ pc[p] \in DOMAIN LockOf
           /\ lock[p] = LockOf[pc[p]]
           /\ Opens(OpensWith(p))
    /\ \A p, q \in Pods : p # q /\ lock[p] = "exclusive" => lock[q] = "none"

\* OLD_KEY is a key of the old password.
OldKeyInv == \A p \in Pods : oldKey[p][1] \in {0, OldPassword(p)}

\* Before there is a repository, nobody can move it, and no password is older
\* than the configured old one; once it is moved, the new password opens it.
MovedInv ==
    /\ moved => exists /\ Opens(config.password)
    /\ ~exists => \A p \in Pods : Password(p) \in {config.password, config.oldPassword}

KeyInv ==
    /\ KeyTypes
    /\ EnvInv
    /\ LockInv
    /\ OldKeyInv
    /\ MovedInv
    /\ Openable

-----------------------------------------------------------------------------
(* Lemmas about the operators.                                               *)

\* The managed variables are in the environment of a Job, whatever is
\* configured with -restic-env.
LEMMA ManagedVariables ==
    /\ JobEnv.RESTIC_PASSWORD = config.password
    /\ JobEnv.BACKSNAP_OLD_RESTIC_PASSWORD = config.oldPassword
BY DEF JobEnv, resticEnv, Assign

\* The commands that take a lock, and the lock they take.
LEMMA Locks ==
    /\ DOMAIN LockOf = {"cat", "keyAdd", "keyList", "keyRemove", "backup",
                        "check", "prune", "recheck"}
    /\ \A c \in DOMAIN LockOf : LockOf[c] \in {"shared", "exclusive"}
    /\ LockOf["keyRemove"] = "exclusive"
BY DEF LockOf

-----------------------------------------------------------------------------
(* Openable is an invariant.                                                 *)

LEMMA InitKeyInv == Init => KeyInv
<1> SUFFICES ASSUME Init PROVE KeyInv
  OBVIOUS
<1>1. KeyTypes
  BY DEF Init, KeyTypes, Ended, NoKey, NoPassword
<1>2. \A p \in Pods : Password(p) = 1 /\ OldPassword(p) = NoPassword
  BY ManagedVariables DEF Init, Password, OldPassword
<1>3. EnvInv
  BY <1>2 DEF Init, EnvInv, NoPassword
<1>4. LockInv
  BY DEF Init, LockInv
<1>5. OldKeyInv
  BY DEF Init, OldKeyInv, NoKey
<1>6. MovedInv /\ Openable
  BY <1>2 DEF Init, MovedInv, Openable, Opens
<1> QED
  BY <1>1, <1>3, <1>4, <1>5, <1>6 DEF KeyInv

\* The step of a Pod that goes on with another command, and leaves the
\* keys and the flags alone.
LEMMA GotoKeyInv ==
    ASSUME KeyInv, NEW p \in Pods,
           NEW c \in DOMAIN LockOf \cup {"init", "unlock"} \cup Ended,
           Goto(p, c),
           UNCHANGED <<exists, keys, config, moved>>,
           oldKey' \in [Pods -> Nat \X Nat],
           \A q \in Pods : oldKey'[q][1] \in {0, OldPassword(q)}
    PROVE  KeyInv'
<1> USE DEF KeyInv, Goto
<1>1. KeyTypes'
  BY DEF KeyTypes
<1>2. EnvInv'
  BY DEF EnvInv, Password, OldPassword
<1>3. LockInv'
  BY DEF KeyTypes, LockInv, Opens, OpensWith, Password, OldPassword
<1>4. OldKeyInv'
  BY DEF OldKeyInv, OldPassword
<1>5. MovedInv' /\ Openable'
  BY DEF MovedInv, Openable, Opens, Password
<1> QED
  BY <1>1, <1>2, <1>3, <1>4, <1>5

\* The same, with OLD_KEY left alone too.
LEMMA GotoOnly ==
    ASSUME KeyInv, NEW p \in Pods,
           NEW c \in DOMAIN LockOf \cup {"init", "unlock"} \cup Ended,
           Goto(p, c),
           UNCHANGED <<exists, keys, config, moved, oldKey>>
    PROVE  KeyInv'
BY GotoKeyInv DEF KeyInv, KeyTypes, OldKeyInv

LEMMA FailKeyInv ==
    ASSUME KeyInv, NEW p \in Pods, Fail(p),
           UNCHANGED <<exists, keys, config, moved>>
    PROVE  KeyInv'
BY GotoOnly DEF Fail, Ended

LEMMA OpenKeyInv ==
    ASSUME KeyInv, NEW p \in Pods, Open(p)
    PROVE  KeyInv'
<1> USE DEF repository, flags
<1>1. CASE ~exists /\ Goto(p, "init") /\ UNCHANGED oldKey
  BY <1>1, GotoOnly DEF Open
<1>2. CASE WrongPassword(p)
  BY <1>2, GotoOnly, FailKeyInv, Locks DEF Open, WrongPassword
<1>3. CASE /\ exists
           /\ Opens(OpensWith(p))
           /\ FreeOfPods(p, LockOf[pc[p]])
           /\ lock' = [lock EXCEPT ![p] = LockOf[pc[p]]]
           /\ UNCHANGED <<env, pc, oldKey, attempts>>
  <2> USE DEF KeyInv
  <2>0. UNCHANGED <<exists, keys, config, moved, env, pc, oldKey>>
    BY <1>3 DEF Open
  <2>1. KeyTypes'
    BY <1>3, <2>0, Locks DEF Open, KeyTypes
  <2>2. LockInv'
    <3>1. \A q \in Pods : Opens(OpensWith(q))' <=> Opens(OpensWith(q))
      BY <2>0 DEF Opens, OpensWith, Password, OldPassword
    <3>2. pc[p] \in DOMAIN LockOf /\ lock[p] = "none" /\ lock'[p] = LockOf[pc[p]]
      BY <1>3 DEF Open, KeyTypes
    <3>3. \A q \in Pods \ {p} : lock'[q] = lock[q]
      BY <1>3 DEF KeyTypes
    <3>4. \A q \in Pods \ {p} :
              /\ lock[q] # "exclusive"
              /\ lock'[p] = "exclusive" => lock[q] = "none"
      BY <1>3, <3>2, Locks DEF FreeOfPods, Compatible
    <3> QED
      BY <1>3, <2>0, <3>1, <3>2, <3>3, <3>4 DEF LockInv
  <2>3. EnvInv' /\ OldKeyInv'
    BY <2>0 DEF EnvInv, OldKeyInv, Password, OldPassword
  <2>4. MovedInv' /\ Openable'
    BY <2>0 DEF MovedInv, Openable, Opens, Password
  <2> QED
    BY <2>1, <2>2, <2>3, <2>4
<1> QED
  BY <1>1, <1>2, <1>3 DEF Open

\* A new repository has the password of the Pod that made it.
LEMMA InitRepositoryKeyInv ==
    ASSUME KeyInv, NEW p \in Pods, InitRepository(p)
    PROVE  KeyInv'
<1> USE DEF KeyInv, flags
<1>1. CASE Fail(p) /\ UNCHANGED <<exists, keys>>
  BY <1>1, FailKeyInv DEF InitRepository
<1>2. CASE /\ ~exists
           /\ exists' = TRUE
           /\ keys' = {<<Password(p), 1>>}
           /\ Goto(p, AfterCheck(p))
           /\ UNCHANGED oldKey
  <2>0. UNCHANGED <<config, moved, env, oldKey>>
    BY <1>2 DEF InitRepository, Goto
  <2>1. Password(p) \in {config.password, config.oldPassword} /\ Password(p) \in Nat \ {0}
    BY <1>2 DEF MovedInv, EnvInv, KeyTypes
  <2>2. KeyTypes'
    BY <1>2, <2>0, <2>1, Locks DEF KeyTypes, Goto, AfterCheck
  <2>3. \A q \in Pods : lock[q] = "none" /\ lock'[q] = "none"
    BY <1>2 DEF LockInv, Goto, KeyTypes
  <2>4. EnvInv' /\ OldKeyInv' /\ LockInv'
    BY <2>0, <2>3 DEF EnvInv, OldKeyInv, LockInv, Password, OldPassword
  <2>5. ~moved
    BY <1>2 DEF MovedInv
  <2>6. MovedInv'
    BY <1>2, <2>0, <2>5 DEF MovedInv
  <2>7. Openable'
    BY <1>2, <2>0, <2>1 DEF Openable
  <2> QED
    BY <2>2, <2>4, <2>6, <2>7
<1> QED
  BY <1>1, <1>2 DEF InitRepository

LEMMA KeyAddKeyInv ==
    ASSUME KeyInv, NEW p \in Pods, KeyAdd(p)
    PROVE  KeyInv'
<1> USE DEF KeyInv, flags
<1>0. UNCHANGED <<exists, config, moved, env, oldKey>>
  BY DEF KeyAdd, Goto
<1>1. PICK n \in 1..Cardinality(Pods) : keys' = keys \cup {<<Password(p), n>>}
  BY DEF KeyAdd
<1>2. n \in Nat /\ Password(p) \in Nat \ {0}
  BY DEF EnvInv, KeyTypes
<1>3. KeyTypes'
  BY <1>0, <1>1, <1>2, Locks DEF KeyAdd, KeyTypes, Goto, AfterCheck
<1>4. EnvInv' /\ OldKeyInv'
  BY <1>0 DEF EnvInv, OldKeyInv, Password, OldPassword
<1>5. LockInv'
  BY <1>0, <1>1 DEF KeyAdd, Goto, KeyTypes, LockInv, Opens, OpensWith, Password, OldPassword
<1>6. MovedInv' /\ Openable'
  BY <1>0, <1>1 DEF MovedInv, Openable, Opens, Password
<1> QED
  BY <1>3, <1>4, <1>5, <1>6

\* The key that is removed is older than the password of the Pod, which opens
\* the repository as long as the Pod holds its lock.
LEMMA KeyRemoveKeyInv ==
    ASSUME KeyInv, NEW p \in Pods, KeyRemove(p)
    PROVE  KeyInv'
<1> USE DEF KeyInv, flags
<1>1. CASE Fail(p) /\ UNCHANGED keys
  BY <1>1, FailKeyInv DEF KeyRemove
<1>2. CASE /\ oldKey[p] \in keys
           /\ keys' = keys \ {oldKey[p]}
           /\ Goto(p, "unlock")
           /\ oldKey' = [oldKey EXCEPT ![p] = NoKey]
  <2>0. UNCHANGED <<exists, config, moved, env>>
    BY <1>2 DEF KeyRemove, Goto
  <2>1. lock[p] = "exclusive" /\ pc[p] = "keyRemove"
    BY Locks DEF KeyRemove, Runs
  <2>2. exists /\ Opens(Password(p))
    BY <2>1 DEF LockInv, OpensWith
  <2>3. oldKey[p][1] = Password(p) - 1 /\ Password(p) \in 1..config.password
    <3>1. oldKey[p][1] \in Nat \ {0}
      BY <1>2 DEF KeyTypes
    <3> QED
      BY <3>1 DEF OldKeyInv, EnvInv, NoPassword
  <2>4. \A k \in keys : k[1] # Password(p) - 1 => k \in keys'
    BY <1>2, <2>3
  <2>5. KeyTypes'
    BY <1>2, <2>0 DEF KeyTypes, Goto, NoKey
  <2>6. LockInv'
    BY <1>2, <2>1 DEF KeyTypes, LockInv, Goto
  <2>7. EnvInv' /\ OldKeyInv'
    BY <1>2, <2>0 DEF EnvInv, OldKeyInv, Password, OldPassword, KeyTypes, NoKey
  <2>8. config.password \in Nat \ {0} /\ config.oldPassword \in Nat
    BY DEF KeyTypes
  <2>9. MovedInv'
    <3>1. moved => Opens(config.password)'
      BY <2>0, <2>3, <2>4, <2>8 DEF MovedInv, Opens
    <3> QED
      BY <2>0, <2>2, <3>1 DEF MovedInv
  <2>10. Openable'
    <3>1. CASE Password(p) = config.password
      BY <2>0, <2>2, <2>3, <2>4, <2>8, <3>1 DEF Openable, Opens
    <3>2. CASE Password(p) # config.password
      <4>1. PICK k \in keys : k[1] \in {config.password, config.oldPassword}
        BY <2>2 DEF Openable
      <4>2. k[1] \in Nat \ {0}
        BY <4>1 DEF KeyTypes
      <4>3. k[1] \in {config.password, config.password - 1}
        BY <4>1, <4>2 DEF EnvInv, NoPassword
      <4>4. k[1] # Password(p) - 1
        BY <2>3, <2>8, <3>2, <4>3
      <4> QED
        BY <2>0, <2>4, <4>1, <4>4 DEF Openable
    <3> QED
      BY <3>1, <3>2
  <2> QED
    BY <2>5, <2>6, <2>7, <2>9, <2>10
<1> QED
  BY <1>1, <1>2 DEF KeyRemove

\* A Job that succeeds with the present flags holds a lock, hence the
\* configured password opens the repository.
LEMMA RecheckKeyInv ==
    ASSUME KeyInv, NEW p \in Pods, Recheck(p)
    PROVE  KeyInv'
<1> USE DEF KeyInv, repository
<1>0. UNCHANGED <<exists, keys, config, env, oldKey>>
  BY DEF Recheck, Goto
<1>1. KeyTypes'
  BY <1>0 DEF Recheck, Goto, KeyTypes, Ended
<1>2. EnvInv' /\ OldKeyInv' /\ Openable'
  BY <1>0 DEF EnvInv, OldKeyInv, Openable, Password, OldPassword
<1>3. LockInv'
  BY <1>0 DEF Recheck, Goto, KeyTypes, LockInv, Opens, OpensWith, Password, OldPassword
<1>4. exists /\ Opens(Password(p))
  BY Locks DEF Recheck, Runs, LockInv, OpensWith
<1>5. JobEnv = env[p] => Password(p) = config.password
  BY ManagedVariables DEF Password
<1>6. moved' => exists /\ Opens(config.password)
  BY <1>4, <1>5 DEF Recheck, MovedInv
<1>7. MovedInv'
  BY <1>0, <1>4, <1>6 DEF MovedInv, Opens
<1> QED
  BY <1>1, <1>2, <1>3, <1>7

\* A Pod that begins has the flags of its Job: the present ones, or its own.
LEMMA BeginKeyInv ==
    ASSUME KeyInv, NEW p \in Pods, NEW environment, NEW attempt,
           environment \in {env[p], JobEnv},
           Begin(p, environment, attempt),
           pc[p] \in Ended
    PROVE  KeyInv'
<1> USE DEF KeyInv, Begin, flags
<1>1. KeyTypes'
  BY Locks DEF KeyTypes, NoKey
<1>2. lock[p] = "none"
  BY Locks DEF LockInv, KeyTypes, Ended
<1>3. /\ config.password \in Nat \ {0}
      /\ \A q \in Pods : \/ Password(q)' = Password(q) /\ OldPassword(q)' = OldPassword(q)
                         \/ Password(q)' = config.password /\ OldPassword(q)' = config.oldPassword
  BY ManagedVariables DEF KeyTypes, Password, OldPassword
<1>4. \A q \in Pods \ {p} : Password(q)' = Password(q) /\ OldPassword(q)' = OldPassword(q)
  BY DEF Password, OldPassword
<1>5. EnvInv'
  BY <1>3 DEF EnvInv
<1>6. OldKeyInv'
  BY <1>4 DEF OldKeyInv, KeyTypes, NoKey
<1>7. LockInv'
  BY <1>2, <1>4 DEF LockInv, Opens, OpensWith, KeyTypes
<1>8. MovedInv' /\ Openable'
  BY <1>3 DEF MovedInv, Openable, Opens
<1> QED
  BY <1>1, <1>5, <1>6, <1>7, <1>8

LEMMA RotateKeyInv == KeyInv /\ Rotate => KeyInv'
<1> SUFFICES ASSUME KeyInv, Rotate PROVE KeyInv'
  OBVIOUS
<1> USE DEF KeyInv, Rotate, repository, pods
<1>0. /\ config.password \in Nat \ {0}
      /\ config'.password = config.password + 1
      /\ config'.oldPassword = config.password
  BY DEF KeyTypes
<1>1. KeyTypes'
  <2>1. config' \in [password : Nat \ {0}, oldPassword : Nat]
    <3>1. config.password + 1 \in Nat \ {0}
      BY <1>0
    <3> QED
      BY <1>0, <3>1
  <2> QED
    BY <2>1 DEF KeyTypes
<1>2. \A p \in Pods : Password(p)' = Password(p) /\ OldPassword(p)' = OldPassword(p)
  BY DEF Password, OldPassword
<1>3. EnvInv'
  BY <1>0, <1>2 DEF EnvInv
<1>4. LockInv' /\ OldKeyInv'
  BY <1>2 DEF LockInv, OldKeyInv, Opens, OpensWith
<1>5. MovedInv'
  <2>1. ~exists => \A p \in Pods : Password(p) = config.password
    BY <1>0 DEF MovedInv, EnvInv, NoPassword
  <2> QED
    BY <1>0, <1>2, <2>1 DEF MovedInv
<1>6. Openable'
  BY <1>0 DEF MovedInv, Openable, Opens
<1> QED
  BY <1>1, <1>3, <1>4, <1>5, <1>6

LEMMA EndRotationKeyInv == KeyInv /\ EndRotation => KeyInv'
<1> SUFFICES ASSUME KeyInv, EndRotation PROVE KeyInv'
  OBVIOUS
<1> USE DEF KeyInv, EndRotation, repository, pods
<1>0. /\ config.password \in Nat \ {0}
      /\ config'.password = config.password
      /\ config'.oldPassword = NoPassword
  BY DEF KeyTypes
<1>1. KeyTypes'
  BY <1>0 DEF KeyTypes, NoPassword
<1>2. EnvInv' /\ OldKeyInv'
  BY <1>0 DEF EnvInv, OldKeyInv, Password, OldPassword
<1>3. LockInv'
  BY DEF LockInv, Opens, OpensWith, Password, OldPassword
<1>4. MovedInv' /\ Openable'
  BY <1>0 DEF MovedInv, Openable, Opens
<1> QED
  BY <1>1, <1>2, <1>3, <1>4

\* One step per action.
LEMMA NextKeyInv == KeyInv /\ [Next]_vars => KeyInv'
<1> SUFFICES ASSUME KeyInv, [Next]_vars PROVE KeyInv'
  OBVIOUS
<1> USE DEF repository, flags, pods
<1>1. ASSUME NEW p \in Pods, Open(p) PROVE KeyInv'
  BY <1>1, OpenKeyInv
<1>2. ASSUME NEW p \in Pods, GiveUp(p) \/ Interrupted(p) \/ NodeFails(p) PROVE KeyInv'
  BY <1>2, FailKeyInv DEF GiveUp, Interrupted, NodeFails
<1>3. ASSUME NEW p \in Pods, InitRepository(p) PROVE KeyInv'
  BY <1>3, InitRepositoryKeyInv
<1>4. ASSUME NEW p \in Pods, CatConfig(p) PROVE KeyInv'
  BY <1>4, GotoOnly, Locks DEF CatConfig, AfterCheck
<1>5. ASSUME NEW p \in Pods, KeyAdd(p) PROVE KeyInv'
  BY <1>5, KeyAddKeyInv
<1>6. ASSUME NEW p \in Pods, KeyList(p) PROVE KeyInv'
  <2>1. PICK k \in keys : k[1] = OldPassword(p) /\ oldKey' = [oldKey EXCEPT ![p] = k]
    BY <1>6 DEF KeyList
  <2>2. /\ oldKey' \in [Pods -> Nat \X Nat]
        /\ \A q \in Pods : oldKey'[q][1] \in {0, OldPassword(q)}
    BY <2>1 DEF KeyInv, KeyTypes, OldKeyInv
  <2> QED
    BY <1>6, <2>2, GotoKeyInv, Locks DEF KeyList
<1>7. ASSUME NEW p \in Pods, KeyRemove(p) PROVE KeyInv'
  BY <1>7, KeyRemoveKeyInv
<1>8. ASSUME NEW p \in Pods, Unlock(p) PROVE KeyInv'
  BY <1>8, GotoOnly, FailKeyInv, Locks DEF Unlock
<1>9. ASSUME NEW p \in Pods, Backup(p) \/ Check(p) \/ Prune(p) PROVE KeyInv'
  BY <1>9, GotoOnly, Locks DEF Backup, Check, Prune
<1>10. ASSUME NEW p \in Pods, Recheck(p) PROVE KeyInv'
  BY <1>10, RecheckKeyInv
<1>11. ASSUME NEW p \in Pods, Retry(p) \/ NewJob(p) PROVE KeyInv'
  BY <1>11, BeginKeyInv DEF Retry, NewJob, Ended
<1>12. CASE LockGoesStale \/ UNCHANGED vars
  BY <1>12 DEF LockGoesStale, vars, KeyInv, KeyTypes, EnvInv, LockInv, OldKeyInv, MovedInv,
               Openable, Opens, OpensWith, Password, OldPassword
<1>13. CASE Rotate
  BY <1>13, RotateKeyInv
<1>14. CASE EndRotation
  BY <1>14, EndRotationKeyInv
<1> QED
  BY <1>1, <1>2, <1>3, <1>4, <1>5, <1>6, <1>7, <1>8, <1>9, <1>10, <1>11, <1>12, <1>13, <1>14
     DEF Next, Step

\* The last working key is never removed: any number of Jobs with any of the
\* passwords, interrupted, killed and retried anywhere, through any number of
\* rotations, and whatever -restic-env sets.
THEOREM OpenableHolds == Spec => []Openable
<1>1. KeyInv => Openable
  BY DEF KeyInv
<1> QED
  BY <1>1, InitKeyInv, NextKeyInv, PTL DEF Spec

-----------------------------------------------------------------------------
(* Exit 0 means that this run has stored a snapshot.                         *)

\* A Pod that is past restic backup has stored a snapshot.
StoredInv ==
    /\ DOMAIN pc = Pods
    /\ \A p \in Pods : pc[p] \in {"check", "prune", "recheck", "succeeded"} => p \in stored

LEMMA InitStoredInv == Init => StoredInv
BY DEF Init, StoredInv

\* The script goes on with a command up to backup, or fails.
LEMMA GotoStoredInv ==
    ASSUME StoredInv, NEW p \in Pods,
           NEW c \in {"init", "keyAdd", "keyList", "keyRemove", "unlock", "backup", "failed"},
           Goto(p, c),
           UNCHANGED stored
    PROVE  StoredInv'
BY DEF StoredInv, Goto

LEMMA NextStoredInv == StoredInv /\ [Next]_vars => StoredInv'
<1> SUFFICES ASSUME StoredInv, [Next]_vars PROVE StoredInv'
  OBVIOUS
<1> USE DEF repository
<1>1. ASSUME NEW p \in Pods, Open(p) PROVE StoredInv'
  <2>1. CASE UNCHANGED pc
    BY <1>1, <2>1 DEF Open, StoredInv
  <2>2. CASE WrongPassword(p)
    BY <1>1, <2>2, GotoStoredInv DEF Open, WrongPassword, Fail
  <2>3. CASE Goto(p, "init")
    BY <1>1, <2>3, GotoStoredInv DEF Open
  <2> QED
    BY <1>1, <2>1, <2>2, <2>3 DEF Open
<1>2. ASSUME NEW p \in Pods, GiveUp(p) \/ Interrupted(p) \/ NodeFails(p) PROVE StoredInv'
  BY <1>2, GotoStoredInv DEF GiveUp, Interrupted, NodeFails, Fail
<1>3. ASSUME NEW p \in Pods, InitRepository(p) PROVE StoredInv'
  BY <1>3, GotoStoredInv DEF InitRepository, AfterCheck, Fail
<1>4. ASSUME NEW p \in Pods, CatConfig(p) \/ KeyAdd(p) PROVE StoredInv'
  BY <1>4, GotoStoredInv DEF CatConfig, KeyAdd, AfterCheck
<1>5. ASSUME NEW p \in Pods, KeyList(p) \/ KeyRemove(p) \/ Unlock(p) PROVE StoredInv'
  BY <1>5, GotoStoredInv DEF KeyList, KeyRemove, Unlock, Fail
<1>6. ASSUME NEW p \in Pods, Backup(p) PROVE StoredInv'
  BY <1>6 DEF Backup, StoredInv, Goto
<1>7. ASSUME NEW p \in Pods, Check(p) \/ Prune(p) \/ Recheck(p) PROVE StoredInv'
  BY <1>7 DEF Check, Prune, Recheck, Runs, StoredInv, Goto
<1>8. ASSUME NEW p \in Pods, Retry(p) \/ NewJob(p) PROVE StoredInv'
  BY <1>8 DEF Retry, NewJob, Begin, StoredInv
<1>9. CASE LockGoesStale \/ Rotate \/ EndRotation \/ UNCHANGED vars
  BY <1>9 DEF LockGoesStale, Rotate, EndRotation, vars, pods, StoredInv
<1> QED
  BY <1>1, <1>2, <1>3, <1>4, <1>5, <1>6, <1>7, <1>8, <1>9 DEF Next, Step

\* No command that failed is passed over: a Pod that exits with 0 has stored a
\* snapshot in this run, also when it is the retry of another.
THEOREM SucceededMeansStoredHolds == Spec => []SucceededMeansStored
<1>1. StoredInv => SucceededMeansStored
  BY DEF StoredInv, SucceededMeansStored
<1> QED
  BY <1>1, InitStoredInv, NextStoredInv, PTL DEF Spec

-----------------------------------------------------------------------------
(* Types.  A Job keeps the passwords it was made with, so the invariant about *)
(* them is needed here too.                                                  *)

\* There is a Pod, hence a first number for keys.
LEMMA SomePod == Cardinality(Pods) \in Nat /\ Cardinality(Pods) >= 1
<1>1. Cardinality(Pods) \in Nat
  BY PodsAssumption, FS_CardinalityType
<1>2. Cardinality(Pods) # 0
  BY PodsAssumption, FS_EmptySet
<1> QED
  BY <1>1, <1>2

LEMMA InitTypeOK == Init => TypeOK
<1> SUFFICES ASSUME Init PROVE TypeOK
  OBVIOUS
<1>1. keys \subseteq (1..MaxPassword) \X (1..Cardinality(Pods))
  BY SomePod, LimitsAssumption DEF Init
<1>2. \A p \in Pods : {Password(p), OldPassword(p)} \subseteq 0..MaxPassword
  BY ManagedVariables, LimitsAssumption DEF Init, Password, OldPassword, NoPassword
<1>3. oldKey \in [Pods -> (0..MaxPassword) \X (0..Cardinality(Pods))]
  BY SomePod, LimitsAssumption DEF Init, NoKey
<1>4. /\ config \in [password : 1..MaxPassword, oldPassword : 0..MaxPassword]
      /\ attempts \in [Pods -> 0..BackoffLimit]
  BY LimitsAssumption DEF Init, NoPassword
<1>5. /\ exists \in BOOLEAN /\ moved \in BOOLEAN
      /\ leftover \in [kind : {"none", "shared", "exclusive"}, stale : BOOLEAN]
      /\ stored \subseteq Pods
      /\ pc \in [Pods -> DOMAIN LockOf \cup {"init", "unlock"} \cup Ended]
      /\ lock \in [Pods -> {"none", "shared", "exclusive"}]
      /\ budget \in [Faults -> Nat]
  BY LimitsAssumption DEF Init, NoLock, Ended
<1> QED
  BY <1>1, <1>2, <1>3, <1>4, <1>5 DEF TypeOK

\* A step that goes on with another command.
LEMMA GotoTypes ==
    ASSUME TypeOK, NEW p \in Pods,
           NEW c \in DOMAIN LockOf \cup {"init", "unlock"} \cup Ended,
           Goto(p, c)
    PROVE  /\ pc' \in [Pods -> DOMAIN LockOf \cup {"init", "unlock"} \cup Ended]
           /\ lock' \in [Pods -> {"none", "shared", "exclusive"}]
           /\ attempts' \in [Pods -> 0..BackoffLimit]
           /\ \A q \in Pods : {Password(q), OldPassword(q)}' \subseteq 0..MaxPassword
BY DEF TypeOK, Goto, Password, OldPassword

\* The same, with the keys and the flags left alone too.
LEMMA GotoTypeOK ==
    ASSUME TypeOK, NEW p \in Pods,
           NEW c \in DOMAIN LockOf \cup {"init", "unlock"} \cup Ended,
           Goto(p, c),
           UNCHANGED <<exists, keys, config, oldKey>>,
           moved' \in BOOLEAN,
           stored' \subseteq Pods,
           leftover' \in [kind : {"none", "shared", "exclusive"}, stale : BOOLEAN],
           budget' \in [Faults -> Nat]
    PROVE  TypeOK'
BY GotoTypes DEF TypeOK

LEMMA SpendType == ASSUME TypeOK, NEW f \in Faults, Spend(f) PROVE budget' \in [Faults -> Nat]
BY DEF TypeOK, Spend

LEMMA NextTypeOK == TypeOK /\ KeyInv /\ [Next]_vars => TypeOK'
<1> SUFFICES ASSUME TypeOK, KeyInv, [Next]_vars PROVE TypeOK'
  OBVIOUS
<1> USE DEF repository, flags, pods
<1>0. /\ moved \in BOOLEAN /\ stored \subseteq Pods /\ budget \in [Faults -> Nat]
      /\ leftover \in [kind : {"none", "shared", "exclusive"}, stale : BOOLEAN]
  BY DEF TypeOK
<1>1. ASSUME NEW p \in Pods, Open(p) PROVE TypeOK'
  <2>1. CASE Goto(p, "init") /\ UNCHANGED oldKey
    BY <1>0, <1>1, <2>1, GotoTypeOK DEF Open
  <2>2. CASE WrongPassword(p)
    BY <1>0, <1>1, <2>2, GotoTypeOK, Locks DEF Open, WrongPassword, Fail, Ended
  <2>3. CASE /\ pc[p] \in DOMAIN LockOf
             /\ lock' = [lock EXCEPT ![p] = LockOf[pc[p]]]
             /\ UNCHANGED <<env, pc, oldKey, attempts>>
    BY <1>1, <2>3, Locks DEF Open, TypeOK, Password, OldPassword
  <2> QED
    BY <1>1, <2>1, <2>2, <2>3 DEF Open
<1>2. ASSUME NEW p \in Pods, GiveUp(p) \/ Interrupted(p) PROVE TypeOK'
  <2>1. budget' \in [Faults -> Nat]
    BY <1>0, <1>2, SpendType DEF GiveUp, Interrupted, Faults
  <2> QED
    BY <1>0, <1>2, <2>1, GotoTypeOK DEF GiveUp, Interrupted, Fail, Ended
<1>3. ASSUME NEW p \in Pods, NodeFails(p) PROVE TypeOK'
  <2>1. budget' \in [Faults -> Nat]
    BY <1>3, SpendType DEF NodeFails, Faults
  <2>2. leftover' \in [kind : {"none", "shared", "exclusive"}, stale : BOOLEAN]
    BY <1>0, <1>3 DEF NodeFails, TypeOK
  <2> QED
    BY <1>0, <1>3, <2>1, <2>2, GotoTypeOK DEF NodeFails, Fail, Ended
<1>4. ASSUME NEW p \in Pods, InitRepository(p) PROVE TypeOK'
  <2>1. CASE Fail(p) /\ UNCHANGED <<exists, keys>>
    BY <1>0, <1>4, <2>1, GotoTypeOK DEF InitRepository, Fail, Ended
  <2>2. CASE /\ exists' = TRUE
             /\ keys' = {<<Password(p), 1>>}
             /\ Goto(p, AfterCheck(p))
             /\ UNCHANGED oldKey
    <3>1. Password(p) \in 1..MaxPassword
      BY LimitsAssumption DEF KeyInv, EnvInv, TypeOK
    <3>2. keys' \subseteq (1..MaxPassword) \X (1..Cardinality(Pods))
      BY <2>2, <3>1, SomePod
    <3> QED
      BY <1>0, <1>4, <2>2, <3>2, GotoTypes, Locks DEF InitRepository, AfterCheck, TypeOK
  <2> QED
    BY <1>4, <2>1, <2>2 DEF InitRepository
<1>5. ASSUME NEW p \in Pods, CatConfig(p) PROVE TypeOK'
  BY <1>0, <1>5, GotoTypeOK, Locks DEF CatConfig, AfterCheck
<1>6. ASSUME NEW p \in Pods, KeyAdd(p) PROVE TypeOK'
  <2>1. Password(p) \in 1..MaxPassword
    BY LimitsAssumption DEF KeyInv, EnvInv, TypeOK
  <2>2. keys' \subseteq (1..MaxPassword) \X (1..Cardinality(Pods))
    BY <1>6, <2>1 DEF KeyAdd, TypeOK
  <2> QED
    BY <1>0, <1>6, <2>2, GotoTypes, Locks DEF KeyAdd, AfterCheck, TypeOK
<1>7. ASSUME NEW p \in Pods, KeyList(p) PROVE TypeOK'
  <2>1. PICK k \in keys : oldKey' = [oldKey EXCEPT ![p] = k]
    BY <1>7 DEF KeyList
  <2>2. k \in (0..MaxPassword) \X (0..Cardinality(Pods))
    BY <2>1, SomePod, LimitsAssumption DEF TypeOK
  <2>3. oldKey' \in [Pods -> (0..MaxPassword) \X (0..Cardinality(Pods))]
    BY <2>1, <2>2 DEF TypeOK
  <2> QED
    BY <1>0, <1>7, <2>3, GotoTypes, Locks DEF KeyList, TypeOK
<1>8. ASSUME NEW p \in Pods, KeyRemove(p) PROVE TypeOK'
  <2>1. CASE Fail(p) /\ UNCHANGED keys
    BY <1>0, <1>8, <2>1, GotoTypeOK DEF KeyRemove, Fail, Ended
  <2>2. CASE /\ keys' = keys \ {oldKey[p]}
             /\ Goto(p, "unlock")
             /\ oldKey' = [oldKey EXCEPT ![p] = NoKey]
    <3>1. oldKey' \in [Pods -> (0..MaxPassword) \X (0..Cardinality(Pods))]
      BY <2>2, SomePod, LimitsAssumption DEF TypeOK, NoKey
    <3> QED
      BY <1>0, <1>8, <2>2, <3>1, GotoTypes DEF KeyRemove, TypeOK
  <2> QED
    BY <1>8, <2>1, <2>2 DEF KeyRemove
<1>9. ASSUME NEW p \in Pods, Unlock(p) PROVE TypeOK'
  <2>1. leftover' \in [kind : {"none", "shared", "exclusive"}, stale : BOOLEAN]
    <3>1. leftover' = NoLock \/ leftover' = leftover
      BY <1>9 DEF Unlock
    <3>2. NoLock \in [kind : {"none", "shared", "exclusive"}, stale : BOOLEAN]
      BY DEF NoLock
    <3> QED
      BY <1>0, <3>1, <3>2
  <2> QED
    BY <1>0, <1>9, <2>1, GotoTypeOK, Locks DEF Unlock, Fail, Ended
<1>10. ASSUME NEW p \in Pods, Backup(p) \/ Check(p) \/ Prune(p) \/ Recheck(p) PROVE TypeOK'
  BY <1>0, <1>10, GotoTypeOK, Locks DEF Backup, Check, Prune, Recheck, Ended
<1>11. ASSUME NEW p \in Pods, Retry(p) \/ NewJob(p) PROVE TypeOK'
  <2>1. PICK environment \in {env[p], JobEnv}, attempt \in 0..BackoffLimit :
            Begin(p, environment, attempt)
    BY <1>11, LimitsAssumption DEF Retry, NewJob, TypeOK
  <2>2. \A q \in Pods : \/ Password(q)' = Password(q) /\ OldPassword(q)' = OldPassword(q)
                        \/ Password(q)' = config.password /\ OldPassword(q)' = config.oldPassword
    BY <2>1, ManagedVariables DEF Begin, Password, OldPassword, KeyInv, KeyTypes
  <2>3. \A q \in Pods : {Password(q), OldPassword(q)}' \subseteq 0..MaxPassword
    BY <2>2, LimitsAssumption DEF TypeOK
  <2>4. oldKey' \in [Pods -> (0..MaxPassword) \X (0..Cardinality(Pods))]
    BY <2>1, SomePod, LimitsAssumption DEF Begin, TypeOK, NoKey
  <2>5. /\ pc' \in [Pods -> DOMAIN LockOf \cup {"init", "unlock"} \cup Ended]
        /\ attempts' \in [Pods -> 0..BackoffLimit]
    BY <2>1, Locks DEF Begin, TypeOK
  <2> QED
    BY <1>0, <2>1, <2>3, <2>4, <2>5 DEF Begin, TypeOK
<1>12. CASE LockGoesStale \/ UNCHANGED vars
  <2>1. leftover' \in [kind : {"none", "shared", "exclusive"}, stale : BOOLEAN]
    BY <1>0, <1>12 DEF LockGoesStale, vars
  <2>2. UNCHANGED <<exists, keys, stored, config, moved, env, pc, lock, oldKey, attempts, budget>>
    BY <1>12 DEF LockGoesStale, vars
  <2> QED
    BY <2>1, <2>2 DEF TypeOK, Password, OldPassword
<1>13. CASE Rotate \/ EndRotation
  <2>1. config' \in [password : 1..MaxPassword, oldPassword : 0..MaxPassword]
    BY <1>13, LimitsAssumption DEF Rotate, EndRotation, TypeOK, NoPassword
  <2>2. moved' \in BOOLEAN
    BY <1>0, <1>13 DEF Rotate, EndRotation
  <2>3. UNCHANGED <<exists, keys, leftover, stored, env, pc, lock, oldKey, attempts, budget>>
    BY <1>13 DEF Rotate, EndRotation
  <2> QED
    BY <2>1, <2>2, <2>3 DEF TypeOK, Password, OldPassword
<1> QED
  BY <1>1, <1>2, <1>3, <1>4, <1>5, <1>6, <1>7, <1>8, <1>9, <1>10, <1>11, <1>12, <1>13
     DEF Next, Step

\* The script and the rotations keep to the types of their state: passwords,
\* key numbers and retries stay within their bounds.
THEOREM TypeCorrect == Spec => []TypeOK
BY InitTypeOK, NextTypeOK, InitKeyInv, NextKeyInv, PTL DEF Spec

-----------------------------------------------------------------------------
(* The first rotation.                                                       *)

\* The commands of a Pod that has seen to it that its password opens the
\* repository, and then that its old password does not.
Added == {"keyList", "keyRemove", "unlock", "backup", "check", "prune", "recheck", "succeeded"}
Removed == Added \ {"keyList", "keyRemove"}

\* In the first rotation the old password has one key, which is not made again:
\* where a Pod with an old password has come says what opens the repository.
RotationInv ==
    /\ ~exists => keys = {}
    /\ \A k \in keys : k[1] = 1 => k = <<1, 1>>
    /\ \A p \in Pods : pc[p] = "keyAdd" => OldPassword(p) # NoPassword
    /\ \A p \in Pods : OldPassword(p) # NoPassword =>
           /\ pc[p] \in Added => Opens(2)
           /\ pc[p] \in Removed => ~Opens(1)

\* With two passwords, a Pod with an old one moves from 1 to 2.
LEMMA FirstRotation ==
    ASSUME MaxPassword <= 2, TypeOK, KeyInv, NEW p \in Pods
    PROVE  /\ Password(p) \in {1, 2}
           /\ OldPassword(p) # NoPassword => OldPassword(p) = 1 /\ Password(p) = 2
<1>1. /\ Password(p) \in 1..config.password
      /\ OldPassword(p) \in {NoPassword, Password(p) - 1}
      /\ config.password \in 1..MaxPassword
  BY DEF KeyInv, EnvInv, TypeOK
<1> QED
  BY <1>1, LimitsAssumption DEF NoPassword

\* What a step may do to the keys.
KeysLeft == UNCHANGED <<exists, keys>>
KeysMade(p) == ~exists /\ exists' /\ keys' = {<<Password(p), 1>>}
KeyAdded(p) == KeyAdd(p) /\ exists' = exists /\ \E n : keys' = keys \cup {<<Password(p), n>>}
KeyRemoved(p) ==
    /\ KeyRemove(p)
    /\ exists' = exists
    /\ oldKey[p] \in keys
    /\ keys' = keys \ {oldKey[p]}

\* The new password stays good, the old one stays void, and it has one key.
LEMMA KeysStay ==
    ASSUME MaxPassword <= 2, TypeOK, KeyInv, RotationInv, NEW p \in Pods,
           KeysLeft \/ KeysMade(p) \/ KeyAdded(p) \/ KeyRemoved(p)
    PROVE  /\ exists => exists'
           /\ ~exists' => keys' = {}
           /\ \A k \in keys' : k[1] = 1 => k = <<1, 1>>
           /\ Opens(2) => Opens(2)'
           /\ exists /\ ~Opens(1) => ~Opens(1)'
<1>0. /\ ~exists => keys = {}
      /\ \A k \in keys : k[1] = 1 => k = <<1, 1>>
  BY DEF RotationInv
<1>1. CASE KeysLeft
  BY <1>0, <1>1 DEF KeysLeft, Opens
<1>2. CASE KeysMade(p)
  BY <1>0, <1>2, FirstRotation DEF KeysMade, Opens
<1>3. CASE KeyAdded(p)
  <2>1. OldPassword(p) # NoPassword
    BY <1>3 DEF KeyAdded, KeyAdd, Runs, RotationInv
  <2>2. exists
    BY <1>3, Locks DEF KeyAdded, KeyAdd, Runs, KeyInv, LockInv
  <2>3. PICK n : keys' = keys \cup {<<2, n>>}
    BY <1>3, <2>1, FirstRotation DEF KeyAdded
  <2> QED
    BY <1>0, <1>3, <2>2, <2>3 DEF KeyAdded, Opens
<1>4. CASE KeyRemoved(p)
  <2>1. oldKey[p][1] # 2
    BY FirstRotation DEF KeyInv, OldKeyInv, NoPassword
  <2> QED
    BY <1>0, <1>4, <2>1 DEF KeyRemoved, Opens
<1> QED
  BY <1>1, <1>2, <1>3, <1>4

\* A Pod goes on with another command.
LEMMA GotoRotationInv ==
    ASSUME MaxPassword <= 2, TypeOK, KeyInv, RotationInv, NEW p \in Pods,
           KeysLeft \/ KeysMade(p) \/ KeyAdded(p) \/ KeyRemoved(p),
           NEW c, Goto(p, c),
           c = "keyAdd" => OldPassword(p) # NoPassword,
           OldPassword(p) # NoPassword /\ c \in Added => Opens(2)',
           OldPassword(p) # NoPassword /\ c \in Removed => ~Opens(1)'
    PROVE  RotationInv'
<1>1. /\ ~exists' => keys' = {}
      /\ \A k \in keys' : k[1] = 1 => k = <<1, 1>>
      /\ Opens(2) => Opens(2)'
      /\ Opens(2) /\ ~Opens(1) => ~Opens(1)'
  BY KeysStay DEF RotationInv, Opens
<1>2. /\ \A q \in Pods : OldPassword(q)' = OldPassword(q)
      /\ \A q \in Pods \ {p} : pc'[q] = pc[q]
      /\ pc'[p] = c
  BY DEF Goto, OldPassword, TypeOK
<1>3. Removed \subseteq Added
  BY DEF Removed
<1>4. ASSUME NEW q \in Pods
      PROVE  /\ pc'[q] = "keyAdd" => OldPassword(q) # NoPassword
             /\ OldPassword(q) # NoPassword =>
                    /\ pc'[q] \in Added => Opens(2)'
                    /\ pc'[q] \in Removed => ~Opens(1)'
  BY <1>1, <1>2, <1>3 DEF RotationInv
<1> QED
  BY <1>1, <1>2, <1>4 DEF RotationInv, Added, Removed

\* A Pod goes on within the same stage of the rotation, or outside of it.
LEMMA GotoSameStage ==
    ASSUME MaxPassword <= 2, TypeOK, KeyInv, RotationInv, NEW p \in Pods, KeysLeft,
           NEW c, Goto(p, c),
           c = "keyAdd" => OldPassword(p) # NoPassword,
           c \in Added => pc[p] \in Added,
           c \in Removed => pc[p] \in Removed
    PROVE  RotationInv'
<1>1. OldPassword(p) # NoPassword =>
          /\ c \in Added => Opens(2)'
          /\ c \in Removed => ~Opens(1)'
  BY DEF RotationInv, KeysLeft, Opens
<1> QED
  BY <1>1, GotoRotationInv

LEMMA FailRotationInv ==
    ASSUME MaxPassword <= 2, TypeOK, KeyInv, RotationInv, NEW p \in Pods, KeysLeft, Fail(p)
    PROVE  RotationInv'
BY GotoSameStage DEF Fail, Added, Removed

LEMMA NextRotationInv ==
    MaxPassword <= 2 /\ TypeOK /\ KeyInv /\ RotationInv /\ [Next]_vars => RotationInv'
<1> SUFFICES ASSUME MaxPassword <= 2, TypeOK, KeyInv, RotationInv, [Next]_vars
             PROVE  RotationInv'
  OBVIOUS
<1> USE DEF repository, flags, pods
<1>1. ASSUME NEW p \in Pods, Open(p) PROVE RotationInv'
  <2>0. KeysLeft
    BY <1>1 DEF Open, KeysLeft
  <2>1. CASE Goto(p, "init")
    BY <2>0, <2>1, GotoSameStage DEF Added, Removed
  <2>2. CASE ~Opens(OpensWith(p)) /\ WrongPassword(p)
    <3>1. CASE Goto(p, "keyAdd") /\ OldPassword(p) # NoPassword
      BY <2>0, <3>1, GotoSameStage DEF Added, Removed
    <3>2. CASE pc[p] = "keyList" /\ Goto(p, "unlock")
      <4>1. OldPassword(p) # NoPassword => Opens(2)' /\ ~Opens(1)'
        BY <2>0, <2>2, <3>2, FirstRotation DEF RotationInv, OpensWith, Added, KeysLeft, Opens
      <4> QED
        BY <2>0, <3>2, <4>1, GotoRotationInv
    <3> QED
      BY <2>0, <2>2, <3>1, <3>2, FailRotationInv DEF WrongPassword
  <2>3. CASE UNCHANGED <<env, pc>>
    BY <2>0, <2>3 DEF KeysLeft, RotationInv, Opens, OldPassword
  <2> QED
    BY <1>1, <2>1, <2>2, <2>3 DEF Open
<1>2. ASSUME NEW p \in Pods, GiveUp(p) \/ Interrupted(p) \/ NodeFails(p) PROVE RotationInv'
  BY <1>2, FailRotationInv DEF GiveUp, Interrupted, NodeFails, KeysLeft
<1>3. ASSUME NEW p \in Pods PROVE /\ AfterCheck(p) \notin Removed \/ OldPassword(p) = NoPassword
                                  /\ AfterCheck(p) # "keyAdd"
  BY FirstRotation DEF AfterCheck, Removed, Added
<1>4. ASSUME NEW p \in Pods, InitRepository(p) PROVE RotationInv'
  <2>1. CASE KeysMade(p) /\ Goto(p, AfterCheck(p))
    <3>1. OldPassword(p) # NoPassword => Opens(2)'
      BY <2>1, FirstRotation DEF KeysMade, Opens
    <3> QED
      BY <1>3, <2>1, <3>1, GotoRotationInv
  <2>2. CASE Fail(p) /\ KeysLeft
    BY <2>2, FailRotationInv
  <2> QED
    BY <1>4, <2>1, <2>2 DEF InitRepository, KeysMade, KeysLeft
<1>5. ASSUME NEW p \in Pods, CatConfig(p) PROVE RotationInv'
  <2>1. KeysLeft /\ Goto(p, AfterCheck(p)) /\ Opens(Password(p))
    BY <1>5, Locks DEF CatConfig, KeysLeft, Runs, KeyInv, LockInv, OpensWith
  <2>2. OldPassword(p) # NoPassword => Opens(2)'
    BY <2>1, FirstRotation DEF KeysLeft, Opens
  <2> QED
    BY <1>3, <2>1, <2>2, GotoRotationInv
<1>6. ASSUME NEW p \in Pods, KeyAdd(p) PROVE RotationInv'
  <2>1. KeyAdded(p) /\ Goto(p, AfterCheck(p))
    BY <1>6 DEF KeyAdd, KeyAdded
  <2>2. OldPassword(p) # NoPassword => Opens(2)'
    <3>1. PICK n : keys' = keys \cup {<<Password(p), n>>}
      BY <2>1 DEF KeyAdded
    <3>2. <<Password(p), n>> \in keys' /\ <<Password(p), n>>[1] = Password(p)
      BY <3>1
    <3>3. \E k \in keys' : k[1] = Password(p)
      BY <3>2
    <3> QED
      BY <3>3, FirstRotation DEF Opens
  <2> QED
    BY <1>3, <2>1, <2>2, GotoRotationInv
<1>7. ASSUME NEW p \in Pods, KeyList(p) PROVE RotationInv'
  BY <1>7, GotoSameStage DEF KeyList, Runs, KeysLeft, Added, Removed
<1>8. ASSUME NEW p \in Pods, KeyRemove(p) PROVE RotationInv'
  <2>1. CASE Fail(p) /\ KeysLeft
    BY <2>1, FailRotationInv
  <2>2. CASE KeyRemoved(p) /\ Goto(p, "unlock")
    <3>1. oldKey[p][1] \in {0, OldPassword(p)} /\ oldKey[p][1] # 0
      BY <2>2 DEF KeyRemoved, KeyInv, OldKeyInv, KeyTypes
    <3>2. oldKey[p] = <<1, 1>>
      <4>1. oldKey[p][1] = 1
        BY <3>1, FirstRotation DEF NoPassword
      <4> QED
        BY <2>2, <4>1 DEF KeyRemoved, RotationInv
    <3>3. ~Opens(1)'
      BY <2>2, <3>2 DEF KeyRemoved, RotationInv, Opens
    <3>4. OldPassword(p) # NoPassword => Opens(2)
      BY <2>2 DEF KeyRemoved, KeyRemove, Runs, RotationInv, Added
    <3>5. OldPassword(p) # NoPassword => Opens(2)'
      BY <2>2, <3>4, KeysStay
    <3> QED
      BY <2>2, <3>3, <3>5, GotoRotationInv
  <2> QED
    BY <1>8, <2>1, <2>2 DEF KeyRemove, KeyRemoved, KeysLeft
<1>9. ASSUME NEW p \in Pods, Unlock(p) PROVE RotationInv'
  BY <1>9, GotoSameStage, FailRotationInv DEF Unlock, Runs, KeysLeft, Added, Removed
<1>10. ASSUME NEW p \in Pods, Backup(p) \/ Check(p) \/ Prune(p) \/ Recheck(p) PROVE RotationInv'
  BY <1>10, GotoSameStage DEF Backup, Check, Prune, Recheck, Runs, KeysLeft, Added, Removed
<1>11. ASSUME NEW p \in Pods, Retry(p) \/ NewJob(p) PROVE RotationInv'
  <2>1. /\ pc' = [pc EXCEPT ![p] = "cat"] /\ UNCHANGED <<exists, keys>>
        /\ \A q \in Pods \ {p} : env'[q] = env[q]
    BY <1>11 DEF Retry, NewJob, Begin, KeyInv, KeyTypes
  <2>2. \A q \in Pods \ {p} : pc'[q] = pc[q] /\ OldPassword(q)' = OldPassword(q)
    BY <2>1 DEF OldPassword
  <2>3. pc'[p] = "cat"
    BY <2>1 DEF TypeOK
  <2> QED
    BY <2>1, <2>2, <2>3 DEF RotationInv, Opens, Added, Removed
<1>12. CASE LockGoesStale \/ Rotate \/ EndRotation \/ UNCHANGED vars
  <2>1. UNCHANGED <<exists, keys, env, pc>>
    BY <1>12 DEF LockGoesStale, Rotate, EndRotation, vars
  <2> QED
    BY <2>1 DEF RotationInv, Opens, OldPassword
<1> QED
  BY <1>1, <1>2, <1>4, <1>5, <1>6, <1>7, <1>8, <1>9, <1>10, <1>11, <1>12 DEF Next, Step

\* A Job that succeeds in the first rotation has moved the repository, or has
\* found it moved by another: the new password opens it and the old one does not,
\* then and ever after, however many Jobs rotate at once and wherever they are
\* stopped.  (Two Jobs may add a key for the same password.  A later rotation
\* removes one of the two, hence the bound.)
THEOREM SucceededMeansMovedHolds ==
    ASSUME MaxPassword <= 2
    PROVE  Spec => []SucceededMeansMoved
<1>1. Init => RotationInv
  <2> SUFFICES ASSUME Init PROVE RotationInv
    OBVIOUS
  <2>1. \A p \in Pods : pc[p] = "none"
    BY DEF Init
  <2> QED
    BY <2>1 DEF Init, RotationInv, Added, Removed
<1>2. TypeOK /\ KeyInv /\ RotationInv => SucceededMeansMoved
  BY FirstRotation DEF RotationInv, SucceededMeansMoved, Added, Removed
<1>3. TypeOK /\ KeyInv /\ RotationInv /\ [Next]_vars => RotationInv'
  BY NextRotationInv
<1> QED
  BY <1>1, <1>2, <1>3, TypeCorrect, InitKeyInv, NextKeyInv, PTL DEF Spec
=============================================================================
