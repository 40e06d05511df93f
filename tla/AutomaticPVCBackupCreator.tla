---------------------- MODULE AutomaticPVCBackupCreator ----------------------
(***************************************************************************)
(* The automatic creator of PVCBackups, internal/controller/automatic.go,  *)
(* with the namespace flags of cmd/main.go.                                *)
(*                                                                         *)
(* One worker reconciles claims.  It looks at the annotations, computes    *)
(* when the next PVCBackup is due, from the newest one it can see, and     *)
(* creates it or comes back then.  It does not watch PVCBackups.           *)
(*                                                                         *)
(* All reads are from caches that lag behind the API server, so a          *)
(* reconcile is one step: its reads could all have happened at its end.    *)
(* The API server has a clock of its own, which sets creation timestamps.  *)
(* The PVCBackup controller finishes PVCBackups and deletes old ones, the  *)
(* PVCRestore controller creates claims and takes its annotation off them. *)
(***************************************************************************)
EXTENDS Integers, FiniteSets, FiniteSetsExt

CONSTANTS
    Claims,             \* names of PersistentVolumeClaims
    Namespaces,         \* names of namespaces
    NamespaceOf,        \* the namespace of each claim
    FlagSettings,       \* what -namespaces and -exclude-namespaces may be
    DefaultSchedule,    \* the -schedule flag
    Schedules,          \* what users write in schedule annotations
    TolerancePercent,   \* ScheduleIntervalTolerance: 1 in the code
    DefaultTTL,         \* Spec.TTL of the PVCBackups: 3 days in the code
    ClockSkew,          \* the API server's clock, less the operator's
    MaxUid,             \* bound: incarnations of a claim
    MaxTime,            \* bound: the last second of the clock
    Faults,             \* which of AnyFault may happen
    MaxFaults           \* bound: how many of them happen

\* A schedule is the number of seconds between its times, or one of these.
NotSet  == -1           \* there is no annotation
Empty   == 0            \* the empty string: no backups
Invalid == -2           \* not a cron expression
Never   == -1

AllNamespaces == ""

AnyFault == {"restart",     \* the operator process is killed and started again
             "callError",   \* a call of a reconcile fails and changes nothing
             "lostReply",   \* a Create is applied, but the caller sees an error
             "slow",        \* a second passes with claims in the queue, or unseen
             "cacheLag",    \* a new PVCBackup is not in the cache a second later
             "overtake",    \* a PVCBackup finishes before an older one does
             "manual",      \* a PVCBackup that a user made for the claim finishes
             "listError",   \* the List of a namespace's claims fails
             "deleteBackup",\* a user deletes a PVCBackup
             "annotate",    \* a user changes a schedule annotation
             "touch",       \* a claim changes in some other way
             "deleteClaim"} \* a user deletes a claim

ASSUME ClaimsAssumption == NamespaceOf \in [Claims -> Namespaces]
ASSUME FlagsAssumption ==
    \A f \in FlagSettings : IsFiniteSet(f.namespaces) /\ f.namespaces # {}
ASSUME ScheduleAssumption ==
    /\ {DefaultSchedule} \cup Schedules \subseteq Nat \cup {NotSet, Invalid}
    /\ DefaultSchedule # NotSet
    /\ TolerancePercent \in Nat
    /\ DefaultTTL \in Nat
    /\ ClockSkew \subseteq Int
ASSUME BoundsAssumption ==
    /\ MaxUid \in Nat
    /\ MaxTime \in Nat
    /\ Faults \subseteq AnyFault
    /\ MaxFaults \in Nat

VARIABLES
    flags,              \* the namespace flags, fixed at start
    \* at the API server
    namespaces,         \* [present, schedule] of each namespace
    claims,             \* [uid, present, created, schedule, restoring, touched]
    backups,            \* those of the creator: [claim, owner, name, created, finished]
    manual,             \* when the last PVCBackup finished that users made for a claim
    \* the operator
    cachedNamespaces, cachedClaims, cachedBackups,
    queue,              \* claims waiting to be reconciled
    timers,             \* when a claim is put into the queue again
    \* the rest
    now,                \* the operator's clock, in seconds
    made,               \* history: [claim, owner, name, created, schedule] of each Create
    disturbed,          \* history: a cacheLag or a deleteBackup happened
    outlived,           \* history: an overtake or a manual backup happened
    unlisted,           \* history: claims whose requests a failing List lost
    budget              \* faults left

api      == <<namespaces, claims, backups, manual>>
caches   == <<cachedNamespaces, cachedClaims, cachedBackups>>
operator == <<caches, queue, timers>>
history  == <<made, disturbed, outlived, unlisted>>
vars     == <<flags, api, operator, now, history, budget>>

-----------------------------------------------------------------------------
(* The namespace flags, as sets of the entries between the commas.           *)

\* Mutant of IncludedNamespaces: "" is kept beside other entries.
AllEntries == flags.namespaces

\* main: "" means all namespaces, but not beside other entries.
IncludedNamespaces ==
    IF Cardinality(flags.namespaces) > 1
    THEN flags.namespaces \ {AllNamespaces}
    ELSE flags.namespaces

\* The filter of pvcToRequest and namespaceToRequests.
InScope(n) ==
    /\ n \notin flags.exclude
    /\ AllNamespaces \in IncludedNamespaces \/ n \in IncludedNamespaces

-----------------------------------------------------------------------------
(* Schedules.                                                                *)

\* parsedSchedule.Next: the first time of the schedule after t.
NextTime(schedule, t) == (t \div schedule + 1) * schedule

\* The annotation of the claim, or of the namespace, or the default.
ScheduleOf(namespace, claim) ==
    IF claim.schedule # NotSet THEN claim.schedule
    ELSE IF namespace.schedule # NotSet THEN namespace.schedule
    ELSE DefaultSchedule

\* newest is so close before the next time that it counts for it.
WithinTolerance(schedule, newest) ==
    LET next == NextTime(schedule, newest)
    IN  100 * (next - newest) < TolerancePercent * (NextTime(schedule, next) - next)

\* Mutant of NextBackup: a backup just before a time does not count for it.
NextBackupStrict(schedule, newest) == NextTime(schedule, newest)

\* When the backup after newest is due.
NextBackup(schedule, newest) ==
    IF WithinTolerance(schedule, newest)
    THEN NextTime(schedule, NextTime(schedule, newest))
    ELSE NextTime(schedule, newest)

\* The newest PVCBackup that the claim p owns, by name, or p itself.
Newest(p, claim, seen) == Max({claim.created} \cup {b.created : b \in {x \in seen : x.claim = p}})

-----------------------------------------------------------------------------
ClaimObjects == [uid : 0..MaxUid, present : BOOLEAN, created : Int,
                 schedule : Schedules \cup {NotSet}, restoring : BOOLEAN,
                 touched : BOOLEAN]
NoClaim == [uid |-> 0, present |-> FALSE, created |-> 0, schedule |-> NotSet,
            restoring |-> FALSE, touched |-> FALSE]
BackupObjects == [claim : Claims, owner : 1..MaxUid, name : 0..MaxTime,
                  created : Int, finished : {Never} \cup (0..MaxTime)]
NamespaceObjects == [present : BOOLEAN, schedule : Schedules \cup {NotSet}]
NoNamespace == [present |-> FALSE, schedule |-> NotSet]

TypeOK ==
    /\ flags \in FlagSettings
    /\ {namespaces, cachedNamespaces} \subseteq [Namespaces -> NamespaceObjects]
    /\ {claims, cachedClaims} \subseteq [Claims -> ClaimObjects]
    /\ \A b \in backups \cup cachedBackups : b \in BackupObjects
    /\ manual \in [Claims -> {Never} \cup (0..MaxTime)]
    /\ queue \subseteq Claims
    /\ timers \in [Claims -> {Never} \cup Nat]
    /\ now \in 0..MaxTime
    /\ {disturbed, outlived} \subseteq BOOLEAN
    /\ unlisted \subseteq Claims
    /\ budget \in 0..MaxFaults

Init ==
    /\ flags \in FlagSettings
    /\ namespaces = [n \in Namespaces |-> NoNamespace]
    /\ claims = [p \in Claims |-> NoClaim]
    /\ backups = {}
    /\ manual = [p \in Claims |-> Never]
    /\ cachedNamespaces = namespaces
    /\ cachedClaims = claims
    /\ cachedBackups = {}
    /\ queue = {}
    /\ timers = [p \in Claims |-> Never]
    /\ now = 0
    /\ made = {}
    /\ disturbed = FALSE
    /\ outlived = FALSE
    /\ unlisted = {}
    /\ budget = MaxFaults

Spend(f) ==
    /\ f \in Faults
    /\ budget > 0
    /\ budget' = budget - 1

-----------------------------------------------------------------------------
(* Reconcile.                                                                *)

\* return ctrl.Result{}, nil
Return(p) == queue' = queue \ {p} /\ UNCHANGED timers

\* At least a second from now; the workqueue keeps the earlier of two times.
requeueAfter(p, d) ==
    LET at == now + Max({d, 1}) IN
    /\ queue' = queue \ {p}
    /\ timers' = [timers EXCEPT ![p] = IF @ = Never THEN at ELSE Min({@, at})]

\* return an error: p stays in the queue.
Retry(p) == UNCHANGED <<queue, timers>>

\* The name of the claim and the second: pvc.Name-now.Unix()
NameTaken(p) == \E b \in backups : b.claim = p /\ b.name = now

CreateBackup(p, schedule) ==
    \E skew \in ClockSkew :
        LET new == [claim |-> p, owner |-> cachedClaims[p].uid, name |-> now,
                    created |-> now + skew, finished |-> Never] IN
        /\ ~NameTaken(p)
        /\ backups' = backups \cup {new}
        /\ made' = made \cup {[claim |-> p, owner |-> new.owner, name |-> now,
                               created |-> new.created, schedule |-> schedule]}
        /\ \/ /\ requeueAfter(p, NextTime(schedule, now + skew) - now)
              /\ UNCHANGED budget
           \/ Spend("lostReply") /\ Retry(p)

\* Reconcile has nothing to do, and only an event brings the claim back.
Ignored(namespace, claim) ==
    \/ ~namespace.present
    \/ ~claim.present
    \/ claim.restoring
    \/ ScheduleOf(namespace, claim) = Empty

Reconcile(p) ==
    LET namespace == cachedNamespaces[NamespaceOf[p]]
        claim     == cachedClaims[p]
        schedule  == ScheduleOf(namespace, claim)
        next      == NextBackup(schedule, Newest(p, claim, cachedBackups))
    IN
    /\ p \in queue
    /\ \/ /\ Ignored(namespace, claim)
          /\ Return(p)
          /\ UNCHANGED <<backups, made, budget>>
       \/ /\ ~Ignored(namespace, claim)
          /\ schedule = Invalid
          /\ Retry(p)
          /\ UNCHANGED <<backups, made, budget>>
       \/ /\ ~Ignored(namespace, claim)
          /\ schedule # Invalid
          /\ \/ /\ next > now
                /\ requeueAfter(p, next - now)
                /\ UNCHANGED <<backups, made, budget>>
             \/ next <= now /\ CreateBackup(p, schedule)
             \/ /\ next <= now
                /\ NameTaken(p)
                /\ Retry(p)
                /\ UNCHANGED <<backups, made, budget>>
       \/ /\ Spend("callError")
          /\ Retry(p)
          /\ UNCHANGED <<backups, made>>
    /\ UNCHANGED <<flags, namespaces, claims, manual, caches, now,
                   disturbed, outlived, unlisted>>

-----------------------------------------------------------------------------
(* The workqueue, the watches and the informers.                             *)

TimerFires(p) ==
    /\ timers[p] # Never
    /\ timers[p] <= now
    /\ queue' = queue \cup {p}
    /\ timers' = [timers EXCEPT ![p] = Never]
    /\ UNCHANGED <<flags, api, caches, now, history, budget>>

\* Mutant of pvcToRequest: a change of the annotations is not an event, as with the
\* GenerationChangedPredicate.
pvcToRequestOnNew(old, new) ==
    {p \in Claims : InScope(NamespaceOf[p]) /\ old[p].uid # new[p].uid}

\* A claim that changed, in any way.
pvcToRequest(old, new) ==
    {p \in Claims : InScope(NamespaceOf[p]) /\ old[p] # new[p]}

\* Mutant of namespaceToRequests: the request is for the namespace itself.
namespaceToRequest(old, new) == {n \in Namespaces : InScope(n) /\ old[n] # new[n]}

\* The claims, as the cache knows them, of a namespace that changed.
namespaceToRequests(old, new) ==
    {p \in Claims : /\ InScope(NamespaceOf[p])
                    /\ old[NamespaceOf[p]] # new[NamespaceOf[p]]
                    /\ cachedClaims[p].present}

SyncClaims ==
    /\ cachedClaims # claims
    /\ cachedClaims' = claims
    /\ queue' = queue \cup pvcToRequest(cachedClaims, claims)
    /\ UNCHANGED <<flags, api, cachedNamespaces, cachedBackups, timers, now, history, budget>>

\* When the List of namespaceToRequests fails the namespace has no requests, and
\* its event is over.
SyncNamespaces ==
    LET requests == namespaceToRequests(cachedNamespaces, namespaces)
        ClaimsOf(n) == {p \in Claims : NamespaceOf[p] = n}
    IN
    /\ cachedNamespaces # namespaces
    /\ cachedNamespaces' = namespaces
    /\ \/ queue' = queue \cup requests /\ UNCHANGED <<unlisted, budget>>
       \/ \E n \in Namespaces :
              /\ Spend("listError")
              /\ queue' = queue \cup (requests \ ClaimsOf(n))
              /\ unlisted' = unlisted \cup (requests \cap ClaimsOf(n))
    /\ UNCHANGED <<flags, api, cachedClaims, cachedBackups, timers, now,
                   made, disturbed, outlived>>

SyncBackups ==
    /\ cachedBackups # backups
    /\ cachedBackups' = backups
    /\ UNCHANGED <<flags, api, cachedNamespaces, cachedClaims, queue, timers,
                   now, history, budget>>

\* A new process reads everything, and gets an event for every claim.
Restart ==
    /\ Spend("restart")
    /\ cachedNamespaces' = namespaces
    /\ cachedClaims' = claims
    /\ cachedBackups' = backups
    /\ queue' = {p \in Claims : claims[p].present /\ InScope(NamespaceOf[p])}
    /\ timers' = [p \in Claims |-> Never]
    /\ UNCHANGED <<flags, api, now, history>>

-----------------------------------------------------------------------------
(* Users and the other controllers.                                          *)

CreateNamespace(n) ==
    /\ ~namespaces[n].present
    /\ namespaces' = [namespaces EXCEPT ![n].present = TRUE]
    /\ UNCHANGED <<flags, claims, backups, manual, operator, now, history, budget>>

AnnotateNamespace(n, schedule) ==
    /\ Spend("annotate")
    /\ namespaces[n].present
    /\ namespaces' = [namespaces EXCEPT ![n].schedule = schedule]
    /\ UNCHANGED <<flags, claims, backups, manual, operator, now, history>>

\* By a user, or by the PVCRestore controller, which adds its annotation.
CreateClaim(p, restoring) ==
    /\ namespaces[NamespaceOf[p]].present
    /\ ~claims[p].present
    /\ claims[p].uid < MaxUid
    /\ \E skew \in ClockSkew :
           claims' = [claims EXCEPT ![p] =
               [uid |-> claims[p].uid + 1, present |-> TRUE, created |-> now + skew,
                schedule |-> NotSet, restoring |-> restoring, touched |-> FALSE]]
    /\ UNCHANGED <<flags, namespaces, backups, manual, operator, now, history, budget>>

\* The PVCRestore controller removes its annotation.
RestoreEnds(p) ==
    /\ claims[p].present
    /\ claims[p].restoring
    /\ claims' = [claims EXCEPT ![p].restoring = FALSE]
    /\ UNCHANGED <<flags, namespaces, backups, manual, operator, now, history, budget>>

AnnotateClaim(p, schedule) ==
    /\ Spend("annotate")
    /\ claims[p].present
    /\ claims' = [claims EXCEPT ![p].schedule = schedule]
    /\ UNCHANGED <<flags, namespaces, backups, manual, operator, now, history>>

TouchClaim(p) ==
    /\ Spend("touch")
    /\ claims[p].present
    /\ claims' = [claims EXCEPT ![p].touched = ~@]
    /\ UNCHANGED <<flags, namespaces, backups, manual, operator, now, history>>

DeleteClaim(p) ==
    /\ Spend("deleteClaim")
    /\ claims[p].present
    /\ claims' = [claims EXCEPT ![p].present = FALSE]
    /\ UNCHANGED <<flags, namespaces, backups, manual, operator, now, history>>

\* The garbage collector deletes the PVCBackups of a deleted claim.
Collect(b) ==
    /\ ~(claims[b.claim].present /\ claims[b.claim].uid = b.owner)
    /\ backups' = backups \ {b}
    /\ UNCHANGED <<flags, namespaces, claims, manual, operator, now, history, budget>>

\* A user deletes one of the creator's PVCBackups.
DeleteBackup(b) ==
    /\ Spend("deleteBackup")
    /\ backups' = backups \ {b}
    /\ disturbed' = TRUE
    /\ UNCHANGED <<flags, namespaces, claims, manual, operator, now,
                   made, outlived, unlisted>>

\* A PVCBackup that a user made for p finishes.  The claim does not own it, so the
\* creator does not see it; to the PVCBackup controller it is a sibling.
ManualBackup(p) ==
    /\ Spend("manual")
    /\ claims[p].present
    /\ manual' = [manual EXCEPT ![p] = now]
    /\ outlived' = TRUE
    /\ UNCHANGED <<flags, namespaces, claims, backups, operator, now,
                   made, disturbed, unlisted>>

Siblings(b) == {a \in backups : a.claim = b.claim}

\* The PVCBackup controller, in the order of creation unless one overtakes.
FinishBackup(b) ==
    /\ b.finished = Never
    /\ \/ /\ \A a \in Siblings(b) : a.name < b.name => a.finished # Never
          /\ UNCHANGED <<outlived, budget>>
       \/ /\ \E a \in Siblings(b) : a.name < b.name /\ a.finished = Never
          /\ Spend("overtake")
          /\ outlived' = TRUE
    /\ backups' = (backups \ {b}) \cup {[b EXCEPT !.finished = now]}
    /\ UNCHANGED <<flags, namespaces, claims, manual, operator, now,
                   made, disturbed, unlisted>>

\* Another PVCBackup of the claim, by its PVCName, finished after b did.
HasLaterSibling(b) ==
    \/ \E a \in Siblings(b) : a.finished > b.finished
    \/ manual[b.claim] > b.finished

\* The PVCBackup controller deletes a PVCBackup when its TTL has passed, but never
\* the last to finish.
ExpireBackup(b) ==
    /\ b.finished # Never
    /\ b.finished + DefaultTTL <= now
    /\ HasLaterSibling(b)
    /\ backups' = backups \ {b}
    /\ UNCHANGED <<flags, namespaces, claims, manual, operator, now, history, budget>>

\* The operator has nothing to do now but to try invalid schedules again.
Idle ==
    /\ cachedClaims = claims
    /\ cachedNamespaces = namespaces
    /\ \A p \in queue : ScheduleOf(namespaces[NamespaceOf[p]], claims[p]) = Invalid
    /\ \A p \in Claims : timers[p] = Never \/ timers[p] > now

\* The operator needs less than a second for what it has to do, mostly.
Tick ==
    /\ now < MaxTime
    /\ now' = now + 1
    /\ \/ cachedBackups = backups /\ Idle /\ UNCHANGED <<disturbed, budget>>
       \/ cachedBackups = backups /\ ~Idle /\ Spend("slow") /\ UNCHANGED disturbed
       \/ cachedBackups # backups /\ Spend("cacheLag") /\ disturbed' = TRUE
    /\ UNCHANGED <<flags, api, operator, made, outlived, unlisted>>

Users ==
    \/ \E n \in Namespaces :
           CreateNamespace(n) \/ \E s \in Schedules : AnnotateNamespace(n, s)
    \/ \E p \in Claims :
           \/ \E restoring \in BOOLEAN : CreateClaim(p, restoring)
           \/ \E s \in Schedules : AnnotateClaim(p, s)
           \/ TouchClaim(p)
           \/ DeleteClaim(p)
           \/ ManualBackup(p)
    \/ \E b \in backups : DeleteBackup(b)

Controllers ==
    \/ \E p \in Claims : RestoreEnds(p)
    \/ \E b \in backups : Collect(b) \/ FinishBackup(b) \/ ExpireBackup(b)

Next ==
    \/ \E p \in Claims : Reconcile(p) \/ TimerFires(p)
    \/ SyncClaims \/ SyncNamespaces \/ SyncBackups
    \/ Restart
    \/ Users
    \/ Controllers
    \/ Tick

Spec == Init /\ [][Next]_vars

\* The worker, the timers, the informers and the clock go on; nothing else must.
Fairness ==
    /\ \A p \in Claims : WF_vars(Reconcile(p)) /\ WF_vars(TimerFires(p))
    /\ WF_vars(SyncClaims)
    /\ WF_vars(SyncNamespaces)
    /\ WF_vars(SyncBackups)
    /\ WF_vars(Tick)

FairSpec == Spec /\ Fairness

-----------------------------------------------------------------------------
\* The time of the schedule that a PVCBackup made at t serves.
ServedTime(schedule, t) ==
    IF WithinTolerance(schedule, t) THEN NextTime(schedule, t)
    ELSE NextTime(schedule, t) - schedule

\* A PVCBackup is not deleted before the next time of the schedule has come, by the
\* API server's clock.
OutlastsInterval(schedule) ==
    \A j, k \in ClockSkew : schedule + j - k <= DefaultTTL

\* Each time of a schedule is served by one PVCBackup of a claim at most, while
\* the claim exists: not again when the API server's clock is behind and the
\* first one seems to be early, when its reply was lost, when a reconcile in the
\* same second does not see it yet, or when older PVCBackups have been deleted.
\* It takes a cache that is less than a second behind.  With intervals longer than
\* the TTL it also takes PVCBackups that finish in the order of their creation, and
\* no PVCBackups of users beside them: the newest one may be deleted otherwise.
ScheduledOnce ==
    ~disturbed =>
        \A m1, m2 \in {m \in made : claims[m.claim].present /\ claims[m.claim].uid = m.owner} :
            /\ m1 # m2 /\ m1.claim = m2.claim /\ m1.schedule = m2.schedule
            /\ ~outlived \/ OutlastsInterval(m1.schedule)
            => ServedTime(m1.schedule, m1.created) # ServedTime(m2.schedule, m2.created)

\* PVCBackups are made only where the flags say, read as their help text has
\* it: in the namespaces listed, or in all if none is, but for the excluded ones.
OnlyWanted ==
    \A m \in made :
        LET n == NamespaceOf[m.claim] IN
        /\ n \notin flags.exclude
        /\ n \in flags.namespaces \/ flags.namespaces \subseteq {AllNamespaces}

\* The times of its schedule that have come since p was created or a PVCBackup of
\* it was made, and that this one does not serve.
Missed(p) ==
    LET s    == ScheduleOf(namespaces[NamespaceOf[p]], claims[p])
        last == Newest(p, claims[p], made)
    IN  {t \in (last + 1)..now : /\ s > 0
                                 /\ t % s = 0
                                 /\ t > ServedTime(s, last)}

\* A backup of p is due.
Due(p) ==
    /\ InScope(NamespaceOf[p])
    /\ claims[p].present
    /\ ~claims[p].restoring
    /\ Missed(p) # {}

\* A backup that is due is made in the end, also for a claim that was being
\* restored, that was seen before its namespace, whose schedule was changed, or
\* whose newest PVCBackup was deleted.  It takes the List of namespaceToRequests:
\* when it fails, nothing brings back the claims that it would have named.
DueIsMade == \A p \in Claims : Due(p) ~> ~Due(p) \/ p \in unlisted
=============================================================================
