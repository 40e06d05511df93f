--------------------------- MODULE AutomaticProofs ---------------------------
(***************************************************************************)
(* Theorems about AutomaticPVCBackupCreator: PVCBackups are made only      *)
(* where the flags say and, with clocks that agree, once for each time of  *)
(* a schedule.                                                             *)
(***************************************************************************)
EXTENDS AutomaticPVCBackupCreator, FiniteSetTheorems, TLAPS

-----------------------------------------------------------------------------
(* Lemmas about finite sets of integers.                                     *)

\* A finite set of integers that is not empty has a largest element.
LEMMA LargestExists ==
    ASSUME NEW S \in SUBSET Int, IsFiniteSet(S), S # {}
    PROVE  \E x \in S : \A y \in S : x >= y
<1> DEFINE Bad == {T \in FiniteSubsetsOf(Int) :
                       T # {} /\ ~\E x \in T : \A y \in T : x >= y}
<1>1. SUFFICES ASSUME Bad # {} PROVE FALSE
    BY DEF FiniteSubsetsOf
<1>2. Bad \subseteq FiniteSubsetsOf(Int)
    OBVIOUS
<1>3. IsWellFoundedOn(StrictSubsetOrdering(Int), FiniteSubsetsOf(Int))
    BY FS_StrictSubsetOrderingWellFounded
<1>4. PICK T \in Bad : \A U \in Bad : <<U, T>> \notin StrictSubsetOrdering(Int)
    <2> HIDE DEF Bad
    <2> QED BY <1>1, <1>2, <1>3, WFMin
<1>5. PICK e \in T : TRUE
    OBVIOUS
<1> DEFINE U == T \ {e}
<1>6. T \in SUBSET Int /\ IsFiniteSet(T)
    BY DEF FiniteSubsetsOf
<1>7. U \in SUBSET Int /\ IsFiniteSet(U)
    BY <1>6, FS_RemoveElement
<1>8. <<U, T>> \in StrictSubsetOrdering(Int)
    BY <1>5, <1>6, <1>7 DEF StrictSubsetOrdering
<1>9. U \notin Bad
    BY <1>4, <1>8
<1>10. CASE U = {}
    <2>1. T = {e}
        BY <1>5, <1>10
    <2> QED BY <2>1, <1>6
<1>11. CASE U # {}
    <2>1. PICK x \in U : \A y \in U : x >= y
        BY <1>7, <1>9, <1>11 DEF FiniteSubsetsOf
    <2>2. x \in T /\ x \in Int /\ e \in Int
        BY <1>5, <1>6
    <2>3. (\A y \in T : x >= y) \/ (\A y \in T : e >= y)
        BY <1>6, <2>1, <2>2
    <2> QED BY <1>5, <2>2, <2>3
<1> QED BY <1>10, <1>11

\* Max is what its name says.
LEMMA MaxProperty ==
    ASSUME NEW S \in SUBSET Int, IsFiniteSet(S), S # {}
    PROVE  Max(S) \in S /\ \A y \in S : Max(S) >= y
BY LargestExists DEF Max

LEMMA MaxOfTwo ==
    ASSUME NEW a \in Int, NEW b \in Int
    PROVE  Max({a, b}) \in {a, b} /\ Max({a, b}) >= a /\ Max({a, b}) >= b
<1>1. IsFiniteSet({a} \cup {b})
    BY FS_Singleton, FS_Union
<1>2. {a} \cup {b} = {a, b}
    OBVIOUS
<1> QED BY <1>1, <1>2, MaxProperty

LEMMA MinOfTwo ==
    ASSUME NEW a \in Int, NEW b \in Int
    PROVE  Min({a, b}) \in {a, b}
<1>1. \E x \in {a, b} : \A y \in {a, b} : x =< y
    OBVIOUS
<1> QED BY <1>1 DEF Min

-----------------------------------------------------------------------------
(* Lemmas about schedules.                                                   *)

\* Products keep the order of their factors.
LEMMA ProductOrder ==
    ASSUME NEW s \in Nat \ {0}, NEW i \in Int, NEW j \in Int, i < j
    PROVE  /\ i * s \in Int /\ j * s \in Int
           /\ i * s + s = (i + 1) * s
           /\ i * s + s <= j * s
<1>1. i * s \in Int /\ j * s \in Int
    OBVIOUS
<1>2. (i + 1) * s = i * s + s
    OBVIOUS
<1>3. PICK d \in Nat : j = i + 1 + d
    <2>1. j - i - 1 \in Nat /\ j = i + 1 + (j - i - 1)
        OBVIOUS
    <2> QED BY <2>1
<1>4. j * s = i * s + s + d * s
    BY <1>3
<1>5. d * s \in Nat
    OBVIOUS
<1> QED BY <1>1, <1>2, <1>4, <1>5

\* The times of a schedule around t.
LEMMA DivisionFacts ==
    ASSUME NEW s \in Nat \ {0}, NEW t \in Int
    PROVE  /\ t \div s \in Int
           /\ (t \div s) * s \in Int
           /\ (t \div s) * s <= t
           /\ t < (t \div s) * s + s
<1>1. t \div s \in Int /\ t % s \in 0..(s - 1)
    OBVIOUS
<1>2. t = s * (t \div s) + (t % s)
    OBVIOUS
<1>3. s * (t \div s) = (t \div s) * s
    BY <1>1
<1> QED BY <1>1, <1>2, <1>3

\* A time of the schedule is its own quotient.
LEMMA QuotientOfTime ==
    ASSUME NEW s \in Nat \ {0}, NEW q \in Int
    PROVE  (q * s) \div s = q
<1> DEFINE r == (q * s) \div s
<1>1. q * s \in Int
    OBVIOUS
<1>2. /\ r \in Int /\ r * s \in Int
      /\ r * s <= q * s
      /\ q * s < r * s + s
    BY <1>1, DivisionFacts
<1> HIDE DEF r
<1>3. ~(q < r)
    BY <1>1, <1>2, ProductOrder
<1>4. ~(r < q)
    BY <1>1, <1>2, ProductOrder
<1> QED BY <1>2, <1>3, <1>4

\* NextTime is a time of the schedule, the first after t.
LEMMA NextTimeFacts ==
    ASSUME NEW s \in Nat \ {0}, NEW t \in Int
    PROVE  /\ NextTime(s, t) \in Int
           /\ NextTime(s, t) = (t \div s) * s + s
           /\ t < NextTime(s, t)
           /\ NextTime(s, t) <= t + s
           /\ NextTime(s, NextTime(s, t)) = NextTime(s, t) + s
<1> DEFINE q == t \div s
<1>1. q \in Int /\ q * s \in Int /\ q * s <= t /\ t < q * s + s
    BY DivisionFacts
<1>2. NextTime(s, t) = (q + 1) * s
    BY DEF NextTime
<1> HIDE DEF q
<1>3. (q + 1) * s = q * s + s
    BY <1>1, ProductOrder, q < q + 1
<1>4. ((q + 1) * s) \div s = q + 1
    BY <1>1, QuotientOfTime
<1>5. NextTime(s, NextTime(s, t)) = (q + 2) * s
    <2>1. NextTime(s, NextTime(s, t)) = (q + 1 + 1) * s
        BY <1>2, <1>4 DEF NextTime
    <2> QED BY <2>1, <1>1
<1>6. (q + 2) * s = q * s + s + s
    <2>1. (q + 1) * s + s = (q + 1 + 1) * s
        BY <1>1, ProductOrder, q + 1 < q + 2
    <2> QED BY <2>1, <1>1, <1>3
<1> QED BY <1>1, <1>2, <1>3, <1>5, <1>6 DEF q

\* The tolerance is a part of the schedule's interval.
LEMMA ToleranceFacts ==
    ASSUME NEW s \in Nat \ {0}, NEW t \in Int
    PROVE  /\ WithinTolerance(s, t) <=> 100 * (NextTime(s, t) - t) < TolerancePercent * s
           /\ ServedTime(s, t) \in Int
           /\ NextBackup(s, t) = ServedTime(s, t) + s
<1>1. /\ NextTime(s, t) \in Int
      /\ NextTime(s, NextTime(s, t)) = NextTime(s, t) + s
    BY NextTimeFacts
<1>2. NextTime(s, NextTime(s, t)) - NextTime(s, t) = s
    BY <1>1
<1>3. WithinTolerance(s, t) <=> 100 * (NextTime(s, t) - t) < TolerancePercent * s
    BY <1>2 DEF WithinTolerance
<1> QED BY <1>1, <1>3 DEF ServedTime, NextBackup


\* The time that a PVCBackup made at t serves is the last before t, or the one after.
LEMMA ServedTimeFacts ==
    ASSUME NEW s \in Nat \ {0}, NEW t \in Int
    PROVE  \E q \in Int, a \in Int :
               /\ a = q * s
               /\ a <= t
               /\ t < a + s
               /\ ServedTime(s, t) = IF 100 * (a + s - t) < TolerancePercent * s
                                     THEN a + s ELSE a
<1> DEFINE q == t \div s
           a == q * s
<1>1. q \in Int /\ a \in Int /\ a <= t /\ t < a + s
    BY DivisionFacts
<1>2. NextTime(s, t) = a + s
    BY NextTimeFacts
<1>3. WithinTolerance(s, t) <=> 100 * (NextTime(s, t) - t) < TolerancePercent * s
    BY ToleranceFacts
<1>4. NextTime(s, t) - s = a
    BY <1>1, <1>2
<1>5. ServedTime(s, t) = IF 100 * (a + s - t) < TolerancePercent * s THEN a + s ELSE a
    BY <1>2, <1>3, <1>4 DEF ServedTime
<1>6. a = q * s
    OBVIOUS
<1> HIDE DEF q, a
<1> QED BY <1>1, <1>5, <1>6

\* A later PVCBackup serves the same or a later time.
LEMMA ServedTimeMonotone ==
    ASSUME NEW s \in Nat \ {0}, NEW t \in Int, NEW u \in Int, t <= u
    PROVE  ServedTime(s, t) <= ServedTime(s, u)
<1>1. PICK q \in Int, a \in Int :
          /\ a = q * s
          /\ a <= t
          /\ t < a + s
          /\ ServedTime(s, t) = IF 100 * (a + s - t) < TolerancePercent * s
                                THEN a + s ELSE a
    BY ServedTimeFacts
<1>2. PICK r \in Int, b \in Int :
          /\ b = r * s
          /\ b <= u
          /\ u < b + s
          /\ ServedTime(s, u) = IF 100 * (b + s - u) < TolerancePercent * s
                                THEN b + s ELSE b
    BY ServedTimeFacts
<1>3. q < r => a + s <= b
    BY <1>1, <1>2, ProductOrder
<1>4. r < q => b + s <= a
    BY <1>1, <1>2, ProductOrder
<1>5. q = r => a = b
    BY <1>1, <1>2
<1>6. TolerancePercent * s \in Int
    BY ScheduleAssumption
<1>7. CASE q < r
    BY <1>1, <1>2, <1>3, <1>7
<1>8. CASE q = r
    BY <1>1, <1>2, <1>5, <1>6, <1>8
<1>9. ~(r < q)
    BY <1>1, <1>2, <1>4
<1> QED BY <1>7, <1>8, <1>9

\* The clock of the API server is so little behind that the PVCBackup made at a
\* time of the schedule counts for it.
SkewTolerated(s, k) == 100 * (0 - k) < TolerancePercent * s

\* A PVCBackup made when it is due serves a later time than all that were seen.
LEMMA DueServesLater ==
    ASSUME NEW s \in Nat \ {0}, NEW t \in Int, NEW n \in Int, NEW k \in Int,
           TolerancePercent <= 100,
           SkewTolerated(s, k),
           NextBackup(s, t) <= n
    PROVE  ServedTime(s, t) < ServedTime(s, n + k)
<1>1. PICK c \in Int : c = n + k
    OBVIOUS
<1>2. PICK i \in Int, d \in Int :
          /\ d = i * s
          /\ d <= t
          /\ t < d + s
          /\ ServedTime(s, t) = IF 100 * (d + s - t) < TolerancePercent * s
                                THEN d + s ELSE d
    BY ServedTimeFacts
<1>3. PICK q \in Int, b \in Int :
          /\ b = q * s
          /\ b <= c
          /\ c < b + s
          /\ ServedTime(s, c) = IF 100 * (b + s - c) < TolerancePercent * s
                                THEN b + s ELSE b
    BY ServedTimeFacts
<1>4. PICK T \in Int : T = ServedTime(s, t) + s
    BY <1>2
<1>5. T <= n
    BY <1>4, ToleranceFacts
<1>6. PICK j \in Int : T = j * s
    <2>1. d + s = (i + 1) * s
        BY <1>2, ProductOrder, i < i + 1
    <2>2. (i + 1) * s + s = (i + 1 + 1) * s
        BY ProductOrder, i + 1 < i + 2
    <2>3. T = (i + 1) * s \/ T = (i + 1 + 1) * s
        BY <1>2, <1>4, <2>1, <2>2
    <2>4. i + 1 \in Int /\ i + 1 + 1 \in Int
        OBVIOUS
    <2> QED BY <2>3, <2>4, Zenon
<1>7. TolerancePercent * s \in Int /\ TolerancePercent * s <= 100 * s
    BY ScheduleAssumption
<1>8. 100 * (0 - k) < TolerancePercent * s
    BY DEF SkewTolerated
<1>9. CASE j <= q
    <2>1. T <= b
        BY <1>3, <1>6, <1>9, ProductOrder
    <2> QED BY <1>1, <1>2, <1>3, <1>4, <2>1
<1>10. CASE j = q + 1
    <2>1. T = b + s
        BY <1>3, <1>6, <1>10, ProductOrder, q < q + 1
    <2>2. 100 * (b + s - c) < TolerancePercent * s
        BY <1>1, <1>5, <1>7, <1>8, <2>1
    <2> QED BY <1>1, <1>2, <1>3, <1>4, <2>1, <2>2
<1>11. CASE j > q + 1
    <2>1. (q + 1) * s + s <= j * s
        BY <1>11, ProductOrder
    <2>2. b + s = (q + 1) * s
        BY <1>3, ProductOrder, q < q + 1
    <2>3. b + s + s <= T
        BY <1>6, <2>1, <2>2
    <2>4. 0 - k > s
        BY <1>1, <1>3, <1>5, <2>3
    <2> QED BY <1>7, <1>8, <2>4
<1> QED BY <1>9, <1>10, <1>11

\* It also gets a later creation timestamp.
LEMMA DueIsLater ==
    ASSUME NEW s \in Nat \ {0}, NEW t \in Int, NEW n \in Int, NEW k \in Int,
           TolerancePercent <= 100,
           SkewTolerated(s, k),
           NextBackup(s, t) <= n
    PROVE  t < n + k
<1>1. PICK x \in Int : x = NextTime(s, t)
    BY NextTimeFacts
<1>2. t < x /\ NextTime(s, x) = x + s
    BY <1>1, NextTimeFacts
<1>3. WithinTolerance(s, t) <=> 100 * (x - t) < TolerancePercent * s
    BY <1>1, ToleranceFacts
<1>4. NextBackup(s, t) = IF WithinTolerance(s, t) THEN x + s ELSE x
    BY <1>1, <1>2 DEF NextBackup
<1>5. TolerancePercent * s \in Int /\ TolerancePercent * s <= 100 * s
    BY ScheduleAssumption
<1>6. 100 * (0 - k) < TolerancePercent * s
    BY DEF SkewTolerated
<1>7. CASE WithinTolerance(s, t)
    <2>1. x + s <= n /\ 0 - k < s
        BY <1>4, <1>5, <1>6, <1>7
    <2> QED BY <1>2, <2>1
<1>8. CASE ~WithinTolerance(s, t)
    <2>1. x <= n /\ TolerancePercent * s <= 100 * (x - t)
        BY <1>3, <1>4, <1>5, <1>8
    <2> QED BY <1>5, <1>6, <2>1
<1> QED BY <1>7, <1>8

-----------------------------------------------------------------------------
(* Types.                                                                    *)

\* An informer delivers, and the API server keeps, finitely many PVCBackups; a
\* claim that is present was created.
TypeInv ==
    /\ TypeOK
    /\ IsFiniteSet(backups)
    /\ IsFiniteSet(cachedBackups)
    /\ \A p \in Claims : /\ claims[p].present => claims[p].uid > 0
                         /\ cachedClaims[p].present => cachedClaims[p].uid > 0

\* The schedule of a claim that is not ignored is valid or Invalid.
LEMMA ScheduleType ==
    ASSUME TypeOK, NEW p \in Claims,
           ~Ignored(cachedNamespaces[NamespaceOf[p]], cachedClaims[p]),
           ScheduleOf(cachedNamespaces[NamespaceOf[p]], cachedClaims[p]) # Invalid
    PROVE  /\ ScheduleOf(cachedNamespaces[NamespaceOf[p]], cachedClaims[p]) \in Nat \ {0}
           /\ ScheduleOf(cachedNamespaces[NamespaceOf[p]], cachedClaims[p])
                  \in {DefaultSchedule} \cup Schedules
           /\ cachedClaims[p].present
           /\ ~cachedClaims[p].restoring
<1>1. NamespaceOf[p] \in Namespaces
    BY ClaimsAssumption
<1>2. /\ cachedNamespaces[NamespaceOf[p]].schedule \in Schedules \cup {NotSet}
      /\ cachedClaims[p].schedule \in Schedules \cup {NotSet}
    BY <1>1 DEF TypeOK, NamespaceObjects, ClaimObjects
<1>3. ScheduleOf(cachedNamespaces[NamespaceOf[p]], cachedClaims[p])
          \in ({DefaultSchedule} \cup Schedules) \ {NotSet}
    BY <1>2, ScheduleAssumption DEF ScheduleOf
<1> QED BY <1>3, ScheduleAssumption DEF Ignored, Empty, NotSet, Invalid

\* The newest PVCBackup is at least as new as each that is seen.
LEMMA NewestProperty ==
    ASSUME NEW p \in Claims, NEW claim, claim.created \in Int,
           NEW seen, IsFiniteSet(seen), \A b \in seen : b.created \in Int
    PROVE  /\ Newest(p, claim, seen) \in Int
           /\ \A b \in seen : b.claim = p => Newest(p, claim, seen) >= b.created
<1> DEFINE own == {x \in seen : x.claim = p}
           C == {b.created : b \in own}
           f == [b \in own |-> b.created]
<1>1. IsFiniteSet(own)
    BY FS_Subset, own \in SUBSET seen
<1>2. f \in Surjection(own, C)
    BY DEF Surjection
<1>3. IsFiniteSet(C)
    BY <1>1, <1>2, FS_Surjection
<1>4. IsFiniteSet({claim.created} \cup C)
    BY <1>3, FS_Singleton, FS_Union
<1>5. {claim.created} \cup C \in SUBSET Int
    OBVIOUS
<1>6. {claim.created} \cup C # {}
    OBVIOUS
<1>7. /\ Max({claim.created} \cup C) \in {claim.created} \cup C
      /\ \A y \in {claim.created} \cup C : Max({claim.created} \cup C) >= y
    <2> HIDE DEF C
    <2> QED BY <1>4, <1>5, <1>6, MaxProperty
<1>8. Newest(p, claim, seen) = Max({claim.created} \cup C)
    BY DEF Newest
<1>9. \A b \in seen : b.claim = p => b.created \in {claim.created} \cup C
    OBVIOUS
<1> HIDE DEF C
<1> QED BY <1>5, <1>7, <1>8, <1>9

-----------------------------------------------------------------------------
(* What the steps do.                                                        *)

CachedSchedule(p) == ScheduleOf(cachedNamespaces[NamespaceOf[p]], cachedClaims[p])

NewBackup(p, skew) ==
    [claim |-> p, owner |-> cachedClaims[p].uid, name |-> now,
     created |-> now + skew, finished |-> Never]

NewRecord(p, skew) ==
    [claim |-> p, owner |-> cachedClaims[p].uid, name |-> now,
     created |-> now + skew, schedule |-> CachedSchedule(p)]

\* The reconcile of p that creates a PVCBackup.
Creates(p, skew) ==
    /\ p \in queue
    /\ ~Ignored(cachedNamespaces[NamespaceOf[p]], cachedClaims[p])
    /\ CachedSchedule(p) # Invalid
    /\ NextBackup(CachedSchedule(p), Newest(p, cachedClaims[p], cachedBackups)) <= now
    /\ ~NameTaken(p)
    /\ backups' = backups \cup {NewBackup(p, skew)}
    /\ made' = made \cup {NewRecord(p, skew)}

\* Reconcile keeps what it watches, creates one PVCBackup or none, and puts no
\* claim into the queue.
LEMMA ReconcileSteps ==
    ASSUME NEW p \in Claims, Reconcile(p)
    PROVE  /\ p \in queue
           /\ queue' \subseteq queue
           /\ UNCHANGED <<flags, namespaces, claims, manual, cachedNamespaces, cachedClaims,
                          cachedBackups, now, disturbed, outlived>>
           /\ \/ UNCHANGED <<backups, made>>
              \/ \E skew \in ClockSkew : Creates(p, skew)
<1>1. /\ p \in queue
      /\ UNCHANGED <<flags, namespaces, claims, manual, cachedNamespaces, cachedClaims,
                     cachedBackups, now, disturbed, outlived>>
    BY DEF Reconcile, caches
<1>2. queue' \subseteq queue
    BY DEF Reconcile, CreateBackup, Return, Retry, requeueAfter
<1>3. UNCHANGED <<backups, made>> \/ \E skew \in ClockSkew : Creates(p, skew)
    <2>1. SUFFICES ASSUME ~UNCHANGED <<backups, made>>
                   PROVE  \E skew \in ClockSkew : Creates(p, skew)
        OBVIOUS
    <2>2. /\ ~Ignored(cachedNamespaces[NamespaceOf[p]], cachedClaims[p])
          /\ CachedSchedule(p) # Invalid
          /\ NextBackup(CachedSchedule(p), Newest(p, cachedClaims[p], cachedBackups)) <= now
          /\ CreateBackup(p, CachedSchedule(p))
        BY <2>1 DEF Reconcile, CachedSchedule
    <2>3. PICK skew \in ClockSkew :
              /\ ~NameTaken(p)
              /\ backups' = backups \cup {NewBackup(p, skew)}
              /\ made' = made \cup {NewRecord(p, skew)}
        BY <2>2 DEF CreateBackup, NewBackup, NewRecord
    <2>4. Creates(p, skew)
        BY <1>1, <2>2, <2>3 DEF Creates
    <2> QED BY <2>4
<1> QED BY <1>1, <1>2, <1>3

\* A timer that Reconcile sets is in the future.
LEMMA ReconcileTimers ==
    ASSUME TypeInv, NEW p \in Claims, Reconcile(p)
    PROVE  /\ timers' \in [Claims -> {Never} \cup Nat]
           /\ \A q \in Claims : q # p => timers'[q] = timers[q]
           /\ budget' \in 0..MaxFaults
<1> DEFINE s == CachedSchedule(p)
           newest == Newest(p, cachedClaims[p], cachedBackups)
<1>1. timers \in [Claims -> {Never} \cup Nat] /\ now \in Nat
    BY BoundsAssumption DEF TypeInv, TypeOK
<1>2. ASSUME NEW d \in Int, requeueAfter(p, d)
      PROVE  /\ timers' \in [Claims -> {Never} \cup Nat]
             /\ \A q \in Claims : q # p => timers'[q] = timers[q]
    <2> DEFINE at == now + Max({d, 1})
    <2>1. at \in Nat
        <3>1. 1 \in Int
            OBVIOUS
        <3>2. Max({d, 1}) \in {d, 1} /\ Max({d, 1}) >= 1
            BY ONLY <1>2, <3>1, MaxOfTwo
        <3> QED BY <1>1, <3>2
    <2>2. timers[p] # Never => Min({timers[p], at}) \in Nat
        BY <1>1, <2>1, MinOfTwo
    <2>3. timers' = [timers EXCEPT ![p] = IF timers[p] = Never THEN at ELSE Min({timers[p], at})]
        BY <1>2 DEF requeueAfter
    <2> HIDE DEF at
    <2> QED BY <1>1, <2>1, <2>2, <2>3
<1>3. UNCHANGED timers \/ \E d \in Int : requeueAfter(p, d)
    <2>1. ASSUME ~Ignored(cachedNamespaces[NamespaceOf[p]], cachedClaims[p]), s # Invalid
          PROVE  s \in Nat \ {0} /\ newest \in Int
        <3>1. s \in Nat \ {0}
            BY <2>1, ScheduleType DEF CachedSchedule, TypeInv
        <3>2. cachedClaims[p].created \in Int
            BY BoundsAssumption DEF TypeInv, TypeOK, ClaimObjects
        <3>3. IsFiniteSet(cachedBackups) /\ \A b \in cachedBackups : b.created \in Int
            BY DEF TypeInv, TypeOK, BackupObjects
        <3> QED BY <3>1, <3>2, <3>3, NewestProperty
    <2>2. ASSUME s \in Nat \ {0}, newest \in Int
          PROVE  NextBackup(s, newest) - now \in Int
        BY <1>1, <2>2, ToleranceFacts
    <2>3. ASSUME s \in Nat \ {0}, NEW skew \in ClockSkew
          PROVE  NextTime(s, now + skew) - now \in Int
        <3>1. now + skew \in Int
            BY <1>1, ScheduleAssumption
        <3>2. NextTime(s, now + skew) \in Int
            BY <2>3, <3>1, NextTimeFacts
        <3> QED BY <1>1, <3>2
    <2>4. CASE CreateBackup(p, s) /\ ~Ignored(cachedNamespaces[NamespaceOf[p]], cachedClaims[p])
                /\ s # Invalid
        <3>1. PICK skew \in ClockSkew :
                  requeueAfter(p, NextTime(s, now + skew) - now) \/ Retry(p)
            BY <2>4 DEF CreateBackup
        <3> QED BY <2>1, <2>3, <2>4, <3>1 DEF Retry
    <2>5. CASE requeueAfter(p, NextBackup(s, newest) - now)
                /\ ~Ignored(cachedNamespaces[NamespaceOf[p]], cachedClaims[p])
                /\ s # Invalid
        BY <2>1, <2>2, <2>5
    <2>6. CASE Return(p) \/ Retry(p)
        BY <2>6 DEF Return, Retry
    <2> QED BY <2>4, <2>5, <2>6 DEF Reconcile, CachedSchedule
<1>4. budget' \in 0..MaxFaults
    BY BoundsAssumption DEF Reconcile, CreateBackup, Spend, TypeInv, TypeOK
<1> QED BY <1>1, <1>2, <1>3, <1>4

LEMMA InitTypes == Init => TypeInv
<1> SUFFICES ASSUME Init PROVE TypeInv
    OBVIOUS
<1>1. NoNamespace \in NamespaceObjects
    BY DEF NoNamespace, NamespaceObjects
<1>2. NoClaim \in ClaimObjects
    BY BoundsAssumption DEF NoClaim, ClaimObjects
<1>3. IsFiniteSet({})
    BY FS_EmptySet
<1>4. TypeOK
    <2>1. namespaces \in [Namespaces -> NamespaceObjects] /\ cachedNamespaces = namespaces
        BY <1>1 DEF Init
    <2>2. claims \in [Claims -> ClaimObjects] /\ cachedClaims = claims
        BY <1>2 DEF Init
    <2>3. timers \in [Claims -> {Never} \cup Nat]
        BY DEF Init
    <2>4. now \in 0..MaxTime /\ budget \in 0..MaxFaults
        BY BoundsAssumption DEF Init
    <2>5. flags \in FlagSettings /\ queue \subseteq Claims
          /\ {disturbed, outlived} \subseteq BOOLEAN /\ unlisted \subseteq Claims
          /\ backups \cup cachedBackups = {}
        BY DEF Init
    <2>6. manual \in [Claims -> {Never} \cup (0..MaxTime)]
        BY DEF Init
    <2> QED BY <2>1, <2>2, <2>3, <2>4, <2>5, <2>6 DEF TypeOK
<1>5. \A p \in Claims : ~claims[p].present /\ ~cachedClaims[p].present
    BY DEF Init, NoClaim
<1> QED BY <1>3, <1>4, <1>5 DEF Init, TypeInv

\* A new PVCBackup is an object of its type.
LEMMA NewBackupType ==
    ASSUME TypeInv, NEW p \in Claims, NEW skew \in ClockSkew, Creates(p, skew)
    PROVE  NewBackup(p, skew) \in BackupObjects
<1>1. cachedClaims[p].present
    BY ScheduleType DEF Creates, CachedSchedule, TypeInv
<1>2. cachedClaims[p].uid \in 1..MaxUid
    BY <1>1, BoundsAssumption DEF TypeInv, TypeOK, ClaimObjects
<1>3. now \in 0..MaxTime /\ now + skew \in Int
    BY BoundsAssumption, ScheduleAssumption DEF TypeInv, TypeOK
<1> QED BY <1>2, <1>3 DEF NewBackup, BackupObjects

\* A user, a controller or the API server changes one claim.
LEMMA ClaimSteps ==
    ASSUME TypeInv, NEW p \in Claims,
           \/ \E restoring \in BOOLEAN : CreateClaim(p, restoring)
           \/ \E s \in Schedules : AnnotateClaim(p, s)
           \/ TouchClaim(p) \/ DeleteClaim(p) \/ RestoreEnds(p)
    PROVE  /\ claims' \in [Claims -> ClaimObjects]
           /\ claims'[p].present => claims'[p].uid > 0
           /\ \A q \in Claims : q # p => claims'[q] = claims[q]
           /\ UNCHANGED <<flags, namespaces, backups, manual, cachedNamespaces, cachedClaims,
                          cachedBackups, queue, timers, now, made, disturbed, outlived>>
           /\ budget' \in 0..MaxFaults
           /\ \/ /\ claims'[p].uid = claims[p].uid + 1
                 /\ claims'[p].present
                 /\ ~claims[p].present
              \/ /\ claims'[p].uid = claims[p].uid
                 /\ claims'[p].present => claims[p].present
                 /\ claims'[p].restoring => claims[p].restoring
<1>1. claims \in [Claims -> ClaimObjects] /\ budget \in 0..MaxFaults /\ now \in 0..MaxTime
    BY DEF TypeInv, TypeOK
<1>2. claims[p].uid \in 0..MaxUid /\ (claims[p].present => claims[p].uid > 0)
    BY <1>1 DEF ClaimObjects, TypeInv
<1>3. ASSUME NEW restoring \in BOOLEAN, CreateClaim(p, restoring)
      PROVE  /\ claims' \in [Claims -> ClaimObjects]
             /\ \A q \in Claims : q # p => claims'[q] = claims[q]
             /\ claims'[p].uid = claims[p].uid + 1
             /\ claims'[p].present
             /\ ~claims[p].present
             /\ budget' \in 0..MaxFaults
    <2>1. PICK skew \in ClockSkew :
              claims' = [claims EXCEPT ![p] =
                  [uid |-> claims[p].uid + 1, present |-> TRUE, created |-> now + skew,
                   schedule |-> NotSet, restoring |-> restoring, touched |-> FALSE]]
        BY <1>3 DEF CreateClaim
    <2> DEFINE new == [uid |-> claims[p].uid + 1, present |-> TRUE, created |-> now + skew,
                       schedule |-> NotSet, restoring |-> restoring, touched |-> FALSE]
    <2>2. new \in ClaimObjects
        <3>1. claims[p].uid + 1 \in 0..MaxUid /\ now + skew \in Int
            BY <1>1, <1>2, <1>3, BoundsAssumption, ScheduleAssumption DEF CreateClaim
        <3> QED BY <1>1, <3>1 DEF ClaimObjects
    <2>3. new.uid = claims[p].uid + 1 /\ new.present
        OBVIOUS
    <2>4. claims' = [claims EXCEPT ![p] = new]
        BY <2>1
    <2>5. ~claims[p].present /\ budget' = budget
        BY <1>3 DEF CreateClaim
    <2> HIDE DEF new
    <2> QED BY <1>1, <2>2, <2>3, <2>4, <2>5
<1>4. ASSUME \/ \E s \in Schedules : AnnotateClaim(p, s)
             \/ TouchClaim(p) \/ DeleteClaim(p) \/ RestoreEnds(p)
      PROVE  /\ claims' \in [Claims -> ClaimObjects]
             /\ \A q \in Claims : q # p => claims'[q] = claims[q]
             /\ claims'[p].uid = claims[p].uid
             /\ claims'[p].present => claims[p].present
             /\ claims'[p].restoring => claims[p].restoring
             /\ budget' \in 0..MaxFaults
    <2>1. claims[p] \in ClaimObjects
        BY <1>1
    <2>2. CASE \E s \in Schedules : AnnotateClaim(p, s)
        <3>1. PICK s \in Schedules : AnnotateClaim(p, s)
            BY <2>2
        <3>2. claims' = [claims EXCEPT ![p] = [claims[p] EXCEPT !.schedule = s]]
            BY <3>1 DEF AnnotateClaim
        <3>3. [claims[p] EXCEPT !.schedule = s] \in ClaimObjects
            BY <2>1 DEF ClaimObjects
        <3>4. budget' \in 0..MaxFaults
            BY <1>1, <3>1, BoundsAssumption DEF AnnotateClaim, Spend
        <3>5. claims'[p] = [claims[p] EXCEPT !.schedule = s]
            BY <1>1, <3>2
        <3> QED BY <1>1, <2>1, <3>2, <3>3, <3>4, <3>5 DEF ClaimObjects
    <2>3. CASE TouchClaim(p)
        <3>1. claims' = [claims EXCEPT ![p] = [claims[p] EXCEPT !.touched = ~claims[p].touched]]
            BY <2>3 DEF TouchClaim
        <3>2. [claims[p] EXCEPT !.touched = ~claims[p].touched] \in ClaimObjects
            BY <2>1 DEF ClaimObjects
        <3>3. budget' \in 0..MaxFaults
            BY <1>1, <2>3, BoundsAssumption DEF TouchClaim, Spend
        <3>4. claims'[p] = [claims[p] EXCEPT !.touched = ~claims[p].touched]
            BY <1>1, <3>1
        <3> QED BY <1>1, <2>1, <3>1, <3>2, <3>3, <3>4 DEF ClaimObjects
    <2>4. CASE DeleteClaim(p)
        <3>1. claims' = [claims EXCEPT ![p] = [claims[p] EXCEPT !.present = FALSE]]
            BY <2>4 DEF DeleteClaim
        <3>2. budget' \in 0..MaxFaults
            BY <1>1, <2>4, BoundsAssumption DEF DeleteClaim, Spend
        <3> QED BY <1>1, <2>1, <3>1, <3>2 DEF ClaimObjects
    <2>5. CASE RestoreEnds(p)
        BY <1>1, <2>1, <2>5, BoundsAssumption DEF RestoreEnds, Spend, ClaimObjects
    <2> QED BY <1>4, <2>2, <2>3, <2>4, <2>5
<1>5. UNCHANGED <<flags, namespaces, backups, manual, cachedNamespaces, cachedClaims,
                  cachedBackups, queue, timers, now, made, disturbed, outlived>>
    BY DEF CreateClaim, AnnotateClaim, TouchClaim, DeleteClaim, RestoreEnds,
           operator, caches, history
<1> QED BY <1>2, <1>3, <1>4, <1>5

\* The PVCBackup b when it has finished.
FinishedCopy(b) == [b EXCEPT !.finished = now]

LEMMA FinishedCopyFields ==
    ASSUME TypeInv, NEW b \in backups
    PROVE  /\ FinishedCopy(b) \in BackupObjects
           /\ FinishedCopy(b).claim = b.claim
           /\ FinishedCopy(b).owner = b.owner
           /\ FinishedCopy(b).name = b.name
           /\ FinishedCopy(b).created = b.created
           /\ FinishedCopy(b).finished = now
<1>1. b \in BackupObjects /\ now \in 0..MaxTime
    BY DEF TypeInv, TypeOK
<1> QED BY <1>1 DEF FinishedCopy, BackupObjects

\* A controller or a user removes a PVCBackup, or it finishes.
LEMMA BackupSteps ==
    ASSUME TypeInv, NEW b \in backups,
           Collect(b) \/ FinishBackup(b) \/ ExpireBackup(b) \/ DeleteBackup(b)
    PROVE  /\ \A a \in backups' : a \in BackupObjects
           /\ IsFiniteSet(backups')
           /\ backups' \subseteq backups \cup {FinishedCopy(b)}
           /\ budget' \in 0..MaxFaults
           /\ {disturbed', outlived'} \subseteq BOOLEAN
           /\ disturbed => disturbed'
           /\ outlived => outlived'
           /\ DeleteBackup(b) => disturbed'
           /\ UNCHANGED <<flags, namespaces, claims, manual, cachedNamespaces, cachedClaims,
                          cachedBackups, queue, timers, now, made>>
<1>1. \A a \in backups : a \in BackupObjects
    BY DEF TypeInv, TypeOK
<1>2. IsFiniteSet(backups \ {b}) /\ IsFiniteSet((backups \ {b}) \cup {FinishedCopy(b)})
    BY FS_RemoveElement, FS_AddElement DEF TypeInv
<1>3. FinishedCopy(b) \in BackupObjects
    BY FinishedCopyFields
<1>4. backups' = backups \ {b} \/ backups' = (backups \ {b}) \cup {FinishedCopy(b)}
    BY DEF Collect, FinishBackup, ExpireBackup, DeleteBackup, FinishedCopy
<1>5. /\ budget' \in 0..MaxFaults /\ {disturbed', outlived'} \subseteq BOOLEAN
      /\ disturbed => disturbed'
      /\ outlived => outlived'
      /\ DeleteBackup(b) => disturbed'
    <2>1. budget \in 0..MaxFaults /\ disturbed \in BOOLEAN /\ outlived \in BOOLEAN
        BY DEF TypeInv, TypeOK
    <2>2. /\ disturbed' = disturbed \/ disturbed' = TRUE
          /\ outlived' = outlived \/ outlived' = TRUE
          /\ DeleteBackup(b) => disturbed' = TRUE
        BY DEF Collect, FinishBackup, ExpireBackup, DeleteBackup, history
    <2>3. /\ disturbed' \in BOOLEAN /\ outlived' \in BOOLEAN
          /\ disturbed => disturbed'
          /\ outlived => outlived'
          /\ DeleteBackup(b) => disturbed'
        <3>1. disturbed' \in BOOLEAN /\ (disturbed => disturbed')
            <4>1. disturbed \in BOOLEAN /\ (disturbed' = disturbed \/ disturbed' = TRUE)
                BY <2>1, <2>2
            <4> QED BY ONLY <4>1, Zenon
        <3>2. outlived' \in BOOLEAN /\ (outlived => outlived')
            <4>1. outlived \in BOOLEAN /\ (outlived' = outlived \/ outlived' = TRUE)
                BY <2>1, <2>2
            <4> QED BY ONLY <4>1, Zenon
        <3>3. DeleteBackup(b) => disturbed'
            BY <2>2, Zenon
        <3> QED BY <3>1, <3>2, <3>3
    <2>4. budget' = budget \/ Spend("overtake") \/ Spend("deleteBackup")
        BY DEF Collect, FinishBackup, ExpireBackup, DeleteBackup
    <2>5. budget' \in 0..MaxFaults
        BY <2>1, <2>4, BoundsAssumption DEF Spend
    <2> QED BY <2>3, <2>5
<1>6. UNCHANGED <<flags, namespaces, claims, manual, cachedNamespaces, cachedClaims,
                  cachedBackups, queue, timers, now, made>>
    BY DEF Collect, FinishBackup, ExpireBackup, DeleteBackup, operator, caches, history
<1>7. /\ \A a \in backups' : a \in BackupObjects
      /\ IsFiniteSet(backups')
      /\ backups' \subseteq backups \cup {FinishedCopy(b)}
    BY <1>1, <1>2, <1>3, <1>4
<1> QED BY <1>5, <1>6, <1>7

\* A PVCBackup that a user made finishes.
LEMMA ManualSteps ==
    ASSUME TypeInv, NEW p \in Claims, ManualBackup(p)
    PROVE  /\ manual' \in [Claims -> {Never} \cup (0..MaxTime)]
           /\ outlived'
           /\ outlived' \in BOOLEAN
           /\ budget' \in 0..MaxFaults
           /\ UNCHANGED <<flags, namespaces, claims, backups, cachedNamespaces, cachedClaims,
                          cachedBackups, queue, timers, now, made, disturbed>>
BY BoundsAssumption DEF ManualBackup, Spend, TypeInv, TypeOK, operator, caches

\* A user changes a namespace.
LEMMA NamespaceSteps ==
    ASSUME TypeInv, NEW n \in Namespaces,
           CreateNamespace(n) \/ \E s \in Schedules : AnnotateNamespace(n, s)
    PROVE  /\ namespaces' \in [Namespaces -> NamespaceObjects]
           /\ budget' \in 0..MaxFaults
           /\ UNCHANGED <<flags, claims, backups, manual, cachedNamespaces, cachedClaims,
                          cachedBackups, queue, timers, now, made, disturbed, outlived>>
<1>1. namespaces \in [Namespaces -> NamespaceObjects] /\ budget \in 0..MaxFaults
    BY DEF TypeInv, TypeOK
<1>2. namespaces[n] \in NamespaceObjects
    BY <1>1
<1>3. [namespaces[n] EXCEPT !.present = TRUE] \in NamespaceObjects
    BY <1>2 DEF NamespaceObjects
<1>4. \A s \in Schedules : [namespaces[n] EXCEPT !.schedule = s] \in NamespaceObjects
    BY <1>2 DEF NamespaceObjects
<1>5. namespaces' \in [Namespaces -> NamespaceObjects]
    BY <1>1, <1>3, <1>4 DEF CreateNamespace, AnnotateNamespace
<1>6. budget' \in 0..MaxFaults
    BY <1>1, BoundsAssumption DEF CreateNamespace, AnnotateNamespace, Spend
<1> QED BY <1>5, <1>6
    DEF CreateNamespace, AnnotateNamespace, operator, caches, history

\* The informers, a timer, the clock and a restart leave the API server alone.
LEMMA OperatorSteps ==
    ASSUME TypeInv,
           \/ \E p \in Claims : TimerFires(p)
           \/ SyncClaims \/ SyncNamespaces \/ SyncBackups \/ Restart \/ Tick
    PROVE  /\ UNCHANGED <<flags, namespaces, claims, backups, manual, made, outlived>>
           /\ cachedNamespaces' \in {namespaces, cachedNamespaces}
           /\ cachedClaims' \in {claims, cachedClaims}
           /\ cachedBackups' \in {backups, cachedBackups}
           /\ timers' \in [Claims -> {Never} \cup Nat]
           /\ \A p \in Claims : timers'[p] \in {timers[p], Never}
           /\ \A p \in queue' : /\ p \in Claims
                                /\ p \notin queue => InScope(NamespaceOf[p]) \/ timers[p] # Never
           /\ now' \in 0..MaxTime
           /\ budget' \in 0..MaxFaults
           /\ disturbed' \in BOOLEAN
           /\ disturbed => disturbed'
           /\ now' = now \/ (now' = now + 1 /\ (~disturbed' => cachedBackups' = backups))
<1>1. /\ timers \in [Claims -> {Never} \cup Nat] /\ now \in 0..MaxTime
      /\ budget \in 0..MaxFaults /\ disturbed \in BOOLEAN /\ queue \subseteq Claims
    BY DEF TypeInv, TypeOK
<1> USE <1>1, BoundsAssumption DEF caches, api, history, operator
<1>2. CASE \E p \in Claims : TimerFires(p)
    BY <1>2 DEF TimerFires
<1>3. CASE SyncClaims
    BY <1>3 DEF SyncClaims, pvcToRequest
<1>4. CASE SyncNamespaces
    BY <1>4 DEF SyncNamespaces, namespaceToRequests, Spend
<1>5. CASE SyncBackups
    BY <1>5 DEF SyncBackups
<1>6. CASE Restart
    BY <1>6 DEF Restart, Spend
<1>7. CASE Tick
    <2>1. now' \in 0..MaxTime /\ now' = now + 1
        BY <1>7 DEF Tick
    <2>2. budget' = budget \/ Spend("slow") \/ Spend("cacheLag")
        BY <1>7 DEF Tick
    <2>3. budget' \in 0..MaxFaults
        BY <2>2 DEF Spend
    <2>4. disturbed' \in BOOLEAN /\ (disturbed => disturbed')
        <3>1. disturbed' = disturbed \/ disturbed' = TRUE
            BY <1>7 DEF Tick
        <3> QED BY ONLY <1>1, <3>1, Zenon
    <2>5. ~disturbed' => cachedBackups = backups
        BY <1>7, Zenon DEF Tick
    <2> QED BY <1>7, <2>1, <2>3, <2>4, <2>5 DEF Tick
<1> QED BY <1>2, <1>3, <1>4, <1>5, <1>6, <1>7

\* The requests that a failing List loses are those of claims.
LEMMA UnlistedSteps ==
    ASSUME unlisted \subseteq Claims, [Next]_vars
    PROVE  unlisted' \subseteq Claims
<1>1. ASSUME NEW p \in Claims, Reconcile(p) \/ TimerFires(p)
      PROVE  unlisted' = unlisted
    BY <1>1 DEF Reconcile, TimerFires, history
<1>2. CASE SyncNamespaces
    BY <1>2 DEF SyncNamespaces
<1>3. CASE SyncClaims \/ SyncBackups \/ Restart \/ Tick
    BY <1>3 DEF SyncClaims, SyncBackups, Restart, Tick, history
<1>4. CASE Users
    BY <1>4 DEF Users, CreateNamespace, AnnotateNamespace, CreateClaim, AnnotateClaim,
                TouchClaim, DeleteClaim, ManualBackup, DeleteBackup, history
<1>5. CASE Controllers
    BY <1>5 DEF Controllers, RestoreEnds, Collect, FinishBackup, ExpireBackup, history
<1>6. CASE UNCHANGED vars
    BY <1>6 DEF vars, history
<1> QED BY <1>1, <1>2, <1>3, <1>4, <1>5, <1>6 DEF Next

\* Every step keeps the types.
LEMMA NextTypes == TypeInv /\ [Next]_vars => TypeInv'
<1> SUFFICES ASSUME TypeInv, [Next]_vars PROVE TypeInv'
    OBVIOUS
<1>0. unlisted' \subseteq Claims
    BY UnlistedSteps DEF TypeInv, TypeOK
<1>1. /\ flags \in FlagSettings
      /\ namespaces \in [Namespaces -> NamespaceObjects]
      /\ cachedNamespaces \in [Namespaces -> NamespaceObjects]
      /\ claims \in [Claims -> ClaimObjects]
      /\ cachedClaims \in [Claims -> ClaimObjects]
      /\ \A b \in backups : b \in BackupObjects
      /\ \A b \in cachedBackups : b \in BackupObjects
      /\ queue \subseteq Claims
      /\ timers \in [Claims -> {Never} \cup Nat]
      /\ now \in 0..MaxTime
      /\ manual \in [Claims -> {Never} \cup (0..MaxTime)]
      /\ disturbed \in BOOLEAN /\ outlived \in BOOLEAN
      /\ budget \in 0..MaxFaults
      /\ IsFiniteSet(backups)
      /\ IsFiniteSet(cachedBackups)
      /\ \A p \in Claims : /\ claims[p].present => claims[p].uid > 0
                           /\ cachedClaims[p].present => cachedClaims[p].uid > 0
    BY DEF TypeInv, TypeOK
<1>2. ASSUME NEW p \in Claims, Reconcile(p)
      PROVE  TypeInv'
    <2>1. /\ queue' \subseteq Claims
          /\ UNCHANGED <<flags, namespaces, claims, manual, cachedNamespaces, cachedClaims,
                         cachedBackups, now, disturbed, outlived>>
          /\ \/ UNCHANGED <<backups, made>>
             \/ \E skew \in ClockSkew : Creates(p, skew)
        BY <1>1, <1>2, ReconcileSteps
    <2>2. timers' \in [Claims -> {Never} \cup Nat] /\ budget' \in 0..MaxFaults
        BY <1>2, ReconcileTimers
    <2>3. (\A b \in backups' : b \in BackupObjects) /\ IsFiniteSet(backups')
        <3>1. CASE backups' = backups
            BY <1>1, <3>1
        <3>2. CASE \E skew \in ClockSkew : Creates(p, skew)
            <4>1. PICK skew \in ClockSkew : Creates(p, skew)
                BY <3>2
            <4>2. NewBackup(p, skew) \in BackupObjects
                BY <4>1, NewBackupType
            <4>3. backups' = backups \cup {NewBackup(p, skew)}
                BY <4>1 DEF Creates
            <4> QED BY <1>1, <4>2, <4>3, FS_AddElement
        <3> QED BY <2>1, <3>1, <3>2
    <2> QED BY <1>0, <1>1, <2>1, <2>2, <2>3 DEF TypeInv, TypeOK
<1>3. ASSUME \/ \E p \in Claims : TimerFires(p)
             \/ SyncClaims \/ SyncNamespaces \/ SyncBackups \/ Restart \/ Tick
      PROVE  TypeInv'
    <2>1. /\ UNCHANGED <<flags, namespaces, claims, backups, manual, outlived>>
          /\ cachedNamespaces' \in {namespaces, cachedNamespaces}
          /\ cachedClaims' \in {claims, cachedClaims}
          /\ cachedBackups' \in {backups, cachedBackups}
          /\ timers' \in [Claims -> {Never} \cup Nat]
          /\ queue' \subseteq Claims
          /\ now' \in 0..MaxTime
          /\ budget' \in 0..MaxFaults
          /\ disturbed' \in BOOLEAN
        BY <1>3, OperatorSteps
    <2>2. IsFiniteSet(cachedBackups') /\ \A b \in cachedBackups' : b \in BackupObjects
        BY <1>1, <2>1
    <2>3. cachedNamespaces' \in [Namespaces -> NamespaceObjects]
        BY <1>1, <2>1
    <2>4. /\ cachedClaims' \in [Claims -> ClaimObjects]
          /\ \A p \in Claims : cachedClaims'[p].present => cachedClaims'[p].uid > 0
        BY <1>1, <2>1
    <2> QED BY <1>0, <1>1, <2>1, <2>2, <2>3, <2>4 DEF TypeInv, TypeOK
<1>4. ASSUME NEW n \in Namespaces,
             CreateNamespace(n) \/ \E s \in Schedules : AnnotateNamespace(n, s)
      PROVE  TypeInv'
    BY <1>0, <1>1, <1>4, NamespaceSteps DEF TypeInv, TypeOK
<1>5. ASSUME NEW p \in Claims,
             \/ \E restoring \in BOOLEAN : CreateClaim(p, restoring)
             \/ \E s \in Schedules : AnnotateClaim(p, s)
             \/ TouchClaim(p) \/ DeleteClaim(p) \/ RestoreEnds(p)
      PROVE  TypeInv'
    <2>1. /\ claims' \in [Claims -> ClaimObjects]
          /\ claims'[p].present => claims'[p].uid > 0
          /\ \A q \in Claims : q # p => claims'[q] = claims[q]
          /\ UNCHANGED <<flags, namespaces, backups, manual, cachedNamespaces, cachedClaims,
                         cachedBackups, queue, timers, now, made, disturbed, outlived>>
          /\ budget' \in 0..MaxFaults
        BY <1>5, ClaimSteps
    <2>2. \A q \in Claims : claims'[q].present => claims'[q].uid > 0
        BY <1>1, <2>1
    <2> QED BY <1>0, <1>1, <2>1, <2>2 DEF TypeInv, TypeOK
<1>6. ASSUME NEW b \in backups,
             Collect(b) \/ FinishBackup(b) \/ ExpireBackup(b) \/ DeleteBackup(b)
      PROVE  TypeInv'
    BY <1>0, <1>1, <1>6, BackupSteps DEF TypeInv, TypeOK
<1>7. ASSUME NEW p \in Claims, ManualBackup(p)
      PROVE  TypeInv'
    BY <1>0, <1>1, <1>7, ManualSteps DEF TypeInv, TypeOK
<1>8. CASE UNCHANGED vars
    BY <1>0, <1>1, <1>8 DEF vars, api, operator, caches, history, TypeInv, TypeOK
<1> QED BY <1>2, <1>3, <1>4, <1>5, <1>6, <1>7, <1>8 DEF Next, Users, Controllers

\* TypeOK holds: the caches hold what the API server held, a timer is a time of
\* the clock, and every PVCBackup carries the UID of a claim that was created.
THEOREM TypeCorrect == Spec => []TypeOK
<1>1. TypeInv => TypeOK
    BY DEF TypeInv
<1> QED BY InitTypes, NextTypes, <1>1, PTL DEF Spec

LEMMA TypesHold == Spec => []TypeInv
BY InitTypes, NextTypes, PTL DEF Spec

-----------------------------------------------------------------------------
(* The namespace flags.                                                      *)

\* Only claims that the flags select are in the queue, have a timer, or have had
\* a PVCBackup made.
ScopeInv ==
    /\ \A p \in queue : InScope(NamespaceOf[p])
    /\ \A p \in Claims : timers[p] # Never => InScope(NamespaceOf[p])
    /\ \A m \in made : InScope(NamespaceOf[m.claim])

\* The filter is what the help text of the flags says.
LEMMA InScopeIsWanted ==
    ASSUME TypeInv, NEW n, InScope(n)
    PROVE  /\ n \notin flags.exclude
           /\ n \in flags.namespaces \/ flags.namespaces \subseteq {AllNamespaces}
<1>1. IsFiniteSet(flags.namespaces) /\ flags.namespaces # {}
    BY FlagsAssumption DEF TypeInv, TypeOK
<1>2. CASE Cardinality(flags.namespaces) > 1
    BY <1>2 DEF InScope, IncludedNamespaces
<1>3. CASE ~(Cardinality(flags.namespaces) > 1)
    <2>1. Cardinality(flags.namespaces) \in Nat
        BY <1>1, FS_CardinalityType
    <2>2. Cardinality(flags.namespaces) # 0
        BY <1>1, FS_EmptySet
    <2>3. Cardinality(flags.namespaces) = 1
        BY <1>3, <2>1, <2>2
    <2>4. PICK x : flags.namespaces = {x}
        BY <1>1, <2>3, FS_Singleton
    <2> QED BY <1>3, <2>4 DEF InScope, IncludedNamespaces
<1> QED BY <1>2, <1>3

LEMMA NextScope == TypeInv /\ ScopeInv /\ [Next]_vars => ScopeInv'
<1> SUFFICES ASSUME TypeInv, ScopeInv, [Next]_vars PROVE ScopeInv'
    OBVIOUS
<1>1. ASSUME flags' = flags,
             \A p \in queue' : InScope(NamespaceOf[p]),
             \A p \in Claims : timers'[p] # Never => InScope(NamespaceOf[p]),
             \A m \in made' : InScope(NamespaceOf[m.claim])
      PROVE  ScopeInv'
    BY <1>1 DEF ScopeInv, InScope, IncludedNamespaces
<1>2. ASSUME NEW p \in Claims, Reconcile(p)
      PROVE  ScopeInv'
    <2>1. /\ p \in queue
          /\ queue' \subseteq queue
          /\ flags' = flags
          /\ \/ made' = made
             \/ \E skew \in ClockSkew : Creates(p, skew)
        BY <1>2, ReconcileSteps
    <2>2. \A q \in Claims : q # p => timers'[q] = timers[q]
        BY <1>2, ReconcileTimers
    <2>3. \A m \in made' : m \in made \/ m.claim = p
        BY <2>1 DEF Creates, NewRecord
    <2> QED BY <1>1, <2>1, <2>2, <2>3 DEF ScopeInv
<1>3. ASSUME \/ \E p \in Claims : TimerFires(p)
             \/ SyncClaims \/ SyncNamespaces \/ SyncBackups \/ Restart \/ Tick
      PROVE  ScopeInv'
    <2>1. /\ flags' = flags
          /\ made' = made
          /\ \A p \in Claims : timers'[p] \in {timers[p], Never}
          /\ \A p \in queue' : /\ p \in Claims
                               /\ p \notin queue => InScope(NamespaceOf[p]) \/ timers[p] # Never
        BY <1>3, OperatorSteps
    <2> QED BY <1>1, <2>1 DEF ScopeInv
<1>4. ASSUME NEW n \in Namespaces,
             CreateNamespace(n) \/ \E s \in Schedules : AnnotateNamespace(n, s)
      PROVE  ScopeInv'
    BY <1>1, <1>4, NamespaceSteps DEF ScopeInv
<1>5. ASSUME NEW p \in Claims,
             \/ \E restoring \in BOOLEAN : CreateClaim(p, restoring)
             \/ \E s \in Schedules : AnnotateClaim(p, s)
             \/ TouchClaim(p) \/ DeleteClaim(p) \/ RestoreEnds(p)
      PROVE  ScopeInv'
    BY <1>1, <1>5, ClaimSteps DEF ScopeInv
<1>6. ASSUME NEW b \in backups,
             Collect(b) \/ FinishBackup(b) \/ ExpireBackup(b) \/ DeleteBackup(b)
      PROVE  ScopeInv'
    BY <1>1, <1>6, BackupSteps DEF ScopeInv
<1>7. ASSUME NEW p \in Claims, ManualBackup(p)
      PROVE  ScopeInv'
    BY <1>1, <1>7, ManualSteps DEF ScopeInv
<1>8. CASE UNCHANGED vars
    BY <1>1, <1>8 DEF vars, operator, history, ScopeInv
<1> QED BY <1>2, <1>3, <1>4, <1>5, <1>6, <1>7, <1>8 DEF Next, Users, Controllers

\* OnlyWanted holds: the watches, the timers and a restart bring only claims of
\* the selected namespaces to Reconcile, which itself does not look at the flags.
THEOREM OnlyWantedHolds == Spec => []OnlyWanted
<1>1. Init => ScopeInv
    BY DEF Init, ScopeInv
<1>2. TypeInv /\ ScopeInv => OnlyWanted
    BY InScopeIsWanted DEF ScopeInv, OnlyWanted
<1> QED BY TypesHold, <1>1, NextScope, <1>2, PTL DEF Spec

-----------------------------------------------------------------------------
(* Incarnations of a claim.                                                  *)

\* The cached claim is not a later incarnation than the one at the API server.
SeenInv == \A p \in Claims : cachedClaims[p].uid <= claims[p].uid

LEMMA NextSeen == TypeInv /\ SeenInv /\ [Next]_vars => SeenInv'
<1> SUFFICES ASSUME TypeInv, SeenInv, [Next]_vars PROVE SeenInv'
    OBVIOUS
<1>1. \A p \in Claims : claims[p].uid \in Nat /\ cachedClaims[p].uid \in Nat
    BY BoundsAssumption DEF TypeInv, TypeOK, ClaimObjects
<1>2. ASSUME NEW p \in Claims, Reconcile(p)
      PROVE  SeenInv'
    BY <1>2, ReconcileSteps DEF SeenInv
<1>3. ASSUME \/ \E p \in Claims : TimerFires(p)
             \/ SyncClaims \/ SyncNamespaces \/ SyncBackups \/ Restart \/ Tick
      PROVE  SeenInv'
    <2>1. claims' = claims /\ cachedClaims' \in {claims, cachedClaims}
        BY <1>3, OperatorSteps
    <2> QED BY <1>1, <2>1 DEF SeenInv
<1>4. ASSUME NEW n \in Namespaces,
             CreateNamespace(n) \/ \E s \in Schedules : AnnotateNamespace(n, s)
      PROVE  SeenInv'
    BY <1>4, NamespaceSteps DEF SeenInv
<1>5. ASSUME NEW p \in Claims,
             \/ \E restoring \in BOOLEAN : CreateClaim(p, restoring)
             \/ \E s \in Schedules : AnnotateClaim(p, s)
             \/ TouchClaim(p) \/ DeleteClaim(p) \/ RestoreEnds(p)
      PROVE  SeenInv'
    <2>1. /\ \A q \in Claims : q # p => claims'[q] = claims[q]
          /\ cachedClaims' = cachedClaims
          /\ claims'[p].uid \in {claims[p].uid, claims[p].uid + 1}
        BY <1>5, ClaimSteps
    <2> QED BY <1>1, <2>1 DEF SeenInv
<1>6. ASSUME NEW b \in backups,
             Collect(b) \/ FinishBackup(b) \/ ExpireBackup(b) \/ DeleteBackup(b)
      PROVE  SeenInv'
    BY <1>6, BackupSteps DEF SeenInv
<1>7. ASSUME NEW p \in Claims, ManualBackup(p)
      PROVE  SeenInv'
    BY <1>7, ManualSteps DEF SeenInv
<1>8. CASE UNCHANGED vars
    BY <1>8 DEF vars, operator, caches, api, SeenInv
<1> QED BY <1>2, <1>3, <1>4, <1>5, <1>6, <1>7, <1>8 DEF Next, Users, Controllers

-----------------------------------------------------------------------------
(* Each time of a schedule is served once.                                   *)

\* What the code's tolerance of 1% asks of the two clocks: the API server's is
\* behind the operator's by less than the tolerance of every schedule in use.
ClocksAgree ==
    /\ TolerancePercent <= 100
    /\ \A s \in ({DefaultSchedule} \cup Schedules) \cap (Nat \ {0}) :
           \A k \in ClockSkew : SkewTolerated(s, k)

\* The PVCBackups of a claim have different names, and the later name has the
\* later owner.
NameInv ==
    /\ \A b \in backups : b.name <= now /\ b.owner <= cachedClaims[b.claim].uid
    /\ \A a, b \in backups : a.claim = b.claim =>
           /\ a.name = b.name => a = b
           /\ a.name < b.name => a.owner <= b.owner

\* The later name has the later creation timestamp, although the clock of the API
\* server may go back in between.
CreatedInv ==
    ~disturbed =>
        \A a, b \in backups :
            a.claim = b.claim /\ a.name < b.name => a.created <= b.created

\* A PVCBackup that was not made in this second is seen, or a newer one.
CachedInv ==
    ~disturbed =>
        \A a \in backups :
            \/ a.name = now
            \/ \E c \in cachedBackups : c.claim = a.claim /\ c.created >= a.created

\* A PVCBackup does not finish before it is made.
FinishedInv ==
    \A b \in backups : b.finished # Never => b.name <= b.finished /\ b.finished <= now

\* PVCBackups of a claim finish in the order of their names, and no others do.
FinishInv ==
    ~disturbed /\ ~outlived =>
        /\ \A p \in Claims : manual[p] = Never
        /\ \A a, b \in backups :
               a.claim = b.claim /\ a.name < b.name /\ b.finished # Never
                   => a.finished # Never /\ a.finished <= b.finished

\* The claim that m was made for still exists.
Current(m) == claims[m.claim].present /\ claims[m.claim].uid = m.owner

\* A PVCBackup of the claim that is as new as m has not been deleted.
Kept(m) == \E b \in backups : /\ b.claim = m.claim
                              /\ b.owner = m.owner
                              /\ b.created >= m.created

\* The PVCBackup of m has not been deleted.
Undeleted(m) == \E b \in backups : /\ b.claim = m.claim
                                   /\ b.owner = m.owner
                                   /\ b.name = m.name
                                   /\ b.created = m.created

RecordTypes ==
    \A m \in made : /\ m.claim \in Claims
                    /\ m.owner \in Nat
                    /\ m.name \in Nat
                    /\ \E k \in ClockSkew : m.created = m.name + k
                    /\ m.created \in Int
                    /\ m.schedule \in Nat \ {0}
                    /\ m.owner <= cachedClaims[m.claim].uid

\* The newest PVCBackup of a claim is not deleted, when it is the last to finish.
MadeInv == ~disturbed /\ ~outlived => \A m \in made : Current(m) => Kept(m)

\* No PVCBackup is deleted before its TTL has passed.
FreshInv ==
    ~disturbed =>
        \A m \in made : Current(m) /\ m.name + DefaultTTL > now => Undeleted(m)

OnceInv ==
    /\ TypeInv
    /\ SeenInv
    /\ NameInv
    /\ CreatedInv
    /\ CachedInv
    /\ FinishedInv
    /\ FinishInv
    /\ RecordTypes
    /\ MadeInv
    /\ FreshInv
    /\ ScheduledOnce

\* The fields of the objects, and the counters they are compared with.
LEMMA OnceTypes ==
    ASSUME OnceInv
    PROVE  /\ now \in Nat
           /\ {disturbed, outlived} \subseteq BOOLEAN
           /\ \A b \in backups : /\ b.claim \in Claims
                                 /\ b.owner \in Nat
                                 /\ b.name \in Nat
                                 /\ b.created \in Int
                                 /\ b.finished \in Int
                                 /\ b.finished # Never => b.finished >= 0
           /\ \A b \in cachedBackups : b.created \in Int
           /\ \A p \in Claims : /\ claims[p].uid \in Nat
                                /\ cachedClaims[p].uid \in Nat
                                /\ cachedClaims[p].uid <= claims[p].uid
BY BoundsAssumption
DEF OnceInv, TypeInv, TypeOK, BackupObjects, ClaimObjects, SeenInv, Never

\* The fields of a new PVCBackup and its record.
LEMMA NewFields ==
    ASSUME NEW p, NEW skew
    PROVE  /\ NewBackup(p, skew).claim = p
           /\ NewBackup(p, skew).owner = cachedClaims[p].uid
           /\ NewBackup(p, skew).name = now
           /\ NewBackup(p, skew).created = now + skew
           /\ NewBackup(p, skew).finished = Never
           /\ NewRecord(p, skew).claim = p
           /\ NewRecord(p, skew).owner = cachedClaims[p].uid
           /\ NewRecord(p, skew).name = now
           /\ NewRecord(p, skew).created = now + skew
           /\ NewRecord(p, skew).schedule = CachedSchedule(p)
BY DEF NewBackup, NewRecord

\* What Reconcile knows when it creates a PVCBackup: none of the existing ones is
\* newer than the newest it sees, which counts for an earlier time.
LEMMA NewestSeen ==
    ASSUME ClocksAgree, OnceInv, ~disturbed,
           NEW p \in Claims, NEW skew \in ClockSkew, Creates(p, skew)
    PROVE  LET newest == Newest(p, cachedClaims[p], cachedBackups)
               s      == CachedSchedule(p)
           IN  /\ s \in Nat \ {0}
               /\ newest \in Int
               /\ \A b \in backups : b.claim = p => b.created <= newest
               /\ newest < now + skew
               /\ ServedTime(s, newest) < ServedTime(s, now + skew)
<1> DEFINE newest == Newest(p, cachedClaims[p], cachedBackups)
           s == CachedSchedule(p)
<1>1. /\ s \in Nat \ {0}
      /\ s \in {DefaultSchedule} \cup Schedules
    BY ScheduleType DEF Creates, CachedSchedule, OnceInv, TypeInv
<1>2. newest \in Int /\ \A c \in cachedBackups : c.claim = p => newest >= c.created
    <2>1. cachedClaims[p].created \in Int
        BY BoundsAssumption DEF OnceInv, TypeInv, TypeOK, ClaimObjects
    <2>2. IsFiniteSet(cachedBackups)
        BY DEF OnceInv, TypeInv
    <2> QED BY <2>1, <2>2, OnceTypes, NewestProperty
<1>3. now \in Int /\ skew \in Int
    BY OnceTypes, ScheduleAssumption
<1>4. NextBackup(s, newest) <= now
    BY DEF Creates
<1>5. SkewTolerated(s, skew) /\ TolerancePercent <= 100
    BY <1>1 DEF ClocksAgree
<1> HIDE DEF newest, s
<1>6. \A b \in backups : b.claim = p => b.created <= newest
    <2> SUFFICES ASSUME NEW b \in backups, b.claim = p PROVE b.created <= newest
        OBVIOUS
    <2>1. b.name # now
        BY DEF Creates, NameTaken
    <2>2. PICK c \in cachedBackups : c.claim = p /\ c.created >= b.created
        BY <2>1 DEF OnceInv, CachedInv
    <2> QED BY <1>2, <2>2, OnceTypes
<1>7. newest < now + skew
    BY <1>1, <1>2, <1>3, <1>4, <1>5, DueIsLater
<1>8. ServedTime(s, newest) < ServedTime(s, now + skew)
    BY <1>1, <1>2, <1>3, <1>4, <1>5, DueServesLater
<1> QED BY <1>1, <1>2, <1>6, <1>7, <1>8 DEF newest, s

\* A PVCBackup made an interval later serves a later time.
LEMMA IntervalLater ==
    ASSUME NEW s \in Nat \ {0}, NEW t \in Int, NEW u \in Int, t + s <= u
    PROVE  ServedTime(s, t) < ServedTime(s, u)
<1>1. PICK q \in Int, a \in Int :
          /\ a = q * s
          /\ a <= t
          /\ t < a + s
          /\ ServedTime(s, t) = IF 100 * (a + s - t) < TolerancePercent * s
                                THEN a + s ELSE a
    BY ServedTimeFacts
<1>2. PICK r \in Int, b \in Int :
          /\ b = r * s
          /\ b <= u
          /\ u < b + s
          /\ ServedTime(s, u) = IF 100 * (b + s - u) < TolerancePercent * s
                                THEN b + s ELSE b
    BY ServedTimeFacts
<1>3. q < r
    <2>1. r < q => b + s <= a
        BY <1>1, <1>2, ProductOrder
    <2> QED BY <1>1, <1>2, <2>1
<1>4. a + s <= b
    BY <1>1, <1>2, <1>3, ProductOrder
<1>5. CASE b = a + s
    BY <1>1, <1>2, <1>5, ScheduleAssumption
<1>6. CASE b # a + s
    <2>1. r # q + 1
        BY <1>1, <1>2, <1>6, ProductOrder
    <2>2. (q + 1) * s + s <= r * s /\ (q + 1) * s = a + s
        BY <1>1, <1>3, <2>1, ProductOrder
    <2> QED BY <1>1, <1>2, <2>2
<1> QED BY <1>5, <1>6

\* A PVCBackup of the claim that is as new as m is left, or m is an interval old.
LEMMA KeptOrOld ==
    ASSUME OnceInv, ~disturbed, NEW skew \in ClockSkew,
           NEW m \in made, Current(m), ~outlived \/ OutlastsInterval(m.schedule)
    PROVE  Kept(m) \/ m.created + m.schedule <= now + skew
<1>1. CASE ~outlived
    BY <1>1 DEF OnceInv, MadeInv
<1>2. CASE OutlastsInterval(m.schedule) /\ m.name + DefaultTTL > now
    <2>1. Undeleted(m) /\ m.created \in Int
        BY <1>2 DEF OnceInv, FreshInv, RecordTypes
    <2> QED BY <2>1 DEF Undeleted, Kept
<1>3. CASE OutlastsInterval(m.schedule) /\ ~(m.name + DefaultTTL > now)
    <2>1. /\ m.name \in Nat /\ m.schedule \in Nat
          /\ \E k \in ClockSkew : m.created = m.name + k
        BY DEF OnceInv, RecordTypes
    <2>2. PICK k \in ClockSkew : m.created = m.name + k
        BY <2>1
    <2>3. m.schedule + k - skew <= DefaultTTL
        BY <1>3 DEF OutlastsInterval
    <2>4. k \in Int /\ skew \in Int /\ DefaultTTL \in Nat /\ now \in Nat
        BY ScheduleAssumption, OnceTypes
    <2> QED BY <1>3, <2>1, <2>2, <2>3, <2>4
<1> QED BY <1>1, <1>2, <1>3

\* A new PVCBackup serves a time that none of the earlier ones serves.
LEMMA NewServesLater ==
    ASSUME ClocksAgree, OnceInv, ~disturbed,
           NEW p \in Claims, NEW skew \in ClockSkew, Creates(p, skew),
           NEW m \in made, Current(m), m.claim = p, m.schedule = CachedSchedule(p),
           ~outlived \/ OutlastsInterval(m.schedule)
    PROVE  ServedTime(m.schedule, m.created) < ServedTime(m.schedule, now + skew)
<1>1. m.created \in Int /\ m.schedule \in Nat \ {0} /\ now + skew \in Int
    BY OnceTypes, ScheduleAssumption DEF OnceInv, RecordTypes
<1>2. CASE Kept(m)
    <2>1. PICK b \in backups : b.claim = p /\ b.created >= m.created
        BY <1>2 DEF Kept
    <2>2. PICK newest \in Int :
              /\ b.created <= newest
              /\ ServedTime(m.schedule, newest) < ServedTime(m.schedule, now + skew)
        BY <2>1, NewestSeen
    <2>3. b.created \in Int
        BY OnceTypes
    <2>4. ServedTime(m.schedule, m.created) <= ServedTime(m.schedule, newest)
        BY <1>1, <2>1, <2>2, <2>3, ServedTimeMonotone
    <2>5. /\ ServedTime(m.schedule, newest) \in Int
          /\ ServedTime(m.schedule, now + skew) \in Int
          /\ ServedTime(m.schedule, m.created) \in Int
        BY <1>1, <2>2, ToleranceFacts
    <2> QED BY <2>2, <2>4, <2>5
<1>3. CASE m.created + m.schedule <= now + skew
    BY <1>1, <1>3, IntervalLater
<1> QED BY <1>2, <1>3, KeptOrOld

\* What is left to show of OnceInv.
RestInv ==
    /\ NameInv
    /\ CreatedInv
    /\ CachedInv
    /\ FinishedInv
    /\ FinishInv
    /\ RecordTypes
    /\ MadeInv
    /\ FreshInv
    /\ ScheduledOnce

\* Steps that change no claim and make nothing keep the rest of the invariant.
LEMMA OnceFrame ==
    ASSUME OnceInv, made' = made, disturbed => disturbed', outlived => outlived',
           claims' = claims
    PROVE  /\ ScheduledOnce'
           /\ \A m \in made : Current(m)' <=> Current(m)
BY DEF OnceInv, ScheduledOnce, Current, OutlastsInterval

\* A step of Reconcile that creates a PVCBackup.
LEMMA OnceCreates ==
    ASSUME ClocksAgree, OnceInv, NEW p \in Claims, NEW skew \in ClockSkew,
           Creates(p, skew),
           UNCHANGED <<claims, manual, cachedClaims, cachedBackups, now, disturbed, outlived>>
    PROVE  RestInv'
<1> DEFINE new == NewBackup(p, skew)
           rec == NewRecord(p, skew)
<1>1. /\ new.claim = p /\ new.owner = cachedClaims[p].uid /\ new.name = now
      /\ new.created = now + skew /\ new.finished = Never
      /\ rec.claim = p /\ rec.owner = cachedClaims[p].uid /\ rec.name = now
      /\ rec.created = now + skew /\ rec.schedule = CachedSchedule(p)
    BY NewFields
<1>2. backups' = backups \cup {new} /\ made' = made \cup {rec}
    BY DEF Creates
<1>3. \A b \in backups : b.claim = p => b.name # now
    BY DEF Creates, NameTaken
<1>4. skew \in Int /\ now + skew \in Int
    BY ScheduleAssumption, OnceTypes
<1>5. CachedSchedule(p) \in Nat \ {0}
    BY ScheduleType DEF Creates, CachedSchedule, OnceInv, TypeInv
<1> HIDE DEF new, rec
<1>6. NameInv'
    <2>1. \A b \in backups : b.claim = p => b.name < now /\ b.owner <= new.owner
        BY <1>1, <1>3, OnceTypes DEF OnceInv, NameInv
    <2>2. \A b \in backups' : b.name <= now /\ b.owner <= cachedClaims[b.claim].uid
        BY <1>1, <1>2, OnceTypes DEF OnceInv, NameInv
    <2>3. \A a, b \in backups' : a.claim = b.claim =>
              /\ a.name = b.name => a = b
              /\ a.name < b.name => a.owner <= b.owner
        BY <1>1, <1>2, <2>1, OnceTypes DEF OnceInv, NameInv
    <2> QED BY <2>2, <2>3 DEF NameInv
<1>7. CreatedInv' /\ CachedInv' /\ FinishedInv' /\ FinishInv'
    <2>1. ~disturbed => \A b \in backups : b.claim = p => b.created <= new.created
        <3> SUFFICES ASSUME ~disturbed, NEW b \in backups, b.claim = p
                     PROVE  b.created <= new.created
            OBVIOUS
        <3>1. PICK newest \in Int : b.created <= newest /\ newest < now + skew
            BY NewestSeen
        <3> QED BY <1>1, <1>4, <3>1, OnceTypes
    <2>2. CreatedInv'
        BY <1>1, <1>2, <2>1, OnceTypes DEF OnceInv, NameInv, CreatedInv
    <2>3. CachedInv'
        BY <1>1, <1>2 DEF OnceInv, CachedInv
    <2>4. FinishInv'
        BY <1>1, <1>2, OnceTypes DEF OnceInv, NameInv, FinishInv
    <2>5. FinishedInv'
        BY <1>1, <1>2 DEF OnceInv, FinishedInv
    <2> QED BY <2>2, <2>3, <2>4, <2>5
<1>8. RecordTypes'
    BY <1>1, <1>2, <1>4, <1>5, OnceTypes DEF OnceInv, RecordTypes
<1>9. \A m \in made : (Kept(m) => Kept(m)') /\ (Undeleted(m) => Undeleted(m)')
    BY <1>2 DEF Kept, Undeleted
<1>10. ASSUME NEW r, r = rec
       PROVE  Kept(r)' /\ Undeleted(r)'
    <2>1. \E b \in backups' : /\ b.claim = r.claim /\ b.owner = r.owner
                              /\ b.created >= r.created
        BY <1>1, <1>2, <1>4, <1>10
    <2>2. \E b \in backups' : /\ b.claim = r.claim /\ b.owner = r.owner
                              /\ b.name = r.name /\ b.created = r.created
        BY <1>1, <1>2, <1>10
    <2> QED BY <2>1, <2>2 DEF Kept, Undeleted
<1>11. MadeInv' /\ FreshInv'
    <2>1. MadeInv'
        <3> SUFFICES ASSUME ~disturbed, ~outlived, NEW m \in made', Current(m)
                     PROVE  Kept(m)'
            BY DEF MadeInv, Current
        <3> QED BY <1>2, <1>9, <1>10 DEF OnceInv, MadeInv
    <2>2. FreshInv'
        <3> SUFFICES ASSUME ~disturbed, NEW m \in made', Current(m),
                            m.name + DefaultTTL > now
                     PROVE  Undeleted(m)'
            BY DEF FreshInv, Current
        <3> QED BY <1>2, <1>9, <1>10 DEF OnceInv, FreshInv
    <2> QED BY <2>1, <2>2
<1>12. ASSUME ~disturbed, NEW m \in made, Current(m), m.claim = p,
              m.schedule = rec.schedule, ~outlived \/ OutlastsInterval(m.schedule)
       PROVE  ServedTime(m.schedule, m.created) # ServedTime(rec.schedule, rec.created)
    <2>1. ServedTime(m.schedule, m.created) < ServedTime(m.schedule, now + skew)
        BY <1>1, <1>12, NewServesLater
    <2>2. m.created \in Int /\ m.schedule \in Nat \ {0}
        BY DEF OnceInv, RecordTypes
    <2>3. /\ ServedTime(m.schedule, m.created) \in Int
          /\ ServedTime(m.schedule, now + skew) \in Int
        BY <1>4, <2>2, ToleranceFacts
    <2>4. ServedTime(rec.schedule, rec.created) = ServedTime(m.schedule, now + skew)
        BY <1>1, <1>12
    <2> QED BY <2>1, <2>3, <2>4
<1>13. ScheduledOnce'
    <2> SUFFICES ASSUME ~disturbed, NEW m1 \in made', NEW m2 \in made',
                        Current(m1), Current(m2),
                        m1 # m2, m1.claim = m2.claim, m1.schedule = m2.schedule,
                        ~outlived \/ OutlastsInterval(m1.schedule)
                 PROVE  ServedTime(m1.schedule, m1.created)
                            # ServedTime(m2.schedule, m2.created)
        BY DEF ScheduledOnce, Current, OutlastsInterval
    <2>1. CASE m1 \in made /\ m2 \in made
        BY <2>1 DEF OnceInv, ScheduledOnce, Current
    <2>2. CASE m1 \in made /\ m2 = rec
        BY <1>1, <1>12, <2>2
    <2>3. CASE m1 = rec /\ m2 \in made
        BY <1>1, <1>12, <2>3
    <2> QED BY <1>2, <2>1, <2>2, <2>3
<1> QED BY <1>6, <1>7, <1>8, <1>11, <1>13 DEF RestInv

\* A step of the informers, the timers, the clock or a restart.
LEMMA OnceOperator ==
    ASSUME OnceInv,
           \/ \E p \in Claims : TimerFires(p)
           \/ SyncClaims \/ SyncNamespaces \/ SyncBackups \/ Restart \/ Tick
    PROVE  RestInv'
<1>1. /\ UNCHANGED <<claims, backups, manual, made, outlived>>
      /\ cachedClaims' \in {claims, cachedClaims}
      /\ cachedBackups' \in {backups, cachedBackups}
      /\ disturbed => disturbed'
      /\ now' = now \/ (now' = now + 1 /\ (~disturbed' => cachedBackups' = backups))
    BY OperatorSteps DEF OnceInv
<1>2. \A p \in Claims : cachedClaims[p].uid <= cachedClaims'[p].uid
                        /\ cachedClaims'[p].uid \in Nat
    BY <1>1, OnceTypes
<1>3. NameInv'
    <2>1. \A b \in backups : b.name <= now'
        BY <1>1, OnceTypes DEF OnceInv, NameInv
    <2>2. \A b \in backups : b.owner <= cachedClaims'[b.claim].uid
        BY <1>2, OnceTypes DEF OnceInv, NameInv
    <2> QED BY <1>1, <2>1, <2>2 DEF OnceInv, NameInv
<1>4. CreatedInv' /\ CachedInv' /\ FinishedInv' /\ FinishInv'
    <2>1. CreatedInv' /\ FinishedInv' /\ FinishInv'
        BY <1>1, OnceTypes DEF OnceInv, CreatedInv, FinishedInv, FinishInv
    <2>2. CASE cachedBackups' = backups
        <3>1. \A a \in backups : a.created >= a.created
            BY OnceTypes
        <3>2. CachedInv'
            BY <1>1, <2>2, <3>1 DEF CachedInv
        <3> QED BY <2>1, <3>2
    <2>3. CASE cachedBackups' # backups
        <3>1. CachedInv'
            BY <1>1, <2>3 DEF OnceInv, CachedInv
        <3> QED BY <2>1, <3>1
    <2> QED BY <2>2, <2>3
<1>5. RecordTypes'
    <2>1. \A m \in made : m.owner <= cachedClaims'[m.claim].uid
        BY <1>2, OnceTypes DEF OnceInv, RecordTypes
    <2> QED BY <1>1, <2>1 DEF OnceInv, RecordTypes
<1>6. ScheduledOnce' /\ \A m \in made : Current(m)' <=> Current(m)
    BY <1>1, OnceFrame
<1>7. MadeInv'
    BY <1>1, <1>6 DEF OnceInv, MadeInv, Kept
<1>8. FreshInv'
    <2>1. \A m \in made : m.name \in Nat
        BY DEF OnceInv, RecordTypes
    <2>2. \A m \in made : m.name + DefaultTTL > now' => m.name + DefaultTTL > now
        BY <1>1, <2>1, OnceTypes, ScheduleAssumption
    <2> QED BY <1>1, <1>6, <2>2 DEF OnceInv, FreshInv, Undeleted
<1> QED BY <1>3, <1>4, <1>5, <1>6, <1>7, <1>8 DEF RestInv

\* A step that changes a claim: the records of a claim that is created again are
\* not those of the new one.
LEMMA OnceClaims ==
    ASSUME OnceInv, NEW p \in Claims,
           \/ \E restoring \in BOOLEAN : CreateClaim(p, restoring)
           \/ \E s \in Schedules : AnnotateClaim(p, s)
           \/ TouchClaim(p) \/ DeleteClaim(p) \/ RestoreEnds(p)
    PROVE  RestInv'
<1>1. /\ \A q \in Claims : q # p => claims'[q] = claims[q]
      /\ UNCHANGED <<backups, manual, cachedClaims, cachedBackups, now, made,
                     disturbed, outlived>>
      /\ \/ claims'[p].uid = claims[p].uid + 1
         \/ /\ claims'[p].uid = claims[p].uid
            /\ claims'[p].present => claims[p].present
    BY ClaimSteps DEF OnceInv
<1>2. NameInv' /\ CreatedInv' /\ CachedInv' /\ FinishedInv' /\ FinishInv' /\ RecordTypes'
    BY <1>1 DEF OnceInv, NameInv, CreatedInv, CachedInv, FinishedInv, FinishInv, RecordTypes
<1>3. ASSUME NEW m \in made, Current(m)'
      PROVE  Current(m)
    <2>1. /\ m.claim \in Claims /\ m.owner \in Nat
          /\ m.owner <= cachedClaims[m.claim].uid
        BY DEF OnceInv, RecordTypes
    <2>2. /\ m.owner <= claims[m.claim].uid
          /\ claims[m.claim].uid \in Nat
        BY <2>1, OnceTypes
    <2>3. claims'[m.claim].present /\ claims'[m.claim].uid = m.owner
        BY <1>3 DEF Current
    <2> QED BY <1>1, <2>1, <2>2, <2>3 DEF Current
<1>4. MadeInv' /\ FreshInv'
    BY <1>1, <1>3 DEF OnceInv, MadeInv, FreshInv, Kept, Undeleted
<1>5. ScheduledOnce'
    <2> SUFFICES ASSUME ~disturbed, NEW m1 \in made, NEW m2 \in made,
                        Current(m1)', Current(m2)',
                        m1 # m2, m1.claim = m2.claim, m1.schedule = m2.schedule,
                        ~outlived \/ OutlastsInterval(m1.schedule)
                 PROVE  ServedTime(m1.schedule, m1.created)
                            # ServedTime(m2.schedule, m2.created)
        BY <1>1 DEF ScheduledOnce, Current, OutlastsInterval
    <2>1. Current(m1) /\ Current(m2)
        BY <1>3
    <2> QED BY <2>1 DEF OnceInv, ScheduledOnce, Current
<1> QED BY <1>2, <1>4, <1>5 DEF RestInv

\* The garbage collector, the PVCBackup controller or a user deletes a PVCBackup, or
\* it finishes: a PVCBackup that others were hidden behind stays.
LEMMA OnceBackups ==
    ASSUME OnceInv, NEW b \in backups,
           Collect(b) \/ FinishBackup(b) \/ ExpireBackup(b) \/ DeleteBackup(b)
    PROVE  RestInv'
<1> DEFINE copy == FinishedCopy(b)
<1>1. /\ UNCHANGED <<claims, manual, cachedClaims, cachedBackups, now, made>>
      /\ disturbed => disturbed'
      /\ outlived => outlived'
      /\ DeleteBackup(b) => disturbed'
      /\ backups' \subseteq backups \cup {copy}
    BY BackupSteps DEF OnceInv
<1>2. /\ copy.claim = b.claim /\ copy.owner = b.owner /\ copy.name = b.name
      /\ copy.created = b.created /\ copy.finished = now
    BY FinishedCopyFields DEF OnceInv
<1>3. \/ Collect(b) /\ backups' = backups \ {b}
      \/ ExpireBackup(b) /\ backups' = backups \ {b}
      \/ DeleteBackup(b) /\ backups' = backups \ {b}
      \/ FinishBackup(b) /\ backups' = (backups \ {b}) \cup {copy}
    BY DEF Collect, FinishBackup, ExpireBackup, DeleteBackup, FinishedCopy
<1> HIDE DEF copy
<1>4. NameInv' /\ FinishedInv'
    <2>1. \A a \in backups' : a.name <= now /\ a.owner <= cachedClaims[a.claim].uid
        BY <1>1, <1>2 DEF OnceInv, NameInv
    <2>2. \A a, c \in backups' : a.claim = c.claim =>
              /\ a.name = c.name => a = c
              /\ a.name < c.name => a.owner <= c.owner
        BY <1>2, <1>3 DEF OnceInv, NameInv
    <2>3. \A a \in backups' : a.finished # Never => a.name <= a.finished /\ a.finished <= now
        BY <1>1, <1>2, OnceTypes DEF OnceInv, NameInv, FinishedInv
    <2> QED BY <1>1, <2>1, <2>2, <2>3 DEF NameInv, FinishedInv
<1>5. FinishInv'
    <2> SUFFICES ASSUME ~disturbed', ~outlived', NEW a \in backups', NEW c \in backups',
                        a.claim = c.claim, a.name < c.name, c.finished # Never
                 PROVE  a.finished # Never /\ a.finished <= c.finished
        BY <1>1 DEF OnceInv, FinishInv
    <2>1. ~disturbed /\ ~outlived
        BY <1>1
    <2>2. \A x, y \in backups :
              x.claim = y.claim /\ x.name < y.name /\ y.finished # Never
                  => x.finished # Never /\ x.finished <= y.finished
        BY <2>1 DEF OnceInv, FinishInv
    <2>3. CASE a \in backups /\ c \in backups
        BY <2>2, <2>3
    <2>4. CASE FinishBackup(b) /\ a \in backups /\ c = copy
        <3>1. \A x \in Siblings(b) : x.name < b.name => x.finished # Never
            BY <2>4 DEF FinishBackup
        <3>2. a \in Siblings(b)
            BY <1>2, <2>4 DEF Siblings
        <3>3. a.finished # Never
            BY <1>2, <2>4, <3>1, <3>2
        <3> QED BY <1>2, <2>4, <3>3 DEF OnceInv, FinishedInv
    <2>5. CASE FinishBackup(b) /\ a = copy /\ c \in backups
        <3>1. b.finished # Never
            BY <1>2, <2>2, <2>5
        <3>2. b.finished = Never
            BY <2>5 DEF FinishBackup
        <3> QED BY <3>1, <3>2
    <2>6. ~(a = copy /\ c = copy)
        BY <1>2, OnceTypes
    <2> QED BY <1>3, <2>3, <2>4, <2>5, <2>6
<1>6. RecordTypes' /\ CreatedInv' /\ CachedInv'
    <2>1. RecordTypes'
        BY <1>1 DEF OnceInv, RecordTypes
    <2>2. CreatedInv'
        BY <1>1, <1>2, <1>3, OnceTypes DEF OnceInv, CreatedInv
    <2>3. CachedInv'
        BY <1>1, <1>2 DEF OnceInv, CachedInv
    <2> QED BY <2>1, <2>2, <2>3
<1>7. ScheduledOnce' /\ \A m \in made : Current(m)' <=> Current(m)
    BY <1>1, OnceFrame
<1>8. ASSUME ~disturbed', ~outlived', NEW m \in made, Current(m)
      PROVE  Kept(m)'
    <2>1. ~disturbed /\ ~outlived /\ ~DeleteBackup(b)
        BY <1>1, <1>8
    <2>2. PICK w \in backups : /\ w.claim = m.claim /\ w.owner = m.owner
                               /\ w.created >= m.created
        BY <1>8, <2>1 DEF OnceInv, MadeInv, Kept
    <2>3. m.created \in Int /\ w.created \in Int
        BY OnceTypes DEF OnceInv, RecordTypes
    <2>4. CASE w # b
        BY <1>3, <2>2, <2>4 DEF Kept
    <2>5. CASE w = b /\ Collect(b)
        BY <1>8, <2>2, <2>5 DEF Collect, Current
    <2>6. CASE w = b /\ FinishBackup(b) /\ backups' = (backups \ {b}) \cup {copy}
        BY <1>2, <2>2, <2>6 DEF Kept
    <2>7. CASE w = b /\ ExpireBackup(b) /\ backups' = backups \ {b}
        <3>1. PICK a \in Siblings(b) : a.finished > b.finished /\ b.finished # Never
            <4>1. b.finished # Never /\ HasLaterSibling(b)
                BY <2>7 DEF ExpireBackup
            <4>2. manual[b.claim] = Never
                BY <2>1, OnceTypes DEF OnceInv, FinishInv
            <4>3. ~(manual[b.claim] > b.finished)
                BY <4>1, <4>2, OnceTypes DEF Never
            <4> QED BY <4>1, <4>3 DEF HasLaterSibling
        <3>2. a \in backups /\ a.claim = b.claim
            BY <3>1 DEF Siblings
        <3>3. a # b
            BY <3>1, <3>2, OnceTypes
        <3>4. ~(a.name < b.name)
            BY <2>1, <3>1, <3>2, OnceTypes DEF OnceInv, FinishInv
        <3>5. a.name # b.name
            BY <3>2, <3>3 DEF OnceInv, NameInv
        <3>6. b.name < a.name
            BY <3>2, <3>4, <3>5, OnceTypes
        <3>7. b.owner <= a.owner /\ b.created <= a.created
            BY <2>1, <3>2, <3>6 DEF OnceInv, NameInv, CreatedInv
        <3>8. a.owner <= claims[b.claim].uid
            BY <3>2, OnceTypes DEF OnceInv, NameInv
        <3>9. a.owner = m.owner
            BY <1>8, <2>2, <2>7, <3>2, <3>7, <3>8, OnceTypes DEF Current
        <3>10. a \in backups' /\ a.created >= m.created
            BY <2>2, <2>3, <2>7, <3>2, <3>3, <3>7, OnceTypes
        <3> QED BY <2>2, <2>7, <3>2, <3>9, <3>10 DEF Kept
    <2> QED BY <1>3, <2>1, <2>4, <2>5, <2>6, <2>7
<1>9. ASSUME ~disturbed', NEW m \in made, Current(m), m.name + DefaultTTL > now
      PROVE  Undeleted(m)'
    <2>1. ~disturbed /\ ~DeleteBackup(b)
        BY <1>1, <1>9
    <2>2. PICK w \in backups : /\ w.claim = m.claim /\ w.owner = m.owner
                               /\ w.name = m.name /\ w.created = m.created
        BY <1>9, <2>1 DEF OnceInv, FreshInv, Undeleted
    <2>3. CASE w # b
        BY <1>3, <2>2, <2>3 DEF Undeleted
    <2>4. CASE w = b /\ Collect(b)
        BY <1>9, <2>2, <2>4 DEF Collect, Current
    <2>5. CASE w = b /\ FinishBackup(b) /\ backups' = (backups \ {b}) \cup {copy}
        BY <1>2, <2>2, <2>5 DEF Undeleted
    <2>6. ~(w = b /\ ExpireBackup(b))
        <3> SUFFICES ASSUME w = b, ExpireBackup(b) PROVE FALSE
            OBVIOUS
        <3>1. b.finished # Never /\ b.finished + DefaultTTL <= now
            BY DEF ExpireBackup
        <3>2. m.name <= b.finished
            BY <2>2, <3>1 DEF OnceInv, FinishedInv
        <3> QED BY <1>9, <2>2, <3>1, <3>2, OnceTypes, ScheduleAssumption
    <2> QED BY <1>3, <2>1, <2>3, <2>4, <2>5, <2>6
<1>10. MadeInv' /\ FreshInv'
    BY <1>1, <1>7, <1>8, <1>9 DEF MadeInv, FreshInv
<1> QED BY <1>4, <1>5, <1>6, <1>7, <1>10 DEF RestInv

\* A PVCBackup of a user finishes: what is left is the PVCBackups younger than their
\* TTL.
LEMMA OnceManual ==
    ASSUME OnceInv, NEW p \in Claims, ManualBackup(p)
    PROVE  RestInv'
<1>1. /\ UNCHANGED <<claims, backups, cachedClaims, cachedBackups, now, made, disturbed>>
      /\ outlived'
    BY ManualSteps DEF OnceInv
<1>2. ScheduledOnce' /\ \A m \in made : Current(m)' <=> Current(m)
    BY <1>1, OnceFrame
<1>3. NameInv' /\ CreatedInv' /\ CachedInv' /\ FinishedInv' /\ RecordTypes'
    BY <1>1 DEF OnceInv, NameInv, CreatedInv, CachedInv, FinishedInv, RecordTypes
<1>4. FinishInv' /\ MadeInv'
    BY <1>1 DEF FinishInv, MadeInv
<1>5. FreshInv'
    BY <1>1, <1>2 DEF OnceInv, FreshInv, Undeleted
<1> QED BY <1>2, <1>3, <1>4, <1>5 DEF RestInv

LEMMA InitOnce == Init => OnceInv
<1> SUFFICES ASSUME Init PROVE OnceInv
    OBVIOUS
<1>1. TypeInv
    BY InitTypes
<1>2. SeenInv
    <2>1. \A p \in Claims : cachedClaims[p] = claims[p] /\ claims[p].uid = 0
        BY DEF Init, NoClaim
    <2> QED BY <2>1 DEF SeenInv
<1>3. RestInv
    BY DEF Init, RestInv, NameInv, CreatedInv, CachedInv, FinishedInv, FinishInv,
           RecordTypes, MadeInv, FreshInv, ScheduledOnce
<1> QED BY <1>1, <1>2, <1>3 DEF OnceInv, RestInv

LEMMA NextOnce ==
    ASSUME ClocksAgree, OnceInv, [Next]_vars
    PROVE  OnceInv'
<1>1. TypeInv' /\ SeenInv'
    BY NextTypes, NextSeen DEF OnceInv
<1>2. ASSUME claims' = claims, backups' = backups, cachedClaims' = cachedClaims,
             cachedBackups' = cachedBackups, now' = now, made' = made,
             disturbed' = disturbed, outlived' = outlived, manual' = manual
      PROVE  RestInv'
    <2>1. NameInv' /\ CreatedInv' /\ CachedInv' /\ FinishedInv' /\ FinishInv' /\ RecordTypes'
        BY <1>2 DEF OnceInv, NameInv, CreatedInv, CachedInv, FinishedInv, FinishInv,
                    RecordTypes
    <2>2. MadeInv' /\ FreshInv'
        BY <1>2 DEF OnceInv, MadeInv, FreshInv, Current, Kept, Undeleted
    <2>3. ScheduledOnce'
        BY <1>2, OnceFrame
    <2> QED BY <2>1, <2>2, <2>3 DEF RestInv
<1>3. ASSUME NEW p \in Claims, Reconcile(p)
      PROVE  RestInv'
    <2>1. /\ UNCHANGED <<claims, manual, cachedClaims, cachedBackups, now,
                         disturbed, outlived>>
          /\ \/ UNCHANGED <<backups, made>>
             \/ \E skew \in ClockSkew : Creates(p, skew)
        BY <1>3, ReconcileSteps
    <2> QED BY <1>2, <2>1, OnceCreates
<1>4. ASSUME \/ \E p \in Claims : TimerFires(p)
             \/ SyncClaims \/ SyncNamespaces \/ SyncBackups \/ Restart \/ Tick
      PROVE  RestInv'
    BY <1>4, OnceOperator
<1>5. ASSUME NEW n \in Namespaces,
             CreateNamespace(n) \/ \E s \in Schedules : AnnotateNamespace(n, s)
      PROVE  RestInv'
    BY <1>2, <1>5, NamespaceSteps DEF OnceInv
<1>6. ASSUME NEW p \in Claims,
             \/ \E restoring \in BOOLEAN : CreateClaim(p, restoring)
             \/ \E s \in Schedules : AnnotateClaim(p, s)
             \/ TouchClaim(p) \/ DeleteClaim(p) \/ RestoreEnds(p)
      PROVE  RestInv'
    BY <1>6, OnceClaims
<1>7. ASSUME NEW b \in backups,
             Collect(b) \/ FinishBackup(b) \/ ExpireBackup(b) \/ DeleteBackup(b)
      PROVE  RestInv'
    BY <1>7, OnceBackups
<1>8. ASSUME NEW p \in Claims, ManualBackup(p)
      PROVE  RestInv'
    BY <1>8, OnceManual
<1>9. ASSUME UNCHANGED vars
      PROVE  RestInv'
    BY <1>2, <1>9 DEF vars, api, operator, caches, history
<1>10. RestInv'
    BY <1>3, <1>4, <1>5, <1>6, <1>7, <1>8, <1>9 DEF Next, Users, Controllers
<1> QED BY <1>1, <1>10 DEF OnceInv, RestInv

\* ScheduledOnce holds when the clocks agree, for any intervals, restarts, lost
\* replies and slow reconciles, and with PVCBackups of users and ones that overtake
\* others when the TTL is longer than the interval.  The newest PVCBackup of a claim
\* is in the cache, or has the name that the next would get, when Reconcile computes
\* the time after it; it is the last to finish, and then never deleted, or is not
\* deleted before the next time has come.
THEOREM ScheduledOnceHolds ==
    ASSUME ClocksAgree
    PROVE  Spec => []ScheduledOnce
<1>1. OnceInv /\ [Next]_vars => OnceInv'
    BY NextOnce
<1>2. OnceInv => ScheduledOnce
    BY DEF OnceInv
<1> QED BY InitOnce, <1>1, <1>2, PTL DEF Spec
=============================================================================
