-------------------------- MODULE QuerySlotsProofs --------------------------
(***************************************************************************)
(* Proofs about QuerySlots for any finite set of requests, any limit, any  *)
(* timeouts and any mix of faults.  The slot limit is a matter of the      *)
(* mixes without two faults: a query that outruns the TTL of the counter   *)
(* key ("overrun") and a script whose reply is lost ("lost_reply").        *)
(***************************************************************************)
EXTENDS QuerySlots, FiniteSetTheorems, TLAPS

USE LimitsPositive, TtlOrder, FaultsKnown DEF OwnerPoints, NoKey, queueKey

-----------------------------------------------------------------------------
(* How one request's move changes the set of slot owners                   *)

\* The owners of either kind are finitely many requests.
LEMMA OwnersFinite == IsFiniteSet(SlotOwners) /\ IsFiniteSet(LocalOwners)
    BY RequestsFinite, FS_Subset DEF SlotOwners, LocalOwners

\* A request that reaches an owner point adds one owner.
LEMMA GainOwner ==
    ASSUME TypeOK, NEW r \in Requests, NEW to \in OwnerPoints,
           pc[r] \notin OwnerPoints, pc' = [pc EXCEPT ![r] = to]
    PROVE  /\ SlotOwners' = SlotOwners \union {r}
           /\ Cardinality(SlotOwners') = Cardinality(SlotOwners) + 1
    <1>1. r \notin SlotOwners
        BY DEF SlotOwners
    <1>2. SlotOwners' = SlotOwners \union {r}
        BY DEF SlotOwners, TypeOK
    <1> QED
        BY <1>1, <1>2, OwnersFinite, FS_AddElement

\* A request that leaves the owner points takes one owner away.
LEMMA LoseOwner ==
    ASSUME TypeOK, NEW r \in Requests, NEW to \in Points \ OwnerPoints,
           pc[r] \in OwnerPoints, pc' = [pc EXCEPT ![r] = to]
    PROVE  /\ SlotOwners' = SlotOwners \ {r}
           /\ Cardinality(SlotOwners') = Cardinality(SlotOwners) - 1
    <1>1. r \in SlotOwners
        BY DEF SlotOwners
    <1>2. SlotOwners' = SlotOwners \ {r}
        BY DEF SlotOwners, TypeOK
    <1> QED
        BY <1>1, <1>2, OwnersFinite, FS_RemoveElement

\* A move between two owner points, or two other points, changes no owner.
LEMMA SameOwners ==
    ASSUME TypeOK, NEW r \in Requests, NEW to \in Points,
           pc[r] \in OwnerPoints <=> to \in OwnerPoints,
           pc' = [pc EXCEPT ![r] = to]
    PROVE  SlotOwners' = SlotOwners
    BY DEF SlotOwners, TypeOK

\* Any set of owners that ends shrinks the set.
LEMMA FewerOwners ==
    ASSUME SlotOwners' \subseteq SlotOwners
    PROVE  Cardinality(SlotOwners') <= Cardinality(SlotOwners)
    BY OwnersFinite, FS_Subset

\* A local owner appears only while one more fits.
LEMMA LocalLimitStep ==
    ASSUME TypeOK, Cardinality(LocalOwners) <= MaxConcurrent,
           NEW r \in Requests, NEW to \in Points,
           pc' = [pc EXCEPT ![r] = to],
           to = "localRun" => Cardinality(LocalOwners) < MaxConcurrent
    PROVE  Cardinality(LocalOwners') <= MaxConcurrent
    <1>1. Cardinality(LocalOwners) \in Nat
        BY OwnersFinite, FS_CardinalityType
    <1>2. CASE to = "localRun"
        <2>1. LocalOwners' = LocalOwners \union {r}
            BY <1>2 DEF LocalOwners, TypeOK
        <2>2. \/ Cardinality(LocalOwners \union {r}) = Cardinality(LocalOwners)
              \/ Cardinality(LocalOwners \union {r}) = Cardinality(LocalOwners) + 1
            BY OwnersFinite, FS_AddElement
        <2>3. Cardinality(LocalOwners') = Cardinality(LocalOwners \union {r})
            BY <2>1
        <2>4. Cardinality(LocalOwners) < MaxConcurrent
            BY <1>2
        <2> QED
            BY <1>1, <2>2, <2>3, <2>4
    <1>3. CASE to # "localRun"
        <2>1. LocalOwners' \subseteq LocalOwners
            BY <1>3 DEF LocalOwners, TypeOK
        <2>2. Cardinality(LocalOwners') <= Cardinality(LocalOwners)
            BY <2>1, OwnersFinite, FS_Subset
        <2>3. Cardinality(LocalOwners') \in Nat
            BY <2>1, OwnersFinite, FS_Subset, FS_CardinalityType
        <2> QED
            BY <1>1, <2>2, <2>3
    <1> QED
        BY <1>2, <1>3
-----------------------------------------------------------------------------
(* Type correctness                                                        *)

\* Every action keeps the program points, timers and counters in range.
LEMMA TypeStep == TypeOK /\ [Next]_vars => TypeOK'
    <1> SUFFICES ASSUME TypeOK, [Next]_vars PROVE TypeOK'
        OBVIOUS
    <1>0. faults' = faults
        BY DEF Next, vars
    <1> USE <1>0 DEF TypeOK, Points, Branches, Decrementing, Flooring
    <1>1. ASSUME NEW r \in Requests, Start(r) PROVE TypeOK'
        BY <1>1 DEF Start, Goto
    <1>2. ASSUME NEW r \in Requests, TryAcquire(r) PROVE TypeOK'
        BY <1>2 DEF TryAcquire, Goto, AcquireScript
    <1>3. ASSUME NEW r \in Requests, TryRefused(r) PROVE TypeOK'
        BY <1>3 DEF TryRefused, Goto
    <1>4. ASSUME NEW r \in Requests, JoinQueue(r) PROVE TypeOK'
        BY <1>4 DEF JoinQueue, Goto, AddToQueue
    <1>5. ASSUME NEW r \in Requests, FailBeforeQueue(r) PROVE TypeOK'
        BY <1>5 DEF FailBeforeQueue
    <1>6. ASSUME NEW r \in Requests, LocalAcquire(r) PROVE TypeOK'
        BY <1>6 DEF LocalAcquire, Goto
    <1>7. ASSUME NEW r \in Requests, LocalTimeout(r) PROVE TypeOK'
        BY <1>7 DEF LocalTimeout, Goto
    <1>8. ASSUME NEW r \in Requests, PollAcquire(r) PROVE TypeOK'
        BY <1>8 DEF PollAcquire, Goto, AcquireScript
    <1>9. ASSUME NEW r \in Requests, PollTimeout(r) PROVE TypeOK'
        BY <1>9 DEF PollTimeout, Goto
    <1>10. ASSUME NEW r \in Requests, PollError(r) PROVE TypeOK'
        BY <1>10 DEF PollError, Goto
    <1>11. ASSUME NEW r \in Requests, DecrQueue(r) PROVE TypeOK'
        BY <1>11 DEF DecrQueue, AfterDecr, FloorOf, AddToQueue
    <1>12. ASSUME NEW r \in Requests, FloorQueue(r) PROVE TypeOK'
        BY <1>12 DEF FloorQueue, AfterDecr
    <1>13. ASSUME NEW r \in Requests, QueryEnds(r) PROVE TypeOK'
        BY <1>13 DEF QueryEnds, Goto
    <1>14. ASSUME NEW r \in Requests, QueryRaises(r) PROVE TypeOK'
        BY <1>14 DEF QueryRaises, Goto
    <1>15. ASSUME NEW r \in Requests, Release(r) PROVE TypeOK'
        BY <1>15 DEF Release, Goto, ReleaseScript
    <1>16. ASSUME NEW r \in Requests, ReleaseFails(r) PROVE TypeOK'
        BY <1>16 DEF ReleaseFails, Goto
    <1>17. ASSUME NEW r \in Requests, Record(r) PROVE TypeOK'
        BY <1>17 DEF Record, Goto, RefreshTtl
    <1>18. ASSUME NEW r \in Requests, RecordTimeout(r) PROVE TypeOK'
        BY <1>18 DEF RecordTimeout, Goto, RefreshTtl
    <1>19. ASSUME NEW r \in Requests, LocalEnds(r) PROVE TypeOK'
        BY <1>19 DEF LocalEnds, Goto
    <1>20. ASSUME NEW r \in Requests, CancelQuery(r) PROVE TypeOK'
        BY <1>20 DEF CancelQuery, Goto
    <1>21. ASSUME NEW r \in Requests, CancelBeforeCommand(r) PROVE TypeOK'
        BY <1>21 DEF CancelBeforeCommand
    <1>22. ASSUME NEW r \in Requests, CancelAfterAcquire(r) PROVE TypeOK'
        BY <1>22 DEF CancelAfterAcquire, AcquireScript
    <1>23. ASSUME NEW r \in Requests, CancelAfterDecr(r) PROVE TypeOK'
        BY <1>23 DEF CancelAfterDecr, AddToQueue
    <1>24. ASSUME NEW r \in Requests, AcquireReplyLost(r) PROVE TypeOK'
        BY <1>24 DEF AcquireReplyLost, AcquireScript
    <1>25. ASSUME NEW r \in Requests, ReleaseReplyLost(r) PROVE TypeOK'
        BY <1>25 DEF ReleaseReplyLost, ReleaseScript
    <1>26. CASE Crash
        BY <1>26 DEF Crash
    <1>27. CASE RedisDown
        BY <1>27 DEF RedisDown
    <1>28. CASE RedisBack
        BY <1>28 DEF RedisBack
    <1>29. CASE Tick
        BY <1>29 DEF Tick
    <1>30. CASE UNCHANGED vars
        BY <1>30 DEF vars
    <1> QED
        BY <1>1, <1>2, <1>3, <1>4, <1>5, <1>6, <1>7, <1>8, <1>9, <1>10, <1>11,
           <1>12, <1>13, <1>14, <1>15, <1>16, <1>17, <1>18, <1>19, <1>20,
           <1>21, <1>22, <1>23, <1>24, <1>25, <1>26, <1>27, <1>28, <1>29,
           <1>30 DEF Next, Acquiring, Queueing, Finishing, Disturbing,
           Environment

\* The initial state is typed.
LEMMA InitTyped == Init => TypeOK
    <1> SUFFICES ASSUME Init PROVE TypeOK
        OBVIOUS
    <1>1. /\ pc \in [Requests -> Points]
          /\ timer \in [Requests -> Nat]
          /\ branch \in [Requests -> Branches]
        BY DEF Init, Points, Branches
    <1>2. /\ redisUp \in BOOLEAN /\ lapsed \in BOOLEAN
          /\ faults \in SUBSET AllFaults
        BY ONLY FaultsKnown, Init DEF Init
    <1>3. /\ sem \in 0 .. MaxConcurrent /\ semTtl \in 0 .. LongTtl
          /\ queue \in Int /\ queueTtl \in {NoKey} \union (0 .. LongTtl)
        BY DEF Init
    <1> QED
        BY <1>1, <1>2, <1>3 DEF TypeOK

\* Type correctness holds under every combination of faults.
THEOREM TypeCorrect == Spec => []TypeOK
    <1>1. Init => TypeOK
        BY InitTyped
    <1> QED
        BY <1>1, TypeStep, PTL DEF Spec
-----------------------------------------------------------------------------
(* The slot limit                                                          *)

\* Redis counts each owner, so the owners are no more than the counter, which
\* the acquire script keeps within the limit.  The counter must not vanish
\* under an owner: the key's TTL exceeds the time each owner may still need.
\* An owner's time starts below ShortTtl, so that rearming the TTL for another
\* request never shortens it too far.
Covered ==
    /\ Cardinality(SlotOwners) <= sem
    /\ sem > 0 => semTtl > 0
    /\ \A r \in SlotOwners : timer[r] < semTtl /\ timer[r] < ShortTtl

\* Without an outage Redis always answers and no request falls back.
RedisMode ==
    /\ redisUp
    /\ \A r \in Requests : pc[r] \notin {"localWait", "localRun"}

\* The inductive invariant: types, the Redis slots, the TTL, the local slots.
IInv ==
    /\ TypeOK
    /\ "outage" \notin faults => RedisMode
    /\ Tolerated => Covered
    /\ sem > 0 => semTtl > 0
    /\ Cardinality(LocalOwners) <= MaxConcurrent

\* Steps that touch neither the counter nor its key nor a timer, and make no
\* new owner.
LEMMA QuietStep ==
    ASSUME TypeOK, TypeOK', Covered, SlotOwners' \subseteq SlotOwners,
           UNCHANGED <<timer, sem>>,
           semTtl' = semTtl \/ semTtl' = LongTtl
    PROVE  Covered'
    <1>1. Cardinality(SlotOwners') <= Cardinality(SlotOwners)
        BY FewerOwners
    <1>2. Cardinality(SlotOwners) \in Nat /\ Cardinality(SlotOwners') \in Nat
        BY OwnersFinite, FS_CardinalityType, FS_Subset
    <1>3. Cardinality(SlotOwners') <= sem'
        BY <1>1, <1>2 DEF Covered, TypeOK
    <1>4. ASSUME NEW r \in SlotOwners'
          PROVE  timer'[r] < semTtl' /\ timer'[r] < ShortTtl
        BY <1>4 DEF Covered, TypeOK, SlotOwners
    <1> QED
        BY <1>3, <1>4 DEF Covered, TypeOK

\* A granted slot: one owner more, one count more, and a TTL that is longer
\* than any owner needs.
LEMMA GrantStep ==
    ASSUME TypeOK, TypeOK', Covered, NEW r \in Requests,
           NEW to \in OwnerPoints, pc[r] \notin OwnerPoints,
           pc' = [pc EXCEPT ![r] = to], AcquireScript,
           timer' = [timer EXCEPT ![r] = ShortTtl - 1]
    PROVE  Covered'
    <1>1. /\ SlotOwners' = SlotOwners \union {r}
          /\ Cardinality(SlotOwners') = Cardinality(SlotOwners) + 1
        BY GainOwner
    <1>2. Cardinality(SlotOwners) \in Nat
        BY OwnersFinite, FS_CardinalityType
    <1>3. Cardinality(SlotOwners') <= sem'
        BY <1>1, <1>2 DEF Covered, TypeOK, AcquireScript
    <1>4. ASSUME NEW q \in SlotOwners'
          PROVE  timer'[q] < semTtl' /\ timer'[q] < ShortTtl
        BY <1>1, <1>4 DEF Covered, TypeOK, AcquireScript, SlotOwners
    <1>5. semTtl' > 0
        BY DEF AcquireScript
    <1> QED
        BY <1>3, <1>4, <1>5 DEF Covered

\* Each action of one request preserves Covered.
LEMMA CoveredStep ==
    ASSUME Tolerated, TypeOK, TypeOK', Covered, [Next]_vars
    PROVE  Covered'
    <1>1. ASSUME NEW r \in Requests, Start(r) PROVE Covered'
        <2>1. SlotOwners' = SlotOwners
            BY <1>1, SameOwners DEF Start, Goto, Points
        <2>2. r \notin SlotOwners
            BY <1>1 DEF Start, Goto, SlotOwners
        <2> QED
            BY <1>1, <2>1, <2>2 DEF Start, Covered, SlotOwners, TypeOK
    <1>2. ASSUME NEW r \in Requests, TryAcquire(r) PROVE Covered'
        BY <1>2, GrantStep DEF TryAcquire, Goto, TypeOK
    <1>3. ASSUME NEW r \in Requests, TryRefused(r) PROVE Covered'
        <2>1. SlotOwners' \subseteq SlotOwners
            BY <1>3 DEF TryRefused, TypeOK, SlotOwners, Goto
        <2> QED
            BY <1>3, <2>1, QuietStep DEF TryRefused
    <1>4. ASSUME NEW r \in Requests, JoinQueue(r) PROVE Covered'
        <2>1. SlotOwners' \subseteq SlotOwners
            BY <1>4 DEF JoinQueue, TypeOK, SlotOwners, Goto
        <2> QED
            BY <1>4, <2>1, QuietStep DEF JoinQueue
    <1>5. ASSUME NEW r \in Requests, FailBeforeQueue(r) PROVE Covered'
        <2>1. SlotOwners' \subseteq SlotOwners
            BY <1>5 DEF FailBeforeQueue, TypeOK, SlotOwners
        <2> QED
            BY <1>5, <2>1, QuietStep DEF FailBeforeQueue
    <1>6. ASSUME NEW r \in Requests, LocalAcquire(r) PROVE Covered'
        <2>1. SlotOwners' \subseteq SlotOwners
            BY <1>6 DEF LocalAcquire, TypeOK, SlotOwners, Goto
        <2> QED
            BY <1>6, <2>1, QuietStep DEF LocalAcquire
    <1>7. ASSUME NEW r \in Requests, LocalTimeout(r) PROVE Covered'
        <2>1. SlotOwners' \subseteq SlotOwners
            BY <1>7 DEF LocalTimeout, TypeOK, SlotOwners, Goto
        <2> QED
            BY <1>7, <2>1, QuietStep DEF LocalTimeout
    <1>8. ASSUME NEW r \in Requests, PollAcquire(r) PROVE Covered'
        BY <1>8, GrantStep DEF PollAcquire, Goto, TypeOK
    <1>9. ASSUME NEW r \in Requests, PollTimeout(r) PROVE Covered'
        <2>1. SlotOwners' \subseteq SlotOwners
            BY <1>9 DEF PollTimeout, TypeOK, SlotOwners, Goto
        <2> QED
            BY <1>9, <2>1, QuietStep DEF PollTimeout
    <1>10. ASSUME NEW r \in Requests, PollError(r) PROVE Covered'
        <2>1. SlotOwners' \subseteq SlotOwners
            BY <1>10 DEF PollError, TypeOK, SlotOwners, Goto
        <2> QED
            BY <1>10, <2>1, QuietStep DEF PollError
    <1>11. ASSUME NEW r \in Requests, DecrQueue(r) PROVE Covered'
        <2>1. SlotOwners' \subseteq SlotOwners
            BY <1>11 DEF DecrQueue, TypeOK, SlotOwners, Decrementing, AfterDecr, FloorOf
        <2> QED
            BY <1>11, <2>1, QuietStep DEF DecrQueue
    <1>12. ASSUME NEW r \in Requests, FloorQueue(r) PROVE Covered'
        <2>1. SlotOwners' \subseteq SlotOwners
            BY <1>12 DEF FloorQueue, TypeOK, SlotOwners, Flooring, AfterDecr
        <2> QED
            BY <1>12, <2>1, QuietStep DEF FloorQueue
    <1>13. ASSUME NEW r \in Requests, QueryEnds(r) PROVE Covered'
        <2>1. SlotOwners' \subseteq SlotOwners
            BY <1>13 DEF QueryEnds, TypeOK, SlotOwners, Goto
        <2> QED
            BY <1>13, <2>1, QuietStep DEF QueryEnds
    <1>14. ASSUME NEW r \in Requests, QueryRaises(r) PROVE Covered'
        <2>1. SlotOwners' \subseteq SlotOwners
            BY <1>14 DEF QueryRaises, TypeOK, SlotOwners, Goto
        <2> QED
            BY <1>14, <2>1, QuietStep DEF QueryRaises
    <1>15. ASSUME NEW r \in Requests, Release(r) PROVE Covered'
        <2>1. Cardinality(SlotOwners') = Cardinality(SlotOwners) - 1
            BY <1>15, LoseOwner DEF Release, Goto, Points
        <2>2. SlotOwners' \subseteq SlotOwners
            BY <1>15, LoseOwner DEF Release, Goto, Points
        <2>3. Cardinality(SlotOwners) \in Nat /\ Cardinality(SlotOwners') \in Nat
            BY <2>2, OwnersFinite, FS_CardinalityType, FS_Subset
        <2>4. sem' <= sem /\ sem' >= sem - 1 /\ semTtl' = semTtl /\ timer' = timer
            BY <1>15 DEF Release, ReleaseScript, TypeOK
        <2> QED
            BY <2>1, <2>2, <2>3, <2>4 DEF Covered, TypeOK, SlotOwners
    <1>16. ASSUME NEW r \in Requests, ReleaseFails(r) PROVE Covered'
        <2>1. SlotOwners' \subseteq SlotOwners
            BY <1>16 DEF ReleaseFails, TypeOK, SlotOwners, Goto
        <2> QED
            BY <1>16, <2>1, QuietStep DEF ReleaseFails
    <1>17. ASSUME NEW r \in Requests, Record(r) PROVE Covered'
        <2>1. SlotOwners' \subseteq SlotOwners
            BY <1>17 DEF Record, TypeOK, SlotOwners, Goto, RefreshTtl
        <2> QED
            BY <1>17, <2>1, QuietStep DEF Record, RefreshTtl
    <1>18. ASSUME NEW r \in Requests, RecordTimeout(r) PROVE Covered'
        <2>1. SlotOwners' \subseteq SlotOwners
            BY <1>18 DEF RecordTimeout, TypeOK, SlotOwners, Goto, RefreshTtl
        <2> QED
            BY <1>18, <2>1, QuietStep DEF RecordTimeout, RefreshTtl
    <1>19. ASSUME NEW r \in Requests, LocalEnds(r) PROVE Covered'
        <2>1. SlotOwners' \subseteq SlotOwners
            BY <1>19 DEF LocalEnds, TypeOK, SlotOwners, Goto
        <2> QED
            BY <1>19, <2>1, QuietStep DEF LocalEnds
    <1>20. ASSUME NEW r \in Requests, CancelQuery(r) PROVE Covered'
        <2>1. SlotOwners' \subseteq SlotOwners
            BY <1>20 DEF CancelQuery, TypeOK, SlotOwners, Goto
        <2> QED
            BY <1>20, <2>1, QuietStep DEF CancelQuery
    <1>21. ASSUME NEW r \in Requests, CancelBeforeCommand(r) PROVE Covered'
        <2>1. SlotOwners' \subseteq SlotOwners
            BY <1>21 DEF CancelBeforeCommand, TypeOK, SlotOwners
        <2> QED
            BY <1>21, <2>1, QuietStep DEF CancelBeforeCommand
    <1>22. ASSUME NEW r \in Requests, CancelAfterAcquire(r) PROVE Covered'
        <2>1. SlotOwners' = SlotOwners
            BY <1>22, SameOwners DEF CancelAfterAcquire, Points
        <2>2. Cardinality(SlotOwners) \in Nat
            BY OwnersFinite, FS_CardinalityType
        <2>3. sem' = sem + 1 /\ semTtl' = ShortTtl /\ timer' = timer
            BY <1>22 DEF CancelAfterAcquire, AcquireScript
        <2>4. Cardinality(SlotOwners') <= sem'
            BY <2>1, <2>2, <2>3 DEF Covered, TypeOK
        <2>5. \A q \in SlotOwners' : timer'[q] < semTtl' /\ timer'[q] < ShortTtl
            BY <2>1, <2>3 DEF Covered
        <2> QED
            BY <2>3, <2>4, <2>5 DEF Covered
    <1>23. ASSUME NEW r \in Requests, CancelAfterDecr(r) PROVE Covered'
        <2>1. SlotOwners' \subseteq SlotOwners
            BY <1>23 DEF CancelAfterDecr, TypeOK, SlotOwners, Decrementing
        <2> QED
            BY <1>23, <2>1, QuietStep DEF CancelAfterDecr
    <1>24. ASSUME NEW r \in Requests, AcquireReplyLost(r) PROVE Covered'
        BY <1>24 DEF AcquireReplyLost, Tolerated
    <1>25. ASSUME NEW r \in Requests, ReleaseReplyLost(r) PROVE Covered'
        BY <1>25 DEF ReleaseReplyLost, Tolerated
    <1>26. CASE Crash
        <2>1. SlotOwners' \subseteq SlotOwners
            BY <1>26 DEF Crash, SlotOwners
        <2> QED
            BY <1>26, <2>1, QuietStep DEF Crash
    <1>27. CASE RedisDown
        <2>1. SlotOwners' \subseteq SlotOwners
            BY <1>27 DEF RedisDown, SlotOwners
        <2> QED
            BY <1>27, <2>1, QuietStep DEF RedisDown
    <1>28. CASE RedisBack
        <2>1. SlotOwners' \subseteq SlotOwners
            BY <1>28 DEF RedisBack, SlotOwners
        <2> QED
            BY <1>28, <2>1, QuietStep DEF RedisBack
    <1>29. CASE Tick
        <2>1. SlotOwners' = SlotOwners
            BY <1>29 DEF Tick, SlotOwners
        <2>2. \A r \in SlotOwners : timer[r] > 0
            BY <1>29 DEF Tick, Tolerated
        <2>3. Cardinality(SlotOwners) \in Nat
            BY OwnersFinite, FS_CardinalityType
        <2>4. Cardinality(SlotOwners') <= sem'
            <3>1. CASE semTtl # 1
                BY <1>29, <2>1, <3>1 DEF Tick, Covered
            <3>2. CASE semTtl = 1
                <4>1. SlotOwners = {}
                    BY <2>2, <3>2 DEF Covered, SlotOwners, TypeOK
                <4> QED
                    BY <1>29, <2>1, <3>2, <4>1, FS_EmptySet DEF Tick, TypeOK
            <3> QED
                BY <3>1, <3>2 DEF TypeOK
        <2> QED
            BY <1>29, <2>1, <2>2, <2>4 DEF Tick, Covered, SlotOwners, TypeOK
    <1>30. CASE UNCHANGED vars
        <2>1. SlotOwners' \subseteq SlotOwners
            BY <1>30 DEF vars, SlotOwners
        <2> QED
            BY <1>30, <2>1, QuietStep DEF vars
    <1> QED
        BY <1>1, <1>2, <1>3, <1>4, <1>5, <1>6, <1>7, <1>8, <1>9, <1>10, <1>11,
           <1>12, <1>13, <1>14, <1>15, <1>16, <1>17, <1>18, <1>19, <1>20,
           <1>21, <1>22, <1>23, <1>24, <1>25, <1>26, <1>27, <1>28, <1>29,
           <1>30 DEF Next, Acquiring, Queueing, Finishing, Disturbing,
           Environment

\* The in-process semaphore keeps its own limit in every step.
LEMMA LocalStep ==
    ASSUME TypeOK, Cardinality(LocalOwners) <= MaxConcurrent, [Next]_vars
    PROVE  Cardinality(LocalOwners') <= MaxConcurrent
    <1>1. ASSUME LocalOwners' \subseteq LocalOwners
          PROVE  Cardinality(LocalOwners') <= MaxConcurrent
        BY <1>1, OwnersFinite, FS_Subset, FS_CardinalityType
    <1>2. ASSUME NEW r \in Requests, LocalAcquire(r)
          PROVE  Cardinality(LocalOwners') <= MaxConcurrent
        BY <1>2, LocalLimitStep DEF LocalAcquire, Goto, Points
    <1>3. ASSUME NEW r \in Requests,
                 \/ Start(r) \/ TryAcquire(r) \/ TryRefused(r) \/ JoinQueue(r)
                 \/ FailBeforeQueue(r) \/ LocalTimeout(r)
          PROVE  LocalOwners' \subseteq LocalOwners
        BY <1>3 DEF Start, TryAcquire, TryRefused, JoinQueue, FailBeforeQueue,
                    LocalTimeout, Goto, LocalOwners, TypeOK
    <1>4. ASSUME NEW r \in Requests, Queueing(r)
          PROVE  LocalOwners' \subseteq LocalOwners
        BY <1>4 DEF Queueing, PollAcquire, PollTimeout, PollError, DecrQueue,
                    FloorQueue, Goto, LocalOwners, TypeOK, Decrementing,
                    Flooring, AfterDecr, FloorOf
    <1>5. ASSUME NEW r \in Requests, Finishing(r)
          PROVE  LocalOwners' \subseteq LocalOwners
        BY <1>5 DEF Finishing, QueryEnds, QueryRaises, Release, ReleaseFails,
                    Record, RecordTimeout, LocalEnds, Goto, LocalOwners, TypeOK
    <1>6. ASSUME NEW r \in Requests, Disturbing(r)
          PROVE  LocalOwners' \subseteq LocalOwners
        BY <1>6 DEF Disturbing, CancelQuery, CancelBeforeCommand,
                    CancelAfterAcquire, CancelAfterDecr, AcquireReplyLost,
                    ReleaseReplyLost, Goto, LocalOwners, TypeOK
    <1>7. CASE Environment
        <2>1. LocalOwners' \subseteq LocalOwners
            BY <1>7 DEF Environment, Crash, RedisDown, RedisBack, Tick, LocalOwners
        <2> QED
            BY <1>1, <2>1
    <1>8. CASE UNCHANGED vars
        <2>1. LocalOwners' \subseteq LocalOwners
            BY <1>8 DEF vars, LocalOwners
        <2> QED
            BY <1>1, <2>1
    <1> QED
        BY <1>1, <1>2, <1>3, <1>4, <1>5, <1>6, <1>7, <1>8 DEF Next, Acquiring

\* Counting out ends the way through the queue at one of a few points.
LEMMA OutOfQueue ==
    ASSUME TypeOK, NEW r \in Requests, DecrQueue(r) \/ FloorQueue(r)
    PROVE  /\ UNCHANGED <<timer, branch, redisUp, sem, semTtl, lapsed>>
           /\ \E to \in Flooring \union {"run", "recordTimeout", "idle"} :
                    pc' = [pc EXCEPT ![r] = to]
    <1>1. CASE DecrQueue(r)
        <2>1. UNCHANGED <<timer, branch, redisUp, sem, semTtl, lapsed>>
            BY <1>1 DEF DecrQueue, AddToQueue
        <2>2. PICK to \in {FloorOf[pc[r]], AfterDecr[pc[r]]} :
                    pc' = [pc EXCEPT ![r] = to]
            BY <1>1 DEF DecrQueue
        <2>3. to \in Flooring \union {"run", "recordTimeout", "idle"}
            BY <1>1, <2>2 DEF DecrQueue, Decrementing, Flooring, FloorOf, AfterDecr
        <2> QED
            BY <2>1, <2>2, <2>3
    <1>2. CASE FloorQueue(r)
        <2>1. /\ UNCHANGED <<timer, branch, redisUp, sem, semTtl, lapsed>>
              /\ pc' = [pc EXCEPT ![r] = AfterDecr[pc[r]]]
              /\ pc[r] \in Flooring
            BY <1>2 DEF FloorQueue
        <2>2. AfterDecr[pc[r]] \in {"run", "recordTimeout", "idle"}
            BY <2>1 DEF Flooring, AfterDecr
        <2> QED
            BY <2>1, <2>2
    <1> QED
        BY <1>1, <1>2

\* Only an outage takes Redis away, and only then does a request fall back.
LEMMA RedisModeStep ==
    ASSUME TypeOK, "outage" \notin faults, RedisMode, [Next]_vars
    PROVE  RedisMode'
    <1> USE DEF RedisMode, TypeOK, Flooring
    <1>1. ASSUME NEW r \in Requests, Acquiring(r)
          PROVE  RedisMode'
        BY <1>1 DEF Acquiring, Start, TryAcquire, TryRefused, JoinQueue,
                    FailBeforeQueue, LocalAcquire, LocalTimeout, Goto
    <1>2. ASSUME NEW r \in Requests, Queueing(r)
          PROVE  RedisMode'
        <2>1. CASE DecrQueue(r) \/ FloorQueue(r)
            BY <2>1, OutOfQueue
        <2>2. CASE ~DecrQueue(r) /\ ~FloorQueue(r)
            BY <1>2, <2>2 DEF Queueing, PollAcquire, PollTimeout, PollError, Goto
        <2> QED
            BY <2>1, <2>2
    <1>3. ASSUME NEW r \in Requests, Finishing(r)
          PROVE  RedisMode'
        BY <1>3 DEF Finishing, QueryEnds, QueryRaises, Release, ReleaseFails,
                    Record, RecordTimeout, LocalEnds, Goto
    <1>4. ASSUME NEW r \in Requests, Disturbing(r)
          PROVE  RedisMode'
        BY <1>4 DEF Disturbing, CancelQuery, CancelBeforeCommand,
                    CancelAfterAcquire, CancelAfterDecr, AcquireReplyLost,
                    ReleaseReplyLost, Goto
    <1>5. ASSUME Environment \/ UNCHANGED vars
          PROVE  RedisMode'
        BY <1>5 DEF Environment, Crash, RedisDown, RedisBack, Tick, vars
    <1> QED
        BY <1>1, <1>2, <1>3, <1>4, <1>5 DEF Next

\* RS-1 in every step: what makes the counter positive also arms its key.
LEMMA TtlStep ==
    ASSUME TypeOK, sem > 0 => semTtl > 0, [Next]_vars
    PROVE  sem' > 0 => semTtl' > 0
    <1> USE DEF TypeOK
    <1>1. CASE UNCHANGED <<sem, semTtl>>
        BY <1>1
    <1>2. CASE AcquireScript
        BY <1>2 DEF AcquireScript
    <1>3. CASE ReleaseScript
        BY <1>3 DEF ReleaseScript
    <1>4. CASE RefreshTtl
        BY <1>4 DEF RefreshTtl
    <1>5. CASE Tick
        BY <1>5 DEF Tick
    <1>6. ASSUME NEW r \in Requests, Acquiring(r)
          PROVE  UNCHANGED <<sem, semTtl>> \/ AcquireScript
        BY <1>6 DEF Acquiring, Start, TryAcquire, TryRefused, JoinQueue,
                    FailBeforeQueue, LocalAcquire, LocalTimeout
    <1>7. ASSUME NEW r \in Requests, Queueing(r)
          PROVE  UNCHANGED <<sem, semTtl>> \/ AcquireScript
        BY <1>7 DEF Queueing, PollAcquire, PollTimeout, PollError, DecrQueue, FloorQueue
    <1>8. ASSUME NEW r \in Requests, Finishing(r)
          PROVE  UNCHANGED <<sem, semTtl>> \/ ReleaseScript \/ RefreshTtl
        BY <1>8 DEF Finishing, QueryEnds, QueryRaises, Release, ReleaseFails,
                    Record, RecordTimeout, LocalEnds
    <1>9. ASSUME NEW r \in Requests, Disturbing(r)
          PROVE  UNCHANGED <<sem, semTtl>> \/ AcquireScript \/ ReleaseScript
        BY <1>9 DEF Disturbing, CancelQuery, CancelBeforeCommand, CancelAfterAcquire,
                    CancelAfterDecr, AcquireReplyLost, ReleaseReplyLost
    <1>10. ASSUME Environment \/ UNCHANGED vars
           PROVE  UNCHANGED <<sem, semTtl>> \/ Tick
        BY <1>10 DEF Environment, Crash, RedisDown, RedisBack, vars
    <1> QED
        BY <1>1, <1>2, <1>3, <1>4, <1>5, <1>6, <1>7, <1>8, <1>9, <1>10 DEF Next

\* The invariant holds under every mix of faults.
THEOREM InvariantHolds == Spec => []IInv
    <1>1. Init => IInv
        <2> SUFFICES ASSUME Init PROVE IInv
            OBVIOUS
        <2>1. SlotOwners = {} /\ LocalOwners = {}
            BY DEF Init, SlotOwners, LocalOwners
        <2> QED
            BY <2>1, InitTyped, FS_EmptySet
               DEF Init, IInv, Covered, RedisMode
    <1>2. IInv /\ [Next]_vars => IInv'
        <2> SUFFICES ASSUME IInv, [Next]_vars PROVE IInv'
            OBVIOUS
        <2>1. Tolerated' => Tolerated
            BY DEF Tolerated, Next, vars
        <2>2. Tolerated' => Covered'
            BY <2>1, TypeStep, CoveredStep DEF IInv
        <2>3. ("outage" \notin faults => RedisMode)'
            <3>1. faults' = faults
                BY DEF Next, vars
            <3> QED
                BY <3>1, RedisModeStep DEF IInv
        <2> QED
            BY <2>2, <2>3, TypeStep, TtlStep, LocalStep DEF IInv
    <1> QED
        BY <1>1, <1>2, PTL DEF Spec

\* max_concurrent_queries bounds the requests that run, through query errors,
\* cancellations and crashes; with an outage twice the limit does, because the
\* requests that fell back are counted apart from the ones with Redis slots.
THEOREM SlotLimitHolds == Spec => []SlotLimit
    <1>1. IInv => SlotLimit
        <2> SUFFICES ASSUME IInv, Tolerated
                     PROVE  Cardinality(SlotOwners \union LocalOwners)
                              <= IF "outage" \in faults THEN 2 * MaxConcurrent
                                                       ELSE MaxConcurrent
            BY DEF SlotLimit
        <2>1. /\ Cardinality(SlotOwners) \in Nat
              /\ Cardinality(LocalOwners) \in Nat
              /\ Cardinality(SlotOwners \intersect LocalOwners) \in Nat
            BY OwnersFinite, FS_CardinalityType, FS_Intersection
        <2>2. Cardinality(SlotOwners) <= MaxConcurrent
            BY <2>1 DEF IInv, Covered, TypeOK
        <2>3. CASE "outage" \in faults
            <3>1. Cardinality(SlotOwners \union LocalOwners)
                    = Cardinality(SlotOwners) + Cardinality(LocalOwners)
                        - Cardinality(SlotOwners \intersect LocalOwners)
                BY OwnersFinite, FS_Union
            <3>2. Cardinality(LocalOwners) <= MaxConcurrent
                BY DEF IInv
            <3> QED
                BY <2>1, <2>2, <2>3, <3>1, <3>2
        <2>4. CASE "outage" \notin faults
            <3>1. LocalOwners = {}
                BY <2>4 DEF IInv, RedisMode, LocalOwners
            <3>2. SlotOwners \union LocalOwners = SlotOwners
                BY <3>1
            <3> QED
                BY <2>2, <2>4, <3>2
        <2> QED
            BY <2>3, <2>4
    <1> QED
        BY <1>1, InvariantHolds, PTL

\* The counter never claims fewer holders than there are.
THEOREM CounterCovers == Spec => []SemCoversOwners
    <1>1. IInv => SemCoversOwners
        BY DEF IInv, Covered, SemCoversOwners
    <1> QED
        BY <1>1, InvariantHolds, PTL

\* RS-1: whatever is leaked, the counter key has a time-to-live.
THEOREM EveryLeakExpires == Spec => []LeaksExpire
    <1>1. IInv => LeaksExpire
        BY DEF IInv, LeaksExpire
    <1> QED
        BY <1>1, InvariantHolds, PTL

\* No owner's key can vanish before the owner is done.
THEOREM KeysOutlive == Spec => []KeyOutlivesOwners
    <1>1. IInv => KeyOutlivesOwners
        BY DEF IInv, Covered, KeyOutlivesOwners
    <1> QED
        BY <1>1, InvariantHolds, PTL

-----------------------------------------------------------------------------
(* Exactness of the two counters                                           *)

\* The slot counter when at most queries fail: Redis answers, so that every
\* release is carried out, and the counter is the number of owners.
SlotsExact ==
    /\ redisUp
    /\ sem = Cardinality(SlotOwners)

\* While nothing is cancelled and Redis and the process stay up, each counted
\* request is behind one INCR that no DECR has undone, so that the queue
\* counter is at most their number; below zero it is only until the request
\* that took it there has written 0.
Unbroken == {"cancel", "crash", "outage"} \cap faults = {}
DepthBounded ==
    /\ queue <= Cardinality(Counted)
    /\ queue < 0 => \E r \in Requests : pc[r] \in Flooring

\* Without query errors no request is in the exception handler or on its way
\* to it, so that as long as the key does not expire under counted requests
\* no decrement goes below zero.
QueueFaults == {"lost_reply", "overrun"}
NoneUnwinds == \A r \in Requests : branch[r] # "failed" /\ pc[r] # "unwind"
DepthKept ==
    /\ queue = Cardinality(Counted)
    /\ \A r \in Requests : pc[r] \notin Flooring

QueueInv ==
    /\ Unbroken => DepthBounded
    /\ faults \subseteq QueueFaults => NoneUnwinds
    /\ faults \subseteq QueueFaults /\ ~lapsed => DepthKept

\* A step under these mixes gains an owner with a grant, loses one with a
\* release, or changes neither the owners nor the counter.
LEMMA SlotsExactStep ==
    ASSUME IInv, faults \subseteq {"error"}, SlotsExact, [Next]_vars
    PROVE  SlotsExact'
    <1>1. /\ TypeOK /\ Covered
          /\ Cardinality(SlotOwners) \in Nat
          /\ {"overrun", "cancel", "crash", "outage", "lost_reply"} \cap faults = {}
        BY OwnersFinite, FS_CardinalityType DEF IInv, Tolerated
    <1> USE <1>1 DEF SlotsExact
    <1>2. ASSUME NEW r \in Requests, TryAcquire(r) \/ PollAcquire(r)
          PROVE  SlotsExact'
        <2>1. Cardinality(SlotOwners') = Cardinality(SlotOwners) + 1
            BY <1>2, GainOwner DEF TryAcquire, PollAcquire, Goto
        <2> QED
            BY <1>2, <2>1 DEF TryAcquire, PollAcquire, AcquireScript
    <1>3. ASSUME NEW r \in Requests, Release(r)
          PROVE  SlotsExact'
        <2>1. /\ Cardinality(SlotOwners') = Cardinality(SlotOwners) - 1
              /\ SlotOwners' \subseteq SlotOwners
            BY <1>3, LoseOwner DEF Release, Goto, Points
        <2>2. Cardinality(SlotOwners') \in Nat
            BY <2>1, OwnersFinite, FS_Subset, FS_CardinalityType
        <2> QED
            BY <1>3, <2>1, <2>2 DEF Release, ReleaseScript
    <1>4. CASE Tick
        <2>1. SlotOwners' = SlotOwners
            BY <1>4 DEF Tick, SlotOwners
        <2>2. \A r \in SlotOwners : timer[r] > 0
            BY <1>4 DEF Tick
        <2>3. CASE semTtl = 1
            <3>1. SlotOwners = {}
                BY <2>2, <2>3 DEF Covered, SlotOwners, TypeOK
            <3> QED
                BY <1>4, <2>1, <2>3, <3>1, FS_EmptySet DEF Tick
        <2>4. CASE semTtl # 1
            BY <1>4, <2>1, <2>4 DEF Tick
        <2> QED
            BY <2>3, <2>4
    <1>5. ASSUME SlotOwners' = SlotOwners, UNCHANGED <<sem, redisUp>>
          PROVE  SlotsExact'
        BY <1>5
    <1>6. ASSUME NEW r \in Requests, Acquiring(r), ~TryAcquire(r)
          PROVE  SlotsExact'
        BY <1>5, <1>6, SameOwners
           DEF Acquiring, Start, TryRefused, JoinQueue, FailBeforeQueue,
               LocalAcquire, LocalTimeout, Goto, Points, Decrementing
    <1>7. ASSUME NEW r \in Requests, Queueing(r), ~PollAcquire(r)
          PROVE  SlotsExact'
        <2>1. CASE DecrQueue(r) \/ FloorQueue(r)
            <3>1. pc[r] \in Decrementing \union Flooring
                BY <2>1 DEF DecrQueue, FloorQueue
            <3>2. PICK to \in {FloorOf[pc[r]], AfterDecr[pc[r]]} :
                        /\ pc' = [pc EXCEPT ![r] = to]
                        /\ pc[r] \in Flooring => to = AfterDecr[pc[r]]
                BY <2>1 DEF DecrQueue, FloorQueue, Decrementing, Flooring
            <3>3. to \in Points /\ (pc[r] \in OwnerPoints <=> to \in OwnerPoints)
                BY <3>1, <3>2 DEF Decrementing, Flooring, FloorOf, AfterDecr, Points
            <3>4. SlotOwners' = SlotOwners
                BY <3>2, <3>3, SameOwners
            <3> QED
                BY <1>5, <2>1, <3>4 DEF DecrQueue, FloorQueue
        <2>2. CASE PollTimeout(r) \/ PollError(r)
            BY <1>5, <2>2, SameOwners
               DEF PollTimeout, PollError, Goto, Points, Decrementing
        <2> QED
            BY <1>7, <2>1, <2>2 DEF Queueing
    <1>8. ASSUME NEW r \in Requests, Finishing(r), ~Release(r)
          PROVE  SlotsExact'
        BY <1>5, <1>8, SameOwners
           DEF Finishing, QueryEnds, QueryRaises, ReleaseFails, Record,
               RecordTimeout, LocalEnds, RefreshTtl, Goto, Points, Decrementing
    <1>9. ASSUME NEW r \in Requests, Disturbing(r)
          PROVE  SlotsExact'
        BY <1>9 DEF Disturbing, CancelQuery, CancelBeforeCommand,
                    CancelAfterAcquire, CancelAfterDecr, AcquireReplyLost,
                    ReleaseReplyLost
    <1>10. ASSUME Crash \/ RedisDown \/ RedisBack \/ UNCHANGED vars
           PROVE  SlotsExact'
        BY <1>5, <1>10 DEF Crash, RedisDown, RedisBack, vars, SlotOwners
    <1> QED
        BY <1>2, <1>3, <1>4, <1>6, <1>7, <1>8, <1>9, <1>10 DEF Next, Environment

\* While at most queries fail, each way through _acquire_slot gives back the
\* one slot it took, and the counter is the number of holders at any time.
THEOREM SemIsExact == Spec => []SemExact
    <1> DEFINE Inv == faults \subseteq {"error"} => SlotsExact
    <1>1. Init => Inv
        <2> SUFFICES ASSUME Init PROVE SlotsExact
            OBVIOUS
        <2>1. SlotOwners = {}
            BY DEF Init, SlotOwners
        <2> QED
            BY <2>1, FS_EmptySet DEF Init, SlotsExact
    <1>2. IInv /\ Inv /\ [Next]_vars => Inv'
        <2>1. [Next]_vars => faults' = faults
            BY DEF Next, vars
        <2> QED
            BY <2>1, SlotsExactStep
    <1>3. Inv => SemExact
        BY DEF SemExact, SlotsExact
    <1> QED
        BY <1>1, <1>2, <1>3, InvariantHolds, PTL DEF Spec

\* The requests the queue counter stands for are finitely many.
LEMMA CountedFinite == IsFiniteSet(Counted)
    BY RequestsFinite, FS_Subset DEF Counted

\* A request that reaches a counted point adds one.
LEMMA GainCounted ==
    ASSUME TypeOK, NEW r \in Requests, NEW to \in {"poll", "leave", "giveUp"},
           pc[r] \notin {"poll", "leave", "giveUp"}, pc' = [pc EXCEPT ![r] = to]
    PROVE  Cardinality(Counted') = Cardinality(Counted) + 1
    <1>1. r \notin Counted /\ Counted' = Counted \union {r}
        BY DEF Counted, TypeOK
    <1> QED
        BY <1>1, CountedFinite, FS_AddElement

\* A request that leaves the counted points takes one away.
LEMMA LoseCounted ==
    ASSUME TypeOK, NEW r \in Requests, NEW to \in Points,
           to \notin {"poll", "leave", "giveUp"},
           pc[r] \in {"poll", "leave", "giveUp"}, pc' = [pc EXCEPT ![r] = to]
    PROVE  Cardinality(Counted') = Cardinality(Counted) - 1
    <1>1. r \in Counted /\ Counted' = Counted \ {r}
        BY DEF Counted, TypeOK
    <1> QED
        BY <1>1, CountedFinite, FS_RemoveElement

\* A request that is counted makes the count positive.
LEMMA CountedPositive ==
    ASSUME NEW r \in Counted
    PROVE  Cardinality(Counted) \in Nat \ {0}
    BY CountedFinite, FS_CardinalityType, FS_EmptySet

\* Without query errors no step leads into the exception handler.
LEMMA NoneUnwindsStep ==
    ASSUME IInv, faults \subseteq QueueFaults, NoneUnwinds, [Next]_vars
    PROVE  NoneUnwinds'
    <1>1. /\ TypeOK /\ redisUp
          /\ {"error", "cancel", "crash", "outage"} \cap faults = {}
        BY DEF IInv, RedisMode, QueueFaults
    <1> USE <1>1 DEF NoneUnwinds, TypeOK, Flooring
    <1>2. ASSUME NEW r \in Requests, Acquiring(r)
          PROVE  NoneUnwinds'
        BY <1>2 DEF Acquiring, Start, TryAcquire, TryRefused, JoinQueue,
                    FailBeforeQueue, LocalAcquire, LocalTimeout, Goto
    <1>3. ASSUME NEW r \in Requests, Queueing(r)
          PROVE  NoneUnwinds'
        <2>1. CASE DecrQueue(r) \/ FloorQueue(r)
            BY <2>1, OutOfQueue
        <2>2. CASE ~DecrQueue(r) /\ ~FloorQueue(r)
            BY <1>3, <2>2 DEF Queueing, PollAcquire, PollTimeout, PollError, Goto
        <2> QED
            BY <2>1, <2>2
    <1>4. ASSUME NEW r \in Requests, Finishing(r)
          PROVE  NoneUnwinds'
        BY <1>4 DEF Finishing, QueryEnds, QueryRaises, Release, ReleaseFails,
                    Record, RecordTimeout, LocalEnds, Goto
    <1>5. ASSUME NEW r \in Requests, Disturbing(r)
          PROVE  NoneUnwinds'
        BY <1>5 DEF Disturbing, CancelQuery, CancelBeforeCommand,
                    CancelAfterAcquire, CancelAfterDecr, AcquireReplyLost,
                    ReleaseReplyLost
    <1>6. ASSUME Environment \/ UNCHANGED vars
          PROVE  NoneUnwinds'
        BY <1>6 DEF Environment, Crash, RedisDown, RedisBack, Tick, vars
    <1> QED
        BY <1>2, <1>3, <1>4, <1>5, <1>6 DEF Next

\* Steps that neither touch the queue counter nor move a request between
\* points that differ in whether it is counted or about to write 0.
LEMMA Uncounting ==
    ASSUME IInv, Unbroken, [Next]_vars,
           \A r \in Requests : ~JoinQueue(r) /\ ~DecrQueue(r) /\ ~FloorQueue(r),
           ~Tick
    PROVE  /\ UNCHANGED <<queue, lapsed>>
           /\ Counted' = Counted
           /\ \A r \in Requests : pc'[r] \in Flooring <=> pc[r] \in Flooring
    <1> DEFINE Same == /\ UNCHANGED <<queue, lapsed>>
                       /\ Counted' = Counted
                       /\ \A r \in Requests : pc'[r] \in Flooring <=> pc[r] \in Flooring
    <1>1. /\ TypeOK /\ redisUp
          /\ {"cancel", "crash", "outage"} \cap faults = {}
        BY DEF IInv, RedisMode, Unbroken
    <1> USE <1>1 DEF TypeOK, Flooring, Counted
    <1>2. ASSUME NEW r \in Requests, Acquiring(r)
          PROVE  Same
        BY <1>2 DEF Acquiring, Start, TryAcquire, TryRefused, FailBeforeQueue,
                    LocalAcquire, LocalTimeout, Goto
    <1>3. ASSUME NEW r \in Requests, Queueing(r)
          PROVE  Same
        BY <1>3 DEF Queueing, PollAcquire, PollTimeout, PollError, Goto
    <1>4. ASSUME NEW r \in Requests, Finishing(r)
          PROVE  Same
        BY <1>4 DEF Finishing, QueryEnds, QueryRaises, Release, ReleaseFails,
                    Record, RecordTimeout, RefreshTtl, LocalEnds, Goto
    <1>5. ASSUME NEW r \in Requests, Disturbing(r)
          PROVE  Same
        BY <1>5 DEF Disturbing, CancelQuery, CancelBeforeCommand,
                    CancelAfterAcquire, CancelAfterDecr, AcquireReplyLost,
                    ReleaseReplyLost
    <1>6. ASSUME Crash \/ RedisDown \/ RedisBack \/ UNCHANGED vars
          PROVE  Same
        BY <1>6 DEF Crash, RedisDown, RedisBack, vars
    <1> QED
        BY <1>2, <1>3, <1>4, <1>5, <1>6 DEF Next, Environment

\* A join counts a request in with INCR.
LEMMA JoinCounts ==
    ASSUME TypeOK, NEW r \in Requests, JoinQueue(r)
    PROVE  /\ queue' = queue + 1
           /\ lapsed' = lapsed
           /\ Cardinality(Counted') = Cardinality(Counted) + 1
           /\ \A q \in Requests : pc'[q] \in Flooring <=> pc[q] \in Flooring
    <1>1. /\ queue' = queue + 1
          /\ lapsed' = lapsed
          /\ \A q \in Requests : pc'[q] \in Flooring <=> pc[q] \in Flooring
        BY DEF JoinQueue, AddToQueue, Goto, Flooring, TypeOK
    <1> QED
        BY <1>1, GainCounted DEF JoinQueue, Goto

\* A decrement counts out the request that makes it, unless that one comes
\* from the exception handler and was not counted any more.
LEMMA DecrCounts ==
    ASSUME TypeOK, redisUp, NEW r \in Requests, DecrQueue(r)
    PROVE  /\ queue' = queue - 1
           /\ lapsed' = lapsed
           /\ \/ Cardinality(Counted') = Cardinality(Counted) - 1
              \/ pc[r] = "unwind" /\ Counted' = Counted
           /\ queue' < 0 => pc'[r] \in Flooring
           /\ ~(queue' < 0) => \A q \in Requests : pc'[q] \in Flooring => pc[q] \in Flooring
    <1>1. queue' = queue - 1 /\ lapsed' = lapsed
        BY DEF DecrQueue, AddToQueue
    <1> DEFINE to == IF queue' < 0 THEN FloorOf[pc[r]] ELSE AfterDecr[pc[r]]
    <1>2. pc' = [pc EXCEPT ![r] = to] /\ pc[r] \in {"leave", "giveUp", "unwind"}
        BY DEF DecrQueue, Decrementing
    <1>3. /\ to \in Points \ {"poll", "leave", "giveUp"}
          /\ queue' < 0 => to \in Flooring
          /\ ~(queue' < 0) => to \notin Flooring
        BY <1>2 DEF FloorOf, AfterDecr, Points, Flooring, Decrementing
    <1> HIDE DEF to
    <1>4. CASE pc[r] \in {"leave", "giveUp"}
        <2>1. Cardinality(Counted') = Cardinality(Counted) - 1
            BY <1>2, <1>3, <1>4, LoseCounted
        <2> QED
            BY <1>1, <1>2, <1>3, <2>1 DEF TypeOK
    <1>5. CASE pc[r] = "unwind"
        <2>1. Counted' = Counted
            BY <1>2, <1>3, <1>5 DEF Counted, TypeOK
        <2> QED
            BY <1>1, <1>2, <1>3, <1>5, <2>1 DEF TypeOK
    <1> QED
        BY <1>2, <1>4, <1>5

\* While Redis and the process stay up the counter shows at most the requests
\* in the queue, and a negative value is about to be overwritten.
LEMMA DepthBoundedStep ==
    ASSUME IInv, Unbroken, DepthBounded, [Next]_vars
    PROVE  DepthBounded'
    <1>1. TypeOK /\ redisUp /\ queue \in Int
        BY DEF IInv, RedisMode, Unbroken, TypeOK
    <1>2. Cardinality(Counted) \in Nat /\ Cardinality(Counted') \in Nat
        BY RequestsFinite, FS_Subset, FS_CardinalityType DEF Counted
    <1>3. ASSUME NEW r \in Requests, JoinQueue(r)
          PROVE  DepthBounded'
        BY <1>1, <1>2, <1>3, JoinCounts DEF DepthBounded
    <1>4. ASSUME NEW r \in Requests, DecrQueue(r)
          PROVE  DepthBounded'
        <2>1. queue' <= Cardinality(Counted')
            BY <1>1, <1>2, <1>4, DecrCounts DEF DepthBounded
        <2>2. queue' < 0 => pc'[r] \in Flooring
            BY <1>1, <1>4, DecrCounts
        <2> QED
            BY <2>1, <2>2 DEF DepthBounded
    <1>5. ASSUME NEW r \in Requests, FloorQueue(r)
          PROVE  DepthBounded'
        <2>1. queue' = 0
            BY <1>1, <1>5 DEF FloorQueue
        <2> QED
            BY <1>2, <2>1 DEF DepthBounded
    <1>6. CASE Tick
        <2>1. pc' = pc /\ Counted' = Counted /\ (queue' = queue \/ queue' = 0)
            BY <1>6 DEF Tick, Counted
        <2> QED
            BY <1>1, <1>2, <2>1 DEF DepthBounded
    <1>7. CASE /\ \A r \in Requests : ~JoinQueue(r) /\ ~DecrQueue(r) /\ ~FloorQueue(r)
               /\ ~Tick
        BY <1>7, Uncounting DEF DepthBounded
    <1> QED
        BY <1>3, <1>4, <1>5, <1>6, <1>7

\* Without query errors, and while the key does not expire under counted
\* requests, INCR and DECR follow the requests exactly.
LEMMA DepthKeptStep ==
    ASSUME IInv, faults \subseteq QueueFaults, NoneUnwinds, DepthKept, ~lapsed',
           [Next]_vars
    PROVE  DepthKept'
    <1>1. TypeOK /\ redisUp /\ queue \in Int /\ Unbroken
        BY DEF IInv, RedisMode, QueueFaults, Unbroken, TypeOK
    <1>2. Cardinality(Counted) \in Nat /\ Cardinality(Counted') \in Nat
        BY RequestsFinite, FS_Subset, FS_CardinalityType DEF Counted
    <1>3. ASSUME NEW r \in Requests, JoinQueue(r)
          PROVE  DepthKept'
        BY <1>1, <1>2, <1>3, JoinCounts DEF DepthKept
    <1>4. ASSUME NEW r \in Requests, DecrQueue(r)
          PROVE  DepthKept'
        <2>1. /\ queue' = queue - 1
              /\ Cardinality(Counted') = Cardinality(Counted) - 1
            BY <1>1, <1>4, DecrCounts DEF NoneUnwinds
        <2>2. ~(queue' < 0) /\ queue' = Cardinality(Counted')
            BY <1>1, <1>2, <2>1 DEF DepthKept
        <2>3. \A q \in Requests : pc'[q] \in Flooring => pc[q] \in Flooring
            BY <1>1, <1>4, <2>2, DecrCounts
        <2> QED
            BY <2>2, <2>3 DEF DepthKept
    <1>5. ASSUME NEW r \in Requests, FloorQueue(r)
          PROVE  DepthKept'
        BY <1>5 DEF FloorQueue, DepthKept
    <1>6. CASE Tick
        <2>1. pc' = pc /\ Counted' = Counted
            BY <1>6 DEF Tick, Counted
        <2>2. CASE queueTtl = 1
            <3>1. Counted = {} /\ queue' = 0
                BY <1>6, <2>2 DEF Tick
            <3> QED
                BY <2>1, <3>1, FS_EmptySet DEF DepthKept
        <2>3. CASE queueTtl # 1
            <3>1. queue' = queue
                BY <1>6, <2>3 DEF Tick
            <3> QED
                BY <2>1, <3>1 DEF DepthKept
        <2> QED
            BY <2>2, <2>3
    <1>7. CASE /\ \A r \in Requests : ~JoinQueue(r) /\ ~DecrQueue(r) /\ ~FloorQueue(r)
               /\ ~Tick
        BY <1>1, <1>7, Uncounting DEF DepthKept
    <1> QED
        BY <1>3, <1>4, <1>5, <1>6, <1>7

\* While nothing is cancelled and Redis and the process stay up the queue
\* counter shows no request that is gone and is never left below zero; without
\* query errors and until the key expires under its requests it is exact.
THEOREM QueueIsExact == Spec => []QueueExact
    <1>1. Init => QueueInv
        <2> SUFFICES ASSUME Init PROVE QueueInv
            OBVIOUS
        <2>1. Counted = {}
            BY DEF Init, Counted
        <2> QED
            BY <2>1, FS_EmptySet
               DEF Init, QueueInv, DepthBounded, NoneUnwinds, DepthKept, Flooring
    <1>2. IInv /\ QueueInv /\ [Next]_vars => QueueInv'
        <2> SUFFICES ASSUME IInv, QueueInv, [Next]_vars PROVE QueueInv'
            OBVIOUS
        <2>1. faults' = faults
            BY DEF Next, vars
        <2>2. lapsed => lapsed'
            BY DEF Next, vars, Acquiring, Queueing, Finishing, Disturbing, Environment,
                   Start, TryAcquire, TryRefused, JoinQueue, FailBeforeQueue,
                   LocalAcquire, LocalTimeout, PollAcquire, PollTimeout, PollError,
                   DecrQueue, FloorQueue, QueryEnds, QueryRaises, Release,
                   ReleaseFails, Record, RecordTimeout, LocalEnds, CancelQuery,
                   CancelBeforeCommand, CancelAfterAcquire, CancelAfterDecr,
                   AcquireReplyLost, ReleaseReplyLost, Crash, RedisDown, RedisBack,
                   Tick, AddToQueue, RefreshTtl
        <2>3. Unbroken' => DepthBounded'
            BY <2>1, DepthBoundedStep DEF QueueInv, Unbroken
        <2>4. (faults \subseteq QueueFaults)' => NoneUnwinds'
            BY <2>1, NoneUnwindsStep DEF QueueInv, QueueFaults
        <2>5. (faults \subseteq QueueFaults /\ ~lapsed)' => DepthKept'
            BY <2>1, <2>2, DepthKeptStep DEF QueueInv, QueueFaults
        <2> QED
            BY <2>3, <2>4, <2>5 DEF QueueInv
    <1>3. QueueInv => QueueExact
        BY DEF QueueInv, QueueExact, DepthKept, DepthBounded, QueueFaults, Unbroken
    <1> QED
        BY <1>1, <1>2, <1>3, InvariantHolds, PTL DEF Spec

-----------------------------------------------------------------------------
(* Refinement of the abstract pool                                         *)

\* The instance's Cardinality is the one of FiniteSets.
LEMMA PoolCardinality ==
    Pool!Cardinality(SlotOwners) = Cardinality(SlotOwners)
    BY DEF Pool!Cardinality, Cardinality, Pool!IsFiniteSet, IsFiniteSet

\* A step of the protocol takes one slot, gives some back, or changes none.
LEMMA PoolStep ==
    ASSUME IInv, Tolerated, [Next]_vars
    PROVE  [Pool!Next]_SlotOwners
    <1> USE DEF Pool!Next, Pool!Take, Pool!Give
    <1>1. TypeOK /\ Cardinality(SlotOwners) \in Nat
        BY OwnersFinite, FS_CardinalityType DEF IInv
    <1>2. ASSUME SlotOwners' \subseteq SlotOwners
          PROVE  [Pool!Next]_SlotOwners
        <2>1. CASE SlotOwners' = SlotOwners
            BY <2>1
        <2>2. CASE SlotOwners' # SlotOwners
            <3> DEFINE S == SlotOwners \ SlotOwners'
            <3>1. S \in SUBSET SlotOwners /\ S # {} /\ SlotOwners' = SlotOwners \ S
                BY <1>2, <2>2
            <3> QED
                BY <3>1
        <2> QED
            BY <2>1, <2>2
    <1>3. ASSUME NEW r \in Requests, NEW to \in OwnerPoints,
                 pc[r] \notin OwnerPoints, pc' = [pc EXCEPT ![r] = to],
                 sem < MaxConcurrent
          PROVE  [Pool!Next]_SlotOwners
        <2>1. SlotOwners' = SlotOwners \union {r}
            BY <1>1, <1>3, GainOwner
        <2>2. r \notin SlotOwners
            BY <1>3 DEF SlotOwners
        <2>3. Cardinality(SlotOwners) < MaxConcurrent
            BY <1>1, <1>3 DEF IInv, Covered, TypeOK
        <2> QED
            BY <2>1, <2>2, <2>3, PoolCardinality
    <1>4. ASSUME NEW r \in Requests, TryAcquire(r) \/ PollAcquire(r)
          PROVE  [Pool!Next]_SlotOwners
        BY <1>3, <1>4 DEF TryAcquire, PollAcquire, AcquireScript, Goto
    <1>5. ASSUME NEW r \in Requests,
                 \/ Start(r) \/ TryRefused(r) \/ JoinQueue(r)
                 \/ FailBeforeQueue(r) \/ LocalAcquire(r) \/ LocalTimeout(r)
                 \/ PollTimeout(r) \/ PollError(r)
          PROVE  SlotOwners' \subseteq SlotOwners
        BY <1>1, <1>5 DEF Start, TryRefused, JoinQueue, FailBeforeQueue,
                    LocalAcquire, LocalTimeout, PollTimeout, PollError, Goto,
                    SlotOwners, TypeOK
    <1>6. ASSUME NEW r \in Requests, DecrQueue(r) \/ FloorQueue(r)
          PROVE  SlotOwners' \subseteq SlotOwners
        BY <1>1, <1>6 DEF DecrQueue, FloorQueue, SlotOwners, TypeOK,
                    Decrementing, Flooring, AfterDecr, FloorOf
    <1>7. ASSUME NEW r \in Requests, Finishing(r)
          PROVE  SlotOwners' \subseteq SlotOwners
        BY <1>1, <1>7 DEF Finishing, QueryEnds, QueryRaises, Release, ReleaseFails,
                    Record, RecordTimeout, LocalEnds, Goto, SlotOwners, TypeOK
    <1>8. ASSUME NEW r \in Requests, Disturbing(r)
          PROVE  SlotOwners' \subseteq SlotOwners
        BY <1>1, <1>8 DEF Disturbing, CancelQuery, CancelBeforeCommand,
                    CancelAfterAcquire, CancelAfterDecr, AcquireReplyLost,
                    ReleaseReplyLost, Goto, SlotOwners, TypeOK
    <1>9. ASSUME Environment \/ UNCHANGED vars
          PROVE  SlotOwners' \subseteq SlotOwners
        BY <1>9 DEF Environment, Crash, RedisDown, RedisBack, Tick, vars, SlotOwners
    <1> QED
        BY <1>2, <1>4, <1>5, <1>6, <1>7, <1>8, <1>9
           DEF Next, Acquiring, Queueing

\* Under the tolerated mixes the Redis protocol implements the slot pool.
THEOREM PoolImplemented == Spec => ImplementsPool
    <1>1. Init => Pool!Init
        BY DEF Init, Pool!Init, SlotOwners
    <1>2. IInv /\ [Next]_vars => [Tolerated => Pool!Next]_SlotOwners
        BY PoolStep
    <1> QED
        BY <1>1, <1>2, InvariantHolds, PTL DEF Spec, ImplementsPool
=============================================================================
