------------------------- MODULE OAuthSessionsProofs -------------------------
(***************************************************************************)
(* Proofs about OAuthSessions for any sessions, handlers, agents, idle     *)
(* timeout and number of restarts, and every mix of faults.                *)
(***************************************************************************)
EXTENDS OAuthSessions, TLAPS

\* Redis is up unless outages are possible.
RedisKept == "outage" \in faults \/ redisUp

\* The startup sync runs alone, over sessions that are neither revoked
\* nor expired.
SyncAlone ==
    /\ ~serving => \A h \in Handlers : hpc[h] = "idle"
    /\ serving => syncTodo = {}
    /\ \A s \in syncTodo : s \in Live /\ rowLeft[s] > 0
    /\ syncAt # NoSession => syncAt \in syncTodo

\* A session that is being cached belongs to its handler alone, and its row
\* is as it was inserted.
Private(h) == hpc[h] \in Caching \union {"reply"}
NewPrivate ==
    /\ \A h \in Handlers : Private(h) =>
        /\ new[h] \in Sessions \ issued
        /\ row[new[h]] # "none"
        /\ client = "active" => row[new[h]] = "active"
        /\ rowLeft[new[h]] = Idle
    /\ \A h, g \in Handlers : h # g /\ Private(h) /\ Private(g) => new[h] # new[g]

\* Sessions somebody knows of have been issued, and those have rows.
IssuedKnown ==
    /\ \A s \in issued : row[s] # "none"
    /\ \A h \in Handlers : hpc[h] \in {"reClient", "reCommit", "reDelete"} => old[h] \in issued
    /\ \A h \in Handlers : hpc[h] = "reDelete" => row[old[h]] = "revoked"
    /\ \A a \in Agents : apc[a] # "idle" => at[a] \in issued

\* What a revoke handler has set out to do, and has done of it.
RevokeDone ==
    \A h \in Handlers :
        /\ hpc[h] # "rvDelete" => due[h] = {}
        /\ due[h] \subseteq aim[h] \intersect issued
        /\ "outage" \notin faults => \A s \in due[h] \ todo[h] : key[s] # "full"

\* A session that was cut off has a revoked row for good.
CutRevoked == \A s \in cut : s \in issued /\ row[s] = "revoked"

\* A row never promises more than its session's window.
RowInWindow ==
    /\ \A s \in Sessions : idle[s] + rowLeft[s] <= Idle
    /\ \A s \in Sessions : row[s] = "none" => idle[s] = 0

Unfinished(s) == s \in syncTodo \/ \E h \in Handlers : hpc[h] = "ttl" /\ new[h] = s
KeyInWindow ==
    "outage" \notin faults /\ client = "active" =>
        \A s \in Sessions : key[s] = "full" /\ ~Unfinished(s) =>
            keyLeft[s] > 0 /\ idle[s] + keyLeft[s] <= Idle

Parts == /\ RedisKept
         /\ SyncAlone
         /\ NewPrivate
         /\ IssuedKnown
         /\ RevokeDone
         /\ CutRevoked
         /\ RevokedStaysDead

Windows == RowInWindow /\ KeyInWindow

\* A revocation of an active client holds the write lock until it commits, and
\* nobody else does; its deletions are among the sessions it revokes.
LockKnown ==
    /\ \A h \in Handlers : hpc[h] = "rvDelete" => client = "revoked" \/ writer = h
    /\ client = "revoked" => writer = NoHandler
    /\ \A h \in Handlers : /\ todo[h] \subseteq aim[h]
                           /\ hpc[h] # "rvDelete" => todo[h] = {}

\* Without faults Redis is up and the backend serves.
Undisturbed == faults = {} => redisUp /\ serving

\* A session whose caching is complete, or whose hash has been written.
Cached(s) == s \in issued \/ \E h \in Handlers : hpc[h] \in {"index", "reply"} /\ new[h] = s
Hashed(s) == \E h \in Handlers : hpc[h] = "ttl" /\ new[h] = s

\* A revocation in progress has the session on its list.
Aimed(s) == \E h \in Handlers : hpc[h] = "rvDelete" /\ s \in aim[h]

\* Without faults a session keeps its hash for the whole of its window, unless
\* it is being revoked.
KeyKept ==
    faults = {} =>
        \A s \in Live : ~Aimed(s) =>
            /\ Hashed(s) => key[s] = "full"
            /\ Cached(s) /\ idle[s] < Idle =>
                 key[s] = "full" /\ keyLeft[s] > 0 /\ idle[s] + keyLeft[s] >= Idle

\* With restarts alone it keeps it until the date of its row, but for the time
\* of the sync that writes it back.
DatedKeyKept ==
    "outage" \notin faults /\ "wipe" \notin faults /\ client = "active" =>
        \A s \in Live : ~Aimed(s) =>
            /\ Hashed(s) \/ s = syncAt => key[s] = "full"
            /\ Cached(s) /\ rowLeft[s] > 0 /\ s \notin syncTodo =>
                 key[s] = "full" /\ keyLeft[s] >= rowLeft[s]

Acceptance == LockKnown /\ Undisturbed /\ KeyKept /\ DatedKeyKept

IInv == TypeOK /\ Parts /\ Windows /\ Acceptance
USE NamesDistinct, BoundsPositive, FaultsKnown

-----------------------------------------------------------------------------
\* The initial states satisfy the invariant.
LEMMA InitHolds == Init => IInv
    <1> SUFFICES ASSUME Init PROVE IInv
        OBVIOUS
    <1>1. TypeOK
        <2>1. faults \in SUBSET AllFaults /\ restarts \in 0 .. MaxRestarts
            BY DEF Init
        <2> QED
            BY <2>1 DEF Init, TypeOK, HandlerPoints
    <1>2. Parts
        BY DEF Init, Parts, RedisKept, SyncAlone, NewPrivate, Private, Caching, IssuedKnown,
               RevokeDone, CutRevoked, RevokedStaysDead
    <1>3. Windows
        BY DEF Init, Windows, RowInWindow, KeyInWindow
    <1>4. Acceptance
        BY DEF Init, Acceptance, LockKnown, Undisturbed, KeyKept, DatedKeyKept, Cached, Hashed, Live
    <1> QED
        BY <1>1, <1>2, <1>3, <1>4 DEF IInv

\* Steps keep the types.
LEMMA TypeStep == IInv /\ [Next]_vars => TypeOK'
    <1> SUFFICES ASSUME TypeOK, Parts, [Next]_vars PROVE TypeOK'
        BY DEF IInv
    <1> USE DEF TypeOK, HandlerPoints, Caching, Live, Goto, dbVars, redisVars, ghostVars, handlerVars, agentVars, syncVars, envVars
    <1>a. \A h \in Handlers :
              /\ hpc[h] \in Caching \union {"reply"} => new[h] \in Sessions
              /\ hpc[h] \in {"reCommit", "reDelete"} => old[h] \in Sessions
        BY DEF Parts, NewPrivate, Private, IssuedKnown
    <1>b. \A a \in Agents : apc[a] # "idle" => at[a] \in Sessions
        BY DEF Parts, IssuedKnown
    <1>c. 0 \in 0 .. Idle /\ Idle \in 0 .. Idle
        OBVIOUS
    <1>1. ASSUME NEW h \in Handlers, ExchangeRead(h) PROVE TypeOK'
        BY <1>1 DEF ExchangeRead
    <1>2. ASSUME NEW h \in Handlers, RefreshClient(h) PROVE TypeOK'
        BY <1>2 DEF RefreshClient
    <1>3. ASSUME NEW h \in Handlers, RefreshDelete(h) PROVE TypeOK'
        BY <1>3, <1>a, <1>c DEF RefreshDelete, DeleteKey
    <1>4. ASSUME NEW h \in Handlers, CacheHash(h) PROVE TypeOK'
        BY <1>4 DEF CacheHash, PutHash
    <1>5. ASSUME NEW h \in Handlers, CacheTtl(h) PROVE TypeOK'
        BY <1>5, <1>a, <1>c DEF CacheTtl, ExpireKey, Touch
    <1>6. ASSUME NEW h \in Handlers, CacheIndex(h) PROVE TypeOK'
        BY <1>6, <1>a, <1>c DEF CacheIndex
    <1>7. ASSUME NEW h \in Handlers, CacheFails(h) PROVE TypeOK'
        BY <1>7 DEF CacheFails
    <1>8. ASSUME NEW h \in Handlers, Reply(h) PROVE TypeOK'
        BY <1>8, <1>a, <1>c DEF Reply
    <1>9. ASSUME NEW h \in Handlers, RevokeRead(h) PROVE TypeOK'
        BY <1>9 DEF RevokeRead
    <1>10. ASSUME NEW h \in Handlers, RevokeCommit(h) PROVE TypeOK'
        BY <1>10 DEF RevokeCommit
    <1>11. ASSUME NEW h \in Handlers, LockTimesOut(h) PROVE TypeOK'
        BY <1>11 DEF LockTimesOut
    <1>12. ASSUME NEW h \in Handlers, NEW s \in Sessions, ExchangeCommit(h, s) PROVE TypeOK'
        BY <1>12 DEF ExchangeCommit
    <1>13. ASSUME NEW h \in Handlers, NEW s \in Sessions, RefreshRead(h, s) PROVE TypeOK'
        BY <1>13 DEF RefreshRead
    <1>14. ASSUME NEW h \in Handlers, NEW s \in Sessions, RefreshCommit(h, s) PROVE TypeOK'
        BY <1>14, <1>a, <1>c DEF RefreshCommit
    <1>15. ASSUME NEW h \in Handlers, NEW s \in Sessions, RevokeDelete(h, s) PROVE TypeOK'
        BY <1>15 DEF RevokeDelete, DeleteKey
    <1>16. ASSUME NEW a \in Agents, ExtendKey(a) PROVE TypeOK'
        BY <1>16, <1>b, <1>c DEF ExtendKey, ExpireKey, Touch
    <1>17. ASSUME NEW a \in Agents, ExtendIndex(a) PROVE TypeOK'
        BY <1>17, <1>b, <1>c DEF ExtendIndex
    <1>18. ASSUME NEW a \in Agents, RecordUse(a) PROVE TypeOK'
        BY <1>18 DEF RecordUse
    <1>19. ASSUME NEW a \in Agents, UseFails(a) PROVE TypeOK'
        BY <1>19 DEF UseFails
    <1>20. ASSUME NEW a \in Agents, NEW s \in Sessions, Lookup(a, s) PROVE TypeOK'
        BY <1>20 DEF Lookup
    <1>21. ASSUME NEW s \in Sessions, SyncHash(s) PROVE TypeOK'
        BY <1>21 DEF SyncHash, PutHash
    <1>22. CASE Restart
        <2>1. restarts' \in 0 .. MaxRestarts
            BY <1>22 DEF Restart
        <2>2. /\ hpc' \in [Handlers -> HandlerPoints]
              /\ due' \in [Handlers -> SUBSET Sessions]
              /\ new' \in [Handlers -> Sessions \union {NoSession}]
              /\ syncTodo' \subseteq Sessions
            BY <1>22 DEF Restart
        <2> QED
            BY <1>22, <2>1, <2>2 DEF Restart
    <1>23. CASE SyncTtl
        BY <1>23 DEF SyncTtl, ExpireKey
    <1>24. CASE SyncFails
        BY <1>24 DEF SyncFails
    <1>25. CASE SyncEnds
        BY <1>25 DEF SyncEnds
    <1>26. CASE Tick
        BY <1>26 DEF Tick
    <1>27. CASE RedisDown
        BY <1>27 DEF RedisDown
    <1>28. CASE RedisBack
        BY <1>28 DEF RedisBack
    <1>29. CASE RedisWiped
        BY <1>29 DEF RedisWiped
    <1>30. CASE UNCHANGED vars
        BY <1>30 DEF vars
    <1> QED
        BY <1>1, <1>2, <1>3, <1>4, <1>5, <1>6, <1>7, <1>8, <1>9, <1>10, <1>11,
           <1>12, <1>13, <1>14, <1>15, <1>16, <1>17, <1>18, <1>19, <1>20, <1>21,
           <1>22, <1>23, <1>24, <1>25, <1>26, <1>27, <1>28, <1>29, <1>30
           DEF Next, Granting, Revoking, Using, Restarting, Environment

\* Steps keep the parts of the invariant that are about revocation.
LEMMA PartsStep == IInv /\ [Next]_vars => Parts'
    <1> SUFFICES ASSUME TypeOK, Parts, RowInWindow, [Next]_vars PROVE Parts'
        BY DEF IInv, Windows
    <1> USE DEF TypeOK, Caching, Live, Goto, dbVars, redisVars, ghostVars, handlerVars, agentVars, syncVars, envVars,
                Parts, RedisKept, SyncAlone, NewPrivate, Private, IssuedKnown, RevokeDone,
                CutRevoked, RevokedStaysDead, RowInWindow
    <1>1. ASSUME NEW h \in Handlers, ExchangeRead(h) PROVE Parts'
        BY <1>1 DEF ExchangeRead
    <1>2. ASSUME NEW h \in Handlers, RefreshClient(h) PROVE Parts'
        BY <1>2 DEF RefreshClient
    <1>3. ASSUME NEW h \in Handlers, RefreshDelete(h) PROVE Parts'
        BY <1>3 DEF RefreshDelete, DeleteKey
    <1>4. ASSUME NEW h \in Handlers, CacheHash(h) PROVE Parts'
        BY <1>4 DEF CacheHash, PutHash
    <1>5. ASSUME NEW h \in Handlers, CacheTtl(h) PROVE Parts'
        BY <1>5 DEF CacheTtl, ExpireKey, Touch
    <1>6. ASSUME NEW h \in Handlers, CacheIndex(h) PROVE Parts'
        BY <1>6 DEF CacheIndex
    <1>7. ASSUME NEW h \in Handlers, CacheFails(h) PROVE Parts'
        BY <1>7 DEF CacheFails
    <1>8. ASSUME NEW h \in Handlers, Reply(h) PROVE Parts'
        BY <1>8 DEF Reply
    <1>9. ASSUME NEW h \in Handlers, RevokeRead(h) PROVE Parts'
        BY <1>9 DEF RevokeRead
    <1>10. ASSUME NEW h \in Handlers, RevokeCommit(h) PROVE Parts'
        BY <1>10 DEF RevokeCommit
    <1>11. ASSUME NEW h \in Handlers, LockTimesOut(h) PROVE Parts'
        BY <1>11 DEF LockTimesOut
    <1>12. ASSUME NEW h \in Handlers, NEW s \in Sessions, ExchangeCommit(h, s) PROVE Parts'
        BY <1>12 DEF ExchangeCommit
    <1>13. ASSUME NEW h \in Handlers, NEW s \in Sessions, RefreshRead(h, s) PROVE Parts'
        BY <1>13 DEF RefreshRead
    <1>14. ASSUME NEW h \in Handlers, NEW s \in Sessions, RefreshCommit(h, s) PROVE Parts'
        BY <1>14 DEF RefreshCommit
    <1>15. ASSUME NEW h \in Handlers, NEW s \in Sessions, RevokeDelete(h, s) PROVE Parts'
        BY <1>15 DEF RevokeDelete, DeleteKey
    <1>16. ASSUME NEW a \in Agents, ExtendKey(a) PROVE Parts'
        BY <1>16 DEF ExtendKey, ExpireKey, Touch
    <1>17. ASSUME NEW a \in Agents, ExtendIndex(a) PROVE Parts'
        BY <1>17 DEF ExtendIndex
    <1>18. ASSUME NEW a \in Agents, RecordUse(a) PROVE Parts'
        BY <1>18 DEF RecordUse
    <1>19. ASSUME NEW a \in Agents, UseFails(a) PROVE Parts'
        BY <1>19 DEF UseFails
    <1>20. ASSUME NEW a \in Agents, NEW s \in Sessions, Lookup(a, s) PROVE Parts'
        BY <1>20 DEF Lookup
    <1>21. ASSUME NEW s \in Sessions, SyncHash(s) PROVE Parts'
        BY <1>21 DEF SyncHash, PutHash
    <1>22. CASE Restart
        BY <1>22 DEF Restart
    <1>23. CASE SyncTtl
        BY <1>23 DEF SyncTtl, ExpireKey
    <1>24. CASE SyncFails
        BY <1>24 DEF SyncFails
    <1>25. CASE SyncEnds
        BY <1>25 DEF SyncEnds
    <1>26. CASE Tick
        BY <1>26 DEF Tick
    <1>27. CASE RedisDown
        BY <1>27 DEF RedisDown
    <1>28. CASE RedisBack
        BY <1>28 DEF RedisBack
    <1>29. CASE RedisWiped
        BY <1>29 DEF RedisWiped
    <1>30. CASE UNCHANGED vars
        BY <1>30 DEF vars
    <1> QED
        BY <1>1, <1>2, <1>3, <1>4, <1>5, <1>6, <1>7, <1>8, <1>9, <1>10, <1>11,
           <1>12, <1>13, <1>14, <1>15, <1>16, <1>17, <1>18, <1>19, <1>20, <1>21,
           <1>22, <1>23, <1>24, <1>25, <1>26, <1>27, <1>28, <1>29, <1>30
           DEF Next, Granting, Revoking, Using, Restarting, Environment

\* Steps keep the windows.
LEMMA WindowsStep == IInv /\ [Next]_vars => Windows'
    <1> SUFFICES ASSUME TypeOK, RedisKept, SyncAlone, NewPrivate, IssuedKnown, Windows, [Next]_vars PROVE Windows'
        BY DEF IInv, Parts
    <1> USE DEF TypeOK, Caching, Live, Goto, dbVars, redisVars, ghostVars, handlerVars, agentVars, syncVars, envVars,
                RedisKept, SyncAlone, NewPrivate, Private, IssuedKnown,
                Windows, RowInWindow, KeyInWindow, Unfinished
    <1>1. ASSUME NEW h \in Handlers, ExchangeRead(h) PROVE Windows'
        BY <1>1 DEF ExchangeRead
    <1>2. ASSUME NEW h \in Handlers, RefreshClient(h) PROVE Windows'
        BY <1>2 DEF RefreshClient
    <1>3. ASSUME NEW h \in Handlers, RefreshDelete(h) PROVE Windows'
        BY <1>3 DEF RefreshDelete, DeleteKey
    <1>4. ASSUME NEW h \in Handlers, CacheHash(h) PROVE Windows'
        BY <1>4 DEF CacheHash, PutHash
    <1>5. ASSUME NEW h \in Handlers, CacheTtl(h) PROVE Windows'
        BY <1>5 DEF CacheTtl, ExpireKey, Touch
    <1>6. ASSUME NEW h \in Handlers, CacheIndex(h) PROVE Windows'
        BY <1>6 DEF CacheIndex
    <1>7. ASSUME NEW h \in Handlers, CacheFails(h) PROVE Windows'
        BY <1>7 DEF CacheFails
    <1>8. ASSUME NEW h \in Handlers, Reply(h) PROVE Windows'
        BY <1>8 DEF Reply
    <1>9. ASSUME NEW h \in Handlers, RevokeRead(h) PROVE Windows'
        BY <1>9 DEF RevokeRead
    <1>10. ASSUME NEW h \in Handlers, RevokeCommit(h) PROVE Windows'
        BY <1>10 DEF RevokeCommit
    <1>11. ASSUME NEW h \in Handlers, LockTimesOut(h) PROVE Windows'
        BY <1>11 DEF LockTimesOut
    <1>12. ASSUME NEW h \in Handlers, NEW s \in Sessions, ExchangeCommit(h, s) PROVE Windows'
        BY <1>12 DEF ExchangeCommit
    <1>13. ASSUME NEW h \in Handlers, NEW s \in Sessions, RefreshRead(h, s) PROVE Windows'
        BY <1>13 DEF RefreshRead
    <1>14. ASSUME NEW h \in Handlers, NEW s \in Sessions, RefreshCommit(h, s) PROVE Windows'
        BY <1>14 DEF RefreshCommit
    <1>15. ASSUME NEW h \in Handlers, NEW s \in Sessions, RevokeDelete(h, s) PROVE Windows'
        BY <1>15 DEF RevokeDelete, DeleteKey
    <1>16. ASSUME NEW a \in Agents, ExtendKey(a) PROVE Windows'
        BY <1>16 DEF ExtendKey, ExpireKey, Touch
    <1>17. ASSUME NEW a \in Agents, ExtendIndex(a) PROVE Windows'
        BY <1>17 DEF ExtendIndex
    <1>18. ASSUME NEW a \in Agents, RecordUse(a) PROVE Windows'
        BY <1>18 DEF RecordUse
    <1>19. ASSUME NEW a \in Agents, UseFails(a) PROVE Windows'
        BY <1>19 DEF UseFails
    <1>20. ASSUME NEW a \in Agents, NEW s \in Sessions, Lookup(a, s) PROVE Windows'
        BY <1>20 DEF Lookup
    <1>21. ASSUME NEW s \in Sessions, SyncHash(s) PROVE Windows'
        BY <1>21 DEF SyncHash, PutHash
    <1>22. CASE Restart
        <2>1. RowInWindow'
            BY <1>22 DEF Restart
        <2>2. \A s \in Sessions : client = "active" /\ Unfinished(s) => s \in syncTodo'
            <3> SUFFICES ASSUME NEW s \in Sessions, client = "active", Unfinished(s)
                         PROVE  s \in Live /\ rowLeft[s] > 0
                BY <1>22 DEF Restart
            <3>1. CASE s \in syncTodo
                BY <3>1
            <3>2. CASE s \notin syncTodo
                BY <3>2
            <3> QED
                BY <3>1, <3>2
        <2>3. KeyInWindow'
            BY <1>22, <2>2 DEF Restart
        <2> QED
            BY <2>1, <2>3
    <1>23. CASE SyncTtl
        BY <1>23 DEF SyncTtl, ExpireKey
    <1>24. CASE SyncFails
        BY <1>24 DEF SyncFails
    <1>25. CASE SyncEnds
        BY <1>25 DEF SyncEnds
    <1>26. CASE Tick
        BY <1>26 DEF Tick
    <1>27. CASE RedisDown
        BY <1>27 DEF RedisDown
    <1>28. CASE RedisBack
        BY <1>28 DEF RedisBack
    <1>29. CASE RedisWiped
        BY <1>29 DEF RedisWiped
    <1>30. CASE UNCHANGED vars
        BY <1>30 DEF vars
    <1> QED
        BY <1>1, <1>2, <1>3, <1>4, <1>5, <1>6, <1>7, <1>8, <1>9, <1>10, <1>11,
           <1>12, <1>13, <1>14, <1>15, <1>16, <1>17, <1>18, <1>19, <1>20, <1>21,
           <1>22, <1>23, <1>24, <1>25, <1>26, <1>27, <1>28, <1>29, <1>30
           DEF Next, Granting, Revoking, Using, Restarting, Environment

\* Steps keep what is known of the write lock and of an undisturbed system.
LEMMA LocksStep == IInv /\ [Next]_vars => LockKnown' /\ Undisturbed'
    <1> SUFFICES ASSUME TypeOK, SyncAlone, LockKnown, Undisturbed, [Next]_vars
                 PROVE  LockKnown' /\ Undisturbed'
        BY DEF IInv, Parts, Acceptance
    <1> USE DEF TypeOK, Live, Goto, dbVars, redisVars, ghostVars, handlerVars, agentVars, syncVars, envVars,
                Caching, SyncAlone, LockKnown, Undisturbed
    <1>1. ASSUME NEW h \in Handlers, ExchangeRead(h) PROVE LockKnown' /\ Undisturbed'
        BY <1>1 DEF ExchangeRead
    <1>2. ASSUME NEW h \in Handlers, RefreshClient(h) PROVE LockKnown' /\ Undisturbed'
        BY <1>2 DEF RefreshClient
    <1>3. ASSUME NEW h \in Handlers, RefreshDelete(h) PROVE LockKnown' /\ Undisturbed'
        BY <1>3 DEF RefreshDelete, DeleteKey
    <1>4. ASSUME NEW h \in Handlers, CacheHash(h) PROVE LockKnown' /\ Undisturbed'
        BY <1>4 DEF CacheHash, PutHash
    <1>5. ASSUME NEW h \in Handlers, CacheTtl(h) PROVE LockKnown' /\ Undisturbed'
        BY <1>5 DEF CacheTtl, ExpireKey, Touch
    <1>6. ASSUME NEW h \in Handlers, CacheIndex(h) PROVE LockKnown' /\ Undisturbed'
        BY <1>6 DEF CacheIndex
    <1>7. ASSUME NEW h \in Handlers, CacheFails(h) PROVE LockKnown' /\ Undisturbed'
        BY <1>7 DEF CacheFails
    <1>8. ASSUME NEW h \in Handlers, Reply(h) PROVE LockKnown' /\ Undisturbed'
        BY <1>8 DEF Reply
    <1>9. ASSUME NEW h \in Handlers, RevokeRead(h) PROVE LockKnown' /\ Undisturbed'
        BY <1>9 DEF RevokeRead
    <1>10. ASSUME NEW h \in Handlers, RevokeCommit(h) PROVE LockKnown' /\ Undisturbed'
        BY <1>10 DEF RevokeCommit
    <1>11. ASSUME NEW h \in Handlers, LockTimesOut(h) PROVE LockKnown' /\ Undisturbed'
        BY <1>11 DEF LockTimesOut
    <1>12. ASSUME NEW h \in Handlers, NEW s \in Sessions, ExchangeCommit(h, s) PROVE LockKnown' /\ Undisturbed'
        BY <1>12 DEF ExchangeCommit
    <1>13. ASSUME NEW h \in Handlers, NEW s \in Sessions, RefreshRead(h, s) PROVE LockKnown' /\ Undisturbed'
        BY <1>13 DEF RefreshRead
    <1>14. ASSUME NEW h \in Handlers, NEW s \in Sessions, RefreshCommit(h, s) PROVE LockKnown' /\ Undisturbed'
        BY <1>14 DEF RefreshCommit
    <1>15. ASSUME NEW h \in Handlers, NEW s \in Sessions, RevokeDelete(h, s) PROVE LockKnown' /\ Undisturbed'
        BY <1>15 DEF RevokeDelete, DeleteKey
    <1>16. ASSUME NEW a \in Agents, ExtendKey(a) PROVE LockKnown' /\ Undisturbed'
        BY <1>16 DEF ExtendKey, ExpireKey, Touch
    <1>17. ASSUME NEW a \in Agents, ExtendIndex(a) PROVE LockKnown' /\ Undisturbed'
        BY <1>17 DEF ExtendIndex
    <1>18. ASSUME NEW a \in Agents, RecordUse(a) PROVE LockKnown' /\ Undisturbed'
        BY <1>18 DEF RecordUse
    <1>19. ASSUME NEW a \in Agents, UseFails(a) PROVE LockKnown' /\ Undisturbed'
        BY <1>19 DEF UseFails
    <1>20. ASSUME NEW a \in Agents, NEW s \in Sessions, Lookup(a, s) PROVE LockKnown' /\ Undisturbed'
        BY <1>20 DEF Lookup
    <1>21. ASSUME NEW s \in Sessions, SyncHash(s) PROVE LockKnown' /\ Undisturbed'
        BY <1>21 DEF SyncHash, PutHash
    <1>22. CASE Restart
        BY <1>22 DEF Restart
    <1>23. CASE SyncTtl
        BY <1>23 DEF SyncTtl, ExpireKey
    <1>24. CASE SyncFails
        BY <1>24 DEF SyncFails
    <1>25. CASE SyncEnds
        BY <1>25 DEF SyncEnds
    <1>26. CASE Tick
        BY <1>26 DEF Tick
    <1>27. CASE RedisDown
        BY <1>27 DEF RedisDown
    <1>28. CASE RedisBack
        BY <1>28 DEF RedisBack
    <1>29. CASE RedisWiped
        BY <1>29 DEF RedisWiped
    <1>30. CASE UNCHANGED vars
        BY <1>30 DEF vars
    <1> QED
        BY <1>1, <1>2, <1>3, <1>4, <1>5, <1>6, <1>7, <1>8, <1>9, <1>10, <1>11,
           <1>12, <1>13, <1>14, <1>15, <1>16, <1>17, <1>18, <1>19, <1>20, <1>21,
           <1>22, <1>23, <1>24, <1>25, <1>26, <1>27, <1>28, <1>29, <1>30
           DEF Next, Granting, Revoking, Using, Restarting, Environment

\* Steps keep the hash of a session that is not revoked until its window ends.
LEMMA KeyKeptStep == IInv /\ [Next]_vars => KeyKept'
    <1> SUFFICES ASSUME TypeOK, SyncAlone, NewPrivate, IssuedKnown, RowInWindow,
                        LockKnown, Undisturbed, KeyKept, [Next]_vars
                 PROVE  KeyKept'
        BY DEF IInv, Parts, Windows, Acceptance
    <1> USE DEF TypeOK, Live, Goto, dbVars, redisVars, ghostVars, handlerVars, agentVars, syncVars, envVars,
                Caching, SyncAlone, NewPrivate, Private, IssuedKnown, RowInWindow,
                LockKnown, Undisturbed, KeyKept, Cached, Hashed, Aimed
    <1>1. ASSUME NEW h \in Handlers, ExchangeRead(h) PROVE KeyKept'
        BY <1>1 DEF ExchangeRead
    <1>2. ASSUME NEW h \in Handlers, RefreshClient(h) PROVE KeyKept'
        BY <1>2 DEF RefreshClient
    <1>3. ASSUME NEW h \in Handlers, RefreshDelete(h) PROVE KeyKept'
        BY <1>3 DEF RefreshDelete, DeleteKey
    <1>4. ASSUME NEW h \in Handlers, CacheHash(h) PROVE KeyKept'
        BY <1>4 DEF CacheHash, PutHash
    <1>5. ASSUME NEW h \in Handlers, CacheTtl(h) PROVE KeyKept'
        BY <1>5 DEF CacheTtl, ExpireKey, Touch
    <1>6. ASSUME NEW h \in Handlers, CacheIndex(h) PROVE KeyKept'
        BY <1>6 DEF CacheIndex
    <1>7. ASSUME NEW h \in Handlers, CacheFails(h) PROVE KeyKept'
        BY <1>7 DEF CacheFails
    <1>8. ASSUME NEW h \in Handlers, Reply(h) PROVE KeyKept'
        BY <1>8 DEF Reply
    <1>9. ASSUME NEW h \in Handlers, RevokeRead(h) PROVE KeyKept'
        BY <1>9 DEF RevokeRead
    <1>10. ASSUME NEW h \in Handlers, RevokeCommit(h) PROVE KeyKept'
        BY <1>10 DEF RevokeCommit
    <1>11. ASSUME NEW h \in Handlers, LockTimesOut(h) PROVE KeyKept'
        BY <1>11 DEF LockTimesOut
    <1>12. ASSUME NEW h \in Handlers, NEW s \in Sessions, ExchangeCommit(h, s) PROVE KeyKept'
        BY <1>12 DEF ExchangeCommit
    <1>13. ASSUME NEW h \in Handlers, NEW s \in Sessions, RefreshRead(h, s) PROVE KeyKept'
        BY <1>13 DEF RefreshRead
    <1>14. ASSUME NEW h \in Handlers, NEW s \in Sessions, RefreshCommit(h, s) PROVE KeyKept'
        BY <1>14 DEF RefreshCommit
    <1>15. ASSUME NEW h \in Handlers, NEW s \in Sessions, RevokeDelete(h, s) PROVE KeyKept'
        BY <1>15 DEF RevokeDelete, DeleteKey
    <1>16. ASSUME NEW a \in Agents, ExtendKey(a) PROVE KeyKept'
        BY <1>16 DEF ExtendKey, ExpireKey, Touch
    <1>17. ASSUME NEW a \in Agents, ExtendIndex(a) PROVE KeyKept'
        BY <1>17 DEF ExtendIndex
    <1>18. ASSUME NEW a \in Agents, RecordUse(a) PROVE KeyKept'
        BY <1>18 DEF RecordUse
    <1>19. ASSUME NEW a \in Agents, UseFails(a) PROVE KeyKept'
        BY <1>19 DEF UseFails
    <1>20. ASSUME NEW a \in Agents, NEW s \in Sessions, Lookup(a, s) PROVE KeyKept'
        BY <1>20 DEF Lookup
    <1>21. ASSUME NEW s \in Sessions, SyncHash(s) PROVE KeyKept'
        BY <1>21 DEF SyncHash, PutHash
    <1>22. CASE Restart
        BY <1>22 DEF Restart
    <1>23. CASE SyncTtl
        BY <1>23 DEF SyncTtl, ExpireKey
    <1>24. CASE SyncFails
        BY <1>24 DEF SyncFails
    <1>25. CASE SyncEnds
        BY <1>25 DEF SyncEnds
    <1>26. CASE Tick
        BY <1>26 DEF Tick
    <1>27. CASE RedisDown
        BY <1>27 DEF RedisDown
    <1>28. CASE RedisBack
        BY <1>28 DEF RedisBack
    <1>29. CASE RedisWiped
        BY <1>29 DEF RedisWiped
    <1>30. CASE UNCHANGED vars
        BY <1>30 DEF vars
    <1> QED
        BY <1>1, <1>2, <1>3, <1>4, <1>5, <1>6, <1>7, <1>8, <1>9, <1>10, <1>11,
           <1>12, <1>13, <1>14, <1>15, <1>16, <1>17, <1>18, <1>19, <1>20, <1>21,
           <1>22, <1>23, <1>24, <1>25, <1>26, <1>27, <1>28, <1>29, <1>30
           DEF Next, Granting, Revoking, Using, Restarting, Environment

\* Steps keep it until the date of its row, whatever restarts.
LEMMA DatedKeyKeptStep == IInv /\ [Next]_vars => DatedKeyKept'
    <1> SUFFICES ASSUME TypeOK, SyncAlone, NewPrivate, IssuedKnown, RowInWindow,
                        RedisKept, LockKnown, DatedKeyKept, [Next]_vars
                 PROVE  DatedKeyKept'
        BY DEF IInv, Parts, Windows, Acceptance
    <1> USE DEF TypeOK, Live, Goto, dbVars, redisVars, ghostVars, handlerVars, agentVars, syncVars, envVars,
                Caching, SyncAlone, NewPrivate, Private, IssuedKnown, RowInWindow,
                RedisKept, LockKnown, DatedKeyKept, Cached, Hashed, Aimed
    <1>1. ASSUME NEW h \in Handlers, ExchangeRead(h) PROVE DatedKeyKept'
        BY <1>1 DEF ExchangeRead
    <1>2. ASSUME NEW h \in Handlers, RefreshClient(h) PROVE DatedKeyKept'
        BY <1>2 DEF RefreshClient
    <1>3. ASSUME NEW h \in Handlers, RefreshDelete(h) PROVE DatedKeyKept'
        BY <1>3 DEF RefreshDelete, DeleteKey
    <1>4. ASSUME NEW h \in Handlers, CacheHash(h) PROVE DatedKeyKept'
        BY <1>4 DEF CacheHash, PutHash
    <1>5. ASSUME NEW h \in Handlers, CacheTtl(h) PROVE DatedKeyKept'
        BY <1>5 DEF CacheTtl, ExpireKey, Touch
    <1>6. ASSUME NEW h \in Handlers, CacheIndex(h) PROVE DatedKeyKept'
        BY <1>6 DEF CacheIndex
    <1>7. ASSUME NEW h \in Handlers, CacheFails(h) PROVE DatedKeyKept'
        BY <1>7 DEF CacheFails
    <1>8. ASSUME NEW h \in Handlers, Reply(h) PROVE DatedKeyKept'
        BY <1>8 DEF Reply
    <1>9. ASSUME NEW h \in Handlers, RevokeRead(h) PROVE DatedKeyKept'
        BY <1>9 DEF RevokeRead
    <1>10. ASSUME NEW h \in Handlers, RevokeCommit(h) PROVE DatedKeyKept'
        BY <1>10 DEF RevokeCommit
    <1>11. ASSUME NEW h \in Handlers, LockTimesOut(h) PROVE DatedKeyKept'
        BY <1>11 DEF LockTimesOut
    <1>12. ASSUME NEW h \in Handlers, NEW s \in Sessions, ExchangeCommit(h, s) PROVE DatedKeyKept'
        BY <1>12 DEF ExchangeCommit
    <1>13. ASSUME NEW h \in Handlers, NEW s \in Sessions, RefreshRead(h, s) PROVE DatedKeyKept'
        BY <1>13 DEF RefreshRead
    <1>14. ASSUME NEW h \in Handlers, NEW s \in Sessions, RefreshCommit(h, s) PROVE DatedKeyKept'
        BY <1>14 DEF RefreshCommit
    <1>15. ASSUME NEW h \in Handlers, NEW s \in Sessions, RevokeDelete(h, s) PROVE DatedKeyKept'
        BY <1>15 DEF RevokeDelete, DeleteKey
    <1>16. ASSUME NEW a \in Agents, ExtendKey(a) PROVE DatedKeyKept'
        BY <1>16 DEF ExtendKey, ExpireKey, Touch
    <1>17. ASSUME NEW a \in Agents, ExtendIndex(a) PROVE DatedKeyKept'
        BY <1>17 DEF ExtendIndex
    <1>18. ASSUME NEW a \in Agents, RecordUse(a) PROVE DatedKeyKept'
        BY <1>18 DEF RecordUse
    <1>19. ASSUME NEW a \in Agents, UseFails(a) PROVE DatedKeyKept'
        BY <1>19 DEF UseFails
    <1>20. ASSUME NEW a \in Agents, NEW s \in Sessions, Lookup(a, s) PROVE DatedKeyKept'
        BY <1>20 DEF Lookup
    <1>21. ASSUME NEW s \in Sessions, SyncHash(s) PROVE DatedKeyKept'
        BY <1>21 DEF SyncHash, PutHash
    <1>22. CASE Restart
        BY <1>22 DEF Restart
    <1>23. CASE SyncTtl
        BY <1>23 DEF SyncTtl, ExpireKey
    <1>24. CASE SyncFails
        BY <1>24 DEF SyncFails
    <1>25. CASE SyncEnds
        BY <1>25 DEF SyncEnds
    <1>26. CASE Tick
        BY <1>26 DEF Tick
    <1>27. CASE RedisDown
        BY <1>27 DEF RedisDown
    <1>28. CASE RedisBack
        BY <1>28 DEF RedisBack
    <1>29. CASE RedisWiped
        BY <1>29 DEF RedisWiped
    <1>30. CASE UNCHANGED vars
        BY <1>30 DEF vars
    <1> QED
        BY <1>1, <1>2, <1>3, <1>4, <1>5, <1>6, <1>7, <1>8, <1>9, <1>10, <1>11,
           <1>12, <1>13, <1>14, <1>15, <1>16, <1>17, <1>18, <1>19, <1>20, <1>21,
           <1>22, <1>23, <1>24, <1>25, <1>26, <1>27, <1>28, <1>29, <1>30
           DEF Next, Granting, Revoking, Using, Restarting, Environment

\* The invariant holds throughout.
THEOREM InvariantHolds == Spec => []IInv
    <1>1. IInv /\ [Next]_vars => IInv'
        BY TypeStep, PartsStep, WindowsStep, LocksStep, KeyKeptStep, DatedKeyKeptStep DEF IInv, Acceptance
    <1> QED
        BY InitHolds, <1>1, PTL DEF Spec

\* Types are preserved under every mix of faults.
THEOREM TypeCorrect == Spec => []TypeOK
    BY InvariantHolds, PTL DEF IInv

(***************************************************************************)
(* A session cut off by a refresh or with its client is never cached again *)
(* (revoke_oauth_client, refresh_access_token, the startup sync and the    *)
(* requests of validate_token in any order).                               *)
(***************************************************************************)
THEOREM CutStaysDead == Spec => []RevokedStaysDead
    BY InvariantHolds, PTL DEF IInv, Parts

(***************************************************************************)
(* A cached session dies within its sliding window.                        *)
(***************************************************************************)
THEOREM WindowHolds == Spec => []SlidingWindow
    <1>1. IInv => SlidingWindow
        BY DEF IInv, Parts, SyncAlone, Windows, KeyInWindow, Unfinished, SlidingWindow, BeingCached
    <1> QED
        BY InvariantHolds, <1>1, PTL

(***************************************************************************)
(* Without faults a session that is not revoked is accepted throughout its *)
(* window, whatever other handlers and requests do: no refresh of another  *)
(* session, no caching and no slide of an expiry takes its hash away       *)
(* early.  When the backend restarts, the start-up sync may end the window *)
(* early, at the date of the row, but not before it.                       *)
(***************************************************************************)
THEOREM WindowIsKept == Spec => []AcceptedInWindow
    <1>1. IInv => (faults = {} => WindowKept)
        BY DEF IInv, Acceptance, KeyKept, Cached, Aimed, WindowKept, NoRevocation
    <1>2. IInv => ("outage" \notin faults /\ "wipe" \notin faults /\ serving
                      /\ client = "active" => DateKept)
        BY DEF IInv, Parts, SyncAlone, Acceptance, DatedKeyKept, Cached, Aimed, DateKept, NoRevocation
    <1>3. IInv => AcceptedInWindow
        BY <1>1, <1>2 DEF AcceptedInWindow
    <1> QED
        BY InvariantHolds, <1>3, PTL

=============================================================================
