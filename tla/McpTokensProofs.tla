--------------------------- MODULE McpTokensProofs ---------------------------
(***************************************************************************)
(* Proofs about McpTokens for any set of tokens, any timeout, any number   *)
(* of concurrent requests and restarts, and every combination of faults.   *)
(***************************************************************************)
EXTENDS McpTokens, TLAPS

\* A DELETE is pending only for a revoked row.
DeletesRevoked == \A t \in pendingDel : db[t] = "revoked"

\* A SET that is pending for a token revoked meanwhile is on record.
SetTracked == pendingSet \ Active \subseteq stray

\* So is a row of the running fill that was revoked after the SELECT.
FillTracked == phase = "fill" => todo \ Active \subseteq stray

\* Only tokens that were created are in use anywhere.
Created == {t \in Tokens : db[t] # "absent"}
OnlyCreated ==
    /\ mirror \union pendingSet \union todo \union used \subseteq Created
    /\ \A q \in Requests : stage[q] # "idle" => token[q] \in Created

\* What an undisturbed sync has done so far.
AloneSync ==
    /\ alone /\ phase # "off" => pendingSet = {} /\ pendingDel = {}
    /\ alone /\ phase = "scan" => mirror \subseteq todo
    /\ alone /\ phase = "fill" => /\ todo \subseteq Active
                                  /\ mirror \subseteq Active
                                  /\ Active \subseteq mirror \union todo

Parts == /\ NoActiveLost
         /\ NoOtherStray
         /\ DeletesRevoked
         /\ SetTracked
         /\ FillTracked
         /\ AloneSync
         /\ OnlyCreated

IInv == TypeOK /\ Parts

USE TokensKnown, BoundsPositive, FaultsKnown

-----------------------------------------------------------------------------
\* The initial states are well typed and lose nothing.
LEMMA InitHolds == Init => IInv
    <1> SUFFICES ASSUME Init PROVE IInv
        OBVIOUS
    <1>1. TypeOK
        <2>1. since \in [Tokens -> 0 .. Idle + 1]
            BY DEF Init
        <2>2. restarts \in 0 .. MaxRestarts
            BY DEF Init
        <2> QED
            BY <2>1, <2>2 DEF Init, TypeOK
    <1>2. Parts
        BY DEF Init, Parts, NoActiveLost, NoOtherStray, DeletesRevoked, SetTracked,
               FillTracked, AloneSync, OnlyCreated, Active, Created
    <1> QED
        BY <1>1, <1>2 DEF IInv

\* Steps keep the types.
LEMMA TypeStep == TypeOK /\ OnlyCreated /\ [Next]_vars => TypeOK'
    <1> SUFFICES ASSUME TypeOK, OnlyCreated, [Next]_vars PROVE TypeOK'
        OBVIOUS
    <1> USE DEF TypeOK, syncVars, usageVars, ghosts, envVars
    <1>1. CASE Sync
        <2>1. ASSUME BeginSync \/ SelectRows \/ EndSync \/ AbortSync PROVE TypeOK'
            BY <2>1 DEF BeginSync, SelectRows, EndSync, AbortSync, Active
        <2>2. ASSUME NEW t \in Tokens, ScanDelete(t) \/ FillToken(t) PROVE TypeOK'
            BY <2>2 DEF ScanDelete, FillToken
        <2> QED
            BY <1>1, <2>1, <2>2 DEF Sync, SyncRuns
    <1>2. ASSUME NEW t \in Tokens, Create(t) \/ PushToken(t) \/ Revoke(t) \/ DropToken(t)
          PROVE  TypeOK'
        <2>1. CASE Create(t)
            <3>1. since' \in [Tokens -> 0 .. Idle + 1]
                BY <2>1 DEF Create
            <3> QED
                BY <2>1, <3>1 DEF Create
        <2>2. CASE PushToken(t)
            BY <2>2 DEF PushToken
        <2>3. CASE Revoke(t)
            BY <2>3 DEF Revoke
        <2>4. CASE DropToken(t)
            BY <2>4 DEF DropToken
        <2> QED
            BY <1>2, <2>1, <2>2, <2>3, <2>4
    <1>3. CASE Validation
        <2>1. ASSUME NEW q \in Requests, NEW t \in Tokens, ReadToken(q, t) PROVE TypeOK'
            BY <2>1 DEF ReadToken
        <2>2. ASSUME NEW q \in Requests, CheckIdle(q) \/ RefuseRequest(q) PROVE TypeOK'
            BY <2>2 DEF CheckIdle, RefuseRequest
        <2>3. ASSUME NEW q \in Requests, RecordUse(q) PROVE TypeOK'
            BY <2>3 DEF RecordUse, OnlyCreated, Created
        <2> QED
            BY <1>3, <2>1, <2>2, <2>3 DEF Validation
    <1>4. CASE Tick
        BY <1>4 DEF Tick
    <1>5. CASE RedisDown \/ RedisBack \/ RedisWiped \/ Restart
        <2>1. CASE RedisDown \/ RedisBack
            BY <2>1 DEF RedisDown, RedisBack
        <2>2. CASE RedisWiped
            BY <2>2 DEF RedisWiped
        <2>3. CASE Restart
            <3>1. restarts' \in 0 .. MaxRestarts
                BY <2>3 DEF Restart
            <3> QED
                BY <2>3, <3>1 DEF Restart
        <2> QED
            BY <1>5, <2>1, <2>2, <2>3
    <1>6. CASE UNCHANGED vars
        BY <1>6 DEF vars
    <1> QED
        BY <1>1, <1>2, <1>3, <1>4, <1>5, <1>6 DEF Next, Handlers, Environment

\* Steps keep the rest of the invariant.
LEMMA PartsStep == IInv /\ [Next]_vars => Parts'
    <1> SUFFICES ASSUME IInv, [Next]_vars PROVE Parts'
        OBVIOUS
    <1> USE DEF IInv, TypeOK, Parts, NoActiveLost, NoOtherStray, DeletesRevoked, SetTracked,
                FillTracked, AloneSync, OnlyCreated, Active, Created, syncVars, usageVars, ghosts, envVars
    <1>1. CASE BeginSync
        BY <1>1 DEF BeginSync
    <1>2. CASE SelectRows
        BY <1>2 DEF SelectRows
    <1>3. CASE EndSync
        BY <1>3 DEF EndSync
    <1>4. CASE AbortSync
        BY <1>4 DEF AbortSync
    <1>5. ASSUME NEW t \in Tokens, ScanDelete(t) PROVE Parts'
        BY <1>5 DEF ScanDelete
    <1>6. ASSUME NEW t \in Tokens, FillToken(t) PROVE Parts'
        BY <1>6 DEF FillToken
    <1>7. ASSUME NEW t \in Tokens, Create(t) PROVE Parts'
        BY <1>7 DEF Create
    <1>8. ASSUME NEW t \in Tokens, PushToken(t) PROVE Parts'
        BY <1>8 DEF PushToken
    <1>9. ASSUME NEW t \in Tokens, Revoke(t) PROVE Parts'
        BY <1>9 DEF Revoke
    <1>10. ASSUME NEW t \in Tokens, DropToken(t) PROVE Parts'
        BY <1>10 DEF DropToken
    <1>11. CASE Validation
        BY <1>11 DEF Validation, ReadToken, CheckIdle, RecordUse, RefuseRequest
    <1>12. CASE Tick \/ RedisDown \/ RedisBack
        BY <1>12 DEF Tick, RedisDown, RedisBack
    <1>13. CASE RedisWiped
        BY <1>13 DEF RedisWiped
    <1>14. CASE Restart
        BY <1>14 DEF Restart
    <1>15. CASE UNCHANGED vars
        BY <1>15 DEF vars
    <1> QED
        BY <1>1, <1>2, <1>3, <1>4, <1>5, <1>6, <1>7, <1>8, <1>9, <1>10, <1>11, <1>12,
           <1>13, <1>14, <1>15 DEF Next, Sync, SyncRuns, Handlers, Environment

\* The invariant is inductive.
THEOREM InvariantHolds == Spec => []IInv
    <1>1. IInv /\ [Next]_vars => IInv'
        BY TypeStep, PartsStep DEF IInv, Parts
    <1> QED
        BY InitHolds, <1>1, PTL DEF Spec

-----------------------------------------------------------------------------
\* Types are preserved under every combination of faults.
THEOREM TypeCorrect == Spec => []TypeOK
    <1>1. IInv => TypeOK
        BY DEF IInv
    <1> QED
        BY InvariantHolds, <1>1, PTL

\* No interleaving of creates with a full sync loses an active token.
THEOREM ActiveKept == Spec => []NoActiveLost
    <1>1. IInv => NoActiveLost
        BY DEF IInv, Parts
    <1> QED
        BY InvariantHolds, <1>1, PTL

\* A key outlives its token's revocation only in the cases on record.
THEOREM StraysKnown == Spec => []NoOtherStray
    <1>1. IInv => NoOtherStray
        BY DEF IInv, Parts
    <1> QED
        BY InvariantHolds, <1>1, PTL

\* An undisturbed sync leaves exactly the active tokens in the mirror.
THEOREM SyncIsExact == Spec => SyncRepairs
    <1>1. IInv /\ [Next]_vars => [EndSync /\ alone => mirror = Active]_vars
        <2> SUFFICES ASSUME IInv, EndSync, alone PROVE mirror = Active
            OBVIOUS
        <2> QED
            BY DEF IInv, Parts, AloneSync, EndSync
    <1> QED
        BY InvariantHolds, <1>1, PTL DEF Spec, SyncRepairs

\* A token that expired for inactivity is never accepted again, as long as
\* Redis keeps its data.
THEOREM IdleIsForever == Spec => IdleIsFinal
    <1> DEFINE Final ==
            \A t \in Tokens : Expired(t) =>
                /\ PastCheck(t)' \subseteq PastCheck(t)
                /\ Expired(t)' \/ PastCheck(t)' # PastCheck(t) \/ t \notin used'
    <1>1. ASSUME IInv, Next PROVE Final
        <2> SUFFICES ASSUME NEW t \in Tokens, Expired(t)
                     PROVE  /\ PastCheck(t)' \subseteq PastCheck(t)
                            /\ Expired(t)' \/ PastCheck(t)' # PastCheck(t) \/ t \notin used'
            OBVIOUS
        <2> USE <1>1 DEF IInv, TypeOK, Expired, PastCheck, usageVars
        <2>1. CASE UNCHANGED usageVars
            BY <2>1
        <2>2. ASSUME NEW q \in Requests, NEW u \in Tokens, ReadToken(q, u)
              PROVE  UNCHANGED <<used, since>> /\ PastCheck(t)' \subseteq PastCheck(t)
            BY <2>2 DEF ReadToken
        <2>3. ASSUME NEW q \in Requests, CheckIdle(q) \/ RefuseRequest(q)
              PROVE  UNCHANGED <<used, since>> /\ PastCheck(t)' \subseteq PastCheck(t)
            BY <2>3 DEF CheckIdle, RefuseRequest
        <2>4. ASSUME NEW q \in Requests, RecordUse(q)
              PROVE  /\ PastCheck(t)' \subseteq PastCheck(t)
                     /\ Expired(t)' \/ PastCheck(t)' # PastCheck(t)
            <3>1. CASE token[q] = t
                BY <2>4, <3>1 DEF RecordUse
            <3>2. CASE token[q] # t
                BY <2>4, <3>2 DEF RecordUse
            <3> QED
                BY <3>1, <3>2
        <2>5. CASE Tick
            BY <2>5 DEF Tick
        <2>6. ASSUME NEW u \in Tokens, Create(u)
              PROVE  Expired(t)' /\ PastCheck(t)' = PastCheck(t)
            BY <2>6 DEF Create
        <2> QED
            BY <2>1, <2>2, <2>3, <2>4, <2>5, <2>6
            DEF Next, Sync, SyncRuns, Handlers, Validation, Environment, BeginSync,
                SelectRows, EndSync, AbortSync, ScanDelete, FillToken, PushToken, Revoke,
                DropToken, RedisDown, RedisBack, RedisWiped, Restart
    <1>2. IInv /\ [Next]_vars => [Final]_vars
        BY <1>1
    <1> QED
        BY InvariantHolds, <1>2, PTL DEF Spec, IdleIsFinal
=============================================================================
