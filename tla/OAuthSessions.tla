---------------------------- MODULE OAuthSessions ----------------------------
(***************************************************************************)
(* The OAuth sessions of one client of the agent MCP server.               *)
(*                                                                         *)
(* The backend (services/agent_auth.py) keeps the client and its sessions  *)
(* in SQLite and caches each session in Redis: a hash with the token's     *)
(* bcrypt hash (agent:oauth:<id>) and an index from the token's prefix to  *)
(* it.  The agent MCP server (agent_mcp/auth.py) accepts a token by what   *)
(* it finds in Redis and slides both expiries with each accepted request.  *)
(* Every await of a handler is a step of its own.                          *)
(*                                                                         *)
(* faults, chosen once per behaviour, may contain                          *)
(*   "restart"  the backend restarts: its handlers are gone, its database  *)
(*              transaction is rolled back, its startup sync runs before   *)
(*              it serves requests                                         *)
(*   "outage"   Redis is unreachable for a while                           *)
(*   "wipe"     Redis loses its data                                       *)
(***************************************************************************)
EXTENDS Integers, FiniteSets

CONSTANTS Sessions,     \* sessions that may be issued
          Handlers,     \* concurrent handlers of the backend
          Agents,       \* concurrent requests at the agent MCP server
          Idle,         \* idle_timeout_seconds, in ticks
          MaxRestarts,  \* bound on the restarts of a behaviour
          NoSession, NoHandler,
          FaultMixes

AllFaults == {"restart", "outage", "wipe"}

ASSUME NamesDistinct == NoSession \notin Sessions /\ NoHandler \notin Handlers
ASSUME BoundsPositive == Idle \in Nat \ {0} /\ MaxRestarts \in Nat
ASSUME FaultsKnown == FaultMixes \subseteq SUBSET AllFaults

VARIABLES
    client,     \* the client is revoked
    row,        \* row[s]: the AgentSession of s
    rowLeft,    \* ticks until expires_at of that row
    writer,     \* handler that holds SQLite's write lock
    key,        \* key[s]: the hash of s; a "stub" has no token in it
    keyLeft,    \* ticks until it expires, 0 when it has no expiry
    idxLeft,    \* ticks until the prefix index of s expires, 0 when absent
    issued,     \* sessions whose tokens the agent has received
    idle,       \* idle[s]: ticks since s was cached or last accepted
    due,        \* ghost: sessions handed out before revoke handler h read them
    cut,        \* ghost: such sessions once their revocation is complete
    hpc, new, old, aim, todo,  \* the handlers: program counter and locals
    apc, at, via,              \* the agents' requests: likewise
    syncTodo, syncAt,          \* the startup sync
    serving, redisUp, restarts, faults

dbVars == <<client, row, rowLeft, writer>>
redisVars == <<key, keyLeft, idxLeft>>
ghostVars == <<issued, idle, due, cut>>
handlerVars == <<hpc, new, old, aim, todo>>
agentVars == <<apc, at, via>>
syncVars == <<syncTodo, syncAt>>
envVars == <<serving, redisUp, restarts, faults>>
vars == <<dbVars, redisVars, ghostVars, handlerVars, agentVars, syncVars, envVars>>

Live == {s \in Sessions : row[s] = "active"}
Caching == {"reDelete", "hash", "ttl", "index"}
HandlerPoints == {"idle", "exCommit", "reClient", "reCommit", "reply", "rvDelete"}
                     \union Caching

TypeOK ==
    /\ client \in {"active", "revoked"}
    /\ row \in [Sessions -> {"none", "active", "revoked"}]
    /\ rowLeft \in [Sessions -> 0 .. Idle]
    /\ writer \in Handlers \union {NoHandler}
    /\ key \in [Sessions -> {"none", "full", "stub"}]
    /\ keyLeft \in [Sessions -> 0 .. Idle]
    /\ idxLeft \in [Sessions -> 0 .. Idle]
    /\ issued \subseteq Sessions
    /\ idle \in [Sessions -> 0 .. Idle]
    /\ due \in [Handlers -> SUBSET Sessions]
    /\ cut \subseteq Sessions
    /\ hpc \in [Handlers -> HandlerPoints]
    /\ new \in [Handlers -> Sessions \union {NoSession}]
    /\ old \in [Handlers -> Sessions \union {NoSession}]
    /\ aim \in [Handlers -> SUBSET Sessions]
    /\ todo \in [Handlers -> SUBSET Sessions]
    /\ apc \in [Agents -> {"idle", "verified", "extended", "indexed"}]
    /\ at \in [Agents -> Sessions \union {NoSession}]
    /\ via \in [Agents -> {"index", "scan"}]
    /\ syncTodo \subseteq Sessions
    /\ syncAt \in Sessions \union {NoSession}
    /\ serving \in BOOLEAN
    /\ redisUp \in BOOLEAN
    /\ restarts \in 0 .. MaxRestarts
    /\ faults \in SUBSET AllFaults

Init ==
    /\ client = "active"
    /\ row = [s \in Sessions |-> "none"]
    /\ rowLeft = [s \in Sessions |-> 0]
    /\ writer = NoHandler
    /\ key = [s \in Sessions |-> "none"]
    /\ keyLeft = [s \in Sessions |-> 0]
    /\ idxLeft = [s \in Sessions |-> 0]
    /\ issued = {}
    /\ idle = [s \in Sessions |-> 0]
    /\ due = [h \in Handlers |-> {}]
    /\ cut = {}
    /\ hpc = [h \in Handlers |-> "idle"]
    /\ new = [h \in Handlers |-> NoSession]
    /\ old = [h \in Handlers |-> NoSession]
    /\ aim = [h \in Handlers |-> {}]
    /\ todo = [h \in Handlers |-> {}]
    /\ apc = [a \in Agents |-> "idle"]
    /\ at = [a \in Agents |-> NoSession]
    /\ via = [a \in Agents |-> "index"]
    /\ syncTodo = {}
    /\ syncAt = NoSession
    /\ serving = TRUE
    /\ redisUp = TRUE
    /\ restarts = 0
    /\ faults \in FaultMixes

Goto(h, from, to) ==
    /\ hpc[h] = from
    /\ hpc' = [hpc EXCEPT ![h] = to]

-----------------------------------------------------------------------------
(* Redis commands on one session *)

\* HSET of the whole hash keeps the expiry of a key that exists.
PutHash(s) ==
    /\ key' = [key EXCEPT ![s] = "full"]
    /\ UNCHANGED <<keyLeft, idxLeft>>

\* EXPIRE does nothing when the key is gone.
ExpireKey(s, left) ==
    /\ keyLeft' = [keyLeft EXCEPT ![s] = IF key[s] = "none" THEN 0 ELSE left]
    /\ UNCHANGED <<key, idxLeft>>

DeleteKey(s) ==
    /\ key' = [key EXCEPT ![s] = "none"]
    /\ keyLeft' = [keyLeft EXCEPT ![s] = 0]
    /\ UNCHANGED idxLeft

\* A request the window of s has seen: cached or accepted.
Touch(s) == idle' = [idle EXCEPT ![s] = IF key[s] = "full" THEN 0 ELSE @]

-----------------------------------------------------------------------------
(* exchange_credentials *)

\* Bound: there is a session left for every handler that may commit one.
SessionLeft ==
    Cardinality({h \in Handlers : hpc[h] \in {"exCommit", "reClient", "reCommit"}})
        < Cardinality({s \in Sessions : row[s] = "none"})

ExchangeRead(h) ==
    /\ serving
    /\ SessionLeft
    /\ client = "active"
    /\ Goto(h, "idle", "exCommit")
    /\ UNCHANGED <<dbVars, redisVars, ghostVars, new, old, aim, todo, agentVars, syncVars, envVars>>

\* The commit waits for the write lock; the client is not read again.
ExchangeCommit(h, s) ==
    /\ Goto(h, "exCommit", "hash")
    /\ writer = NoHandler
    /\ row[s] = "none"
    /\ row' = [row EXCEPT ![s] = "active"]
    /\ rowLeft' = [rowLeft EXCEPT ![s] = Idle]
    /\ new' = [new EXCEPT ![h] = s]
    /\ UNCHANGED <<client, writer, redisVars, ghostVars, old, aim, todo, agentVars, syncVars, envVars>>

(* refresh_access_token *)

\* All unrevoked sessions are read and compared; expiry does not matter.
RefreshRead(h, s) ==
    /\ serving
    /\ SessionLeft
    /\ s \in issued \intersect Live
    /\ Goto(h, "idle", "reClient")
    /\ old' = [old EXCEPT ![h] = s]
    /\ UNCHANGED <<dbVars, redisVars, ghostVars, new, aim, todo, agentVars, syncVars, envVars>>

RefreshClient(h) ==
    /\ Goto(h, "reClient", IF client = "active" THEN "reCommit" ELSE "idle")
    /\ old' = [old EXCEPT ![h] = IF client = "active" THEN @ ELSE NoSession]
    /\ UNCHANGED <<dbVars, redisVars, ghostVars, new, aim, todo, agentVars, syncVars, envVars>>

RefreshCommit(h, s) ==
    /\ Goto(h, "reCommit", "reDelete")
    /\ writer = NoHandler
    /\ row[s] = "none"
    /\ row' = [row EXCEPT ![s] = "active", ![old[h]] = "revoked"]
    /\ rowLeft' = [rowLeft EXCEPT ![s] = Idle]
    /\ new' = [new EXCEPT ![h] = s]
    /\ UNCHANGED <<client, writer, redisVars, ghostVars, old, aim, todo, agentVars, syncVars, envVars>>

RefreshDelete(h) ==
    /\ redisUp
    /\ Goto(h, "reDelete", "hash")
    /\ DeleteKey(old[h])
    /\ cut' = cut \union {old[h]}
    /\ UNCHANGED <<dbVars, issued, idle, due, new, old, aim, todo, agentVars, syncVars, envVars>>

(* Both: cache the new session, then answer with its tokens. *)

CacheHash(h) ==
    /\ redisUp
    /\ Goto(h, "hash", "ttl")
    /\ PutHash(new[h])
    /\ UNCHANGED <<dbVars, ghostVars, new, old, aim, todo, agentVars, syncVars, envVars>>

CacheTtl(h) ==
    /\ redisUp
    /\ Goto(h, "ttl", "index")
    /\ ExpireKey(new[h], Idle)
    /\ Touch(new[h])
    /\ UNCHANGED <<dbVars, issued, due, cut, new, old, aim, todo, agentVars, syncVars, envVars>>

\* Mutant: minutes and seconds mixed up.
CacheIndex_Doubled(h) ==
    /\ redisUp
    /\ Goto(h, "index", "reply")
    /\ idxLeft' = [idxLeft EXCEPT ![new[h]] = 2 * Idle]
    /\ UNCHANGED <<dbVars, key, keyLeft, ghostVars, new, old, aim, todo, agentVars, syncVars, envVars>>

CacheIndex(h) ==
    /\ redisUp
    /\ Goto(h, "index", "reply")
    /\ idxLeft' = [idxLeft EXCEPT ![new[h]] = Idle]
    /\ UNCHANGED <<dbVars, key, keyLeft, ghostVars, new, old, aim, todo, agentVars, syncVars, envVars>>

\* An error of any of these commands ends the caching; it is only logged.
CacheFails(h) ==
    /\ ~redisUp
    /\ hpc[h] \in Caching
    /\ hpc' = [hpc EXCEPT ![h] = "reply"]
    /\ UNCHANGED <<dbVars, redisVars, ghostVars, new, old, aim, todo, agentVars, syncVars, envVars>>

Reply(h) ==
    /\ Goto(h, "reply", "idle")
    /\ issued' = issued \union {new[h]}
    /\ new' = [new EXCEPT ![h] = NoSession]
    /\ old' = [old EXCEPT ![h] = NoSession]
    /\ UNCHANGED <<dbVars, redisVars, idle, due, cut, aim, todo, agentVars, syncVars, envVars>>

-----------------------------------------------------------------------------
(* revoke_oauth_client *)

\* The SELECT of the sessions first flushes client.revoked = True, which
\* takes the write lock unless the client was revoked before.
RevokeRead(h) ==
    /\ serving
    /\ Goto(h, "idle", "rvDelete")
    /\ client = "active" => writer = NoHandler
    /\ writer' = IF client = "active" THEN h ELSE writer
    /\ todo' = [todo EXCEPT ![h] = Live]
    /\ aim' = [aim EXCEPT ![h] = Live]
    /\ due' = [due EXCEPT ![h] = Live \intersect issued]
    /\ UNCHANGED <<client, row, rowLeft, redisVars, issued, idle, cut, new, old, agentVars, syncVars, envVars>>

\* Mutant: the loop stops after the first session.
RevokeDelete_First(h, s) ==
    /\ hpc[h] = "rvDelete"
    /\ s \in todo[h]
    /\ IF redisUp THEN DeleteKey(s) ELSE UNCHANGED redisVars
    /\ todo' = [todo EXCEPT ![h] = {}]
    /\ UNCHANGED <<dbVars, ghostVars, hpc, new, old, aim, agentVars, syncVars, envVars>>

\* A failing DELETE is swallowed.
RevokeDelete(h, s) ==
    /\ hpc[h] = "rvDelete"
    /\ s \in todo[h]
    /\ IF redisUp THEN DeleteKey(s) ELSE UNCHANGED redisVars
    /\ todo' = [todo EXCEPT ![h] = @ \ {s}]
    /\ UNCHANGED <<dbVars, ghostVars, hpc, new, old, aim, agentVars, syncVars, envVars>>

RevokeCommit(h) ==
    /\ Goto(h, "rvDelete", "idle")
    /\ todo[h] = {}
    /\ writer \in {h, NoHandler}
    /\ writer' = NoHandler
    /\ client' = "revoked"
    /\ row' = [s \in Sessions |-> IF s \in aim[h] THEN "revoked" ELSE row[s]]
    /\ cut' = cut \union due[h]
    /\ aim' = [aim EXCEPT ![h] = {}]
    /\ due' = [due EXCEPT ![h] = {}]
    /\ UNCHANGED <<rowLeft, redisVars, issued, idle, new, old, todo, agentVars, syncVars, envVars>>

\* SQLite waits five seconds for the write lock of another connection; then
\* the request fails and its session is rolled back.
LockTimesOut(h) ==
    /\ writer \notin {h, NoHandler}
    /\ \/ hpc[h] \in {"exCommit", "reCommit"}
       \/ hpc[h] = "rvDelete" /\ todo[h] = {}
    /\ hpc' = [hpc EXCEPT ![h] = "idle"]
    /\ old' = [old EXCEPT ![h] = NoSession]
    /\ aim' = [aim EXCEPT ![h] = {}]
    /\ due' = [due EXCEPT ![h] = {}]
    /\ UNCHANGED <<dbVars, redisVars, issued, idle, cut, new, todo, agentVars, syncVars, envVars>>

-----------------------------------------------------------------------------
(* validate_token of the agent MCP server *)

\* GET of the index and HGETALL, or the fallback scan over the hashes, which
\* looks at a bounded number of them and may miss the one it needs.  The
\* bcrypt check runs off the event loop.
Lookup(a, s) ==
    /\ redisUp
    /\ apc[a] = "idle"
    /\ s \in issued
    /\ key[s] = "full"
    /\ apc' = [apc EXCEPT ![a] = "verified"]
    /\ at' = [at EXCEPT ![a] = s]
    /\ via' = [via EXCEPT ![a] = IF idxLeft[s] > 0 THEN "index" ELSE "scan"]
    /\ UNCHANGED <<dbVars, redisVars, ghostVars, handlerVars, syncVars, envVars>>

\* Mutant: only the index is extended.
ExtendKey_Forgotten(a) ==
    /\ redisUp
    /\ apc[a] = "verified"
    /\ apc' = [apc EXCEPT ![a] = "extended"]
    /\ Touch(at[a])
    /\ UNCHANGED <<dbVars, redisVars, issued, due, cut, handlerVars, at, via, syncVars, envVars>>

ExtendKey(a) ==
    /\ redisUp
    /\ apc[a] = "verified"
    /\ apc' = [apc EXCEPT ![a] = "extended"]
    /\ ExpireKey(at[a], Idle)
    /\ Touch(at[a])
    /\ UNCHANGED <<dbVars, issued, due, cut, handlerVars, at, via, syncVars, envVars>>

\* EXPIRE of an index that was found, SET of one that was not.
ExtendIndex(a) ==
    /\ redisUp
    /\ apc[a] = "extended"
    /\ apc' = [apc EXCEPT ![a] = "indexed"]
    /\ idxLeft' = [idxLeft EXCEPT ![at[a]] =
                      IF via[a] = "index" /\ @ = 0 THEN 0 ELSE Idle]
    /\ UNCHANGED <<dbVars, key, keyLeft, ghostVars, handlerVars, at, via, syncVars, envVars>>

\* HSET of the usage fields creates the hash when it is gone; a failure is
\* swallowed.  The request is accepted.
RecordUse(a) ==
    /\ apc[a] = "indexed"
    /\ apc' = [apc EXCEPT ![a] = "idle"]
    /\ at' = [at EXCEPT ![a] = NoSession]
    /\ via' = [via EXCEPT ![a] = "index"]
    /\ key' = [key EXCEPT ![at[a]] = IF redisUp /\ @ = "none" THEN "stub" ELSE @]
    /\ UNCHANGED <<dbVars, keyLeft, idxLeft, ghostVars, handlerVars, syncVars, envVars>>

\* An error of an earlier command leads to the fallback scan, which fails too.
UseFails(a) ==
    /\ ~redisUp
    /\ apc[a] \in {"verified", "extended"}
    /\ apc' = [apc EXCEPT ![a] = "idle"]
    /\ at' = [at EXCEPT ![a] = NoSession]
    /\ via' = [via EXCEPT ![a] = "index"]
    /\ UNCHANGED <<dbVars, redisVars, ghostVars, handlerVars, syncVars, envVars>>

-----------------------------------------------------------------------------
(* The backend restarts and runs sync_all_oauth_sessions_to_redis *)

Restart ==
    /\ "restart" \in faults
    /\ restarts < MaxRestarts
    /\ restarts' = restarts + 1
    /\ writer' = NoHandler
    /\ hpc' = [h \in Handlers |-> "idle"]
    /\ new' = [h \in Handlers |-> NoSession]
    /\ old' = [h \in Handlers |-> NoSession]
    /\ aim' = [h \in Handlers |-> {}]
    /\ todo' = [h \in Handlers |-> {}]
    /\ due' = [h \in Handlers |-> {}]
    /\ serving' = FALSE
    /\ syncTodo' = {s \in Live : client = "active" /\ rowLeft[s] > 0}
    /\ syncAt' = NoSession
    /\ UNCHANGED <<client, row, rowLeft, redisVars, issued, idle, cut, agentVars, redisUp, faults>>

SyncHash(s) ==
    /\ redisUp
    /\ ~serving
    /\ syncAt = NoSession
    /\ s \in syncTodo
    /\ PutHash(s)
    /\ syncAt' = s
    /\ UNCHANGED <<dbVars, ghostVars, handlerVars, agentVars, syncTodo, envVars>>

\* Mutant: the whole idle timeout instead of what the row has left.
SyncTtl_Whole ==
    /\ redisUp
    /\ syncAt # NoSession
    /\ ExpireKey(syncAt, Idle)
    /\ syncTodo' = syncTodo \ {syncAt}
    /\ syncAt' = NoSession
    /\ UNCHANGED <<dbVars, ghostVars, handlerVars, agentVars, envVars>>

SyncTtl ==
    /\ redisUp
    /\ syncAt # NoSession
    /\ ExpireKey(syncAt, rowLeft[syncAt])
    /\ syncTodo' = syncTodo \ {syncAt}
    /\ syncAt' = NoSession
    /\ UNCHANGED <<dbVars, ghostVars, handlerVars, agentVars, envVars>>

SyncFails ==
    /\ ~redisUp
    /\ syncTodo # {}
    /\ syncTodo' = {}
    /\ syncAt' = NoSession
    /\ UNCHANGED <<dbVars, redisVars, ghostVars, handlerVars, agentVars, envVars>>

SyncEnds ==
    /\ ~serving
    /\ syncTodo = {}
    /\ serving' = TRUE
    /\ UNCHANGED <<dbVars, redisVars, ghostVars, handlerVars, agentVars, syncVars, redisUp, restarts, faults>>

-----------------------------------------------------------------------------
(* The environment *)

\* A tick is at least a minute (the shortest idle timeout is 15), a handler
\* and the startup sync take less.
Tick ==
    /\ \A h \in Handlers : hpc[h] = "idle"
    /\ serving
    /\ LET left(x) == IF x > 0 THEN x - 1 ELSE 0 IN
       /\ key' = [s \in Sessions |-> IF keyLeft[s] = 1 THEN "none" ELSE key[s]]
       /\ keyLeft' = [s \in Sessions |-> left(keyLeft[s])]
       /\ idxLeft' = [s \in Sessions |-> left(idxLeft[s])]
       /\ rowLeft' = [s \in Sessions |-> left(rowLeft[s])]
       /\ idle' = [s \in Sessions |-> IF row[s] # "none" /\ idle[s] < Idle
                                       THEN idle[s] + 1 ELSE idle[s]]
    /\ UNCHANGED <<client, row, writer, issued, due, cut, handlerVars, agentVars, syncVars, envVars>>

RedisDown ==
    /\ "outage" \in faults
    /\ redisUp
    /\ redisUp' = FALSE
    /\ UNCHANGED <<dbVars, redisVars, ghostVars, handlerVars, agentVars, syncVars, serving, restarts, faults>>

RedisBack ==
    /\ ~redisUp
    /\ redisUp' = TRUE
    /\ UNCHANGED <<dbVars, redisVars, ghostVars, handlerVars, agentVars, syncVars, serving, restarts, faults>>

RedisWiped ==
    /\ "wipe" \in faults
    /\ \E s \in Sessions : key[s] # "none"
    /\ key' = [s \in Sessions |-> "none"]
    /\ keyLeft' = [s \in Sessions |-> 0]
    /\ idxLeft' = [s \in Sessions |-> 0]
    /\ UNCHANGED <<dbVars, ghostVars, handlerVars, agentVars, syncVars, envVars>>

Granting(h) ==
    \/ ExchangeRead(h) \/ RefreshClient(h) \/ RefreshDelete(h)
    \/ CacheHash(h) \/ CacheTtl(h) \/ CacheIndex(h) \/ CacheFails(h) \/ Reply(h)
    \/ \E s \in Sessions : ExchangeCommit(h, s) \/ RefreshRead(h, s) \/ RefreshCommit(h, s)

Revoking(h) ==
    RevokeRead(h) \/ RevokeCommit(h) \/ LockTimesOut(h) \/ (\E s \in Sessions : RevokeDelete(h, s))

Using(a) ==
    \/ \E s \in Sessions : Lookup(a, s)
    \/ ExtendKey(a) \/ ExtendIndex(a) \/ RecordUse(a) \/ UseFails(a)

Restarting ==
    Restart \/ SyncTtl \/ SyncFails \/ SyncEnds \/ (\E s \in Sessions : SyncHash(s))

Environment == Tick \/ RedisDown \/ RedisBack \/ RedisWiped

Next ==
    \/ \E h \in Handlers : Granting(h) \/ Revoking(h)
    \/ \E a \in Agents : Using(a)
    \/ Restarting
    \/ Environment

Spec == Init /\ [][Next]_vars

-----------------------------------------------------------------------------
(* Properties *)

(***************************************************************************)
(* A session whose tokens were handed out before it was revoked, by a      *)
(* refresh or with its client, is dead once the handler is through: no     *)
(* request in flight, no concurrent handler and no restart caches it again *)
(* (an outage may swallow the DELETE).                                     *)
(***************************************************************************)
RevokedStaysDead == "outage" \notin faults => \A s \in cut : key[s] # "full"

(***************************************************************************)
(* The sliding window: while its client is not revoked, a cached session   *)
(* dies at the latest Idle ticks after it was cached or last accepted,     *)
(* whatever its requests, a refresh or a startup sync do to its expiry.    *)
(***************************************************************************)
BeingCached(s) == ~serving \/ \E h \in Handlers : hpc[h] = "ttl" /\ new[h] = s

SlidingWindow ==
    "outage" \notin faults /\ client = "active" =>
        \A s \in Sessions : key[s] = "full" /\ ~BeingCached(s) =>
            keyLeft[s] > 0 /\ idle[s] + keyLeft[s] <= Idle

(***************************************************************************)
(* ... and no earlier: without restarts and Redis failures every session   *)
(* that is not revoked is accepted throughout its window ("Each successful *)
(* request extends the session TTL up to idle_timeout_seconds").  A        *)
(* restart of the backend may cut the window short, for its sync sets the  *)
(* TTL from the row, which no request extends; but never to less than the  *)
(* row promises, not even when the restart strikes in a revocation that    *)
(* has deleted the session's key already and is then rolled back.          *)
(***************************************************************************)
NoRevocation == \A h \in Handlers : hpc[h] # "rvDelete"

WindowKept == \A s \in issued \intersect Live : idle[s] < Idle /\ NoRevocation => key[s] = "full"
DateKept == \A s \in issued \intersect Live : rowLeft[s] > 0 /\ NoRevocation => key[s] = "full"

AcceptedInWindow ==
    /\ faults = {} => WindowKept
    /\ "outage" \notin faults /\ "wipe" \notin faults /\ serving /\ client = "active" => DateKept

=============================================================================
