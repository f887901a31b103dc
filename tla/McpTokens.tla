------------------------------ MODULE McpTokens ------------------------------
(***************************************************************************)
(* Bearer tokens of the generated MCP server.  The rows live in the        *)
(* Studio's database; the MCP server only looks at their mirror in Redis   *)
(* (mcp:bearer:<prefix>) and at the usage hashes it writes there itself    *)
(* (mcp:bearer_usage:<prefix>).                                            *)
(*                                                                         *)
(* Three writers of the mirror run side by side: the create handler, whose *)
(* SET follows its commit; the revoke handler, whose DELETE follows its    *)
(* commit; and the full sync of a deploy or of the startup, which deletes  *)
(* every key, reads the active rows and writes them back one by one.       *)
(*                                                                         *)
(* Faults: "outage"  Redis is unreachable for a while                      *)
(*         "wipe"    Redis comes back without its data                     *)
(*         "restart" the Studio restarts (its handlers are gone, its       *)
(*                   startup sync runs before it serves requests)          *)
(***************************************************************************)
EXTENDS Integers, FiniteSets

CONSTANTS Tokens,       \* tokens that may be created
          Expiring,     \* those with an idle_timeout_minutes
          Idle,         \* that timeout, in ticks
          Requests,     \* concurrent requests of the MCP server
          MaxRestarts,  \* bound on the restarts of a behaviour
          NoToken,
          Faults

ASSUME TokensKnown == Expiring \subseteq Tokens /\ NoToken \notin Tokens
ASSUME BoundsPositive == Idle \in Nat \ {0} /\ MaxRestarts \in Nat
ASSUME FaultsKnown == Faults \subseteq {"outage", "wipe", "restart"}

VARIABLES
    db,          \* db[t]: the row of token t
    mirror,      \* tokens whose mcp:bearer key exists
    pendingSet,  \* created and committed, SET not yet sent
    pendingDel,  \* revoked and committed, DELETE not yet sent
    phase,       \* of the full sync: "off", "scan", "fill"
    todo,        \* keys the scan has still to return, or rows still to write
    serving,     \* the Studio accepts requests
    redisUp,
    restarts,
    missed,      \* ghost: tokens whose key the code knows it may have lost
    stray,       \* ghost: tokens whose key may outlive their revocation
    alone,       \* ghost: nothing has disturbed the running sync
    used,        \* tokens that have a usage hash
    since,       \* since[t]: ticks since t was last used, if it expires
    stage,       \* stage[q]: how far request q has got in _validate_via_redis
    token        \* token[q]: the token q presents

syncVars == <<phase, todo>>
usageVars == <<used, since, stage, token>>
ghosts == <<missed, stray, alone>>
envVars == <<serving, redisUp, restarts>>
vars == <<db, mirror, pendingSet, pendingDel, syncVars, envVars, ghosts, usageVars>>

Active == {t \in Tokens : db[t] = "active"}
Expired(t) == t \in Expiring /\ t \in used /\ since[t] > Idle
\* Requests of token t that are past the idle check, before their HSET.
PastCheck(t) == {q \in Requests : token[q] = t /\ stage[q] = "fresh"}

TypeOK ==
    /\ db \in [Tokens -> {"absent", "active", "revoked"}]
    /\ mirror \subseteq Tokens
    /\ pendingSet \subseteq Tokens
    /\ pendingDel \subseteq Tokens
    /\ phase \in {"off", "scan", "fill"}
    /\ todo \subseteq Tokens
    /\ serving \in BOOLEAN
    /\ redisUp \in BOOLEAN
    /\ restarts \in 0 .. MaxRestarts
    /\ missed \subseteq Tokens
    /\ stray \subseteq Tokens
    /\ alone \in BOOLEAN
    /\ used \subseteq Tokens
    /\ since \in [Tokens -> 0 .. Idle + 1]
    /\ stage \in [Requests -> {"idle", "verified", "fresh"}]
    /\ token \in [Requests -> Tokens \union {NoToken}]

Init ==
    /\ db = [t \in Tokens |-> "absent"]
    /\ mirror = {}
    /\ pendingSet = {}
    /\ pendingDel = {}
    /\ phase = "off"
    /\ todo = {}
    /\ serving = TRUE
    /\ redisUp = TRUE
    /\ restarts = 0
    /\ missed = {}
    /\ stray = {}
    /\ alone = FALSE
    /\ used = {}
    /\ since = [t \in Tokens |-> 0]
    /\ stage = [q \in Requests |-> "idle"]
    /\ token = [q \in Requests |-> NoToken]

-----------------------------------------------------------------------------
(* The Studio's handlers *)

\* create_mcp_token, up to its commit.
Create(t) ==
    /\ serving
    /\ db[t] = "absent"
    /\ db' = [db EXCEPT ![t] = "active"]
    /\ pendingSet' = pendingSet \union {t}
    /\ alone' = FALSE
    /\ UNCHANGED <<mirror, pendingDel, syncVars, envVars, missed, stray, usageVars>>

\* _sync_token_to_redis; a failing SET is only logged.
PushToken(t) ==
    /\ t \in pendingSet
    /\ pendingSet' = pendingSet \ {t}
    /\ IF redisUp
       THEN mirror' = mirror \union {t} /\ UNCHANGED missed
       ELSE missed' = missed \union {t} /\ UNCHANGED mirror
    /\ alone' = FALSE
    /\ UNCHANGED <<db, pendingDel, syncVars, envVars, stray, usageVars>>

\* revoke_mcp_token, up to its commit.  The ghost records what the rest of
\* the handler cannot undo: a SET of the same token that is still to come.
Revoke(t) ==
    /\ serving
    /\ db[t] = "active"
    /\ db' = [db EXCEPT ![t] = "revoked"]
    /\ pendingDel' = pendingDel \union {t}
    /\ stray' = IF t \in pendingSet \/ (phase = "fill" /\ t \in todo)
                THEN stray \union {t} ELSE stray
    /\ alone' = FALSE
    /\ UNCHANGED <<mirror, pendingSet, syncVars, envVars, missed, usageVars>>

\* Mutant: the handler never sends the DELETE.
DropToken_Skipped(t) ==
    /\ t \in pendingDel
    /\ pendingDel' = pendingDel \ {t}
    /\ alone' = FALSE
    /\ UNCHANGED <<db, mirror, pendingSet, syncVars, envVars, missed, stray, usageVars>>

\* _remove_token_from_redis; a failing DELETE is only logged.
DropToken(t) ==
    /\ t \in pendingDel
    /\ pendingDel' = pendingDel \ {t}
    /\ IF redisUp
       THEN mirror' = mirror \ {t} /\ UNCHANGED stray
       ELSE stray' = stray \union {t} /\ UNCHANGED mirror
    /\ alone' = FALSE
    /\ UNCHANGED <<db, pendingSet, syncVars, envVars, missed, usageVars>>

-----------------------------------------------------------------------------
(* sync_all_mcp_tokens_to_redis, called by a deploy *)

\* A scan returns every key that exists from its beginning to its end.
BeginSync ==
    /\ phase = "off"
    /\ redisUp
    /\ phase' = "scan"
    /\ todo' = mirror
    /\ alone' = (pendingSet = {} /\ pendingDel = {})
    /\ UNCHANGED <<db, mirror, pendingSet, pendingDel, envVars, missed, stray, usageVars>>

\* The scan may also return keys that were set after it began.
ScanDelete(t) ==
    /\ phase = "scan"
    /\ redisUp
    /\ t \in mirror
    /\ mirror' = mirror \ {t}
    /\ todo' = todo \ {t}
    /\ stray' = IF t \in pendingSet THEN stray ELSE stray \ {t}
    /\ UNCHANGED <<db, pendingSet, pendingDel, phase, envVars, missed, alone, usageVars>>

\* Mutant: the rows are read without the condition on revoked.
SelectRows_All ==
    /\ phase = "scan"
    /\ todo \intersect mirror = {}
    /\ phase' = "fill"
    /\ todo' = {t \in Tokens : db[t] # "absent"}
    /\ missed' = {}
    /\ UNCHANGED <<db, mirror, pendingSet, pendingDel, envVars, stray, alone, usageVars>>

\* The scan is complete; the active rows are read in one SELECT.
SelectRows ==
    /\ phase = "scan"
    /\ todo \intersect mirror = {}
    /\ phase' = "fill"
    /\ todo' = Active
    /\ missed' = {}
    /\ UNCHANGED <<db, mirror, pendingSet, pendingDel, envVars, stray, alone, usageVars>>

\* Mutant: the first key that is written ends the loop.
FillToken_First(t) ==
    /\ phase = "fill"
    /\ redisUp
    /\ t \in todo
    /\ mirror' = mirror \union {t}
    /\ todo' = {}
    /\ UNCHANGED <<db, pendingSet, pendingDel, phase, envVars, ghosts, usageVars>>

FillToken(t) ==
    /\ phase = "fill"
    /\ redisUp
    /\ t \in todo
    /\ mirror' = mirror \union {t}
    /\ todo' = todo \ {t}
    /\ UNCHANGED <<db, pendingSet, pendingDel, phase, envVars, ghosts, usageVars>>

EndSync ==
    /\ phase = "fill"
    /\ todo = {}
    /\ phase' = "off"
    /\ serving' = TRUE
    /\ UNCHANGED <<db, mirror, pendingSet, pendingDel, todo, redisUp, restarts, ghosts, usageVars>>

\* A Redis command of the sync raised: it returns 0 and its caller goes on.
AbortSync ==
    /\ phase # "off"
    /\ ~redisUp
    /\ phase = "fill" => todo # {}
    /\ phase' = "off"
    /\ todo' = {}
    /\ serving' = TRUE
    /\ missed' = Tokens
    /\ stray' = IF phase = "scan" THEN stray \union todo ELSE stray
    /\ UNCHANGED <<db, mirror, pendingSet, pendingDel, redisUp, restarts, alone, usageVars>>

-----------------------------------------------------------------------------
(* _validate_via_redis of the MCP server: one step per Redis command *)

ReadToken(q, t) ==
    /\ stage[q] = "idle"
    /\ redisUp
    /\ t \in mirror
    /\ stage' = [stage EXCEPT ![q] = "verified"]
    /\ token' = [token EXCEPT ![q] = t]
    /\ UNCHANGED <<db, mirror, pendingSet, pendingDel, syncVars, envVars, ghosts, used, since>>

\* Mutant: the comparison with the idle timeout is missing.
CheckIdle_Missing(q) ==
    /\ stage[q] = "verified"
    /\ redisUp
    /\ stage' = [stage EXCEPT ![q] = "fresh"]
    /\ UNCHANGED <<db, mirror, pendingSet, pendingDel, syncVars, envVars, ghosts, used, since, token>>

CheckIdle(q) ==
    /\ stage[q] = "verified"
    /\ redisUp
    /\ ~Expired(token[q])
    /\ stage' = [stage EXCEPT ![q] = "fresh"]
    /\ UNCHANGED <<db, mirror, pendingSet, pendingDel, syncVars, envVars, ghosts, used, since, token>>

\* HSET of the usage hash, then the request is accepted.
RecordUse(q) ==
    /\ stage[q] = "fresh"
    /\ redisUp
    /\ used' = used \union {token[q]}
    /\ since' = [since EXCEPT ![token[q]] = 0]
    /\ stage' = [stage EXCEPT ![q] = "idle"]
    /\ token' = [token EXCEPT ![q] = NoToken]
    /\ UNCHANGED <<db, mirror, pendingSet, pendingDel, syncVars, envVars, ghosts>>

\* Mutant: the request is refused but left half-way through its checks.
RefuseRequest_Half(q) ==
    /\ stage[q] # "idle"
    /\ token' = [token EXCEPT ![q] = NoToken]
    /\ UNCHANGED <<db, mirror, pendingSet, pendingDel, syncVars, envVars, ghosts, used, since, stage>>

\* The token is too old, a command raised, or the client went away.
RefuseRequest(q) ==
    /\ stage[q] # "idle"
    /\ stage' = [stage EXCEPT ![q] = "idle"]
    /\ token' = [token EXCEPT ![q] = NoToken]
    /\ UNCHANGED <<db, mirror, pendingSet, pendingDel, syncVars, envVars, ghosts, used, since>>

-----------------------------------------------------------------------------
(* The environment *)

Tick ==
    /\ \E t \in Expiring \cap used : since[t] <= Idle
    /\ since' = [t \in Tokens |-> IF t \in Expiring \cap used /\ since[t] <= Idle
                                THEN since[t] + 1 ELSE since[t]]
    /\ UNCHANGED <<db, mirror, pendingSet, pendingDel, syncVars, envVars, ghosts, used, stage, token>>

RedisDown ==
    /\ "outage" \in Faults
    /\ redisUp
    /\ redisUp' = FALSE
    /\ UNCHANGED <<db, mirror, pendingSet, pendingDel, syncVars, serving, restarts, ghosts, usageVars>>

RedisBack ==
    /\ ~redisUp
    /\ redisUp' = TRUE
    /\ UNCHANGED <<db, mirror, pendingSet, pendingDel, syncVars, serving, restarts, ghosts, usageVars>>

RedisWiped ==
    /\ "wipe" \in Faults
    /\ mirror \union used # {}
    /\ mirror' = {}
    /\ used' = {}
    /\ missed' = Tokens
    /\ alone' = FALSE
    /\ UNCHANGED <<db, pendingSet, pendingDel, syncVars, envVars, stray, since, stage, token>>

\* The Studio restarts and its startup sync begins.
Restart ==
    /\ "restart" \in Faults
    /\ restarts < MaxRestarts
    /\ restarts' = restarts + 1
    /\ pendingSet' = {}
    /\ pendingDel' = {}
    /\ phase' = "scan"
    /\ todo' = mirror
    /\ serving' = FALSE
    /\ alone' = TRUE
    /\ UNCHANGED <<db, mirror, redisUp, missed, stray, usageVars>>

SyncRuns ==
    SelectRows \/ EndSync \/ AbortSync \/ (\E t \in Tokens : ScanDelete(t) \/ FillToken(t))
Sync == BeginSync \/ SyncRuns
Handlers == \E t \in Tokens : Create(t) \/ PushToken(t) \/ Revoke(t) \/ DropToken(t)
Validation ==
    \E q \in Requests : \/ \E t \in Tokens : ReadToken(q, t)
                        \/ CheckIdle(q) \/ RecordUse(q) \/ RefuseRequest(q)
Environment == Tick \/ RedisDown \/ RedisBack \/ RedisWiped \/ Restart

Next == Sync \/ Handlers \/ Validation \/ Environment

Spec == Init /\ [][Next]_vars

-----------------------------------------------------------------------------
(* Properties *)

(***************************************************************************)
(* An active token is accepted unless a Redis failure came in between: its *)
(* key exists, or its SET is on its way, or the running fill has it on its *)
(* list.  A sync that deletes everything first must not lose the token a   *)
(* concurrent create has just pushed.                                      *)
(***************************************************************************)
NoActiveLost ==
    phase # "scan" =>
        Active \subseteq mirror \union pendingSet \union missed \union
                         (IF phase = "fill" THEN todo ELSE {})

(***************************************************************************)
(* A revoked token keeps its key only while its DELETE or the scan has     *)
(* still to come, or if it was revoked under a SET of its own that had not *)
(* been sent yet, or if Redis refused the DELETE.                          *)
(***************************************************************************)
NoOtherStray ==
    \A t \in mirror \ Active :
        \/ t \in pendingDel
        \/ t \in stray
        \/ phase = "scan" /\ t \in todo

(***************************************************************************)
(* A token that has expired for inactivity is never accepted again while   *)
(* Redis keeps its usage hash: no further request gets past the idle       *)
(* check, and only those already past it may still write a time of use.    *)
(***************************************************************************)
IdleIsFinal ==
    [][\A t \in Tokens : Expired(t) =>
          /\ PastCheck(t)' \subseteq PastCheck(t)
          /\ Expired(t)' \/ PastCheck(t)' # PastCheck(t) \/ t \notin used']_vars

(***************************************************************************)
(* A sync that no handler and no fault disturbs makes the mirror equal to  *)
(* the active rows: what earlier failures and races left is repaired.      *)
(***************************************************************************)
SyncRepairs ==
    [][EndSync /\ alone => mirror = Active]_vars

=============================================================================
