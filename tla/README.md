# SMKRV MCP Studio in TLA+

This directory is a formal model of the concurrent core of SMKRV MCP Studio:
specifications of its components, the TLC instances that check them, and
proofs checked by TLAPS.  Paths below are relative to `src/backend/app/` unless
they start with `agent_mcp/`, `src/` or `docs-site/`.

    tlc -config QuerySlots_safe.cfg MCQuerySlots     # model-check an instance
    tlapm QuerySlotsProofs.tla                       # check the proofs of a module

`PROJECT.json` lists the runs with their properties, maps every definition to
the lines it stands for, and lists the hazards with the properties that cover
them.

## 1. The system

One container runs five processes under a supervisor (`src/supervisord.conf`):
Redis, the **Studio** backend (FastAPI on one event loop, SQLite in
`database.py`), the **generated MCP server** (a program the Studio renders from
`templates/` and redeploys at will), the **agent MCP server** (`agent_mcp/`) and
nginx with a reload watcher.  They share state almost only through Redis,
through the database (Studio only) and through files (generated code, a stop
flag, a reload flag).  Each process is single-threaded and cooperative: what is
concurrent are coroutines at their awaits, and the processes among each other.

### Inventory

| Component | State | Operations | Interacts with | What is hard | What makes it correct |
|---|---|---|---|---|---|
| Query slots, `templates/shared_executor.py.j2` | Redis counters `smkrv:sem:*`, `smkrv:queue:*` with TTLs; local semaphores | acquire, enqueue, poll, time out, run, release, record | every tool call; Redis | cancellation at each await, crash with slots held, lost replies, Redis outages, TTL against query time | limit never exceeded, leaks temporary, waiting calls answered, depth truthful |
| MCP bearer tokens, `services/mcp_token_sync.py`, `routers/mcp_tokens.py`, `templates/shared_auth.py.j2` | token rows; mirror and usage hashes in Redis | create, revoke, full sync (deploy, start-up), usage sync, validate | Studio writes, MCP server reads and writes usage | three writers of one mirror, sync that deletes first, outage in between | active tokens accepted, revoked or idle ones refused |
| OAuth sessions, `services/agent_auth.py`, `agent_mcp/auth.py` | clients and sessions in SQLite; hash and prefix index in Redis | exchange, refresh, revoke client, start-up sync, validate with sliding window | Studio and agent server through Redis | database commit and cache write are apart, two sources of expiry, restart in a handler | cut sessions stay dead, the window is neither longer nor shorter than promised |
| Metrics series, `templates/shared_metrics.py.j2`, `services/metrics_persistence.py` | minute, hourly and daily keys; boundary marks in memory; snapshot rows | record, roll up at a boundary, by loop and by catch-up, persist | tool calls, metrics routes, Studio's snapshot loop | boundaries crossed at awaits, out-of-order calls, restart between boundary and rollup | sums exact, each made once, none forgotten, rows stand |
| Agent tokens, `services/agent_auth.py`, `routers/agent_tokens.py`, `agent_mcp/auth.py` | token rows with expiry; Redis hash and prefix index | create, validate, revoke, sync, usage sync | as OAuth sessions | index and hash apart, prefix shared by chance | a revoked or expired token is refused |
| Agent rate limits, `agent_mcp/middleware.py`, `agent_mcp/auth.py` | Redis counter per token, in-process window per address | check and count | each agent request | re-armed expiry, table at its bound, Redis down | at most N a minute, and N a minute are possible |
| Entity history, `services/history.py`, `routers/history.py`, `routers/tools.py` | entities with versions, change records | create, update with version check, delete, roll back, prune | editors, the agent's tools | awaits between check and write, versions going back | no update is lost silently, a rollback restores |
| Request log consumer, `services/log_consumer.py` | buffer, last flush, rows | receive, flush, reconnect, stop, prune | metrics recorder through pub/sub | flush driven by messages, failed batch, lost messages | logged calls reach the table |
| Deployment and lifecycle, `routers/deploy.py`, `src/backend/mcp_entrypoint.sh`, `src/supervisord.conf` | generated files, stop flag, server process | deploy, start, stop, watchdog, start-up deploy | Studio, MCP server, supervisor | flag tested apart from start, polling against sleeping | stopped stays stopped, deployed runs |
| nginx reload watcher, `src/supervisord.conf` | configuration, reload flag | write, test, reload, remove flag | Studio | flag removed after reload | the last configuration is loaded |
| Administrator login, `routers/auth.py`, `services/auth.py`, `services/totp.py` | administrators, attempt counters, recovery codes | set up, log in, verify, enable and disable 2FA | browser | check and count apart, codes rewritten from an old read | one first administrator, a code works once, limits hold |
| Server configuration and TLS, `routers/server.py`, `services/ssl_manager.py` | one configuration row, certificates on disk | get or create, update, issue, renew | ACME client, nginx | two first requests | one row, a valid certificate |
| Connection pools, `templates/shared_db.py.j2` | tables of pools | get or create, replace stale, close | tool calls | locks dropped between test and use | one live pool per connection |
| Start-up and loops, `main.py` | schema, background tasks | repair schema, syncs, loops | all | order of the start-up steps | syncs run before requests |
| Import and export, schema browsing, preview, statistics, agent tools, SQL helpers | none between requests | request and answer | database | one transaction each | data-level |
| Code generator, deployer, nginx generator, prompt guard | compiled `.so` | | | no source | not modelled |
| Frontend, documentation site | | | REST API | | not modelled |

## 2. What is modelled

| Module | Contents |
|---|---|
| `SlotPool` | abstract specification: at most `Size` users hold a slot |
| `QuerySlots`, `QuerySlotsProofs` | the Redis protocol of the slots, one action per command; implements `SlotPool` |
| `McpTokens`, `McpTokensProofs` | bearer tokens of the generated server |
| `OAuthSessions`, `OAuthSessionsProofs` | OAuth client sessions |
| `MetricsRollup`, `MetricsRollupProofs` | the metrics series and the daily snapshots |
| `EntityHistory`, `EntityHistoryProofs` | one entity under concurrent editors, with its change history |
| `LogConsumer`, `LogConsumerProofs` | the request log, from the publisher to the table |
| `McpLifecycle`, `McpLifecycleProofs` | starting and stopping the generated server |
| `RateLimits`, `RateLimitsProofs` | the limit per address and the limit per token of the agent server |
| `MC...` | model values, fault mixes and symmetry for TLC |

**Steps.** An await of a coroutine is a step boundary; what runs between two
awaits is one action, and a Redis command, script or `MULTI` transaction is atomic.
Locals that are used after an await are variables (`new`, `old`, `now`, `todo`); locals
that are not are reset when their last use has passed.

**Faults.** Each behaviour chooses a mix of faults in its initial state, from the
constant `FaultMixes` (`Mixes` or `Faults` in some modules).  Properties name the mixes
under which they are promised, so one specification states both what holds always
and what holds without, say, an outage.

**Time.** `Tick` lets one unit of time pass.  Timeouts and TTLs are small numbers
of ticks with the order the real values have; in `McpLifecycle` a tick is a second and
the values are the real ones.  Where the code's values are far apart (a handler
against a fifteen-minute idle timeout), `Tick` waits for the short thing to finish;
where they are not (a query against the slot TTL) this is a fault (`"overrun"`,
`"straddle"`) that can be switched on.

### QuerySlots

`pc[r]` follows a request through `_acquire_slot`: `try` (first acquire), `join`
(count into the queue), `poll`, `leave` (got a slot from the queue, still counted),
`run`, `release`, `record`, `giveUp` (deadline passed), `unwind` (the outer
`except`), and `localWait`/`localRun` for the fallback.  A `...0` point is a DECR that
went below zero and has yet to write 0.  `sem`, `semTtl` and `queue` are the Redis
keys, `semTtl` and `queueTtl` their expiries; the two Lua scripts are `AcquireScript`
and `ReleaseScript`, `AddToQueue` is INCR or DECR of the queue key.  The queue key is made
without an expiry, gets one from the first `RefreshTtl` (the EXPIREs of
`_record_metrics`) and loses it with the next SET of `FloorQueue`; it may expire under
waiting requests, which the ghost `lapsed` records.  The statistics of
`_record_metrics` are left out.

### McpTokens

`db` holds the rows, `mirror` the keys the MCP server reads.  `pendingSet` and
`pendingDel` are handlers between their commit and their Redis command; `phase` and
`todo` are the full sync (delete all, SELECT, write back).  `stage[q]` is a request in
`_validate_via_redis`, whose idle check and usage write are apart.  The ghosts
`missed`, `stray` and `alone` record what the code could know: a Redis failure, a
revocation under an unsent SET, a sync nobody disturbed.  Left out are the single
legacy token in the server configuration, equal prefixes, and the sync of usage back
into the database (`mcp_token_sync.py:40-96`), which only feeds the display.

### OAuthSessions

`row` is an `AgentSession`, `key` its Redis hash, `idxLeft` its prefix index, each with
its remaining time.  `hpc[h]` is a handler of the Studio in an exchange, a refresh
or a revocation, `writer` the one that holds SQLite's write lock, and `apc[a]` a
request in `validate_token`.  A hash that a late HSET recreates without a token is
the value `"stub"`.  `cut` is a ghost: sessions that were handed out and whose
revocation is complete.  The start-up sync runs before requests are served, as in
`main.py`.

### MetricsRollup

A key is the set of calls it adds up, which tells a lost call from one counted
twice; the sixty minute keys of an hour are one.  `hoursTodo` and `daysTodo` are what a
coroutine is about to roll up.  The recorder's marks are shared by all calls,
those of the loop are its own (`View`).  The loop starts with the first access, as
in `get_metrics_recorder`, and its first round is a minute later; with `"late"` among
the faults that round may fall into the next hour.  `Read` is a request for the
metrics, which can start the catch-up.  Counters per tool, minima, maxima and histograms commute and are left
out, as are the expiries of the keys (7 to 91 days).  Redis may lose all its data at
once; the eviction of single keys is not modelled.

### EntityHistory

One resource or prompt.  A handler is two steps, `Start...` (the SELECT and the version
check) and `Commit...` (flush, `record_change` with its pruning, commit), since it
awaits between them outside any lock; `Abort` is every way to end without a commit.
`op[e]` holds what the handler has loaded and what it is about to write, and `Written`
merges only the columns that differ from the loaded ones, as SQLAlchemy's UPDATE does.
`second` is the resolution of `created_at`: entries of one second have no order, and
the pruning may drop any of them.  `current[e]` is a ghost: since client `e` fetched
its copy, no commit was a rollback or overtook another one.  `DeleteConnection` is the
cascade of `delete_connection`, which removes a resource beside its own handlers and
records only the connection.  Left out: the parameter rows of tools, the masked
secrets of connections, `duplicate_tool`.

### LogConsumer

The consumer does not look into entries, so a few marked ones (1, 2, 3 in the order of
publication) are followed among any number of others (0).  `Receive` is one round of
the loop over messages; a due flush continues in `Flushed`.  `StopListening`,
`StopFlushing` and `StopSleeping` are the cancellation at shutdown at the three
places where it can strike; the last one, in the five seconds before a reconnection,
is caught by nobody and skips the last flush.  `owed` is a history variable: the marked
entries that were read and not lost in one of the four ways `ReadIsKept` names.  What
was delivered and not yet read (`pending`) is dropped by a shutdown or a break; no property
promises it.  The daily pruning of old rows is left out.

### McpLifecycle

`flag` and `code` are the files the Studio and the container share, `prog` is
supervisord's state of the program, `spc` the place of the entry script, `srv` the
server process.  supervisord is external: it restarts a program that exited, counts
starts shorter than `startsecs`, backs off one second more each time and gives up after
`startretries`.  Steps that need no waiting are done before the next `Tick` (`Due`);
the boot of the server and its end after a kill take any time, and so do deploys.
The deployer is compiled; from its use it removes the flag first and writes the files
last, unless a stop came in between.

### RateLimits

`store` is the table of the first limit; a timestamp is kept as its age.  The cut of a
table above its bound first drops what is stale, then the least recently used
(`CutBack`).  `counter` and `ttl` are the Redis counter of the second limit.  A request
is at `validate` or `count` while it awaits Redis.  `admitted`, `asked` and `passed` are
ghosts: how many requests of the last minute were let through, counted and passed, up
to one above the maximum.  The token endpoint has a second table of its own with the
same code, which is another instance of this one.  A restart of the process, which
empties the table, is left out.

## 3. What the runs check

| Run | Instance | Shows |
|---|---|---|
| `slots_safe` | 2 requests, 1 slot, four fault mixes | slot limit over Redis and local slots together (twice the limit under outages), slot counter exact, queue counter exact or low, TTL long enough; refinement of `SlotPool`; each queued request leaves the queue; leaked slots return when traffic stops |
| `slots_rs1_leak` | 2 requests, crashes | **violated**: a leaked slot is kept alive by the seven-day refresh of every timeout |
| `mcp_tokens_safe` | 2 tokens, 1 request, 1 restart, outage and data loss | no active token lost without a failure, no revoked one kept without a recorded reason, sync repairs, idle is final |
| `oauth_safe` | 2 sessions, 2 handlers, 1 request, 1 restart, data loss, outage | cut sessions stay dead; the window is never longer and, without faults, never shorter; a restart cuts it to the date of the row at worst |
| `metrics_safe` | 2 calls, 4 hours, a day of 3 hours and the start of the next, five fault mixes | hourly and daily sums exact, rows stand, rollups happen |
| `metrics_late` | the same, a restart at any minute | **violated**: after a restart just before a full hour, a day is rolled up without the hour |
| `entity_safe` | 2 editors, 2 columns of 2 values, 3 commits, 2 entries kept | a version names one content; a checked update touches only columns its client changed, and there values it had seen or that were committed under way; what a handler's commit replaces is on record |
| `log_safe` | 3 marked entries, batches of 3, four fault mixes | order and no duplicates always; under every mix an entry that was read is lost in the named ways only; a shutdown loses one batch of what was read at most, traffic flushes |
| `lifecycle_safe` | real durations, 8 looks for the first deploy, all disturbances | a stop takes effect within one round of the watchdog and lasts; good code is served; supervisord gives up only over failures |
| `lifecycle_restart` | stops only | **violated**: a deploy after a stop of half a minute starts nothing |
| `limits_safe` | 3 addresses, 1 token, table of 2, both limits 2, outage and loss | limit per address except in a crowd, limit per token, a pause restores service |
| `limits_starved` | 1 address, 2 requests, no fault | **violated**: steady traffic below the limit is refused |

The four violations are listed in `PROJECT.json` under `findings` with the line of
documentation or comment the code disagrees with.

**Why these bounds.** Two handlers of every kind and one more actor give each
pairwise race and one bystander.  Two requests for one slot are one that holds and
one that waits, fails or arrives; that is enough for what only TLC can check of the
slots, the liveness, since all their safety properties are theorems for any number.
Two sessions let a refresh have a predecessor and a rival.  Two calls reach both
sides of a boundary; four hours with days of three contain two hour boundaries inside
a day, so that an hour can be missed, noted late and closed with its day, and the one
between days.  (Days of two hours are too short: they hide what `metrics_late` shows.)  A TTL of two ticks separates "just armed", "about to expire" and "gone".
`QueueBound` caps the drift the queue counter can build up and is two, above the
number a single request can cause; `MaxRestarts` is one, since a restart forgets
everything in memory, and a second one starts from a state of the same kind; in
`MetricsRollup` a restart and a data loss happen at most once each.  `LastHour` stops
the clock, `MaxChanges` the commits of an entity: three of them are one more than the
history keeps, and enough for an update, a deletion and a rollback, or for two
updates around a third.  In `LogConsumer` three marked entries fill a batch or fall on both sides of
its end, and `MaxPending` lets as many wait unread.  The 8 looks for `server.py`
stand for 30: the only relation that matters is that the script waits longer than
`startsecs` (`WaitsLongEnough`).  In `RateLimits`, `Window` is two ticks of 30 s,
`Stale` (120 s in the code) only needs to be no less than the window, limits of two
stand for 120 and 20, and a table of two in a world of three addresses for 10,000.
The safety theorems of section 4 have no such bounds.

**Deadlock** is checked except in `mcp_tokens_safe`, where every token may be revoked
and every bounded fault spent, and in `entity_safe`, where the entity may be deleted
with its commits used up.

**Fairness.** Only the runs with liveness assume any.  `QuerySlots`: a request that
can proceed does (the event loop is fair and each command returns or raises), time
passes, an outage ends.  No fault and no query result is fair, and a poll that finds
no slot counts as a step, so nothing gives a waiting request a slot except luck; the
answer it is promised is a slot or a timeout.  `MetricsRollup`: each coroutine goes
on; time is not fair.  That the loop comes round within each hour it runs in is the
guard `LoopKeepsUp` of `Tick`, from its sleep of 60 s; the hour it starts in is
exempt under `"late"`.  `LogConsumer`: the task is
resumed when what it awaits is there, and time passes; publications are not fair, so
`TrafficFlushes` assumes them in its premise, for without traffic the code flushes
nothing.  `McpLifecycle`: supervisord, the script and the kernel do what is due, a
started deploy ends, a starting server gets somewhere, a killed one dies; nobody need
click anything, so the properties speak of the time after the last click.

**Noticed beside the findings.**

- *Depth.* A queued query that raises is taken out of the queue counter twice
  (`shared_executor.py.j2:199`), so the depth shown is too low until the queue is empty;
  a call cancelled in the queue skips that handler (CancelledError is no Exception) and
  its entry stays until the key expires; and the key, made by the first INCR, can expire
  under calls that wait.  `QueueExact` says what holds beside these.
- *Queue order.* The documentation speaks of a FIFO queue whose next query is released
  when one completes (`docs-site/user-guide/queue-management.mdx:15-16`); waiting calls poll every
  50 ms and a newcomer may win.  `QueuedIsAnswered` claims an answer, no order.
- *Outages.* Requests that began before an outage keep their Redis slots while others
  fall back to local ones (`:203`), so up to twice `max_concurrent_queries` run; the
  documentation names one limit (`queue-management.mdx:25`) and calls the fallback
  "Per-process only" (`:50`).
- *Long queries.* A query longer than the 300 s of the slot key (`:38`) loses its slot
  to the next one; `"overrun"` lifts the limit where a property says so.
- *Sync.* A full sync that has read the tokens before a revocation writes the revoked
  one back (`mcp_token_sync.py:126`); `NoOtherStray` counts it among the known reasons.
- *Exchange.* An exchange that read its client before the revocation commits a session
  after it (`agent_auth.py:456`); the session lives until it idles out.
- *Revocation during an outage.* A DELETE that fails is swallowed (`agent_auth.py:785`):
  the cached session lives on as long as it is used.
- *Window after a restart.* The start-up sync sets the TTL of a session from its row
  (`agent_auth.py:180`, `:200`), and a request at the agent server extends Redis only.  So
  a session in use ends at the date of its row if it is not used again before, although
  the documentation calls the timeout a sliding window (`docs-site/api-reference/agent-mcp.mdx:68`).
- *Boundaries.* Calls that overtake each other at a full hour set the shared mark back,
  and the hour in progress is rolled up (`shared_metrics.py.j2:363`).  The periodic loop
  only notes the hour in its first round: if the first call comes in the last minute of
  an hour and none follows, the hour is rolled up at the next call or restart, or, when
  the loop closes the day first, never into the day (`metrics_late`); `HoursRolledUp`
  speaks of hours the loop has seen.  A recording that straddles the end
  of a day *and* a loss of the Redis data can end up alone in a new key of that day,
  which would replace the fuller row; `RowsStand` is stated without straddling.
- *Rollback.* A rollback writes the snapshot's version and adds one to that
  (`routers/history.py:171`), so the version goes back, although the comment at `:174`
  speaks of an increment; the ghost `current` marks the copies this concerns.
- *Overlapping updates.* Two updates that pass the check with the same version both
  commit, the second over the first, column by column, and the version rises by one
  (`routers/tools.py:138` and its siblings); `current` marks these copies, too.
  If both changed one column, the first value is overwritten by an editor who never
  saw it; `OverwritesSeen` says that no other column is touched.
- *Cascade.* Deleting a connection deletes its tools and resources
  (`routers/connections.py:303`, `models/connection.py:49-51`) without a history entry of
  their own, so they cannot be rolled back; the changelog promises a "full audit trail
  for all entity changes" (`docs-site/changelog.mdx:239`).
- *Log.* The entries of a burst wait for the next message (`log_consumer.py:89`),
  although the header (`:4`) speaks of a flush every 2 seconds.
- *nginx.* The watcher reloads and then removes the flag (`src/supervisord.conf:114`): a
  configuration written in between waits for the next change.
- *Admin and configuration.* Four check-then-act pairs on one counter or row
  (`routers/auth.py:76`, `:104`, `:158`, `routers/server.py:55`).

## 4. What is proved

All theorems are about `Spec` (no fairness) and hold for all values of the constants
that satisfy the named `ASSUME`s of the module, which say no more than that bounds
are natural numbers, sets of names finite where a cardinality is taken, special
names distinct, the short TTL at most the long one, and that the entry script waits
for a first deploy at least as long as a start has to last.

*QuerySlots.* `IInv` is `TypeOK`, `Tolerated => Covered`, the TTL fact, the local
limit, and `RedisMode`: without an outage nobody holds a local slot, which is why one
limit is enough then.  `SlotLimit` alone is not inductive: a grant looks at `sem`, not at the owners.
`Covered` says that the owners number at most `sem` and that the key's TTL exceeds the
time each owner's query may still take; the second half is needed for the step in
which the key expires, for then there must be no owner.  From it follow
`SlotLimitHolds`, `CounterCovers`, `KeysOutlive`, `EveryLeakExpires` and the refinement
`PoolImplemented`: each step takes one abstract slot (`GrantStep`: `sem` was below the
limit, so the owners were), gives some back, or stutters.  That the counters are exact
under milder faults needs an equation on top of it: `SlotsExact` for `SemIsExact`
(each step changes owners and counter alike), and `QueueInv` for `QueueIsExact`:
`DepthKept`, the equation for the queue while its key has not lapsed, which also says
that no request is in the outer `except`, and `DepthBounded`, the inequality that is left
when queries raise and the key expires.  All are stated relative to the faults, which
never change.

*McpTokens.* `NoActiveLost` and `NoOtherStray` need to know what each pending step is
about: a pending DELETE is of a revoked token (`DeletesRevoked`), a pending SET or a
row of the running fill that is no longer active is on record (`SetTracked`,
`FillTracked`), a sync nobody disturbed has exactly the active rows in hand
(`AloneSync`), only created tokens are anywhere (`OnlyCreated`).  `SyncIsExact` and
`IdleIsForever` are action properties proved from the same invariant.

*OAuthSessions.* A cut session could come back through a handler that still has it
as its new session, or through the sync.  `NewPrivate` says that a session in a
handler's hands has not been handed out and is in no other's, `IssuedKnown` and
`RevokeDone` tie the program counters of a revocation to rows and keys, `SyncAlone`
that the sync runs with no handler about and works on live rows, `RedisKept` that
without an outage no DELETE fails; together they make `CutRevoked` and
`RevokedStaysDead` inductive.  The window needs its own part for rows and for keys
(`RowInWindow`, `KeyInWindow`), for the sync computes a key's TTL from the row.  The
converse, `WindowIsKept`, is about the remaining TTL: `KeyKept` says that without faults
idle time and TTL together cover the timeout from the moment a session is cached,
unless a revocation has it on its list, `DatedKeyKept` that with restarts alone the TTL
is at least what the row has left, but for rows the sync has not yet written back, and
`LockKnown` that a revocation of an active client
holds SQLite's write lock, so that no session is issued beside it.

*MetricsRollup.* While no recording may straddle a full hour, whoever is at work
knows the hour (`OnTime`: the clock does not move under a coroutine), so what is due to
be rolled up is over, and a key made of it stays exact (`HoursExact`: minute keys are
of hours up to the current one, hourly keys of earlier ones).  For the rows, `DaysStand`
says that a persisted day is over and that its key in Redis is what was persisted, or
was lost together with all it could be made from; `RowsHold` follows, since the
persister then finds the same again or nothing.  That a later hour is not of an
earlier day (`DaysOrdered`) is the one piece of arithmetic.  `DailyKeysExact` needs to
know where every hour of a past day is, that is, which past hours have calls in
their minute keys only (`Pending`): whoever catches up or rolls up has them on his list
and comes to days when none is left (`ListsComplete`); between his rounds there is at
most one, and both marks name it (`MarksKnown`), the loop's because it comes round in
every hour (`LoopKnows`), the recorder's because a call that has counted itself goes on
to its boundary check within the hour.  The attempt to prove it without the last
condition on the loop is what led to `metrics_late`.

*EntityHistory.* `VersionNamesContent` and `CheckedSawLoaded` (a checked update of a
current copy has loaded what its client fetched) need each other: an
update that nobody overtook moves the version up, so a copy of an orderly past is of a
version at most the row's, and of that version only if it is the row (`CopiesBehind`);
`RequestsSound` says what a handler in flight has loaded and will write, `EntriesPast`
that no entry is from the future, which is what the pruning's choice of the oldest
needs for `Recorded`.  `SeenIsOverwritten` follows: `Written` leaves the columns alone
that the request did not change, and in the others the row holds what was loaded, thus
seen, or something committed since.

*LogConsumer.* The batch, the buffer and the channel are one line (`InLine`), and `InOrder`
says that it is in order and behind the table.  Reading moves the head of the channel
to the end of the buffer, a flush moves a slice to the batch: neither changes the
line (`MoveHead`, `SliceWhole`), and dropping a piece leaves the rest in order
(`OrderedMiddle`).  `Places` says where entries can be at each program point; that the
buffer never fills a batch is why one slice always empties it.  `NothingReadIsLost` is
inductive with these: an entry leaves the buffer only into a batch, and a batch only
into the table or in one of the ways that take it out of `owed`.  `ShutdownFlushes` follows
with `Subscribed`: without a Redis failure the task is never in the sleep whose
cancellation nobody catches.

*RateLimits.* Ages are counted from the youngest (`Back`), for entries come in at the
end and leave at the front.  `Matched` says that what the table counts was let through,
`Crowded` that an admitted request the table has forgotten has at least as many other
addresses with younger requests as the table holds; the cut of the least recently
used keeps that (`CutBackKeeps`), and `AddressIsLimited` follows for a request beyond
the limit.  `Counters` ties the Redis counter to the minute: what passed is counted
until it leaves the window, and the expiry is at most a window away from the last
request.  `InWindowDrops` and `NotedShifts` say what the two filters of ages return.

*McpLifecycle.* `Watched` bounds the time a serving server can have the flag beside
it by what is left of the watchdog's sleep, from which `SwiftStop` follows; `Fitting` ties
script, program and server to each other (`TypeOK` says a server exists only under a
script); `Undisturbed` is the arithmetic of `PatientStart`: the script has slept for as
long as it has looked, so it is never counted as a failed start.

Every safety invariant and every action property of a passing run is a theorem.
Only model-checked are the liveness properties (`QueuedIsAnswered`, `RecoversWhenIdle`,
`HoursRolledUp`, `TrafficFlushes` and those of the lifecycle) and the violations.
Liveness and ENABLED are beyond the prover, and so is induction over data, so no
theorem speaks of either.

## 5. Not modelled

- *Agent tokens.* Writers and their order are those of `McpTokens` and
  `OAuthSessions` without a window; new is a date compared at each request.
- *nginx watcher.* One line of shell with the race described above; the writer of its
  input is compiled.
- *Administrator login, server configuration, connection pools.* Their hazards are
  single check-then-act pairs, visible at two lines each and listed as hazards with
  what can happen; a model would restate the pair.
- *TLS certificates.* File and process input and output around an external client.
- *Code generator, deployer, nginx generator, prompt guard.* Compiled, without source.
- *Import and export, SQL helpers, previews, statistics, agent tools.* Data without
  control, or a request and an answer with no state in between.
- *Frontend and documentation site.* Views, and text.

Partly modelled: the entity history (see above), the log consumer (no pruning), the
lifecycle (no deploy log, no status polls), the backend's start-up (only its syncs).

The code modelled is Python, Python in Jinja templates, and shell.  A count of the
implementation by file type that takes only the JavaScript files sees the four
vendored bundles under `app/static/`, which have nothing of the system in them; `map`
names the lines that are modelled.

## 6. Plan

What would come next, in this order.

1. A refinement of `McpTokens` to "the mirror is the set of active tokens, late".
2. `AgentTokens`, composed with `RateLimits` as the path of an agent's request.
3. The parameter rows of tools in `EntityHistory`, which are replaced as a whole.
4. `AdminLogin`, `NginxReload`, `ConnPool`, as one instance each chooses in its initial
   state.
