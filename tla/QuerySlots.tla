----------------------------- MODULE QuerySlots -----------------------------
(***************************************************************************)
(* The concurrency limit of one database connection, as the generated MCP  *)
(* server enforces it (backend/app/templates/shared_executor.py.j2).       *)
(*                                                                         *)
(* The limit is a counter in Redis, taken and given back by two Lua        *)
(* scripts.  A request that finds no free slot counts itself into a second *)
(* counter, the queue depth, and polls every 50 ms until it gets a slot or *)
(* its deadline passes.  Without Redis an in-process semaphore stands in.  *)
(*                                                                         *)
(* Every Redis command is one action, because the event loop runs other    *)
(* requests between any two of them.  What can go wrong around the         *)
(* commands is the variable faults, chosen once per behaviour:             *)
(*   "error"       a query raises something other than TimeoutError        *)
(*   "cancel"      a request is cancelled at one of its awaits             *)
(*   "crash"       the MCP server process ends (a deploy, a crash)         *)
(*   "outage"      Redis is unreachable for a while and keeps its data     *)
(*   "lost_reply"  a script runs but its reply does not arrive             *)
(*   "overrun"     a query may run longer than the counter's TTL           *)
(***************************************************************************)
EXTENDS Integers, FiniteSets

CONSTANTS Requests,       \* tool calls in flight on this connection
          MaxConcurrent,  \* max_concurrent_queries
          Timeout,        \* queue_timeout_seconds, in ticks
          ShortTtl,       \* _SEM_TTL_SECONDS, in ticks
          LongTtl,        \* the seven days _record_metrics gives both keys, in ticks
          QueueBound,     \* bound on the drift of the queue counter
          FaultMixes      \* the combinations of faults to consider

AllFaults == {"error", "cancel", "crash", "outage", "lost_reply", "overrun"}

ASSUME RequestsFinite == IsFiniteSet(Requests)
ASSUME LimitsPositive == /\ MaxConcurrent \in Nat \ {0}
                         /\ Timeout \in Nat \ {0}
                         /\ QueueBound \in Nat \ {0}
ASSUME TtlOrder == /\ ShortTtl \in Nat \ {0}
                   /\ LongTtl \in Nat \ {0}
                   /\ ShortTtl <= LongTtl
ASSUME FaultsKnown == FaultMixes \subseteq SUBSET AllFaults

VARIABLES
    pc,       \* pc[r]: where request r is in _acquire_slot
    timer,    \* timer[r]: ticks until r's deadline; once r has a slot, the
              \* ticks its query may still take
    branch,   \* branch[r]: which try block of _acquire_slot r is in
    redisUp,  \* Redis answers
    sem,      \* value of smkrv:sem:<connection>, 0 when there is no key
    semTtl,   \* ticks until that key expires, 0 when it has no TTL
    queue,    \* value of smkrv:queue:<connection>, 0 when there is no key
    queueTtl, \* ticks until that key expires, 0 without a TTL, NoKey when absent
    lapsed,   \* that key has expired while requests were counted in it
    faults    \* the faults of this behaviour

queueKey == <<queue, queueTtl, lapsed>>
vars == <<pc, timer, branch, redisUp, sem, semTtl, queue, queueTtl, lapsed, faults>>

NoKey == -1

(***************************************************************************)
(* Program points.  "try", "join" and "poll" look for a slot; "leave" has  *)
(* one and must still take itself out of the queue counter; "giveUp" has   *)
(* missed its deadline; "unwind" handles an exception.  A point with a 0   *)
(* has seen DECR go below zero and is about to write 0.                    *)
(***************************************************************************)
Decrementing == {"leave", "giveUp", "unwind"}
Flooring == {"leave0", "giveUp0", "unwind0"}
Points == {"idle", "try", "join", "poll", "run", "release", "record",
           "recordTimeout", "localWait", "localRun"} \union Decrementing \union Flooring

FloorOf == [leave |-> "leave0", giveUp |-> "giveUp0", unwind |-> "unwind0"]
Branches == {"direct",   \* got the slot at once, or is still outside any try
             "queue",    \* counted itself into the queue
             "failed"}   \* ... and its query raised an Exception

AfterDecr == [leave |-> "run", leave0 |-> "run",
              giveUp |-> "recordTimeout", giveUp0 |-> "recordTimeout",
              unwind |-> "idle", unwind0 |-> "idle"]

\* Requests that were granted a Redis slot and have not given it back.
OwnerPoints == {"leave", "leave0", "run", "release"}
SlotOwners == {r \in Requests : pc[r] \in OwnerPoints}
LocalOwners == {r \in Requests : pc[r] = "localRun"}
\* Requests that wait in the queue, and those still counted in it.
Waiting == {r \in Requests : pc[r] = "poll"}
Counted == {r \in Requests : pc[r] \in {"poll", "leave", "giveUp"}}

TypeOK ==
    /\ pc \in [Requests -> Points]
    /\ timer \in [Requests -> Nat]
    /\ branch \in [Requests -> Branches]
    /\ redisUp \in BOOLEAN
    /\ sem \in 0 .. MaxConcurrent
    /\ semTtl \in 0 .. LongTtl
    /\ queue \in Int
    /\ queueTtl \in {NoKey} \union (0 .. LongTtl)
    /\ lapsed \in BOOLEAN
    /\ faults \in SUBSET AllFaults

Init ==
    /\ pc = [r \in Requests |-> "idle"]
    /\ timer = [r \in Requests |-> 0]
    /\ branch = [r \in Requests |-> "direct"]
    /\ redisUp = TRUE
    /\ sem = 0
    /\ semTtl = 0
    /\ queue = 0
    /\ queueTtl = NoKey
    /\ lapsed = FALSE
    /\ faults \in FaultMixes

Goto(r, from, to) ==
    /\ pc[r] = from
    /\ pc' = [pc EXCEPT ![r] = to]

-----------------------------------------------------------------------------
(* The Redis side: the two scripts, INCR and DECR, and EXPIRE              *)

\* Mutants: no look at the limit; TTL set only when the key is created.
AcquireScript_NoLimit ==
    /\ sem' = sem + 1
    /\ semTtl' = ShortTtl

AcquireScript_TtlOnce ==
    /\ sem < MaxConcurrent
    /\ sem' = sem + 1
    /\ semTtl' = IF semTtl = 0 THEN ShortTtl ELSE semTtl

\* Mutant: no EXPIRE at all.
AcquireScript_NoTtl ==
    /\ sem < MaxConcurrent
    /\ sem' = sem + 1
    /\ UNCHANGED semTtl

AcquireScript ==
    /\ sem < MaxConcurrent
    /\ sem' = sem + 1
    /\ semTtl' = ShortTtl

ReleaseScript ==
    /\ sem' = IF sem > 0 THEN sem - 1 ELSE 0
    /\ UNCHANGED semTtl

\* INCR and DECR of the queue key: without a key they make one without TTL,
\* and they leave the TTL of a key alone.
AddToQueue(n) ==
    /\ queue' = queue + n
    /\ queueTtl' = IF queueTtl = NoKey THEN 0 ELSE queueTtl
    /\ UNCHANGED lapsed

\* EXPIRE of both keys in one transaction; it does nothing to an absent key.
RefreshTtl ==
    /\ semTtl' = IF redisUp /\ (semTtl > 0 \/ sem > 0) THEN LongTtl ELSE semTtl
    /\ queueTtl' = IF redisUp /\ queueTtl # NoKey THEN LongTtl ELSE queueTtl
    /\ UNCHANGED <<sem, queue, lapsed>>

-----------------------------------------------------------------------------
(* One request                                                             *)

\* _get_redis decides once, with a PING, which mode the request uses.
Start(r) ==
    /\ Goto(r, "idle", IF redisUp THEN "try" ELSE "localWait")
    /\ timer' = [timer EXCEPT ![r] = Timeout]
    /\ branch' = [branch EXCEPT ![r] = "direct"]
    /\ UNCHANGED <<redisUp, sem, semTtl, queueKey>>

TryAcquire(r) ==
    /\ redisUp
    /\ Goto(r, "try", "run")
    /\ AcquireScript
    /\ timer' = [timer EXCEPT ![r] = ShortTtl - 1]
    /\ UNCHANGED <<branch, redisUp, queueKey>>

TryRefused(r) ==
    /\ redisUp
    /\ sem >= MaxConcurrent
    /\ Goto(r, "try", "join")
    /\ UNCHANGED <<timer, branch, redisUp, sem, semTtl, queueKey>>

\* INCR of the queue counter, then the first look at the deadline.
JoinQueue(r) ==
    /\ redisUp
    /\ queue < QueueBound
    /\ Goto(r, "join", IF timer[r] = 0 THEN "giveUp" ELSE "poll")
    /\ AddToQueue(1)
    /\ branch' = [branch EXCEPT ![r] = "queue"]
    /\ UNCHANGED <<timer, redisUp, sem, semTtl>>

\* The commands before the try block of the queue: an error ends the request.
FailBeforeQueue(r) ==
    /\ ~redisUp
    /\ pc[r] \in {"try", "join"}
    /\ pc' = [pc EXCEPT ![r] = "idle"]
    /\ UNCHANGED <<timer, branch, redisUp, sem, semTtl, queueKey>>

PollAcquire(r) ==
    /\ redisUp
    /\ Goto(r, "poll", "leave")
    /\ AcquireScript
    /\ timer' = [timer EXCEPT ![r] = ShortTtl - 1]
    /\ UNCHANGED <<branch, redisUp, queueKey>>

\* Mutant: a poll that fails does not look at the deadline.
PollTimeout_Never(r) ==
    /\ FALSE
    /\ UNCHANGED <<pc, timer, branch, redisUp, sem, semTtl, queueKey>>

\* A refused poll goes back to sleep unless the deadline has passed.
PollTimeout(r) ==
    /\ redisUp
    /\ sem >= MaxConcurrent
    /\ timer[r] = 0
    /\ Goto(r, "poll", "giveUp")
    /\ UNCHANGED <<timer, branch, redisUp, sem, semTtl, queueKey>>

PollError(r) ==
    /\ ~redisUp
    /\ Goto(r, "poll", "unwind")
    /\ UNCHANGED <<timer, branch, redisUp, sem, semTtl, queueKey>>

\* Mutants: the slot counter is decremented instead of the queue counter;
\* the decrement is forgotten.
DecrQueue_WrongKey(r) ==
    /\ pc[r] \in Decrementing
    /\ sem' = IF sem > 0 THEN sem - 1 ELSE 0
    /\ pc' = [pc EXCEPT ![r] = AfterDecr[pc[r]]]
    /\ UNCHANGED <<timer, branch, redisUp, semTtl, queueKey>>

DecrQueue_Forgotten(r) ==
    /\ pc[r] \in Decrementing
    /\ pc' = [pc EXCEPT ![r] = AfterDecr[pc[r]]]
    /\ UNCHANGED <<timer, branch, redisUp, sem, semTtl, queueKey>>

\* _safe_decr_queue: DECR, and when the result is negative a separate SET 0.
\* Without Redis both commands fail and the failure is swallowed.
DecrQueue(r) ==
    /\ pc[r] \in Decrementing
    /\ queue > -QueueBound
    /\ IF redisUp THEN AddToQueue(-1) ELSE UNCHANGED queueKey
    /\ pc' = [pc EXCEPT ![r] = IF queue' < 0 /\ redisUp THEN FloorOf[pc[r]]
                                                        ELSE AfterDecr[pc[r]]]
    /\ UNCHANGED <<timer, branch, redisUp, sem, semTtl>>

FloorQueue(r) ==
    /\ pc[r] \in Flooring
    /\ queue' = IF redisUp THEN 0 ELSE queue
    /\ queueTtl' = IF redisUp THEN 0 ELSE queueTtl
    /\ UNCHANGED lapsed
    /\ pc' = [pc EXCEPT ![r] = AfterDecr[pc[r]]]
    /\ UNCHANGED <<timer, branch, redisUp, sem, semTtl>>

\* The query returns rows, or raises TimeoutError, which is re-raised as it is.
QueryEnds(r) ==
    /\ Goto(r, "run", "release")
    /\ UNCHANGED <<timer, branch, redisUp, sem, semTtl, queueKey>>

QueryRaises(r) ==
    /\ "error" \in faults
    /\ Goto(r, "run", "release")
    /\ branch' = [branch EXCEPT ![r] = IF @ = "queue" THEN "failed" ELSE @]
    /\ UNCHANGED <<timer, redisUp, sem, semTtl, queueKey>>

\* Mutant: the slot is not given back when the query raised.
Release_Leaks(r) ==
    /\ redisUp
    /\ Goto(r, "release", "record")
    /\ IF branch[r] = "failed" THEN UNCHANGED <<sem, semTtl>> ELSE ReleaseScript
    /\ UNCHANGED <<timer, branch, redisUp, queueKey>>

Release(r) ==
    /\ redisUp
    /\ Goto(r, "release", "record")
    /\ ReleaseScript
    /\ UNCHANGED <<timer, branch, redisUp, queueKey>>

\* Three failed attempts are logged and forgotten: the slot stays counted.
ReleaseFails(r) ==
    /\ ~redisUp
    /\ Goto(r, "release", "record")
    /\ UNCHANGED <<timer, branch, redisUp, sem, semTtl, queueKey>>

\* _record_metrics after the query.  An exception of the query then leaves
\* the inner finally and reaches the handler around the queue.
Record(r) ==
    /\ Goto(r, "record", IF branch[r] = "failed" THEN "unwind" ELSE "idle")
    /\ RefreshTtl
    /\ UNCHANGED <<timer, branch, redisUp>>

RecordTimeout(r) ==
    /\ Goto(r, "recordTimeout", "idle")
    /\ RefreshTtl
    /\ UNCHANGED <<timer, branch, redisUp>>

LocalAcquire(r) ==
    /\ Cardinality(LocalOwners) < MaxConcurrent
    /\ Goto(r, "localWait", "localRun")
    /\ UNCHANGED <<timer, branch, redisUp, sem, semTtl, queueKey>>

LocalTimeout(r) ==
    /\ timer[r] = 0
    /\ Goto(r, "localWait", "idle")
    /\ UNCHANGED <<timer, branch, redisUp, sem, semTtl, queueKey>>

LocalEnds(r) ==
    /\ Goto(r, "localRun", "idle")
    /\ UNCHANGED <<timer, branch, redisUp, sem, semTtl, queueKey>>

-----------------------------------------------------------------------------
(* What happens to requests, to Redis and to the clock                     *)

\* CancelledError is no Exception: only the finally clauses run.  A running
\* query still gives its slot back; every other await just ends the request.
CancelQuery(r) ==
    /\ "cancel" \in faults
    /\ Goto(r, "run", "release")
    /\ UNCHANGED <<timer, branch, redisUp, sem, semTtl, queueKey>>

CancelBeforeCommand(r) ==
    /\ "cancel" \in faults
    /\ pc[r] \notin {"idle", "run"}
    /\ pc' = [pc EXCEPT ![r] = "idle"]
    /\ UNCHANGED <<timer, branch, redisUp, sem, semTtl, queueKey>>

\* The command ran and the cancellation arrives before its reply.
CancelAfterAcquire(r) ==
    /\ "cancel" \in faults
    /\ redisUp
    /\ pc[r] \in {"try", "poll"}
    /\ pc' = [pc EXCEPT ![r] = "idle"]
    /\ AcquireScript
    /\ UNCHANGED <<timer, branch, redisUp, queueKey>>

CancelAfterDecr(r) ==
    /\ "cancel" \in faults
    /\ redisUp
    /\ pc[r] \in Decrementing
    /\ queue > -QueueBound
    /\ AddToQueue(-1)
    /\ pc' = [pc EXCEPT ![r] = "idle"]
    /\ UNCHANGED <<timer, branch, redisUp, sem, semTtl>>

\* _redis_acquire and _redis_release repeat a script whose reply was lost.
AcquireReplyLost(r) ==
    /\ "lost_reply" \in faults
    /\ redisUp
    /\ pc[r] \in {"try", "poll"}
    /\ AcquireScript
    /\ UNCHANGED <<pc, timer, branch, redisUp, queueKey>>

ReleaseReplyLost(r) ==
    /\ "lost_reply" \in faults
    /\ redisUp
    /\ pc[r] = "release"
    /\ ReleaseScript
    /\ UNCHANGED <<pc, timer, branch, redisUp, queueKey>>

\* The process ends: requests vanish, the counters in Redis stay.
Crash ==
    /\ "crash" \in faults
    /\ \E r \in Requests : pc[r] # "idle"
    /\ pc' = [r \in Requests |-> "idle"]
    /\ UNCHANGED <<timer, branch, redisUp, sem, semTtl, queueKey>>

RedisDown ==
    /\ "outage" \in faults
    /\ redisUp
    /\ redisUp' = FALSE
    /\ UNCHANGED <<pc, timer, branch, sem, semTtl, queueKey>>

RedisBack ==
    /\ ~redisUp
    /\ redisUp' = TRUE
    /\ UNCHANGED <<pc, timer, branch, sem, semTtl, queueKey>>

\* A tick of the clock; a key disappears when its TTL runs out.
\* Unless "overrun" is a fault, a slot is held for less than ShortTtl.
Tick ==
    /\ (\A r \in SlotOwners : timer[r] > 0) \/ "overrun" \in faults
    /\ timer' = [r \in Requests |-> IF timer[r] > 0 THEN timer[r] - 1 ELSE 0]
    /\ semTtl' = IF semTtl > 0 THEN semTtl - 1 ELSE 0
    /\ sem' = IF semTtl = 1 THEN 0 ELSE sem
    /\ queueTtl' = CASE queueTtl > 1 -> queueTtl - 1
                     [] queueTtl = 1 -> NoKey
                     [] OTHER -> queueTtl
    /\ queue' = IF queueTtl = 1 THEN 0 ELSE queue
    /\ lapsed' = (lapsed \/ (queueTtl = 1 /\ Counted # {}))
    /\ UNCHANGED <<pc, branch, redisUp>>

-----------------------------------------------------------------------------
Acquiring(r) ==
    \/ Start(r) \/ TryAcquire(r) \/ TryRefused(r) \/ JoinQueue(r)
    \/ FailBeforeQueue(r) \/ LocalAcquire(r) \/ LocalTimeout(r)

Queueing(r) ==
    \/ PollAcquire(r) \/ PollTimeout(r) \/ PollError(r)
    \/ DecrQueue(r) \/ FloorQueue(r)

Finishing(r) ==
    \/ QueryEnds(r) \/ QueryRaises(r) \/ Release(r) \/ ReleaseFails(r)
    \/ Record(r) \/ RecordTimeout(r) \/ LocalEnds(r)

Disturbing(r) ==
    \/ CancelQuery(r) \/ CancelBeforeCommand(r) \/ CancelAfterAcquire(r)
    \/ CancelAfterDecr(r) \/ AcquireReplyLost(r) \/ ReleaseReplyLost(r)

Environment == Crash \/ RedisDown \/ RedisBack \/ Tick

Next ==
    /\ \/ \E r \in Requests : Acquiring(r) \/ Queueing(r) \/ Finishing(r) \/ Disturbing(r)
       \/ Environment
    /\ UNCHANGED faults

Spec == Init /\ [][Next]_vars

\* The event loop resumes every request whose await is over, queries end,
\* and time passes.  Nothing says that requests arrive or that faults happen.
Proceed(r) ==
    /\ \/ TryAcquire(r) \/ TryRefused(r) \/ JoinQueue(r) \/ FailBeforeQueue(r)
       \/ LocalAcquire(r) \/ LocalTimeout(r) \/ Queueing(r) \/ Finishing(r)
    /\ UNCHANGED faults

Fairness ==
    /\ \A r \in Requests : WF_vars(Proceed(r))
    /\ WF_vars(Tick /\ UNCHANGED faults)
    /\ WF_vars(RedisBack /\ UNCHANGED faults)

FairSpec == Spec /\ Fairness
-----------------------------------------------------------------------------
(* Properties                                                              *)

\* The faults that cost slots but never grant one twice.
Tolerated == {"overrun", "lost_reply"} \cap faults = {}

\* No more than max_concurrent_queries requests run on this connection at a
\* time, the ones with a slot in Redis and the ones with a local slot counted
\* together, as long as no query outruns the key and no script loses its
\* reply.  With an outage the requests that began before or after it hold
\* Redis slots beside those that fell back: then twice the limit is the bound.
SlotLimit ==
    Tolerated => Cardinality(SlotOwners \union LocalOwners)
                    <= IF "outage" \in faults THEN 2 * MaxConcurrent ELSE MaxConcurrent

\* The counter never claims fewer holders than there are: whatever tolerated
\* faults hit _acquire_slot, they lose slots and never grant one twice.
SemCoversOwners == Tolerated => Cardinality(SlotOwners) <= sem

\* When at most queries fail, the counter is exact: each way through
\* _acquire_slot gives back the one slot it took.
SemExact == faults \subseteq {"error"} => sem = Cardinality(SlotOwners)

\* RS-1: the counter is never above zero without a time-to-live, so that no
\* leak can outlast the key.
LeaksExpire == sem > 0 => semTtl > 0

\* A slot held by a running query is backed by a key that will outlive the
\* query's remaining time: the scripts rearm the TTL at each acquisition.
KeyOutlivesOwners == Tolerated => \A r \in SlotOwners : timer[r] < semTtl

\* The queue counter against the requests that entered the queue and have not
\* taken themselves out again ("Queued Queries: number of queries waiting in
\* the queue"), while nothing is cancelled, the process stays up and Redis
\* answers.  It is their number unless a query raised, whose handler counts it
\* out a second time, or the key expired under them.  Even then it never
\* shows a request that is gone, and a decrement below zero is made good by
\* the SET that follows: once the queue is empty it shows 0 again.
QueueExact ==
    /\ faults \subseteq {"lost_reply", "overrun"} /\ ~lapsed
            => queue = Cardinality(Counted)
    /\ {"cancel", "crash", "outage"} \cap faults = {}
            => /\ queue <= Cardinality(Counted)
               /\ queue < 0 => \E r \in Requests : pc[r] \in Flooring

\* A request in the queue gets a slot, times out or fails; it does not poll
\* forever, whatever the other requests and the faults do.
QueuedIsAnswered == \A r \in Requests : pc[r] = "poll" ~> pc[r] # "poll"

\* RS-1, when the traffic stops: slots leaked by faults come back.
RecoversWhenIdle ==
    <>[](\A r \in Requests : pc[r] = "idle") => <>[](sem = 0)

\* RS-1, under traffic: unless the process keeps crashing, a leak never
\* takes all the slots for good.
LeakIsTemporary == []<><<Crash>>_vars \/ []<>(sem < MaxConcurrent)

\* The counter protocol implements the slot pool that holds the owners.
Pool == INSTANCE SlotPool WITH Users <- Requests, Size <- MaxConcurrent,
                               busy <- SlotOwners
ImplementsPool ==
    /\ Tolerated => Pool!Init
    /\ [][Tolerated => Pool!Next]_SlotOwners
=============================================================================
