---------------------------- MODULE MetricsRollup ----------------------------
(***************************************************************************)
(* The time series of the generated MCP server's tool calls                *)
(* (templates/shared_metrics.py.j2) and its daily snapshots in the         *)
(* backend's database (services/metrics_persistence.py).                   *)
(*                                                                         *)
(* Each call is added to the Redis key of its minute.  A completed hour is *)
(* rolled up into an hourly key, a completed day into a daily key, once:   *)
(* the rollup script skips a target that exists.  Rollups are started by   *)
(* the first call after a boundary, by a loop that wakes up every minute   *)
(* and by a catch-up at the first access after a start.  The first access  *)
(* is also what starts the loop.                                           *)
(*                                                                         *)
(* A key is abstracted to the set of calls it adds up; the sixty minute    *)
(* keys of an hour are one.  Every call is a coroutine of its own, the     *)
(* loop is another; every await is a step boundary.                        *)
(*                                                                         *)
(* faults, chosen once per behaviour, may contain                          *)
(*   "straddle"  a call or the loop may be under way across a full hour    *)
(*   "late"      the loop, whose first round is a minute away from the     *)
(*               first access, may have no round in the hour it started    *)
(*   "error"     Redis commands may fail, calls may be cancelled           *)
(*   "restart"   the server may be restarted, once                         *)
(*   "wipe"      Redis may lose its data, once                             *)
(***************************************************************************)
EXTENDS Integers, FiniteSets

CONSTANTS Calls,        \* tool calls, or requests for the metrics
          Loop,         \* the periodic rollup task
          HoursPerDay,
          LastHour,     \* bound on the clock
          FaultMixes

AllFaults == {"straddle", "late", "error", "restart", "wipe"}

ASSUME LoopIsNoCall == Loop \notin Calls
ASSUME BoundsPositive == HoursPerDay \in Nat \ {0} /\ LastHour \in Nat
ASSUME FaultsKnown == FaultMixes \subseteq SUBSET AllFaults

Hours == 0 .. LastHour
DayOf(h) == h \div HoursPerDay
Days == {DayOf(h) : h \in Hours}
Never == -1             \* a boundary mark that has not been set
Actors == Calls \union {Loop}

VARIABLES
    hour,       \* the clock
    minute,     \* minute[h]: calls in the minute keys of hour h
    hourly,     \* hourly[h]: calls in the hourly key, {} when it is absent
    daily,      \* daily[d]: likewise
    snapshot,   \* snapshot[d]: the row of the backend's database
    caughtUp,   \* _startup_done
    seenHour,   \* the last hour seen, by the calls together and by the loop
    seenDay,
    pc, now, hoursTodo, daysTodo,   \* the coroutines
    faults

series == <<minute, hourly, daily>>
marks == <<caughtUp, seenHour, seenDay>>
frames == <<pc, now, hoursTodo, daysTodo>>
vars == <<hour, series, snapshot, marks, frames, faults>>

\* The recorder's own marks are shared by all calls.
Recorder == "recorder"
ASSUME LoopHasOwnMarks == Loop # Recorder
View(a) == IF a = Loop THEN Loop ELSE Recorder
Views == {Recorder, Loop}

Points == {"start", "catchHours", "catchDays", "ready", "counting", "counted",
           "rollHour", "hourRolled", "rollDay", "dayRolled", "done"}

TypeOK ==
    /\ hour \in Hours
    /\ minute \in [Hours -> SUBSET Calls]
    /\ hourly \in [Hours -> SUBSET Calls]
    /\ daily \in [Days -> SUBSET Calls]
    /\ snapshot \in [Days -> SUBSET Calls]
    /\ caughtUp \in BOOLEAN
    /\ seenHour \in [Views -> Hours \union {Never}]
    /\ seenDay \in [Views -> Days \union {Never}]
    /\ pc \in [Actors -> Points]
    /\ now \in [Actors -> Hours]
    /\ hoursTodo \in [Actors -> SUBSET Hours]
    /\ daysTodo \in [Actors -> SUBSET Days]
    /\ faults \in SUBSET AllFaults

Init ==
    /\ hour = 0
    /\ minute = [h \in Hours |-> {}]
    /\ hourly = [h \in Hours |-> {}]
    /\ daily = [d \in Days |-> {}]
    /\ snapshot = [d \in Days |-> {}]
    /\ caughtUp = FALSE
    /\ seenHour = [v \in Views |-> Never]
    /\ seenDay = [v \in Views |-> Never]
    /\ pc = [a \in Actors |-> IF a = Loop THEN "done" ELSE "start"]
    /\ now = [a \in Actors |-> 0]
    /\ hoursTodo = [a \in Actors |-> {}]
    /\ daysTodo = [a \in Actors |-> {}]
    /\ faults \in FaultMixes

\* The loop comes round again, a call is through.
Rest(a) == IF a = Loop THEN "start" ELSE "done"

Goto(a, from, to) ==
    /\ pc[a] = from
    /\ pc' = [pc EXCEPT ![a] = to]

-----------------------------------------------------------------------------
(* The rollup script, atomic in Redis *)

HoursOf(d) == {h \in Hours : DayOf(h) = d}
Counted(keys, hs) == UNION {keys[h] : h \in hs}

\* Mutant: the hour before, off by one.
RollUpHour_Before(h) ==
    /\ hourly' = [hourly EXCEPT ![h] =
                    IF @ = {} /\ h > 0 THEN minute[h - 1] ELSE @]
    /\ UNCHANGED <<minute, daily>>

RollUpHour(h) ==
    /\ hourly' = [hourly EXCEPT ![h] = IF @ = {} THEN minute[h] ELSE @]
    /\ UNCHANGED <<minute, daily>>

RollUpDay(d) ==
    /\ daily' = [daily EXCEPT ![d] =
                    IF @ = {} THEN Counted(hourly, HoursOf(d)) ELSE @]
    /\ UNCHANGED <<minute, hourly>>

\* A failing command leaves the keys alone; the error is swallowed.
OrFails(Roll) ==
    \/ Roll
    \/ "error" \in faults /\ UNCHANGED series

-----------------------------------------------------------------------------
(* get_metrics_recorder, which starts the loop once; its first round is a  *)
(* minute away                                                             *)

Starting(a) == IF pc[Loop] = "done" THEN {a, Loop} ELSE {a}

(* _get_redis, with the catch-up on its first success *)

Enter(a) ==
    LET to == IF caughtUp THEN "ready" ELSE "catchHours" IN
    /\ pc[a] = "start"
    /\ pc' = [pc EXCEPT ![Loop] = IF @ = "done" THEN "start" ELSE @, ![a] = to]
    /\ now' = [b \in Actors |-> IF b \in Starting(a) THEN hour ELSE now[b]]
    /\ hoursTodo' = [hoursTodo EXCEPT ![a] =
                       IF caughtUp THEN {} ELSE {h \in Hours : minute[h] # {}} \ {hour}]
    /\ UNCHANGED <<hour, series, snapshot, marks, daysTodo, faults>>

CatchHour(a, h) ==
    /\ pc[a] = "catchHours"
    /\ h \in hoursTodo[a]
    /\ OrFails(RollUpHour(h))
    /\ hoursTodo' = [hoursTodo EXCEPT ![a] = @ \ {h}]
    /\ UNCHANGED <<hour, snapshot, marks, pc, now, daysTodo, faults>>

\* Mutant: the day in progress is not left out.
CatchScan_Today(a) ==
    /\ Goto(a, "catchHours", "catchDays")
    /\ hoursTodo[a] = {}
    /\ daysTodo' = [daysTodo EXCEPT ![a] = {DayOf(h) : h \in {k \in Hours : hourly[k] # {}}}]
    /\ UNCHANGED <<hour, series, snapshot, marks, now, hoursTodo, faults>>

CatchScan(a) ==
    /\ Goto(a, "catchHours", "catchDays")
    /\ hoursTodo[a] = {}
    /\ daysTodo' = [daysTodo EXCEPT ![a] =
                      {DayOf(h) : h \in {k \in Hours : hourly[k] # {}}} \ {DayOf(now[a])}]
    /\ UNCHANGED <<hour, series, snapshot, marks, now, hoursTodo, faults>>

CatchDay(a, d) ==
    /\ pc[a] = "catchDays"
    /\ d \in daysTodo[a]
    /\ OrFails(RollUpDay(d))
    /\ daysTodo' = [daysTodo EXCEPT ![a] = @ \ {d}]
    /\ UNCHANGED <<hour, snapshot, marks, pc, now, hoursTodo, faults>>

CatchEnd(a) ==
    /\ Goto(a, "catchDays", "ready")
    /\ daysTodo[a] = {}
    /\ caughtUp' = TRUE
    /\ seenHour' = [seenHour EXCEPT ![Recorder] = now[a]]
    /\ seenDay' = [seenDay EXCEPT ![Recorder] = DayOf(now[a])]
    /\ UNCHANGED <<hour, series, snapshot, now, hoursTodo, daysTodo, faults>>

\* A scan that fails ends the catch-up: it is not tried again, and the marks
\* stay unset.
CatchFails(a) ==
    /\ "error" \in faults
    /\ pc[a] \in {"catchHours", "catchDays"}
    /\ pc' = [pc EXCEPT ![a] = "ready"]
    /\ caughtUp' = TRUE
    /\ hoursTodo' = [hoursTodo EXCEPT ![a] = {}]
    /\ daysTodo' = [daysTodo EXCEPT ![a] = {}]
    /\ UNCHANGED <<hour, series, snapshot, seenHour, seenDay, now, faults>>

-----------------------------------------------------------------------------
(* record and _periodic_rollup_loop *)

\* The coroutine reads the clock; the loop has nothing to count.
Stamp(a) ==
    /\ Goto(a, "ready", IF a = Loop THEN "counted" ELSE "counting")
    /\ now' = [now EXCEPT ![a] = hour]
    /\ UNCHANGED <<hour, series, snapshot, marks, hoursTodo, daysTodo, faults>>

\* A request for the metrics only reads.
Read(a) ==
    /\ Goto(a, "ready", "done")
    /\ UNCHANGED <<hour, series, snapshot, marks, now, hoursTodo, daysTodo, faults>>

Count(a) ==
    /\ Goto(a, "counting", "counted")
    /\ minute' = [minute EXCEPT ![now[a]] = @ \union {a}]
    /\ UNCHANGED <<hour, hourly, daily, snapshot, marks, now, hoursTodo, daysTodo, faults>>

\* Mutant: one boundary too late.
Crossed_Late(mark, current) == mark # Never /\ mark + 1 < current

Crossed(mark, current) == mark # Never /\ mark # current

\* After the hour comes the day, without an await in between.
HourDone(a) ==
    LET v == View(a)
        cross == Crossed(seenDay[v], DayOf(now[a])) IN
    /\ seenHour' = [seenHour EXCEPT ![v] = now[a]]
    /\ pc' = [pc EXCEPT ![a] = IF cross THEN "rollDay" ELSE Rest(a)]
    /\ seenDay' = [seenDay EXCEPT ![v] = IF cross THEN @ ELSE DayOf(now[a])]
    /\ daysTodo' = [daysTodo EXCEPT ![a] = IF cross THEN {seenDay[v]} ELSE {}]

CheckHour(a) ==
    /\ pc[a] = "counted"
    /\ LET mark == seenHour[View(a)] IN
       IF Crossed(mark, now[a])
       THEN /\ pc' = [pc EXCEPT ![a] = "rollHour"]
            /\ hoursTodo' = [hoursTodo EXCEPT ![a] = {mark}]
            /\ UNCHANGED <<daysTodo, marks>>
       ELSE HourDone(a) /\ UNCHANGED <<hoursTodo, caughtUp>>
    /\ UNCHANGED <<hour, series, snapshot, now, faults>>

RollHour(a, h) ==
    /\ Goto(a, "rollHour", "hourRolled")
    /\ h \in hoursTodo[a]
    /\ OrFails(RollUpHour(h))
    /\ hoursTodo' = [hoursTodo EXCEPT ![a] = {}]
    /\ UNCHANGED <<hour, snapshot, marks, now, daysTodo, faults>>

HourRolled(a) ==
    /\ pc[a] = "hourRolled"
    /\ HourDone(a)
    /\ UNCHANGED <<hour, series, snapshot, caughtUp, now, hoursTodo, faults>>

RollDay(a, d) ==
    /\ Goto(a, "rollDay", "dayRolled")
    /\ d \in daysTodo[a]
    /\ OrFails(RollUpDay(d))
    /\ daysTodo' = [daysTodo EXCEPT ![a] = {}]
    /\ UNCHANGED <<hour, snapshot, marks, now, hoursTodo, faults>>

\* Mutant: the key of the hour in place of the key of the day.
DayRolled_HourKey(a) ==
    /\ Goto(a, "dayRolled", Rest(a))
    /\ seenDay' = [seenDay EXCEPT ![View(a)] = now[a]]
    /\ UNCHANGED <<hour, series, snapshot, caughtUp, seenHour, now, hoursTodo, daysTodo, faults>>

DayRolled(a) ==
    /\ Goto(a, "dayRolled", Rest(a))
    /\ seenDay' = [seenDay EXCEPT ![View(a)] = DayOf(now[a])]
    /\ UNCHANGED <<hour, series, snapshot, caughtUp, seenHour, now, hoursTodo, daysTodo, faults>>

\* An exception or a cancellation ends the recording of a call, or the round
\* of the loop.
Fail(a) ==
    /\ "error" \in faults
    /\ pc[a] \notin {"start", "done"}
    /\ pc' = [pc EXCEPT ![a] = Rest(a)]
    /\ hoursTodo' = [hoursTodo EXCEPT ![a] = {}]
    /\ daysTodo' = [daysTodo EXCEPT ![a] = {}]
    /\ UNCHANGED <<hour, series, snapshot, marks, now, faults>>

-----------------------------------------------------------------------------
(* The backend persists completed days; the rest of the environment *)

\* Mutant: a day without a key is written, too.
Persist_Mirror ==
    /\ snapshot' = [d \in Days |-> IF d # DayOf(hour) THEN daily[d] ELSE snapshot[d]]
    /\ UNCHANGED <<hour, series, marks, frames, faults>>

Persist ==
    /\ snapshot' = [d \in Days |-> IF daily[d] # {} /\ d # DayOf(hour)
                                    THEN daily[d] ELSE snapshot[d]]
    /\ UNCHANGED <<hour, series, marks, frames, faults>>

\* Once started, the loop comes round sixty times in an hour.
LoopKeepsUp ==
    \/ pc[Loop] = "done"
    \/ now[Loop] = hour /\ ("late" \in faults \/ seenHour[Loop] # Never)

Tick ==
    /\ hour < LastHour
    /\ LoopKeepsUp
    /\ "straddle" \in faults \/ \A a \in Actors : pc[a] \in {"start", "done"}
    /\ hour' = hour + 1
    /\ UNCHANGED <<series, snapshot, marks, frames, faults>>

Restart ==
    /\ "restart" \in faults
    /\ faults' = faults \ {"restart"}
    /\ caughtUp' = FALSE
    /\ seenHour' = [v \in Views |-> Never]
    /\ seenDay' = [v \in Views |-> Never]
    /\ pc' = [a \in Actors |-> IF pc[a] = "start" /\ a # Loop THEN "start" ELSE "done"]
    /\ hoursTodo' = [a \in Actors |-> {}]
    /\ daysTodo' = [a \in Actors |-> {}]
    /\ UNCHANGED <<hour, series, snapshot, now>>

RedisWiped ==
    /\ "wipe" \in faults
    /\ faults' = faults \ {"wipe"}
    /\ minute' = [h \in Hours |-> {}]
    /\ hourly' = [h \in Hours |-> {}]
    /\ daily' = [d \in Days |-> {}]
    /\ UNCHANGED <<hour, snapshot, marks, frames>>

Work(a) ==
    \/ Enter(a) \/ CatchScan(a) \/ CatchEnd(a)
    \/ \E h \in Hours : CatchHour(a, h) \/ RollHour(a, h)
    \/ \E d \in Days : CatchDay(a, d) \/ RollDay(a, d)
    \/ Stamp(a) \/ CheckHour(a) \/ HourRolled(a) \/ DayRolled(a)

Next ==
    \/ \E a \in Actors : Work(a) \/ CatchFails(a) \/ Fail(a)
    \/ \E c \in Calls : Count(c) \/ Read(c)
    \/ Persist \/ Tick \/ Restart \/ RedisWiped

Spec == Init /\ [][Next]_vars

\* Coroutines are scheduled, and time passes.
FairSpec ==
    /\ Spec
    /\ \A a \in Actors : WF_vars(Work(a))
    /\ \A c \in Calls : WF_vars(Count(c))

-----------------------------------------------------------------------------
(* Properties *)

(***************************************************************************)
(* As long as no recording straddles a full hour, the hourly key of an     *)
(* hour is exact from the moment it exists, whoever made it: the script    *)
(* runs once per hour and must neither be early nor miss a call.           *)
(***************************************************************************)
HourlyExact ==
    "straddle" \notin faults =>
        \A h \in Hours : hourly[h] # {} => h < hour /\ hourly[h] = minute[h]

(***************************************************************************)
(* Without errors a day's key is exact too: all hours of the day were      *)
(* rolled up before it, across restarts and losses, as long as the loop    *)
(* has a round in the hour it starts in.                                   *)
(***************************************************************************)
DayTotal(d) == Counted(minute, HoursOf(d))

DailyExact ==
    faults \intersect {"straddle", "late", "error"} = {} =>
        \A d \in Days : daily[d] # {} => d < DayOf(hour) /\ daily[d] = DayTotal(d)

(***************************************************************************)
(* "Dashboard data now persists across Docker restarts and retains up to   *)
(* 90 days of history via automatic hourly and daily rollups": the key of  *)
(* a day, made once, has all its calls, whenever the server was started.   *)
(***************************************************************************)
RestartKeepsHistory ==
    faults \subseteq {"late", "restart"} =>
        \A d \in Days : daily[d] # {} => daily[d] = DayTotal(d)

(***************************************************************************)
(* "Metrics survive complete Redis data loss": as long as no recording     *)
(* straddles a full hour, a row once persisted stands, although the        *)
(* persister writes every day it finds in Redis again and again.  Neither  *)
(* a catch-up after errors, nor what is recorded after a loss, makes the   *)
(* key of a past day anew.                                                 *)
(***************************************************************************)
RowsStand ==
    [][\A d \in Days :
          "straddle" \notin faults /\ snapshot[d] # {} => snapshot'[d] = snapshot[d]]_vars

(***************************************************************************)
(* "Deterministic rollup": without errors, an hour with calls that the     *)
(* loop has seen is rolled up sooner or later, even if no call follows;    *)
(* after a restart, if the server is accessed at all.                      *)
(***************************************************************************)
SeenAndOver(h) ==
    /\ minute[h] # {}
    /\ h < hour
    /\ \/ pc[Loop] = "start" /\ seenHour[Loop] = h
       \/ pc[Loop] = "done" /\ \E c \in Calls : pc[c] = "start"

HoursRolledUp ==
    \A h \in Hours :
        faults \subseteq {"straddle", "late"} /\ SeenAndOver(h) ~> hourly[h] # {}
=============================================================================
