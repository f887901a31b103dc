------------------------- MODULE MetricsRollupProofs -------------------------
(***************************************************************************)
(* Proofs about MetricsRollup, for any calls, hours and lengths of a day:  *)
(* typing, exact hourly and daily keys, and rows that stand.               *)
(***************************************************************************)
EXTENDS MetricsRollup, TLAPS

-----------------------------------------------------------------------------
(* Days grow with the hours                                                *)

\* What integer division gives.
LEMMA Quotient ==
    \A x \in Nat, k \in Nat \ {0} :
        x \div k \in Nat /\ k * (x \div k) <= x /\ x < k * (x \div k) + k
    OBVIOUS

\* Multiples of k less than k apart are of ordered factors.
LEMMA FactorsOrdered ==
    \A p, q, k \in Nat : k > 0 /\ k * p < k * q + k => p <= q
<1> SUFFICES ASSUME NEW p \in Nat, NEW q \in Nat, NEW k \in Nat, k > 0,
                    k * p < k * q + k, ~(p <= q)
             PROVE FALSE
    OBVIOUS
<1>1. p - q - 1 \in Nat /\ p = q + 1 + (p - q - 1)
    OBVIOUS
<1>2. PICK r \in Nat : p = q + 1 + r
    BY <1>1
<1>3. k * p = k * q + k + k * r
    BY <1>2
<1>4. k * r >= 0
    OBVIOUS
<1> QED
    BY <1>3, <1>4

\* A later hour is not of an earlier day.
LEMMA DaysOrdered ==
    /\ \A d \in Days : d \in Nat
    /\ \A h \in Hours : h \in Nat /\ DayOf(h) \in Days /\ DayOf(h) \in Nat
    /\ \A g, h \in Hours : g <= h => DayOf(g) <= DayOf(h)
<1>1. \A h \in Hours : h \in Nat /\ DayOf(h) \in Days /\ DayOf(h) \in Nat
    BY BoundsPositive, Quotient DEF Hours, Days, DayOf
<1>2. ASSUME NEW g \in Hours, NEW h \in Hours, g <= h PROVE DayOf(g) <= DayOf(h)
    <2>1. HoursPerDay * (g \div HoursPerDay) < HoursPerDay * (h \div HoursPerDay) + HoursPerDay
        BY <1>1, <1>2, BoundsPositive, Quotient
    <2> QED
        BY <2>1, <1>1, <1>2, BoundsPositive, Quotient, FactorsOrdered DEF DayOf
<1>3. \A d \in Days : d \in Nat
    BY <1>1 DEF Days
<1> QED
    BY <1>1, <1>2, <1>3

\* The next hour is one, and not of an earlier day.
LEMMA NextHour ==
    ASSUME hour \in Hours, Tick
    PROVE  /\ hour \in Nat /\ hour' \in Hours /\ hour' = hour + 1
           /\ DayOf(hour) <= DayOf(hour')
<1>1. hour \in Nat /\ hour' \in Hours /\ hour' = hour + 1
    BY BoundsPositive DEF Hours, Tick
<1> QED
    BY <1>1, DaysOrdered

-----------------------------------------------------------------------------
(* The inductive invariant                                                 *)

\* The type invariant without caughtUp, whose values are truth values.
Types ==
    /\ hour \in Hours
    /\ minute \in [Hours -> SUBSET Calls]
    /\ hourly \in [Hours -> SUBSET Calls]
    /\ daily \in [Days -> SUBSET Calls]
    /\ snapshot \in [Days -> SUBSET Calls]
    /\ seenHour \in [Views -> Hours \union {Never}]
    /\ seenDay \in [Views -> Days \union {Never}]
    /\ pc \in [Actors -> Points]
    /\ now \in [Actors -> Hours]
    /\ hoursTodo \in [Actors -> SUBSET Hours]
    /\ daysTodo \in [Actors -> SUBSET Days]
    /\ faults \in SUBSET AllFaults

Prompt == "straddle" \notin faults

\* Who is at work knows the hour; what is due to be rolled up is over.
OnTime ==
    Prompt =>
        /\ \A a \in Actors : pc[a] \notin {"start", "done"} => now[a] = hour
        /\ \A a \in Actors : \A h \in hoursTodo[a] : h < hour
        /\ \A v \in Views : seenHour[v] # Never => seenHour[v] <= hour

\* Nothing is counted ahead of time, and hourly keys are of complete hours.
HoursExact ==
    Prompt =>
        \A h \in Hours :
            /\ minute[h] # {} => h <= hour
            /\ hourly[h] # {} => h < hour /\ hourly[h] = minute[h]

\* A persisted day is over.  Its key in Redis is what was persisted, or was
\* lost together with everything it could be made from again.
Lost(d) ==
    /\ daily[d] = {}
    /\ \A h \in HoursOf(d) : minute[h] = {} /\ hourly[h] = {}

DaysStand ==
    Prompt =>
        \A d \in Days :
            /\ daily[d] # {} => d <= DayOf(hour)
            /\ snapshot[d] # {} => d < DayOf(hour) /\ (daily[d] = snapshot[d] \/ Lost(d))

\* Complete hours whose calls are in their minute keys only.
Pending == {h \in Hours : h < hour /\ minute[h] # {} /\ hourly[h] = {}}

Undisturbed == faults \intersect {"straddle", "late", "error"} = {}

\* Who catches up or rolls up an hour has the pending hours on his list; when
\* he comes to a day, none is pending, and the day is over.
ListsComplete ==
    Undisturbed =>
        \A a \in Actors :
            /\ pc[a] \in {"catchHours", "rollHour"} => Pending \subseteq hoursTodo[a]
            /\ pc[a] \in {"catchDays", "hourRolled", "rollDay", "dayRolled"} => Pending = {}
            /\ pc[a] \notin {"start", "done", "catchHours", "catchDays"} => caughtUp
            /\ pc[a] \notin {"start", "done"} => pc[Loop] # "done"
            /\ pc[a] = "rollHour" => \A g, h \in hoursTodo[a] : g = h
            /\ \A d \in daysTodo[a] : d < DayOf(hour)

\* Once the server has caught up, calls and loop alike remember the one hour
\* that may be pending: a call has to come to its boundary check before the
\* hour ends, and the loop comes round in every hour.
MarksKnown ==
    Undisturbed =>
        /\ caughtUp => /\ pc[Loop] # "done"
                       /\ seenHour[Recorder] # Never
                       /\ Pending \subseteq {seenHour[Recorder]}
                       /\ Pending \subseteq {seenHour[Loop]}
        /\ caughtUp /\ minute[hour] # {} =>
                \/ seenHour[Recorder] = hour
                \/ \E c \in Calls : pc[c] \in {"counted", "rollHour", "hourRolled"}

\* What the loop remembers is the hour of its last round.
LoopKnows ==
    Undisturbed =>
        /\ pc[Loop] = "done" => seenHour[Loop] = Never
        /\ pc[Loop] = "start" /\ seenHour[Loop] # Never => seenHour[Loop] = now[Loop]
        /\ pc[Loop] \in {"rollDay", "dayRolled"} => seenHour[Loop] = now[Loop]
        /\ seenHour[Loop] = Never => seenDay[Loop] = Never
        /\ \A v \in Views : seenDay[v] # Never => seenDay[v] <= DayOf(hour)

IInv ==
    /\ Types /\ caughtUp \in BOOLEAN /\ OnTime /\ HoursExact /\ DaysStand
    /\ ListsComplete /\ MarksKnown /\ LoopKnows /\ DailyExact

-----------------------------------------------------------------------------
(* Every step preserves it                                                 *)

\* Every step keeps the types.
LEMMA TypesKept == Types /\ [Next]_vars => Types'
<1> SUFFICES ASSUME Types, [Next]_vars PROVE Types'
    OBVIOUS
<1> USE DaysOrdered, LoopIsNoCall DEF Types, series, marks, frames, Actors, Views, Points
<1>1. ASSUME NEW a \in Actors, Enter(a) PROVE Types'
    BY <1>1 DEF Enter, Starting
<1>2. ASSUME NEW a \in Actors, CatchScan(a) PROVE Types'
    BY <1>2 DEF CatchScan, Goto
<1>3. ASSUME NEW a \in Actors, CatchEnd(a) PROVE Types'
    BY <1>3 DEF CatchEnd, Goto
<1>4. ASSUME NEW a \in Actors, Stamp(a) PROVE Types'
    BY <1>4 DEF Stamp, Goto
<1>5. ASSUME NEW a \in Actors, CheckHour(a) PROVE Types'
    <2>1. CASE Crossed(seenHour[View(a)], now[a])
        BY <1>5, <2>1 DEF CheckHour, Crossed, View
    <2>2. CASE ~Crossed(seenHour[View(a)], now[a])
        BY <1>5, <2>2 DEF CheckHour, HourDone, Crossed, View, Rest
    <2> QED
        BY <2>1, <2>2
<1>6. ASSUME NEW a \in Actors, HourRolled(a) PROVE Types'
    BY <1>6 DEF HourRolled, HourDone, Crossed, View, Rest
<1>7. ASSUME NEW a \in Actors, DayRolled(a) PROVE Types'
    BY <1>7 DEF DayRolled, Goto, View, Rest
<1>8. ASSUME NEW a \in Actors, CatchFails(a) PROVE Types'
    BY <1>8 DEF CatchFails
<1>9. ASSUME NEW a \in Actors, Fail(a) PROVE Types'
    BY <1>9 DEF Fail, Rest
<1>10. ASSUME NEW a \in Actors, NEW h \in Hours, CatchHour(a, h) PROVE Types'
    BY <1>10 DEF CatchHour, OrFails, RollUpHour
<1>11. ASSUME NEW a \in Actors, NEW h \in Hours, RollHour(a, h) PROVE Types'
    BY <1>11 DEF RollHour, Goto, OrFails, RollUpHour
<1>12. ASSUME NEW a \in Actors, NEW d \in Days, CatchDay(a, d) PROVE Types'
    BY <1>12 DEF CatchDay, OrFails, RollUpDay, Counted, HoursOf
<1>13. ASSUME NEW a \in Actors, NEW d \in Days, RollDay(a, d) PROVE Types'
    BY <1>13 DEF RollDay, Goto, OrFails, RollUpDay, Counted, HoursOf
<1>14. ASSUME NEW c \in Calls, Count(c) PROVE Types'
    BY <1>14 DEF Count, Goto
<1>15. ASSUME NEW c \in Calls, Read(c) PROVE Types'
    BY <1>15 DEF Read, Goto
<1>16. CASE Persist
    BY <1>16 DEF Persist
<1>17. CASE Tick
    BY <1>17, NextHour DEF Tick
<1>18. CASE Restart
    BY <1>18 DEF Restart
<1>19. CASE RedisWiped
    BY <1>19 DEF RedisWiped
<1>20. CASE UNCHANGED vars
    BY <1>20 DEF vars
<1> QED
    BY <1>1, <1>2, <1>3, <1>4, <1>5, <1>6, <1>7, <1>8, <1>9, <1>10,
       <1>11, <1>12, <1>13, <1>14, <1>15, <1>16, <1>17, <1>18, <1>19, <1>20 DEF Next, Work

\* caughtUp is a truth value.
LEMMA BooleanKept == caughtUp \in BOOLEAN /\ [Next]_vars => (caughtUp \in BOOLEAN)'
<1> SUFFICES ASSUME caughtUp \in BOOLEAN, [Next]_vars PROVE (caughtUp \in BOOLEAN)'
    OBVIOUS
<1> USE DEF series, marks, frames
<1>1. ASSUME NEW a \in Actors, Enter(a) PROVE (caughtUp \in BOOLEAN)'
    BY <1>1 DEF Enter, Starting
<1>2. ASSUME NEW a \in Actors, CatchScan(a) PROVE (caughtUp \in BOOLEAN)'
    BY <1>2 DEF CatchScan, Goto
<1>3. ASSUME NEW a \in Actors, CatchEnd(a) PROVE (caughtUp \in BOOLEAN)'
    BY <1>3 DEF CatchEnd, Goto
<1>4. ASSUME NEW a \in Actors, Stamp(a) PROVE (caughtUp \in BOOLEAN)'
    BY <1>4 DEF Stamp, Goto
<1>5. ASSUME NEW a \in Actors, CheckHour(a) PROVE (caughtUp \in BOOLEAN)'
    BY <1>5 DEF CheckHour, HourDone, Crossed, View, Rest
<1>6. ASSUME NEW a \in Actors, HourRolled(a) PROVE (caughtUp \in BOOLEAN)'
    BY <1>6 DEF HourRolled, HourDone, Crossed, View, Rest
<1>7. ASSUME NEW a \in Actors, DayRolled(a) PROVE (caughtUp \in BOOLEAN)'
    BY <1>7 DEF DayRolled, Goto, View, Rest
<1>8. ASSUME NEW a \in Actors, CatchFails(a) PROVE (caughtUp \in BOOLEAN)'
    BY <1>8 DEF CatchFails
<1>9. ASSUME NEW a \in Actors, Fail(a) PROVE (caughtUp \in BOOLEAN)'
    BY <1>9 DEF Fail, Rest
<1>10. ASSUME NEW a \in Actors, NEW h \in Hours, CatchHour(a, h) PROVE (caughtUp \in BOOLEAN)'
    BY <1>10 DEF CatchHour, OrFails, RollUpHour
<1>11. ASSUME NEW a \in Actors, NEW h \in Hours, RollHour(a, h) PROVE (caughtUp \in BOOLEAN)'
    BY <1>11 DEF RollHour, Goto, OrFails, RollUpHour
<1>12. ASSUME NEW a \in Actors, NEW d \in Days, CatchDay(a, d) PROVE (caughtUp \in BOOLEAN)'
    BY <1>12 DEF CatchDay, OrFails, RollUpDay, Counted, HoursOf
<1>13. ASSUME NEW a \in Actors, NEW d \in Days, RollDay(a, d) PROVE (caughtUp \in BOOLEAN)'
    BY <1>13 DEF RollDay, Goto, OrFails, RollUpDay, Counted, HoursOf
<1>14. ASSUME NEW c \in Calls, Count(c) PROVE (caughtUp \in BOOLEAN)'
    BY <1>14 DEF Count, Goto
<1>15. ASSUME NEW c \in Calls, Read(c) PROVE (caughtUp \in BOOLEAN)'
    BY <1>15 DEF Read, Goto
<1>16. CASE Persist
    BY <1>16 DEF Persist
<1>17. CASE Tick
    BY <1>17 DEF Tick
<1>18. CASE Restart
    BY <1>18 DEF Restart
<1>19. CASE RedisWiped
    BY <1>19 DEF RedisWiped
<1>20. CASE UNCHANGED vars
    BY <1>20 DEF vars
<1> QED
    BY <1>1, <1>2, <1>3, <1>4, <1>5, <1>6, <1>7, <1>8, <1>9, <1>10,
       <1>11, <1>12, <1>13, <1>14, <1>15, <1>16, <1>17, <1>18, <1>19, <1>20 DEF Next, Work

\* Time passes only when nobody is at work.
LEMMA OnTimeKept == Types /\ HoursExact /\ OnTime /\ [Next]_vars => OnTime'
<1> SUFFICES ASSUME Types /\ HoursExact /\ OnTime, [Next]_vars PROVE OnTime'
    OBVIOUS
<1> USE DaysOrdered, LoopIsNoCall DEF Types, HoursExact, OnTime, Prompt, Actors, Views, series,
    marks, frames
<1>1. ASSUME NEW a \in Actors, Enter(a) PROVE OnTime'
    <2> SUFFICES ASSUME Prompt PROVE OnTime'
        BY <1>1 DEF Enter
    <2>1. \A b \in Actors : pc'[b] \notin {"start", "done"} => now'[b] = hour'
        <3> SUFFICES ASSUME NEW b \in Actors, pc'[b] \notin {"start", "done"}
                     PROVE now'[b] = hour'
            OBVIOUS
        <3>1. CASE b \in Starting(a)
            BY <1>1, <3>1 DEF Enter
        <3>2. CASE b \notin Starting(a)
            <4>1. b # a /\ (b = Loop => pc[Loop] # "done")
                BY <3>2 DEF Starting
            <4>2. pc'[b] = pc[b]
                BY <1>1, <4>1 DEF Enter
            <4>3. now'[b] = now[b] /\ hour' = hour
                BY <1>1, <3>2 DEF Enter
            <4> QED
                BY <4>2, <4>3
        <3> QED
            BY <3>1, <3>2
    <2>2. \A b \in Actors : \A h \in hoursTodo'[b] : h < hour'
        <3> SUFFICES ASSUME NEW b \in Actors, NEW h \in hoursTodo'[b]
                     PROVE h < hour'
            OBVIOUS
        <3>1. CASE b # a
            BY <1>1, <3>1 DEF Enter
        <3>2. CASE b = a
            <4>1. hour' = hour /\ hour \in Nat
                BY <1>1 DEF Enter
            <4>2. h \in Hours /\ minute[h] # {} /\ h # hour
                BY <1>1, <3>2 DEF Enter
            <4>3. h \in Nat /\ h <= hour
                BY <4>2
            <4> QED
                BY ONLY <4>1, <4>2, <4>3
        <3> QED
            BY <3>1, <3>2
    <2>3. \A v \in Views : seenHour'[v] # Never => seenHour'[v] <= hour'
        BY <1>1 DEF Enter
    <2> QED
        BY <2>1, <2>2, <2>3
<1>2. ASSUME NEW a \in Actors, CatchScan(a) PROVE OnTime'
    BY <1>2 DEF CatchScan, Goto
<1>3. ASSUME NEW a \in Actors, CatchEnd(a) PROVE OnTime'
    BY <1>3 DEF CatchEnd, Goto
<1>4. ASSUME NEW a \in Actors, Stamp(a) PROVE OnTime'
    BY <1>4 DEF Stamp, Goto
<1>5. ASSUME NEW a \in Actors, CheckHour(a) PROVE OnTime'
    BY <1>5 DEF CheckHour, HourDone, Crossed, View, Rest
<1>6. ASSUME NEW a \in Actors, HourRolled(a) PROVE OnTime'
    BY <1>6 DEF HourRolled, HourDone, Crossed, View, Rest
<1>7. ASSUME NEW a \in Actors, DayRolled(a) PROVE OnTime'
    BY <1>7 DEF DayRolled, Goto, View, Rest
<1>8. ASSUME NEW a \in Actors, CatchFails(a) PROVE OnTime'
    BY <1>8 DEF CatchFails
<1>9. ASSUME NEW a \in Actors, Fail(a) PROVE OnTime'
    BY <1>9 DEF Fail, Rest
<1>10. ASSUME NEW a \in Actors, NEW h \in Hours, CatchHour(a, h) PROVE OnTime'
    BY <1>10 DEF CatchHour, OrFails, RollUpHour
<1>11. ASSUME NEW a \in Actors, NEW h \in Hours, RollHour(a, h) PROVE OnTime'
    BY <1>11 DEF RollHour, Goto, OrFails, RollUpHour
<1>12. ASSUME NEW a \in Actors, NEW d \in Days, CatchDay(a, d) PROVE OnTime'
    BY <1>12 DEF CatchDay, OrFails, RollUpDay, Counted, HoursOf
<1>13. ASSUME NEW a \in Actors, NEW d \in Days, RollDay(a, d) PROVE OnTime'
    BY <1>13 DEF RollDay, Goto, OrFails, RollUpDay, Counted, HoursOf
<1>14. ASSUME NEW c \in Calls, Count(c) PROVE OnTime'
    BY <1>14 DEF Count, Goto
<1>15. ASSUME NEW c \in Calls, Read(c) PROVE OnTime'
    BY <1>15 DEF Read, Goto
<1>16. CASE Persist
    BY <1>16 DEF Persist
<1>17. CASE Tick
    BY <1>17 DEF Tick
<1>18. CASE Restart
    BY <1>18 DEF Restart
<1>19. CASE RedisWiped
    BY <1>19 DEF RedisWiped
<1>20. CASE UNCHANGED vars
    BY <1>20 DEF vars
<1> QED
    BY <1>1, <1>2, <1>3, <1>4, <1>5, <1>6, <1>7, <1>8, <1>9, <1>10,
       <1>11, <1>12, <1>13, <1>14, <1>15, <1>16, <1>17, <1>18, <1>19, <1>20 DEF Next, Work

\* A call is counted in the hour that runs, a rollup is of one that is over.
LEMMA HoursExactKept == Types /\ OnTime /\ HoursExact /\ [Next]_vars => HoursExact'
<1> SUFFICES ASSUME Types /\ OnTime /\ HoursExact, [Next]_vars PROVE HoursExact'
    OBVIOUS
<1> USE DaysOrdered DEF Types, OnTime, HoursExact, Prompt, Actors, series, marks, frames
<1>1. ASSUME NEW a \in Actors, Enter(a) PROVE HoursExact'
    BY <1>1 DEF Enter, Starting
<1>2. ASSUME NEW a \in Actors, CatchScan(a) PROVE HoursExact'
    BY <1>2 DEF CatchScan, Goto
<1>3. ASSUME NEW a \in Actors, CatchEnd(a) PROVE HoursExact'
    BY <1>3 DEF CatchEnd, Goto
<1>4. ASSUME NEW a \in Actors, Stamp(a) PROVE HoursExact'
    BY <1>4 DEF Stamp, Goto
<1>5. ASSUME NEW a \in Actors, CheckHour(a) PROVE HoursExact'
    BY <1>5 DEF CheckHour, HourDone, Crossed, View, Rest
<1>6. ASSUME NEW a \in Actors, HourRolled(a) PROVE HoursExact'
    BY <1>6 DEF HourRolled, HourDone, Crossed, View, Rest
<1>7. ASSUME NEW a \in Actors, DayRolled(a) PROVE HoursExact'
    BY <1>7 DEF DayRolled, Goto, View, Rest
<1>8. ASSUME NEW a \in Actors, CatchFails(a) PROVE HoursExact'
    BY <1>8 DEF CatchFails
<1>9. ASSUME NEW a \in Actors, Fail(a) PROVE HoursExact'
    BY <1>9 DEF Fail, Rest
<1>10. ASSUME NEW a \in Actors, NEW h \in Hours, CatchHour(a, h) PROVE HoursExact'
    BY <1>10 DEF CatchHour, OrFails, RollUpHour
<1>11. ASSUME NEW a \in Actors, NEW h \in Hours, RollHour(a, h) PROVE HoursExact'
    BY <1>11 DEF RollHour, Goto, OrFails, RollUpHour
<1>12. ASSUME NEW a \in Actors, NEW d \in Days, CatchDay(a, d) PROVE HoursExact'
    BY <1>12 DEF CatchDay, OrFails, RollUpDay, Counted, HoursOf
<1>13. ASSUME NEW a \in Actors, NEW d \in Days, RollDay(a, d) PROVE HoursExact'
    BY <1>13 DEF RollDay, Goto, OrFails, RollUpDay, Counted, HoursOf
<1>14. ASSUME NEW c \in Calls, Count(c) PROVE HoursExact'
    BY <1>14 DEF Count, Goto
<1>15. ASSUME NEW c \in Calls, Read(c) PROVE HoursExact'
    BY <1>15 DEF Read, Goto
<1>16. CASE Persist
    BY <1>16 DEF Persist
<1>17. CASE Tick
    BY <1>17 DEF Tick
<1>18. CASE Restart
    BY <1>18 DEF Restart
<1>19. CASE RedisWiped
    BY <1>19 DEF RedisWiped
<1>20. CASE UNCHANGED vars
    BY <1>20 DEF vars
<1> QED
    BY <1>1, <1>2, <1>3, <1>4, <1>5, <1>6, <1>7, <1>8, <1>9, <1>10,
       <1>11, <1>12, <1>13, <1>14, <1>15, <1>16, <1>17, <1>18, <1>19, <1>20 DEF Next, Work

\* A day is made of hours that are over, once.
LEMMA DaysStandKept == Types /\ OnTime /\ HoursExact /\ DaysStand /\ [Next]_vars => DaysStand'
<1> SUFFICES ASSUME Types /\ OnTime /\ HoursExact /\ DaysStand, [Next]_vars PROVE DaysStand'
    OBVIOUS
<1> USE DaysOrdered DEF Types, OnTime, HoursExact, DaysStand, Prompt, Lost, HoursOf, Actors,
    series, marks, frames
<1>1. ASSUME NEW a \in Actors, Enter(a) PROVE DaysStand'
    BY <1>1 DEF Enter, Starting
<1>2. ASSUME NEW a \in Actors, CatchScan(a) PROVE DaysStand'
    BY <1>2 DEF CatchScan, Goto
<1>3. ASSUME NEW a \in Actors, CatchEnd(a) PROVE DaysStand'
    BY <1>3 DEF CatchEnd, Goto
<1>4. ASSUME NEW a \in Actors, Stamp(a) PROVE DaysStand'
    BY <1>4 DEF Stamp, Goto
<1>5. ASSUME NEW a \in Actors, CheckHour(a) PROVE DaysStand'
    BY <1>5 DEF CheckHour, HourDone, Crossed, View, Rest
<1>6. ASSUME NEW a \in Actors, HourRolled(a) PROVE DaysStand'
    BY <1>6 DEF HourRolled, HourDone, Crossed, View, Rest
<1>7. ASSUME NEW a \in Actors, DayRolled(a) PROVE DaysStand'
    BY <1>7 DEF DayRolled, Goto, View, Rest
<1>8. ASSUME NEW a \in Actors, CatchFails(a) PROVE DaysStand'
    BY <1>8 DEF CatchFails
<1>9. ASSUME NEW a \in Actors, Fail(a) PROVE DaysStand'
    BY <1>9 DEF Fail, Rest
<1>10. ASSUME NEW a \in Actors, NEW h \in Hours, CatchHour(a, h) PROVE DaysStand'
    BY <1>10 DEF CatchHour, OrFails, RollUpHour
<1>11. ASSUME NEW a \in Actors, NEW h \in Hours, RollHour(a, h) PROVE DaysStand'
    BY <1>11 DEF RollHour, Goto, OrFails, RollUpHour
<1>12. ASSUME NEW a \in Actors, NEW d \in Days, CatchDay(a, d) PROVE DaysStand'
    BY <1>12 DEF CatchDay, OrFails, RollUpDay, Counted, HoursOf
<1>13. ASSUME NEW a \in Actors, NEW d \in Days, RollDay(a, d) PROVE DaysStand'
    BY <1>13 DEF RollDay, Goto, OrFails, RollUpDay, Counted, HoursOf
<1>14. ASSUME NEW c \in Calls, Count(c) PROVE DaysStand'
    BY <1>14 DEF Count, Goto
<1>15. ASSUME NEW c \in Calls, Read(c) PROVE DaysStand'
    BY <1>15 DEF Read, Goto
<1>16. CASE Persist
    <2> SUFFICES ASSUME Prompt, NEW d \in Days
                 PROVE  /\ daily'[d] # {} => d <= DayOf(hour')
                        /\ snapshot'[d] # {} => d < DayOf(hour') /\ (daily'[d] = snapshot'[d] \/ Lost(d)')
        BY <1>16 DEF Persist
    <2>1. hour' = hour /\ daily' = daily /\ minute' = minute /\ hourly' = hourly
        BY <1>16 DEF Persist
    <2>2. CASE daily[d] # {} /\ d # DayOf(hour)
        <3>1. snapshot'[d] = daily[d]
            BY <1>16, <2>2 DEF Persist
        <3>2. d \in Nat /\ DayOf(hour) \in Nat /\ d <= DayOf(hour)
            BY <2>2
        <3>3. d < DayOf(hour)
            BY ONLY <2>2, <3>2
        <3> QED
            BY <2>1, <3>1, <3>3
    <2>3. CASE ~(daily[d] # {} /\ d # DayOf(hour))
        <3>1. snapshot'[d] = snapshot[d]
            BY <1>16, <2>3 DEF Persist
        <3> QED
            BY <2>1, <3>1
    <2> QED
        BY <2>2, <2>3
<1>17. CASE Tick
    BY <1>17, NextHour DEF Tick
<1>18. CASE Restart
    BY <1>18 DEF Restart
<1>19. CASE RedisWiped
    BY <1>19 DEF RedisWiped
<1>20. CASE UNCHANGED vars
    BY <1>20 DEF vars
<1> QED
    BY <1>1, <1>2, <1>3, <1>4, <1>5, <1>6, <1>7, <1>8, <1>9, <1>10,
       <1>11, <1>12, <1>13, <1>14, <1>15, <1>16, <1>17, <1>18, <1>19, <1>20 DEF Next, Work

-----------------------------------------------------------------------------
(* Days that add up all their hours                                        *)

\* Only a tick makes another hour pending.
LEMMA PendingShrinks ==
    Types /\ OnTime /\ HoursExact /\ Prompt /\ [Next]_vars => Tick \/ Pending' \subseteq Pending
<1> SUFFICES ASSUME Types, OnTime, HoursExact, Prompt, [Next]_vars, ~Tick
             PROVE  Pending' \subseteq Pending
    OBVIOUS
<1> USE DaysOrdered DEF Types, OnTime, HoursExact, Prompt, Actors, series, marks, frames, Pending
<1>1. ASSUME NEW a \in Actors, Enter(a) PROVE Pending' \subseteq Pending
    BY <1>1 DEF Enter, Starting
<1>2. ASSUME NEW a \in Actors, CatchScan(a) PROVE Pending' \subseteq Pending
    BY <1>2 DEF CatchScan, Goto
<1>3. ASSUME NEW a \in Actors, CatchEnd(a) PROVE Pending' \subseteq Pending
    BY <1>3 DEF CatchEnd, Goto
<1>4. ASSUME NEW a \in Actors, Stamp(a) PROVE Pending' \subseteq Pending
    BY <1>4 DEF Stamp, Goto
<1>5. ASSUME NEW a \in Actors, CheckHour(a) PROVE Pending' \subseteq Pending
    BY <1>5 DEF CheckHour, HourDone, Crossed, View, Rest
<1>6. ASSUME NEW a \in Actors, HourRolled(a) PROVE Pending' \subseteq Pending
    BY <1>6 DEF HourRolled, HourDone, Crossed, View, Rest
<1>7. ASSUME NEW a \in Actors, DayRolled(a) PROVE Pending' \subseteq Pending
    BY <1>7 DEF DayRolled, Goto, View, Rest
<1>8. ASSUME NEW a \in Actors, CatchFails(a) PROVE Pending' \subseteq Pending
    BY <1>8 DEF CatchFails
<1>9. ASSUME NEW a \in Actors, Fail(a) PROVE Pending' \subseteq Pending
    BY <1>9 DEF Fail, Rest
<1>10. ASSUME NEW a \in Actors, NEW h \in Hours, CatchHour(a, h) PROVE Pending' \subseteq Pending
    BY <1>10 DEF CatchHour, OrFails, RollUpHour
<1>11. ASSUME NEW a \in Actors, NEW h \in Hours, RollHour(a, h) PROVE Pending' \subseteq Pending
    BY <1>11 DEF RollHour, Goto, OrFails, RollUpHour
<1>12. ASSUME NEW a \in Actors, NEW d \in Days, CatchDay(a, d) PROVE Pending' \subseteq Pending
    BY <1>12 DEF CatchDay, OrFails, RollUpDay
<1>13. ASSUME NEW a \in Actors, NEW d \in Days, RollDay(a, d) PROVE Pending' \subseteq Pending
    BY <1>13 DEF RollDay, Goto, OrFails, RollUpDay
<1>14. ASSUME NEW c \in Calls, Count(c) PROVE Pending' \subseteq Pending
    BY <1>14 DEF Count, Goto
<1>15. ASSUME NEW c \in Calls, Read(c) PROVE Pending' \subseteq Pending
    BY <1>15 DEF Read, Goto
<1>16. CASE Persist
    BY <1>16 DEF Persist
<1>17. CASE Tick
    BY <1>17 DEF Tick
<1>18. CASE Restart
    BY <1>18 DEF Restart
<1>19. CASE RedisWiped
    BY <1>19 DEF RedisWiped
<1>20. CASE UNCHANGED vars
    BY <1>20 DEF vars
<1> QED
    BY <1>1, <1>2, <1>3, <1>4, <1>5, <1>6, <1>7, <1>8, <1>9, <1>10,
       <1>11, <1>12, <1>13, <1>14, <1>15, <1>16, <1>17, <1>18, <1>19, <1>20 DEF Next, Work

\* The faults that disturb the rollups are there from the start or never.
LEMMA Calm ==
    ASSUME [Next]_vars, Undisturbed'
    PROVE  Undisturbed /\ Prompt /\ "error" \notin faults /\ "late" \notin faults
<1> USE DEF Undisturbed, Prompt, series, marks, frames
<1>1. faults' = faults \/ faults' = faults \ {"restart"} \/ faults' = faults \ {"wipe"}
    BY DEF Next, Work, vars, Enter, CatchScan, CatchEnd, CatchHour, RollHour,
       CatchDay, RollDay, Stamp, CheckHour, HourRolled, DayRolled, CatchFails, Fail,
       Count, Read, Persist, Tick, Restart, RedisWiped
<1> QED
    BY <1>1

\* When no hour is pending, the hourly keys of a past day have all its calls.
LEMMA PastDayCounted ==
    ASSUME Types, HoursExact, Prompt, Pending = {}, NEW d \in Days, d < DayOf(hour)
    PROVE  Counted(hourly, HoursOf(d)) = DayTotal(d)
<1>1. ASSUME NEW h \in HoursOf(d) PROVE hourly[h] = minute[h]
    <2>1. h \in Hours /\ DayOf(h) = d
        BY DEF HoursOf
    <2>2. h < hour
        <3>1. h \in Nat /\ hour \in Nat /\ hour \in Hours
            BY <2>1, DaysOrdered DEF Types
        <3>2. hour <= h => DayOf(hour) <= DayOf(h)
            BY <2>1, <3>1, DaysOrdered
        <3>3. DayOf(hour) \in Nat /\ d \in Nat
            BY <3>1, DaysOrdered
        <3> QED
            BY <2>1, <3>1, <3>2, <3>3
    <2>3. CASE hourly[h] # {}
        BY <2>1, <2>3 DEF HoursExact
    <2>4. CASE hourly[h] = {}
        BY <2>1, <2>2, <2>4 DEF Pending
    <2> QED
        BY <2>3, <2>4
<1> QED
    BY <1>1 DEF Counted, DayTotal

\* What the loop remembers stays what it saw in its last round.
LEMMA LoopKnowsKept == Types /\ OnTime /\ LoopKnows /\ [Next]_vars => LoopKnows'
<1> SUFFICES ASSUME Types, OnTime, LoopKnows, [Next]_vars, Undisturbed' PROVE LoopKnows'
    BY DEF LoopKnows
<1>0. Undisturbed /\ Prompt /\ "error" \notin faults
    BY Calm
<1> USE DaysOrdered, LoopIsNoCall, LoopHasOwnMarks DEF Types, OnTime, Prompt, LoopKnows,
    Undisturbed, Actors, Views, Never,
        series, marks, frames
<1>1. ASSUME NEW a \in Actors, Enter(a) PROVE LoopKnows'
    BY <1>1 DEF Enter, Starting
<1>2. ASSUME NEW a \in Actors, CatchScan(a) PROVE LoopKnows'
    BY <1>2 DEF CatchScan, Goto
<1>3. ASSUME NEW a \in Actors, CatchEnd(a) PROVE LoopKnows'
    BY <1>3 DEF CatchEnd, Goto
<1>4. ASSUME NEW a \in Actors, Stamp(a) PROVE LoopKnows'
    BY <1>4 DEF Stamp, Goto
<1>5. ASSUME NEW a \in Actors, CheckHour(a) PROVE LoopKnows'
    BY <1>5 DEF CheckHour, HourDone, Crossed, View, Rest
<1>6. ASSUME NEW a \in Actors, HourRolled(a) PROVE LoopKnows'
    BY <1>6 DEF HourRolled, HourDone, Crossed, View, Rest
<1>7. ASSUME NEW a \in Actors, DayRolled(a) PROVE LoopKnows'
    BY <1>7 DEF DayRolled, Goto, View, Rest
<1>8. ASSUME NEW a \in Actors, CatchFails(a) PROVE LoopKnows'
    BY <1>8 DEF CatchFails
<1>9. ASSUME NEW a \in Actors, Fail(a) PROVE LoopKnows'
    BY <1>9 DEF Fail, Rest
<1>10. ASSUME NEW a \in Actors, NEW h \in Hours, CatchHour(a, h) PROVE LoopKnows'
    BY <1>10 DEF CatchHour, OrFails, RollUpHour
<1>11. ASSUME NEW a \in Actors, NEW h \in Hours, RollHour(a, h) PROVE LoopKnows'
    BY <1>11 DEF RollHour, Goto, OrFails, RollUpHour
<1>12. ASSUME NEW a \in Actors, NEW d \in Days, CatchDay(a, d) PROVE LoopKnows'
    BY <1>12 DEF CatchDay, OrFails, RollUpDay
<1>13. ASSUME NEW a \in Actors, NEW d \in Days, RollDay(a, d) PROVE LoopKnows'
    BY <1>13 DEF RollDay, Goto, OrFails, RollUpDay
<1>14. ASSUME NEW c \in Calls, Count(c) PROVE LoopKnows'
    BY <1>14 DEF Count, Goto
<1>15. ASSUME NEW c \in Calls, Read(c) PROVE LoopKnows'
    BY <1>15 DEF Read, Goto
<1>16. CASE Persist
    BY <1>16 DEF Persist
<1>17. CASE Tick
    <2>1. hour \in Hours /\ hour' \in Hours /\ DayOf(hour) <= DayOf(hour')
        BY <1>17, NextHour
    <2>2. \A v \in Views : seenDay[v] # Never => seenDay'[v] <= DayOf(hour')
        <3> SUFFICES ASSUME NEW v \in Views, seenDay[v] # Never PROVE seenDay[v] <= DayOf(hour')
            BY <1>17 DEF Tick
        <3>1. seenDay[v] <= DayOf(hour) /\ seenDay[v] \in Nat
            BY <1>0
        <3> QED
            BY <2>1, <3>1
    <2> QED
        BY <1>17, <1>0, <2>2 DEF Tick
<1>18. CASE Restart
    BY <1>18 DEF Restart
<1>19. CASE RedisWiped
    BY <1>19 DEF RedisWiped
<1>20. CASE UNCHANGED vars
    BY <1>20 DEF vars
<1> QED
    BY <1>1, <1>2, <1>3, <1>4, <1>5, <1>6, <1>7, <1>8, <1>9, <1>10,
       <1>11, <1>12, <1>13, <1>14, <1>15, <1>16, <1>17, <1>18, <1>19, <1>20 DEF Next, Work

\* The lists of those at work stay complete.
LEMMA ListsCompleteKept ==
    Types /\ OnTime /\ HoursExact /\ ListsComplete /\ MarksKnown /\ LoopKnows /\ [Next]_vars
        => ListsComplete'
<1> SUFFICES ASSUME Types, OnTime, HoursExact, ListsComplete, MarksKnown, LoopKnows, [Next]_vars,
                    Undisturbed'
             PROVE  ListsComplete'
    BY DEF ListsComplete
<1>0. Undisturbed /\ Prompt /\ "error" \notin faults /\ "late" \notin faults
    BY Calm
<1>shrinks. Tick \/ Pending' \subseteq Pending
    BY <1>0, PendingShrinks
<1> USE DaysOrdered, LoopIsNoCall, LoopHasOwnMarks DEF Types, OnTime, HoursExact, ListsComplete,
    MarksKnown, LoopKnows,
        Actors, Views, series, marks, frames
<1>1. ASSUME NEW a \in Actors, Enter(a) PROVE ListsComplete'
    <2>1. Pending' = Pending /\ Pending \subseteq {k \in Hours : minute[k] # {}} \ {hour}
        <3>1. \A k \in Pending : k \in Nat /\ hour \in Nat /\ k < hour
            BY DEF Pending
        <3>2. hour \notin Pending
            BY <3>1
        <3> QED
            BY <1>1, <3>2 DEF Enter, Pending
    <2>2. ASSUME NEW b \in Actors
          PROVE  /\ pc'[b] \in {"catchHours", "rollHour"} => Pending' \subseteq hoursTodo'[b]
                 /\ pc'[b] \in {"catchDays", "hourRolled", "rollDay", "dayRolled"} => Pending' = {}
                 /\ pc'[b] \notin {"start", "done", "catchHours", "catchDays"} => caughtUp'
                 /\ pc'[b] \notin {"start", "done"} => pc'[Loop] # "done"
                 /\ pc'[b] = "rollHour" => \A g, k \in hoursTodo'[b] : g = k
                 /\ \A d \in daysTodo'[b] : d < DayOf(hour')
        <3>1. CASE b = a
            BY <1>1, <1>0, <2>1, <3>1 DEF Enter
        <3>2. CASE b # a
            <4>1. pc'[b] = pc[b] \/ pc'[b] = "start"
                BY <1>1, <3>2 DEF Enter
            <4> QED
                BY <1>1, <1>0, <2>1, <3>2, <4>1 DEF Enter
        <3> QED
            BY <3>1, <3>2
    <2> QED
        BY <2>2
<1>2. ASSUME NEW a \in Actors, CatchScan(a) PROVE ListsComplete'
    <2>1. Pending' = Pending /\ Pending = {} /\ now[a] = hour /\ hour' = hour
        BY <1>2, <1>0 DEF CatchScan, Goto, Pending, Prompt
    <2>2. ASSUME NEW d \in daysTodo'[a] PROVE d < DayOf(hour)
        <3>1. PICK k \in Hours : hourly[k] # {} /\ d = DayOf(k) /\ d # DayOf(hour)
            BY <1>2, <2>1 DEF CatchScan
        <3>2. k \in Nat /\ hour \in Hours /\ hour \in Nat /\ k <= hour
            BY <1>0, <3>1
        <3>3. d <= DayOf(hour) /\ d # DayOf(hour) /\ d \in Nat /\ DayOf(hour) \in Nat
            BY <3>1, <3>2
        <3> QED
            BY ONLY <3>3
    <2> QED
        BY <1>2, <1>0, <2>1, <2>2 DEF CatchScan, Goto
<1>3. ASSUME NEW a \in Actors, CatchEnd(a) PROVE ListsComplete'
    BY <1>3, <1>0 DEF CatchEnd, Goto, Pending, Undisturbed, Prompt
<1>4. ASSUME NEW a \in Actors, Stamp(a) PROVE ListsComplete'
    BY <1>4, <1>0 DEF Stamp, Goto, Pending, Undisturbed, Prompt
<1>5. ASSUME NEW a \in Actors, CheckHour(a) PROVE ListsComplete'
    <2> DEFINE v == View(a)
    <2>1. caughtUp /\ now[a] = hour /\ Pending' = Pending /\ v \in Views
        BY <1>5, <1>0 DEF CheckHour, View, Prompt, Pending
    <2>2. Pending \subseteq {seenHour[v]}
        BY <1>0, <2>1 DEF View
    <2>3. CASE Crossed(seenHour[v], now[a])
        BY <1>5, <1>0, <2>1, <2>2, <2>3 DEF CheckHour
    <2>4. CASE ~Crossed(seenHour[v], now[a])
        <3>1. seenHour[v] = Never \/ seenHour[v] = hour
            BY <2>1, <2>4 DEF Crossed
        <3>2. Pending = {}
            <4>1. \A k \in Pending : k \in Nat /\ hour \in Nat /\ k < hour
                BY DEF Pending
            <4>2. hour \notin Pending /\ Never \notin Pending
                BY <4>1 DEF Never
            <4> QED
                BY <2>2, <3>1, <4>2
        <3>3. \A d \in daysTodo'[a] : d < DayOf(hour)
            <4> SUFFICES ASSUME Crossed(seenDay[v], DayOf(now[a])) PROVE seenDay[v] < DayOf(hour)
                BY <1>5, <2>1, <2>4 DEF CheckHour, HourDone
            <4>1. seenDay[v] # Never /\ seenDay[v] # DayOf(hour)
                BY <2>1 DEF Crossed
            <4>2. seenDay[v] <= DayOf(hour) /\ seenDay[v] \in Nat /\ DayOf(hour) \in Nat
                BY <1>0, <2>1, <4>1
            <4> QED
                BY ONLY <4>1, <4>2
        <3> QED
            BY <1>5, <1>0, <2>1, <2>4, <3>2, <3>3 DEF CheckHour, HourDone, Rest
    <2> QED
        BY <2>3, <2>4
<1>6. ASSUME NEW a \in Actors, HourRolled(a) PROVE ListsComplete'
    <2> DEFINE v == View(a)
    <2>1. caughtUp /\ now[a] = hour /\ Pending' = Pending /\ v \in Views
        BY <1>6, <1>0 DEF HourRolled, View, Prompt, Pending
    <2>2. Pending = {}
        BY <1>6, <1>0 DEF HourRolled
    <2>3. \A d \in daysTodo'[a] : d < DayOf(hour)
        <3> SUFFICES ASSUME Crossed(seenDay[v], DayOf(now[a])) PROVE seenDay[v] < DayOf(hour)
            BY <1>6, <2>1 DEF HourRolled, HourDone
        <3>1. seenDay[v] # Never /\ seenDay[v] # DayOf(hour)
            BY <2>1 DEF Crossed
        <3>2. seenDay[v] <= DayOf(hour) /\ seenDay[v] \in Nat /\ DayOf(hour) \in Nat
            BY <1>0, <2>1, <3>1
        <3> QED
            BY ONLY <3>1, <3>2
    <2> QED
        BY <1>6, <1>0, <2>1, <2>2, <2>3 DEF HourRolled, HourDone, Rest
<1>7. ASSUME NEW a \in Actors, DayRolled(a) PROVE ListsComplete'
    BY <1>7, <1>0 DEF DayRolled, Goto, View, Rest, Pending, Undisturbed, Prompt
<1>8. ASSUME NEW a \in Actors, CatchFails(a) PROVE ListsComplete'
    BY <1>8, <1>0 DEF CatchFails, Pending, Undisturbed, Prompt
<1>9. ASSUME NEW a \in Actors, Fail(a) PROVE ListsComplete'
    BY <1>9, <1>0 DEF Fail, Rest, Pending, Undisturbed, Prompt
<1>10. ASSUME NEW a \in Actors, NEW h \in Hours, CatchHour(a, h) PROVE ListsComplete'
    <2>1. Pending' \subseteq Pending \ {h}
        BY <1>10, <1>0, <1>shrinks DEF CatchHour, OrFails, RollUpHour, Pending, Tick
    <2> QED
        BY <1>10, <1>0, <2>1 DEF CatchHour
<1>11. ASSUME NEW a \in Actors, NEW h \in Hours, RollHour(a, h) PROVE ListsComplete'
    <2>1. Pending' \subseteq Pending \ {h}
        BY <1>11, <1>0 DEF RollHour, OrFails, RollUpHour, Pending
    <2>2. hoursTodo[a] = {h} => Pending' = {}
        BY <1>11, <1>0, <2>1 DEF RollHour, Goto
    <2> QED
        BY <1>11, <1>0, <2>1, <2>2 DEF RollHour, Goto
<1>12. ASSUME NEW a \in Actors, NEW d \in Days, CatchDay(a, d) PROVE ListsComplete'
    <2>1. /\ Pending' \subseteq Pending
          /\ UNCHANGED <<hour, pc, hoursTodo, caughtUp>>
          /\ \A b \in Actors : daysTodo'[b] \subseteq daysTodo[b]
        BY <1>12, <1>shrinks DEF CatchDay, Tick
    <2> QED
        BY <1>0, <2>1
<1>13. ASSUME NEW a \in Actors, NEW d \in Days, RollDay(a, d) PROVE ListsComplete'
    BY <1>13, <1>0 DEF RollDay, Goto, OrFails, RollUpDay, Pending, Undisturbed, Prompt
<1>14. ASSUME NEW c \in Calls, Count(c) PROVE ListsComplete'
    BY <1>14, <1>0 DEF Count, Goto, Pending, Undisturbed, Prompt
<1>15. ASSUME NEW c \in Calls, Read(c) PROVE ListsComplete'
    BY <1>15, <1>0 DEF Read, Goto, Pending, Undisturbed, Prompt
<1>16. CASE Persist
    BY <1>16, <1>0 DEF Persist, Pending, Undisturbed, Prompt
<1>17. CASE Tick
    <2>1. \A b \in Actors : pc[b] \in {"start", "done"} /\ pc'[b] = pc[b]
        BY <1>17, <1>0 DEF Tick, Prompt
    <2>2. hour \in Hours /\ hour' \in Hours /\ DayOf(hour) <= DayOf(hour')
        BY <1>17, NextHour
    <2>3. ASSUME NEW b \in Actors, NEW d \in daysTodo'[b] PROVE d < DayOf(hour')
        <3>1. d \in Days /\ d < DayOf(hour)
            BY <1>17, <1>0 DEF Tick
        <3>2. d \in Nat /\ DayOf(hour) \in Nat /\ DayOf(hour') \in Nat
            BY <2>2, <3>1
        <3> QED
            BY <2>2, <3>1, <3>2
    <2> QED
        BY <2>1, <2>3
<1>18. CASE Restart
    BY <1>18, <1>0 DEF Restart, Pending, Undisturbed, Prompt
<1>19. CASE RedisWiped
    BY <1>19, <1>0 DEF RedisWiped, Pending, Undisturbed, Prompt
<1>20. CASE UNCHANGED vars
    BY <1>20, <1>0 DEF vars, Pending, Undisturbed, Prompt
<1> QED
    BY <1>1, <1>2, <1>3, <1>4, <1>5, <1>6, <1>7, <1>8, <1>9, <1>10,
       <1>11, <1>12, <1>13, <1>14, <1>15, <1>16, <1>17, <1>18, <1>19, <1>20 DEF Next, Work

\* The marks keep the hour that may be pending.
LEMMA MarksKnownKept ==
    Types /\ OnTime /\ HoursExact /\ ListsComplete /\ MarksKnown /\ LoopKnows /\ [Next]_vars
        => MarksKnown'
<1> SUFFICES ASSUME Types, OnTime, HoursExact, ListsComplete, MarksKnown, LoopKnows, [Next]_vars,
                    Undisturbed'
             PROVE  MarksKnown'
    BY DEF MarksKnown
<1>0. Undisturbed /\ Prompt /\ "error" \notin faults /\ "late" \notin faults
    BY Calm
<1>shrinks. Tick \/ Pending' \subseteq Pending
    BY <1>0, PendingShrinks
<1> USE DaysOrdered, LoopIsNoCall, LoopHasOwnMarks DEF Types, OnTime, HoursExact, ListsComplete,
    MarksKnown, LoopKnows,
        Actors, Views, series, marks, frames
<1>1. ASSUME NEW a \in Actors, Enter(a) PROVE MarksKnown'
    BY <1>1, <1>0 DEF Enter, Starting, Pending, Undisturbed, Prompt
<1>2. ASSUME NEW a \in Actors, CatchScan(a) PROVE MarksKnown'
    BY <1>2, <1>0 DEF CatchScan, Goto, Pending, Undisturbed, Prompt
<1>3. ASSUME NEW a \in Actors, CatchEnd(a) PROVE MarksKnown'
    <2>1. pc[a] = "catchDays" /\ Pending = {} /\ now[a] = hour
        BY <1>3, <1>0 DEF CatchEnd, Goto
    <2>2. Pending' = Pending
        BY <1>3 DEF CatchEnd, Pending
    <2>3. /\ now[a] = hour /\ Pending = {} /\ Pending' = {}
          /\ seenHour' = [seenHour EXCEPT ![Recorder] = now[a]]
          /\ hour' = hour /\ hour \in Hours /\ caughtUp' /\ minute' = minute
        BY <1>3, <2>1, <2>2 DEF CatchEnd
    <2>4. seenHour'[Recorder] = hour /\ hour # Never
        BY <2>3 DEF Never
    <2>5. pc'[Loop] # "done"
        <3>1. pc[Loop] # "done"
            BY <1>0, <2>1
        <3> QED
            BY <1>3, <3>1 DEF CatchEnd, Goto
    <2> QED
        BY <2>3, <2>4, <2>5
<1>4. ASSUME NEW a \in Actors, Stamp(a) PROVE MarksKnown'
    BY <1>4, <1>0 DEF Stamp, Goto, Pending, Undisturbed, Prompt
<1>5. ASSUME NEW a \in Actors, CheckHour(a) PROVE MarksKnown'
    <2> DEFINE v == View(a)
    <2>1. /\ caughtUp /\ now[a] = hour /\ Pending' = Pending /\ v \in Views
          /\ hour' = hour /\ minute' = minute /\ caughtUp' /\ hour \in Nat
        BY <1>5, <1>0 DEF CheckHour, HourDone, View, Prompt, Pending
    <2>2. pc'[Loop] # "done"
        BY <1>5, <1>0, <2>1 DEF CheckHour, HourDone, Rest
    <2>3. CASE Crossed(seenHour[v], now[a])
        BY <1>5, <1>0, <2>1, <2>2, <2>3 DEF CheckHour
    <2>4. CASE ~Crossed(seenHour[v], now[a])
        <3>1. seenHour[v] = Never \/ seenHour[v] = hour
            BY <2>1, <2>4 DEF Crossed
        <3>2. Pending = {}
            <4>1. \A k \in Pending : k \in Nat /\ hour \in Nat /\ k < hour
                BY DEF Pending
            <4>2. hour \notin Pending /\ Never \notin Pending
                BY <4>1 DEF Never
            <4> QED
                BY <1>0, <2>1, <3>1, <4>2 DEF View
        <3>3. seenHour' = [seenHour EXCEPT ![v] = hour] /\ hour # Never
            BY <1>5, <2>1, <2>4 DEF CheckHour, HourDone, Never
        <3>4. CASE a = Loop
            <4>1. seenHour'[Recorder] = seenHour[Recorder]
                BY <3>3, <3>4 DEF View
            <4>2. \A c \in Calls : pc'[c] = pc[c]
                BY <1>5, <3>4, <2>4 DEF CheckHour, HourDone
            <4> QED
                BY <1>0, <2>1, <2>2, <3>2, <4>1, <4>2
        <3>5. CASE a # Loop
            <4>1. seenHour'[Recorder] = hour
                BY <3>3, <3>5 DEF View
            <4> QED
                BY <2>1, <2>2, <3>2, <3>3, <4>1
        <3> QED
            BY <3>4, <3>5
    <2> QED
        BY <2>3, <2>4
<1>6. ASSUME NEW a \in Actors, HourRolled(a) PROVE MarksKnown'
    <2> DEFINE v == View(a)
    <2>1. /\ caughtUp /\ now[a] = hour /\ Pending' = {} /\ v \in Views
          /\ hour' = hour /\ minute' = minute /\ caughtUp' /\ hour \in Nat
        BY <1>6, <1>0, <1>shrinks DEF HourRolled, HourDone, View, Prompt, Tick, Pending
    <2>2. pc'[Loop] # "done"
        BY <1>6, <1>0, <2>1 DEF HourRolled, HourDone, Rest
    <2>3. seenHour' = [seenHour EXCEPT ![v] = hour] /\ hour # Never
        BY <1>6, <2>1 DEF HourRolled, HourDone, Never
    <2>4. CASE a = Loop
        <3>1. seenHour'[Recorder] = seenHour[Recorder]
            BY <2>3, <2>4 DEF View
        <3>2. \A c \in Calls : pc'[c] = pc[c]
            BY <1>6, <2>4 DEF HourRolled, HourDone
        <3> QED
            BY <1>0, <2>1, <2>2, <3>1, <3>2
    <2>5. CASE a # Loop
        <3>1. seenHour'[Recorder] = hour
            BY <2>3, <2>5 DEF View
        <3> QED
            BY <2>1, <2>2, <2>3, <3>1
    <2> QED
        BY <2>4, <2>5
<1>7. ASSUME NEW a \in Actors, DayRolled(a) PROVE MarksKnown'
    BY <1>7, <1>0 DEF DayRolled, Goto, View, Rest, Pending, Undisturbed, Prompt
<1>8. ASSUME NEW a \in Actors, CatchFails(a) PROVE MarksKnown'
    BY <1>8, <1>0 DEF CatchFails, Pending, Undisturbed, Prompt
<1>9. ASSUME NEW a \in Actors, Fail(a) PROVE MarksKnown'
    BY <1>9, <1>0 DEF Fail, Rest, Pending, Undisturbed, Prompt
<1>10. ASSUME NEW a \in Actors, NEW h \in Hours, CatchHour(a, h) PROVE MarksKnown'
    BY <1>10, <1>0, <1>shrinks DEF CatchHour, OrFails, RollUpHour, Tick
<1>11. ASSUME NEW a \in Actors, NEW h \in Hours, RollHour(a, h) PROVE MarksKnown'
    <2>1. Pending' \subseteq Pending /\ caughtUp /\ caughtUp' = caughtUp
        BY <1>11, <1>0, <1>shrinks DEF RollHour, Goto, Tick
    <2>2. /\ pc'[Loop] # "done" /\ hour' = hour /\ minute' = minute /\ seenHour' = seenHour
          /\ \A c \in Calls : pc'[c] = pc[c] \/ pc'[c] = "hourRolled"
        BY <1>11, <1>0, <2>1 DEF RollHour, Goto, OrFails, RollUpHour
    <2> QED
        BY <1>0, <2>1, <2>2
<1>12. ASSUME NEW a \in Actors, NEW d \in Days, CatchDay(a, d) PROVE MarksKnown'
    BY <1>12, <1>0 DEF CatchDay, OrFails, RollUpDay, Pending, Undisturbed, Prompt
<1>13. ASSUME NEW a \in Actors, NEW d \in Days, RollDay(a, d) PROVE MarksKnown'
    BY <1>13, <1>0 DEF RollDay, Goto, OrFails, RollUpDay, Pending, Undisturbed, Prompt
<1>14. ASSUME NEW c \in Calls, Count(c) PROVE MarksKnown'
    <2>1. Pending' \subseteq Pending
        BY <1>14, <1>0, <1>shrinks DEF Count, Goto, Tick
    <2>2. pc[c] = "counting" /\ now[c] = hour /\ caughtUp
        BY <1>14, <1>0 DEF Count, Goto
    <2>3. /\ pc'[Loop] = pc[Loop] /\ pc'[c] = "counted" /\ UNCHANGED <<hour, seenHour, caughtUp>>
          /\ \A b \in Calls : pc'[b] = pc[b] \/ pc'[b] = "counted"
        BY <1>14, <2>2 DEF Count, Goto
    <2> QED
        BY <1>0, <2>1, <2>2, <2>3
<1>15. ASSUME NEW c \in Calls, Read(c) PROVE MarksKnown'
    BY <1>15, <1>0 DEF Read, Goto, Pending, Undisturbed, Prompt
<1>16. CASE Persist
    BY <1>16, <1>0 DEF Persist, Pending, Undisturbed, Prompt
<1>17. CASE Tick
    <2>1. \A b \in Actors : pc[b] \in {"start", "done"} /\ pc'[b] = pc[b]
        BY <1>17, <1>0 DEF Tick, Prompt
    <2>2. hour \in Nat /\ hour' = hour + 1 /\ hour' \in Hours /\ hour' \in Nat
        BY <1>17, NextHour
    <2>3. UNCHANGED <<caughtUp, seenHour, minute, hourly>>
        BY <1>17 DEF Tick
    <2> SUFFICES ASSUME caughtUp PROVE MarksKnown'
        BY <2>3
    <2>4. pc[Loop] = "start" /\ seenHour[Loop] = hour
        BY <1>17, <1>0, <2>1 DEF Tick, LoopKeepsUp
    <2>5. \A k \in Pending' : k = hour
        <3> SUFFICES ASSUME NEW k \in Pending', k # hour PROVE FALSE
            OBVIOUS
        <3>1. k \in Hours /\ k < hour' /\ minute[k] # {} /\ hourly[k] = {}
            BY <2>3 DEF Pending
        <3>2. k < hour
            BY <2>2, <3>1
        <3>3. k \in Pending
            BY <3>1, <3>2 DEF Pending
        <3> QED
            BY <1>0, <2>4, <3>3
    <2>6. \A k \in Pending' : seenHour[Recorder] = k
        <3> SUFFICES ASSUME hour \in Pending' PROVE seenHour[Recorder] = hour
            BY <2>5
        <3>1. minute[hour] # {}
            BY <2>3 DEF Pending
        <3> QED
            BY <1>0, <2>1, <3>1
    <2>7. minute'[hour'] = {}
        BY <1>0, <2>2, <2>3
    <2> QED
        BY <1>0, <2>1, <2>3, <2>4, <2>5, <2>6, <2>7
<1>18. CASE Restart
    BY <1>18, <1>0 DEF Restart, Pending, Undisturbed, Prompt
<1>19. CASE RedisWiped
    BY <1>19, <1>0 DEF RedisWiped, Pending, Undisturbed, Prompt
<1>20. CASE UNCHANGED vars
    BY <1>20, <1>0 DEF vars, Pending, Undisturbed, Prompt
<1> QED
    BY <1>1, <1>2, <1>3, <1>4, <1>5, <1>6, <1>7, <1>8, <1>9, <1>10,
       <1>11, <1>12, <1>13, <1>14, <1>15, <1>16, <1>17, <1>18, <1>19, <1>20 DEF Next, Work

\* A day's key is made when its hours are complete, and they stay as they are.
LEMMA DailyExactKept ==
    Types /\ OnTime /\ HoursExact /\ ListsComplete /\ DailyExact /\ [Next]_vars => DailyExact'
<1> SUFFICES ASSUME Types, OnTime, HoursExact, ListsComplete, DailyExact, [Next]_vars,
                    Undisturbed'
             PROVE  DailyExact'
    BY DEF DailyExact, Undisturbed
<1>0. Undisturbed /\ Prompt /\ "error" \notin faults
    BY Calm
<1> USE DaysOrdered, LoopIsNoCall, LoopHasOwnMarks DEF Types, OnTime, HoursExact, Prompt,
    ListsComplete, Undisturbed, DailyExact,
        DayTotal, Counted, HoursOf, Actors, series, marks, frames
<1>1. ASSUME NEW a \in Actors, Enter(a) PROVE DailyExact'
    BY <1>1 DEF Enter, Starting
<1>2. ASSUME NEW a \in Actors, CatchScan(a) PROVE DailyExact'
    BY <1>2 DEF CatchScan, Goto
<1>3. ASSUME NEW a \in Actors, CatchEnd(a) PROVE DailyExact'
    BY <1>3 DEF CatchEnd, Goto
<1>4. ASSUME NEW a \in Actors, Stamp(a) PROVE DailyExact'
    BY <1>4 DEF Stamp, Goto
<1>5. ASSUME NEW a \in Actors, CheckHour(a) PROVE DailyExact'
    BY <1>5 DEF CheckHour, HourDone, Crossed, View, Rest
<1>6. ASSUME NEW a \in Actors, HourRolled(a) PROVE DailyExact'
    BY <1>6 DEF HourRolled, HourDone, Crossed, View, Rest
<1>7. ASSUME NEW a \in Actors, DayRolled(a) PROVE DailyExact'
    BY <1>7 DEF DayRolled, Goto, View, Rest
<1>8. ASSUME NEW a \in Actors, CatchFails(a) PROVE DailyExact'
    BY <1>8 DEF CatchFails
<1>9. ASSUME NEW a \in Actors, Fail(a) PROVE DailyExact'
    BY <1>9 DEF Fail, Rest
<1>10. ASSUME NEW a \in Actors, NEW h \in Hours, CatchHour(a, h) PROVE DailyExact'
    BY <1>10 DEF CatchHour, OrFails, RollUpHour
<1>11. ASSUME NEW a \in Actors, NEW h \in Hours, RollHour(a, h) PROVE DailyExact'
    BY <1>11 DEF RollHour, Goto, OrFails, RollUpHour
<1>12. ASSUME NEW a \in Actors, NEW d \in Days, CatchDay(a, d) PROVE DailyExact'
    <2>1. Pending = {} /\ d < DayOf(hour)
        BY <1>12, <1>0 DEF CatchDay, Goto
    <2>2. Counted(hourly, HoursOf(d)) = DayTotal(d)
        BY <1>0, <2>1, PastDayCounted
    <2>3. /\ daily' = [daily EXCEPT ![d] = IF daily[d] = {} THEN DayTotal(d) ELSE daily[d]]
          /\ minute' = minute
        BY <1>12, <1>0, <2>2 DEF CatchDay, OrFails, RollUpDay
    <2> QED
        BY <1>12, <1>0, <2>1, <2>3 DEF CatchDay
<1>13. ASSUME NEW a \in Actors, NEW d \in Days, RollDay(a, d) PROVE DailyExact'
    <2>1. Pending = {} /\ d < DayOf(hour)
        BY <1>13, <1>0 DEF RollDay, Goto
    <2>2. Counted(hourly, HoursOf(d)) = DayTotal(d)
        BY <1>0, <2>1, PastDayCounted
    <2>3. /\ daily' = [daily EXCEPT ![d] = IF daily[d] = {} THEN DayTotal(d) ELSE daily[d]]
          /\ minute' = minute
        BY <1>13, <1>0, <2>2 DEF RollDay, OrFails, RollUpDay
    <2> QED
        BY <1>13, <1>0, <2>1, <2>3 DEF RollDay
<1>14. ASSUME NEW c \in Calls, Count(c) PROVE DailyExact'
    BY <1>14 DEF Count, Goto
<1>15. ASSUME NEW c \in Calls, Read(c) PROVE DailyExact'
    BY <1>15 DEF Read, Goto
<1>16. CASE Persist
    BY <1>16 DEF Persist
<1>17. CASE Tick
    <2>1. hour \in Hours /\ hour' \in Hours /\ DayOf(hour) <= DayOf(hour')
        BY <1>17, NextHour
    <2>2. \A d \in Days : d \in Nat /\ DayOf(hour) \in Nat /\ DayOf(hour') \in Nat
        BY <2>1
    <2> QED
        BY <1>17, <2>1, <2>2 DEF Tick
<1>18. CASE Restart
    BY <1>18 DEF Restart
<1>19. CASE RedisWiped
    BY <1>19 DEF RedisWiped
<1>20. CASE UNCHANGED vars
    BY <1>20 DEF vars
<1> QED
    BY <1>1, <1>2, <1>3, <1>4, <1>5, <1>6, <1>7, <1>8, <1>9, <1>10,
       <1>11, <1>12, <1>13, <1>14, <1>15, <1>16, <1>17, <1>18, <1>19, <1>20 DEF Next, Work

-----------------------------------------------------------------------------
(* The theorems                                                            *)

\* It holds before the first call.
LEMMA Initially == Init => IInv
<1> SUFFICES ASSUME Init PROVE IInv
    OBVIOUS
<1> USE DaysOrdered, BoundsPositive DEF Init
<1>1. Types
    <2>1. 0 \in Hours
        BY DEF Hours
    <2> QED
        BY <2>1, FaultsKnown DEF Types, Points
<1>2. caughtUp \in BOOLEAN
    OBVIOUS
<1>3. OnTime
    BY DEF OnTime, Hours
<1>4. HoursExact /\ DaysStand
    BY DEF HoursExact, DaysStand
<1>5. ListsComplete /\ MarksKnown /\ LoopKnows /\ DailyExact
    BY DEF ListsComplete, MarksKnown, LoopKnows, DailyExact, Actors, Views
<1> QED
    BY <1>1, <1>2, <1>3, <1>4, <1>5 DEF IInv

\* The inductive invariant.
THEOREM Invariant == Spec => []IInv
<1>1. IInv /\ [Next]_vars => IInv'
    BY TypesKept, BooleanKept, OnTimeKept, HoursExactKept, DaysStandKept,
       ListsCompleteKept, MarksKnownKept, LoopKnowsKept, DailyExactKept DEF IInv
<1> QED
    BY Initially, <1>1, PTL DEF Spec

\* The series, the marks and the coroutines stay well-formed: a mark is an
\* hour or a day, or has not been set.
THEOREM TypeCorrect == Spec => []TypeOK
<1>1. IInv => TypeOK
    BY DEF IInv, Types, TypeOK
<1> QED
    BY <1>1, Invariant, PTL

\* As long as no recording straddles a full hour, an hourly key is exact from
\* the moment it exists, whatever fails, restarts or gets lost.
THEOREM HourlyKeysExact == Spec => []HourlyExact
<1>1. IInv => HourlyExact
    BY DEF IInv, HoursExact, Prompt, HourlyExact
<1> QED
    BY <1>1, Invariant, PTL

\* The key of a day is of a complete day and adds up all its calls, whoever
\* makes it, across restarts and losses: unless a recording straddles an hour,
\* an error interferes or the loop has no round in the hour it started in.
THEOREM DailyKeysExact == Spec => []DailyExact
<1>1. IInv => DailyExact
    BY DEF IInv
<1> QED
    BY <1>1, Invariant, PTL

\* A row once persisted stands, although the persister writes every day it
\* finds again and again, and Redis may lose everything.
THEOREM RowsHold == Spec => RowsStand
<1> DEFINE Stands == \A d \in Days :
                        "straddle" \notin faults /\ snapshot[d] # {} => snapshot'[d] = snapshot[d]
<1>1. ASSUME IInv, [Next]_vars PROVE Stands
    <2>1. CASE Persist
        BY <1>1, <2>1 DEF Persist, IInv, DaysStand, Prompt, Lost, Types
    <2>2. CASE snapshot' = snapshot
        BY <2>2
    <2>3. ~Persist => snapshot' = snapshot
        BY <1>1 DEF Next, Work, vars, Enter, CatchScan, CatchEnd, CatchHour, RollHour,
            CatchDay, RollDay, Stamp, CheckHour, HourRolled, DayRolled, CatchFails, Fail,
            Count, Read, Tick, Restart, RedisWiped
    <2> QED
        BY <2>1, <2>2, <2>3
<1>2. IInv /\ [Next]_vars => [Stands]_vars
    BY <1>1
<1> QED
    BY <1>2, Invariant, PTL DEF Spec, RowsStand
=============================================================================
