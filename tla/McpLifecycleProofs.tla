------------------------- MODULE McpLifecycleProofs -------------------------
(***************************************************************************)
(* Proofs about McpLifecycle for all durations: typing, the swift stop,    *)
(* and that supervisord gives up only over failures.                       *)
(***************************************************************************)
EXTENDS McpLifecycle, TLAPS

\* The durations one by one, as the arithmetic needs them.
LEMMA Durations ==
    /\ StartSecs \in Nat /\ StartSecs > 0
    /\ StartRetries \in Nat /\ StartRetries > 0
    /\ StopPause \in Nat /\ StopPause > 0
    /\ PollEvery \in Nat /\ PollEvery > 0
    /\ Attempts \in Nat /\ Attempts > 0
    BY DurationsPositive

-----------------------------------------------------------------------------
(* The inductive invariant                                                 *)

\* The part of the type invariant that is about truth values, and the rest.
Flags == flag \in BOOLEAN /\ deploying \in BOOLEAN

Types ==
    /\ flagFor \in 0 .. PollEvery + 1
    /\ code \in {"missing", "good", "bad"}
    /\ prog \in {"STARTING", "RUNNING", "BACKOFF", "EXITED", "FATAL"}
    /\ age \in 0 .. StartSecs /\ backoff \in 0 .. StartRetries + 1
    /\ spc \in ScriptPoints
    /\ left \in Nat /\ tries \in 0 .. Attempts
    /\ srv \in {"none", "boot", "paused", "up", "dying", "dead"}
    /\ srvLeft \in 0 .. StopPause
    /\ allowed \in Mixes

\* Script, supervisord's state and server fit together.
Fitting ==
    /\ spc = "gone" <=> prog \in {"BACKOFF", "EXITED", "FATAL"}
    /\ srv # "none" => spc \in {"watch", "reap"}
    /\ srv \in {"boot", "paused", "up"} => spc = "watch"
    /\ prog # "FATAL" => backoff <= StartRetries

\* A sleep of the watchdog is one round at most, and what is left of it
\* bounds the time a server that serves may yet have the flag beside it.
Watched ==
    /\ spc = "watch" => left <= PollEvery
    /\ ~flag => flagFor = 0
    /\ srv = "up" /\ flag => flagFor + left <= PollEvery

\* Without disturbances nothing leads to a quick end of the script: it waits
\* for server.py, each look PollEvery after the one before, or it watches.
Calm == allowed \cap {"stop", "bad_code", "server_crash"} = {}

Undisturbed ==
    Calm =>
        /\ ~flag
        /\ code # "bad"
        /\ srv \in {"none", "boot", "up"}
        /\ srv = "boot" => code = "good"
        /\ spc \notin {"pause", "reap"}
        /\ prog \notin {"BACKOFF", "FATAL"}
        /\ spc = "test" => tries = 0
        /\ spc = "await" =>
              tries < Attempts /\ (age >= StartSecs \/ age + left >= tries * PollEvery)

IInv == Flags /\ Types /\ Fitting /\ Watched /\ Undisturbed

-----------------------------------------------------------------------------
(* Every step preserves it                                                 *)

\* The flag and the lock are truth values.
LEMMA FlagsKept == Flags /\ [Next]_vars => Flags'
<1> SUFFICES ASSUME Flags, [Next]_vars PROVE Flags'
    OBVIOUS
<1> USE DEF Flags, studio, supervisor, script, server
<1>1. CASE DeployBegin /\ UNCHANGED allowed
    BY <1>1 DEF DeployBegin
<1>2. CASE DeployEnd /\ UNCHANGED allowed
    BY <1>2 DEF DeployEnd
<1>3. CASE Stop /\ UNCHANGED allowed
    BY <1>3 DEF Stop
<1>4. CASE Spawn /\ UNCHANGED allowed
    BY <1>4 DEF Spawn
<1>5. CASE Promote /\ UNCHANGED allowed
    BY <1>5 DEF Promote
<1>6. CASE TestFlag /\ UNCHANGED allowed
    BY <1>6 DEF TestFlag
<1>7. CASE PauseEnds /\ UNCHANGED allowed
    BY <1>7 DEF PauseEnds, ScriptExits
<1>8. CASE AwaitServer /\ UNCHANGED allowed
    BY <1>8 DEF AwaitServer, ScriptExits
<1>9. CASE StartServer /\ UNCHANGED allowed
    BY <1>9 DEF StartServer
<1>10. CASE WatchStop /\ UNCHANGED allowed
    BY <1>10 DEF WatchStop
<1>11. CASE WatchDead /\ UNCHANGED allowed
    BY <1>11 DEF WatchDead, ScriptExits
<1>12. CASE WatchOn /\ UNCHANGED allowed
    BY <1>12 DEF WatchOn
<1>13. CASE Reap /\ UNCHANGED allowed
    BY <1>13 DEF Reap, ScriptExits
<1>14. CASE ServerPauseEnds /\ UNCHANGED allowed
    BY <1>14 DEF ServerPauseEnds
<1>15. CASE Boot /\ UNCHANGED allowed
    BY <1>15 DEF Boot
<1>16. CASE ServerKilled /\ UNCHANGED allowed
    BY <1>16 DEF ServerKilled
<1>17. CASE ServerCrashes /\ UNCHANGED allowed
    BY <1>17 DEF ServerCrashes
<1>18. CASE Restart /\ UNCHANGED allowed
    BY <1>18 DEF Restart
<1>19. CASE Tick /\ UNCHANGED allowed
    BY <1>19 DEF Tick
<1>20. CASE UNCHANGED vars
    BY <1>20 DEF vars
<1> QED
    BY <1>1, <1>2, <1>3, <1>4, <1>5, <1>6, <1>7, <1>8, <1>9, <1>10, <1>11, <1>12,
       <1>13, <1>14, <1>15, <1>16, <1>17, <1>18, <1>19, <1>20 DEF Next, Prompt

\* Everything else keeps its type; a start that fails is counted from at most
\* StartRetries, for the program has not been given up.
LEMMA TypesKept == Types /\ Fitting /\ [Next]_vars => Types'
<1> SUFFICES ASSUME Types /\ Fitting, [Next]_vars PROVE Types'
    OBVIOUS
<1> USE Durations DEF Types, Fitting, ScriptPoints, studio, supervisor, script, server
<1>1. CASE DeployBegin /\ UNCHANGED allowed
    BY <1>1 DEF DeployBegin
<1>2. CASE DeployEnd /\ UNCHANGED allowed
    BY <1>2 DEF DeployEnd
<1>3. CASE Stop /\ UNCHANGED allowed
    BY <1>3 DEF Stop
<1>4. CASE Spawn /\ UNCHANGED allowed
    BY <1>4 DEF Spawn
<1>5. CASE Promote /\ UNCHANGED allowed
    BY <1>5 DEF Promote
<1>6. CASE TestFlag /\ UNCHANGED allowed
    BY <1>6 DEF TestFlag
<1>7. CASE PauseEnds /\ UNCHANGED allowed
    BY <1>7 DEF PauseEnds, ScriptExits
<1>8. CASE AwaitServer /\ UNCHANGED allowed
    BY <1>8 DEF AwaitServer, ScriptExits
<1>9. CASE StartServer /\ UNCHANGED allowed
    BY <1>9 DEF StartServer
<1>10. CASE WatchStop /\ UNCHANGED allowed
    BY <1>10 DEF WatchStop
<1>11. CASE WatchDead /\ UNCHANGED allowed
    BY <1>11 DEF WatchDead, ScriptExits
<1>12. CASE WatchOn /\ UNCHANGED allowed
    BY <1>12 DEF WatchOn
<1>13. CASE Reap /\ UNCHANGED allowed
    BY <1>13 DEF Reap, ScriptExits
<1>14. CASE ServerPauseEnds /\ UNCHANGED allowed
    BY <1>14 DEF ServerPauseEnds
<1>15. CASE Boot /\ UNCHANGED allowed
    BY <1>15 DEF Boot
<1>16. CASE ServerKilled /\ UNCHANGED allowed
    BY <1>16 DEF ServerKilled
<1>17. CASE ServerCrashes /\ UNCHANGED allowed
    BY <1>17 DEF ServerCrashes
<1>18. CASE Restart /\ UNCHANGED allowed
    BY <1>18 DEF Restart
<1>19. CASE Tick /\ UNCHANGED allowed
    BY <1>19 DEF Tick
<1>20. CASE UNCHANGED vars
    BY <1>20 DEF vars
<1> QED
    BY <1>1, <1>2, <1>3, <1>4, <1>5, <1>6, <1>7, <1>8, <1>9, <1>10, <1>11, <1>12,
       <1>13, <1>14, <1>15, <1>16, <1>17, <1>18, <1>19, <1>20 DEF Next, Prompt

\* No server is left behind by its script, nor started beside another.
LEMMA FittingKept == Types /\ Fitting /\ [Next]_vars => Fitting'
<1> SUFFICES ASSUME Types /\ Fitting, [Next]_vars PROVE Fitting'
    OBVIOUS
<1> USE Durations DEF Types, Fitting, ScriptPoints, studio, supervisor, script, server
<1>1. CASE DeployBegin /\ UNCHANGED allowed
    BY <1>1 DEF DeployBegin
<1>2. CASE DeployEnd /\ UNCHANGED allowed
    BY <1>2 DEF DeployEnd
<1>3. CASE Stop /\ UNCHANGED allowed
    BY <1>3 DEF Stop
<1>4. CASE Spawn /\ UNCHANGED allowed
    BY <1>4 DEF Spawn
<1>5. CASE Promote /\ UNCHANGED allowed
    BY <1>5 DEF Promote
<1>6. CASE TestFlag /\ UNCHANGED allowed
    BY <1>6 DEF TestFlag
<1>7. CASE PauseEnds /\ UNCHANGED allowed
    BY <1>7 DEF PauseEnds, ScriptExits
<1>8. CASE AwaitServer /\ UNCHANGED allowed
    BY <1>8 DEF AwaitServer, ScriptExits
<1>9. CASE StartServer /\ UNCHANGED allowed
    BY <1>9 DEF StartServer
<1>10. CASE WatchStop /\ UNCHANGED allowed
    BY <1>10 DEF WatchStop
<1>11. CASE WatchDead /\ UNCHANGED allowed
    BY <1>11 DEF WatchDead, ScriptExits
<1>12. CASE WatchOn /\ UNCHANGED allowed
    BY <1>12 DEF WatchOn
<1>13. CASE Reap /\ UNCHANGED allowed
    BY <1>13 DEF Reap, ScriptExits
<1>14. CASE ServerPauseEnds /\ UNCHANGED allowed
    BY <1>14 DEF ServerPauseEnds
<1>15. CASE Boot /\ UNCHANGED allowed
    BY <1>15 DEF Boot
<1>16. CASE ServerKilled /\ UNCHANGED allowed
    BY <1>16 DEF ServerKilled
<1>17. CASE ServerCrashes /\ UNCHANGED allowed
    BY <1>17 DEF ServerCrashes
<1>18. CASE Restart /\ UNCHANGED allowed
    BY <1>18 DEF Restart
<1>19. CASE Tick /\ UNCHANGED allowed
    BY <1>19 DEF Tick
<1>20. CASE UNCHANGED vars
    BY <1>20 DEF vars
<1> QED
    BY <1>1, <1>2, <1>3, <1>4, <1>5, <1>6, <1>7, <1>8, <1>9, <1>10, <1>11, <1>12,
       <1>13, <1>14, <1>15, <1>16, <1>17, <1>18, <1>19, <1>20 DEF Next, Prompt

\* Time passes for the flag as it does for the sleep of the watchdog, and a
\* watchdog that has slept looks before time goes on.
LEMMA WatchedKept == Flags /\ Types /\ Fitting /\ Watched /\ [Next]_vars => Watched'
<1> SUFFICES ASSUME Flags /\ Types /\ Fitting /\ Watched, [Next]_vars PROVE Watched'
    OBVIOUS
<1> USE Durations DEF Flags, Types, Fitting, Watched, Due, studio, supervisor, script, server
<1>1. CASE DeployBegin /\ UNCHANGED allowed
    BY <1>1 DEF DeployBegin
<1>2. CASE DeployEnd /\ UNCHANGED allowed
    BY <1>2 DEF DeployEnd
<1>3. CASE Stop /\ UNCHANGED allowed
    BY <1>3 DEF Stop
<1>4. CASE Spawn /\ UNCHANGED allowed
    BY <1>4 DEF Spawn
<1>5. CASE Promote /\ UNCHANGED allowed
    BY <1>5 DEF Promote
<1>6. CASE TestFlag /\ UNCHANGED allowed
    BY <1>6 DEF TestFlag
<1>7. CASE PauseEnds /\ UNCHANGED allowed
    BY <1>7 DEF PauseEnds, ScriptExits
<1>8. CASE AwaitServer /\ UNCHANGED allowed
    BY <1>8 DEF AwaitServer, ScriptExits
<1>9. CASE StartServer /\ UNCHANGED allowed
    BY <1>9 DEF StartServer
<1>10. CASE WatchStop /\ UNCHANGED allowed
    BY <1>10 DEF WatchStop
<1>11. CASE WatchDead /\ UNCHANGED allowed
    BY <1>11 DEF WatchDead, ScriptExits
<1>12. CASE WatchOn /\ UNCHANGED allowed
    BY <1>12 DEF WatchOn
<1>13. CASE Reap /\ UNCHANGED allowed
    BY <1>13 DEF Reap, ScriptExits
<1>14. CASE ServerPauseEnds /\ UNCHANGED allowed
    BY <1>14 DEF ServerPauseEnds
<1>15. CASE Boot /\ UNCHANGED allowed
    BY <1>15 DEF Boot
<1>16. CASE ServerKilled /\ UNCHANGED allowed
    BY <1>16 DEF ServerKilled
<1>17. CASE ServerCrashes /\ UNCHANGED allowed
    BY <1>17 DEF ServerCrashes
<1>18. CASE Restart /\ UNCHANGED allowed
    BY <1>18 DEF Restart
<1>19. CASE Tick /\ UNCHANGED allowed
    BY <1>19 DEF Tick
<1>20. CASE UNCHANGED vars
    BY <1>20 DEF vars
<1> QED
    BY <1>1, <1>2, <1>3, <1>4, <1>5, <1>6, <1>7, <1>8, <1>9, <1>10, <1>11, <1>12,
       <1>13, <1>14, <1>15, <1>16, <1>17, <1>18, <1>19, <1>20 DEF Next, Prompt

\* Without disturbances the script ends only after its last look.
LEMMA UndisturbedKept == Flags /\ Types /\ Fitting /\ Watched /\ Undisturbed /\ [Next]_vars => Undisturbed'
<1> SUFFICES ASSUME Flags /\ Types /\ Fitting /\ Watched /\ Undisturbed, [Next]_vars PROVE Undisturbed'
    OBVIOUS
<1> USE Durations DEF Flags, Types, Fitting, Undisturbed, Calm, ScriptPoints, studio, supervisor, script, server
<1>1. CASE DeployBegin /\ UNCHANGED allowed
    BY <1>1 DEF DeployBegin
<1>2. CASE DeployEnd /\ UNCHANGED allowed
    BY <1>2 DEF DeployEnd
<1>3. CASE Stop /\ UNCHANGED allowed
    BY <1>3 DEF Stop
<1>4. CASE Spawn /\ UNCHANGED allowed
    BY <1>4 DEF Spawn
<1>5. CASE Promote /\ UNCHANGED allowed
    BY <1>5 DEF Promote
<1>6. CASE TestFlag /\ UNCHANGED allowed
    BY <1>6 DEF TestFlag
<1>7. CASE PauseEnds /\ UNCHANGED allowed
    BY <1>7 DEF PauseEnds, ScriptExits
<1>8. CASE AwaitServer /\ UNCHANGED allowed
    <2>1. CASE tries + 1 >= Attempts
        <3>1. Calm => tries = Attempts - 1
            BY <1>8, <2>1 DEF AwaitServer
        <3>2. Calm => age >= StartSecs
            BY <1>8, <3>1, WaitsLongEnough DEF AwaitServer
        <3> QED
            BY <1>8, <2>1, <3>2 DEF AwaitServer, ScriptExits
    <2>2. CASE ~(tries + 1 >= Attempts)
        <3>1. (tries + 1) * PollEvery = tries * PollEvery + PollEvery
            OBVIOUS
        <3>2. Calm => age + PollEvery >= (tries + 1) * PollEvery \/ age >= StartSecs
            BY <1>8, <3>1 DEF AwaitServer
        <3> QED
            BY <1>8, <2>2, <3>2 DEF AwaitServer
    <2> QED
        BY <2>1, <2>2
<1>9. CASE StartServer /\ UNCHANGED allowed
    BY <1>9 DEF StartServer
<1>10. CASE WatchStop /\ UNCHANGED allowed
    BY <1>10 DEF WatchStop
<1>11. CASE WatchDead /\ UNCHANGED allowed
    BY <1>11 DEF WatchDead, ScriptExits
<1>12. CASE WatchOn /\ UNCHANGED allowed
    BY <1>12 DEF WatchOn
<1>13. CASE Reap /\ UNCHANGED allowed
    BY <1>13 DEF Reap, ScriptExits
<1>14. CASE ServerPauseEnds /\ UNCHANGED allowed
    BY <1>14 DEF ServerPauseEnds
<1>15. CASE Boot /\ UNCHANGED allowed
    BY <1>15 DEF Boot
<1>16. CASE ServerKilled /\ UNCHANGED allowed
    BY <1>16 DEF ServerKilled
<1>17. CASE ServerCrashes /\ UNCHANGED allowed
    BY <1>17 DEF ServerCrashes
<1>18. CASE Restart /\ UNCHANGED allowed
    BY <1>18 DEF Restart
<1>19. CASE Tick /\ UNCHANGED allowed
    BY <1>19 DEF Tick
<1>20. CASE UNCHANGED vars
    BY <1>20 DEF vars
<1> QED
    BY <1>1, <1>2, <1>3, <1>4, <1>5, <1>6, <1>7, <1>8, <1>9, <1>10, <1>11, <1>12,
       <1>13, <1>14, <1>15, <1>16, <1>17, <1>18, <1>19, <1>20 DEF Next, Prompt

LEMMA Initially == Init => IInv
<1> SUFFICES ASSUME Init PROVE IInv
    OBVIOUS
<1>1. Flags
    BY DEF Init, Flags
<1>2. Types /\ Fitting
    BY Durations DEF Init, Types, Fitting, ScriptPoints
<1>3. Watched
    BY Durations DEF Init, Watched
<1>4. Undisturbed
    BY DEF Init, Undisturbed
<1> QED
    BY <1>1, <1>2, <1>3, <1>4 DEF IInv

\* The invariant holds of every behaviour, for all durations and whatever
\* disturbances are considered.
THEOREM Invariant == Spec => []IInv
<1>1. Init => IInv
    BY Initially
<1>2. IInv /\ [Next]_vars => IInv'
    <2> SUFFICES ASSUME IInv, [Next]_vars PROVE IInv'
        OBVIOUS
    <2>1. Flags' /\ Types' /\ Fitting'
        BY FlagsKept, TypesKept, FittingKept DEF IInv
    <2>2. Watched' /\ Undisturbed'
        BY WatchedKept, UndisturbedKept DEF IInv
    <2> QED
        BY <2>1, <2>2 DEF IInv
<1> QED
    BY <1>1, <1>2, PTL DEF Spec

-----------------------------------------------------------------------------
(* What follows                                                            *)

\* Types, and: a server is only there under a script that watches it.
THEOREM TypeCorrect == Spec => []TypeOK
<1>1. IInv => TypeOK
    BY DEF IInv, Flags, Types, Fitting, TypeOK
<1> QED
    BY <1>1, Invariant, PTL

\* A stop reaches a serving server within one round of the watchdog.
THEOREM SwiftStop == Spec => []StopIsSwift
<1>1. IInv => StopIsSwift
    BY Durations DEF IInv, Flags, Types, Watched, StopIsSwift
<1> QED
    BY <1>1, Invariant, PTL

\* supervisord never gives up over waiting for the first deploy.
THEOREM PatientStart == Spec => []GivesUpOnFailure
<1>1. IInv => GivesUpOnFailure
    BY DEF IInv, Undisturbed, Calm, GivesUpOnFailure
<1> QED
    BY <1>1, Invariant, PTL
=============================================================================
