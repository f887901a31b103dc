---------------------------- MODULE McpLifecycle ----------------------------
(***************************************************************************)
(* Starting and stopping the generated MCP server inside the container:    *)
(* the deploy and stop endpoints with the stop flag they share, the        *)
(* program "mcp" of supervisord, its entry script with the watchdog loop,  *)
(* and the server process itself.                                          *)
(*                                                                         *)
(* A tick is a second; what needs no waiting happens between two ticks.    *)
(* The start of the Python process and its end after a kill take any time. *)
(***************************************************************************)
EXTENDS Naturals

CONSTANTS
    StartSecs,     \* startsecs of the program
    StartRetries,  \* startretries of the program (supervisord's default is 3)
    StopPause,     \* the sleep of a script or server that finds the flag
    PollEvery,     \* the sleep between two looks of the watchdog
    Attempts,      \* looks for server.py before the script gives up
    Mixes          \* the sets of disturbances to consider

AllDisturbances == {"stop", "bad_code", "server_crash", "restart"}

ASSUME DurationsPositive ==
    {StartSecs, StartRetries, StopPause, PollEvery, Attempts} \subseteq Nat \ {0}
\* The script waits for a first deploy longer than a start has to last.
ASSUME WaitsLongEnough == (Attempts - 1) * PollEvery >= StartSecs
ASSUME DisturbancesKnown == Mixes \subseteq SUBSET AllDisturbances

VARIABLES
    flag,       \* the stop flag exists
    flagFor,    \* for how many ticks it has, up to PollEvery + 1
    code,       \* server.py: "missing", "good" or "bad" (it fails to start)
    deploying,  \* a deploy holds _deploy_lock
    prog,       \* supervisord's state of the program
    age,        \* ticks since the script was spawned, up to StartSecs
    backoff,    \* starts in a row that ended too quickly
    spc,        \* where the script is
    left,       \* ticks left of the sleep of the script or of supervisord
    tries,      \* looks for server.py so far
    srv,        \* the server process
    srvLeft,    \* ticks left of the sleep of a server that found the flag
    allowed     \* the disturbances of this behaviour

studio == <<flag, flagFor, code, deploying>>
supervisor == <<prog, age, backoff>>
script == <<spc, left, tries>>
server == <<srv, srvLeft>>
vars == <<studio, supervisor, script, server, allowed>>

ScriptPoints == {"test", "pause", "await", "watch", "reap", "gone"}

\* The container starts on a fresh volume.
Init ==
    /\ flag = FALSE /\ flagFor = 0
    /\ code = "missing"
    /\ deploying = FALSE
    /\ prog = "STARTING" /\ age = 0 /\ backoff = 0
    /\ spc = "test" /\ left = 0 /\ tries = 0
    /\ srv = "none" /\ srvLeft = 0
    /\ allowed \in Mixes

-----------------------------------------------------------------------------
(* The endpoints                                                           *)

\* deploy takes the lock; the deployer removes the flag first.
DeployBegin ==
    /\ ~deploying
    /\ deploying' = TRUE
    /\ flag' = FALSE /\ flagFor' = 0
    /\ UNCHANGED <<code, supervisor, script, server>>

\* The files are written unless a stop came in between (DR-4).
DeployEnd ==
    /\ deploying
    /\ deploying' = FALSE
    /\ IF flag
       THEN UNCHANGED code
       ELSE code' \in {"good"} \cup {c \in {"bad"} : "bad_code" \in allowed}
    /\ UNCHANGED <<flag, flagFor, supervisor, script, server>>

\* stop_server writes the flag, without the lock.
Stop ==
    /\ "stop" \in allowed
    /\ ~flag
    /\ flag' = TRUE
    /\ UNCHANGED <<flagFor, code, deploying, supervisor, script, server>>

\* Mutant: the program is restarted only after failed starts.
Spawn_FailedOnly ==
    /\ prog = "BACKOFF" /\ left = 0
    /\ prog' = "STARTING" /\ age' = 0
    /\ spc' = "test" /\ left' = 0 /\ tries' = 0
    /\ UNCHANGED <<studio, backoff, server>>

-----------------------------------------------------------------------------
(* supervisord                                                             *)

Spawn ==
    /\ \/ prog = "EXITED"
       \/ prog = "BACKOFF" /\ left = 0
    /\ prog' = "STARTING" /\ age' = 0
    /\ spc' = "test" /\ left' = 0 /\ tries' = 0
    /\ UNCHANGED <<studio, backoff, server>>

Promote ==
    /\ prog = "STARTING"
    /\ age = StartSecs
    /\ prog' = "RUNNING" /\ backoff' = 0
    /\ UNCHANGED <<studio, age, script, server>>

\* The script ends: before StartSecs that is a failed start, which is
\* repeated after as many seconds as there were failures, StartRetries times.
ScriptExits ==
    /\ spc' = "gone"
    /\ tries' = 0
    /\ IF age < StartSecs
       THEN /\ backoff' = backoff + 1
            /\ prog' = IF backoff' > StartRetries THEN "FATAL" ELSE "BACKOFF"
            /\ left' = IF prog' = "FATAL" THEN 0 ELSE backoff'
       ELSE /\ backoff' = 0
            /\ prog' = "EXITED"
            /\ left' = 0
    /\ UNCHANGED age

-----------------------------------------------------------------------------
(* mcp_entrypoint.sh                                                       *)

TestFlag ==
    /\ spc = "test"
    /\ IF flag
       THEN spc' = "pause" /\ left' = StopPause
       ELSE spc' = "await" /\ left' = 0
    /\ UNCHANGED <<studio, supervisor, tries, server>>

PauseEnds ==
    /\ spc = "pause" /\ left = 0
    /\ ScriptExits
    /\ UNCHANGED <<studio, server>>

\* Mutant: the script does not wait for the first deploy.
AwaitServer_AtOnce ==
    /\ spc = "await" /\ left = 0
    /\ code = "missing"
    /\ ScriptExits
    /\ UNCHANGED <<studio, server>>

AwaitServer ==
    /\ spc = "await" /\ left = 0
    /\ code = "missing"
    /\ IF tries + 1 >= Attempts
       THEN ScriptExits
       ELSE tries' = tries + 1 /\ left' = PollEvery /\ UNCHANGED <<spc, supervisor>>
    /\ UNCHANGED <<studio, server>>

StartServer ==
    /\ spc = "await" /\ left = 0
    /\ code # "missing"
    /\ spc' = "watch" /\ left' = PollEvery
    /\ srv' = "boot"
    /\ UNCHANGED <<studio, supervisor, tries, srvLeft>>

\* Mutant: the watchdog looks at the flag only when the server has ended.
WatchStop_Blind ==
    /\ spc = "watch" /\ left = 0
    /\ flag /\ srv = "dead"
    /\ spc' = "reap"
    /\ UNCHANGED <<studio, supervisor, left, tries, server>>

\* The flag is tested before the server's death.
WatchStop ==
    /\ spc = "watch" /\ left = 0
    /\ flag
    /\ spc' = "reap"
    /\ srv' = IF srv = "dead" THEN "dead" ELSE "dying"
    /\ srvLeft' = 0
    /\ UNCHANGED <<studio, supervisor, left, tries>>

WatchDead ==
    /\ spc = "watch" /\ left = 0
    /\ ~flag /\ srv = "dead"
    /\ ScriptExits
    /\ srv' = "none"
    /\ UNCHANGED <<studio, srvLeft>>

\* Mutant: the watchdog sleeps longer between two looks.
WatchOn_Slow ==
    /\ spc = "watch" /\ left = 0
    /\ ~flag /\ srv # "dead"
    /\ left' = PollEvery + 1
    /\ UNCHANGED <<studio, supervisor, spc, tries, server>>

WatchOn ==
    /\ spc = "watch" /\ left = 0
    /\ ~flag /\ srv # "dead"
    /\ left' = PollEvery
    /\ UNCHANGED <<studio, supervisor, spc, tries, server>>

\* Mutant: the script ends without waiting for the server it has killed.
Reap_Unwaited ==
    /\ spc = "reap"
    /\ ScriptExits
    /\ UNCHANGED <<studio, server>>

Reap ==
    /\ spc = "reap" /\ srv = "dead"
    /\ ScriptExits
    /\ srv' = "none"
    /\ UNCHANGED <<studio, srvLeft>>

-----------------------------------------------------------------------------
(* server.py                                                               *)

\* The server looks for the flag itself before it serves.
Boot ==
    /\ srv = "boot"
    /\ IF flag
       THEN srv' = "paused" /\ srvLeft' = StopPause
       ELSE /\ srv' = IF code = "good" THEN "up" ELSE "dead"
            /\ UNCHANGED srvLeft
    /\ UNCHANGED <<studio, supervisor, script>>

ServerPauseEnds ==
    /\ srv = "paused" /\ srvLeft = 0
    /\ srv' = "dead"
    /\ UNCHANGED <<studio, supervisor, script, srvLeft>>

ServerKilled ==
    /\ srv = "dying"
    /\ srv' = "dead"
    /\ UNCHANGED <<studio, supervisor, script, srvLeft>>

ServerCrashes ==
    /\ "server_crash" \in allowed
    /\ srv = "up"
    /\ srv' = "dead"
    /\ UNCHANGED <<studio, supervisor, script, srvLeft>>

-----------------------------------------------------------------------------
\* The container is restarted; the volume with flag and code stays.
Restart ==
    /\ "restart" \in allowed
    /\ deploying' = FALSE
    /\ prog' = "STARTING" /\ age' = 0 /\ backoff' = 0
    /\ spc' = "test" /\ left' = 0 /\ tries' = 0
    /\ srv' = "none" /\ srvLeft' = 0
    /\ UNCHANGED <<flag, flagFor, code>>

\* What happens without delay, before the next tick.
Prompt ==
    \/ Spawn \/ Promote
    \/ TestFlag \/ PauseEnds \/ AwaitServer \/ StartServer
    \/ WatchStop \/ WatchDead \/ WatchOn \/ Reap
    \/ ServerPauseEnds

Due ==
    \/ prog = "EXITED"
    \/ prog = "BACKOFF" /\ left = 0
    \/ prog = "STARTING" /\ age = StartSecs
    \/ spc = "test"
    \/ spc \in {"pause", "await", "watch"} /\ left = 0
    \/ spc = "reap" /\ srv = "dead"
    \/ srv = "paused" /\ srvLeft = 0

Tick ==
    /\ ~Due
    /\ flagFor' = IF flag /\ flagFor <= PollEvery THEN flagFor + 1 ELSE flagFor
    /\ age' = IF prog \in {"STARTING", "RUNNING"} /\ age < StartSecs THEN age + 1 ELSE age
    /\ left' = IF left > 0 THEN left - 1 ELSE 0
    /\ srvLeft' = IF srvLeft > 0 THEN srvLeft - 1 ELSE 0
    /\ UNCHANGED <<flag, code, deploying, prog, backoff, spc, tries, srv>>

Next ==
    /\ \/ DeployBegin \/ DeployEnd \/ Stop
       \/ Prompt \/ Boot \/ ServerKilled \/ ServerCrashes
       \/ Restart \/ Tick
    /\ UNCHANGED allowed

Spec == Init /\ [][Next]_vars

\* Processes run and time passes; nobody need press a button.
FairSpec ==
    /\ Spec
    /\ WF_vars(Prompt /\ UNCHANGED allowed)
    /\ WF_vars(Tick /\ UNCHANGED allowed)
    /\ WF_vars(Boot /\ UNCHANGED allowed)
    /\ WF_vars(ServerKilled /\ UNCHANGED allowed)
    /\ WF_vars(DeployEnd /\ UNCHANGED allowed)
-----------------------------------------------------------------------------
(* Properties                                                              *)

\* Every variable is of its type; the script lives exactly while supervisord
\* counts the program as starting or running, and a server only under a script
\* that watches it: no start finds an older server on its port.
TypeOK ==
    /\ flag \in BOOLEAN /\ flagFor \in 0 .. PollEvery + 1
    /\ code \in {"missing", "good", "bad"}
    /\ deploying \in BOOLEAN
    /\ prog \in {"STARTING", "RUNNING", "BACKOFF", "EXITED", "FATAL"}
    /\ age \in 0 .. StartSecs /\ backoff \in 0 .. StartRetries + 1
    /\ spc \in ScriptPoints
    /\ left \in Nat /\ tries \in 0 .. Attempts
    /\ srv \in {"none", "boot", "paused", "up", "dying", "dead"}
    /\ srvLeft \in 0 .. StopPause
    /\ allowed \in Mixes
    /\ spc = "gone" <=> prog \in {"BACKOFF", "EXITED", "FATAL"}
    /\ srv # "none" => spc \in {"watch", "reap"}

\* "The MCP container's watcher thread detects the flag within ~2s": a server
\* that serves has not had the flag beside it for longer than one round of
\* the watchdog, wherever deploys, stops and starts fall.
StopIsSwift == srv = "up" /\ flag => flagFor <= PollEvery

\* supervisord gives up only over starts that failed quickly: not while the
\* script waits for the first deploy, and never without a stop, a server that
\* fails or bad code.
GivesUpOnFailure ==
    allowed \cap {"stop", "bad_code", "server_crash"} = {} => prog # "FATAL"

\* A stop that nobody takes back keeps the server down for good, although
\* supervisord keeps restarting the script.
StopIsFinal == <>[]flag => <>[](srv \in {"none", "dead"})

\* Good code that nobody stops is served in the end, unless supervisord has
\* given up or the server crashes again and again.
DeployedIsServed ==
    <>[](~flag /\ code = "good" /\ ~deploying) =>
        \/ <>[](srv = "up")
        \/ []<>(prog = "FATAL")
        \/ "server_crash" \in allowed \/ "restart" \in allowed

\* "Click Deploy again to regenerate code and start a fresh instance": the
\* same without giving up.
DeployStarts ==
    <>[](~flag /\ code = "good" /\ ~deploying) => []<>(srv = "up")
=============================================================================
