---------------------------- MODULE MCLogConsumer ----------------------------
(***************************************************************************)
(* Model-checking instance of LogConsumer.                                 *)
(***************************************************************************)
EXTENDS LogConsumer

\* No fault, each fault that some property tolerates, and all of them.
SafetyMixes == {{}, {"redis"}, {"stop"}, AllFaults}
=============================================================================
