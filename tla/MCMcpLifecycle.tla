--------------------------- MODULE MCMcpLifecycle ---------------------------
(***************************************************************************)
(* Model-checking instance of McpLifecycle.                                *)
(***************************************************************************)
EXTENDS McpLifecycle

\* Undisturbed, container restarts alone, and everything at once.
SafetyMixes == {{}, {"restart"}, {"stop", "bad_code"}, AllDisturbances}
OnlyStops == {{"stop"}}
=============================================================================
