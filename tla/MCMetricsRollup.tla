--------------------------- MODULE MCMetricsRollup ---------------------------
(***************************************************************************)
(* Model-checking instance of MetricsRollup.                               *)
(***************************************************************************)
EXTENDS MetricsRollup, TLC

CONSTANTS c1, c2

\* A recording across a full hour and a late loop are combined with a restart
\* only; errors may keep a loop from its first round, too.
Mixes ==
    {{"restart"}, {"straddle", "late"}, {"straddle", "late", "restart"},
     {"error", "late", "restart"}, {"wipe", "restart"}}

\* What an operator does: the server is restarted, at any minute of an hour.
LateRestart == {{"late", "restart"}}
=============================================================================
