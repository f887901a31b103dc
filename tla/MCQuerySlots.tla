---------------------------- MODULE MCQuerySlots ----------------------------
(***************************************************************************)
(* Model-checking instance of QuerySlots.                                  *)
(***************************************************************************)
EXTENDS QuerySlots, TLC

CONSTANTS r1, r2

\* The mixes: none, query errors (the slot counter is exact), the two that
\* break the slot limit (the queue counter is exact), and all the others.
Mixes == {{}, {"error"}, {"lost_reply", "overrun"},
          {"error", "cancel", "crash", "outage"}}
OnlyCrashes == {{"crash"}}
=============================================================================
