------------------------------ MODULE SlotPool ------------------------------
(***************************************************************************)
(* What the per-connection query limit promises, without Redis, counters,  *)
(* time-to-live or queues: at most Size queries of one connection hold a   *)
(* slot at a time; a query that holds none may take one while one is free, *)
(* and any number of holders may stop at once (one query ends, or the      *)
(* process that runs all of them does).                                    *)
(***************************************************************************)
EXTENDS Integers, FiniteSets

CONSTANTS Users,  \* the queries that may want a slot
          Size    \* max_concurrent_queries of the connection

VARIABLE busy     \* the queries that hold a slot

SlotPoolTypeOK == busy \in SUBSET Users

Init == busy = {}

Take(u) ==
    /\ u \notin busy
    /\ Cardinality(busy) < Size
    /\ busy' = busy \union {u}

Give(S) ==
    /\ S # {}
    /\ busy' = busy \ S

Next ==
    \/ \E u \in Users : Take(u)
    \/ \E S \in SUBSET busy : Give(S)

Spec == Init /\ [][Next]_busy
=============================================================================
