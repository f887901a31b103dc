---------------------------- MODULE MCRateLimits ----------------------------
(***************************************************************************)
(* Model-checking instance of RateLimits.                                  *)
(***************************************************************************)
EXTENDS RateLimits

CONSTANTS a1, a2, a3, t1, r1, r2

FaultMixes == {{"outage"}, AllFaults}
NoFault == {{}}

Interchangeable == Permutations(Addresses) \cup Permutations(Requests)
=============================================================================
