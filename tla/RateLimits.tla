----------------------------- MODULE RateLimits -----------------------------
(***************************************************************************)
(* The two limits a request to the agent MCP server passes:                *)
(*  - per address, before its token is looked at: a window of timestamps   *)
(*    in a table in memory that is cut back above a bound,                 *)
(*  - per token, after validation: a counter in Redis with an expiry.      *)
(* Between the two are awaits.  The table of the token endpoint is a       *)
(* second one of the same code that shares nothing with this one.          *)
(*                                                                         *)
(* A timestamp is kept as its age in ticks; Window ticks are 60 s.         *)
(***************************************************************************)
EXTENDS Integers, SequencesExt

CONSTANTS
    Addresses, Tokens,
    Invalid,       \* stands for every bearer token that does not validate
    Requests,      \* places for requests that are being handled
    Window,        \* 60 s
    Stale,         \* entries older than this, 120 s, are of no use
    AddressMax,    \* _PREAUTH_MAX_PER_MINUTE
    MaxTracked,    \* _OAUTH_RATE_MAX_IPS
    TokenMax,      \* DEFAULT_RATE_LIMIT
    Mixes          \* the sets of faults to consider

AllFaults == {"outage", "loss"}

ASSUME BoundsPositive == /\ Window \in Nat \ {0} /\ Stale \in Nat \ {0}
                         /\ AddressMax \in Nat \ {0} /\ MaxTracked \in Nat \ {0}
                         /\ TokenMax \in Nat \ {0}
ASSUME AddressesFinite == IsFiniteSet(Addresses)
ASSUME StaleIsOld == Stale >= Window
ASSUME InvalidIsNone == Invalid \notin Tokens
ASSUME FaultsKnown == Mixes \subseteq SUBSET AllFaults

VARIABLES
    store,     \* _preauth_rate: ages of the requests of each address, oldest first
    stage,     \* stage[r]: where request r is
    bearer,    \* bearer[r]: its token
    counter,   \* agent:rate:<token>, up to TokenMax + 1
    ttl,       \* ticks until it expires
    admitted,  \* ages below Window of the last requests let through to validation,
               \* one more than the maximum (for the properties)
    asked,     \* the same of those counted
    passed,    \* the same of those that passed the counter
    refusal,   \* the token whose counter refused the last request, or Invalid
    faults     \* the faults of this behaviour

vars == <<store, stage, bearer, counter, ttl, admitted, asked, passed, refusal, faults>>

Init ==
    /\ store = <<>>
    /\ stage = [r \in Requests |-> "idle"]
    /\ bearer = [r \in Requests |-> Invalid]
    /\ counter = [t \in Tokens |-> 0]
    /\ ttl = [t \in Tokens |-> 0]
    /\ admitted = [a \in Addresses |-> <<>>]
    /\ asked = [t \in Tokens |-> <<>>]
    /\ passed = [t \in Tokens |-> <<>>]
    /\ refusal = Invalid
    /\ faults \in Mixes

-----------------------------------------------------------------------------
(* _sliding_window_allow                                                   *)

\* The last n entries and one more at age 0.
Noted(ages, n) ==
    Append(IF Len(ages) > n THEN Tail(ages) ELSE ages, 0)

\* The ages below Window: time is monotonic, so that they are the last ones.
InWindow(ages) ==
    SubSeq(ages, Cardinality({i \in DOMAIN ages : ages[i] >= Window}) + 1, Len(ages))

\* The sets of n entries that were used least recently.
LeastRecent(table, n) ==
    {D \in SUBSET DOMAIN table :
        /\ Cardinality(D) = n
        /\ \A d \in D, k \in DOMAIN table \ D : Last(table[d]) >= Last(table[k])}

\* Mutant: the entries of the most active addresses are dropped.
CutBack_Newest(table) ==
    LET excess == Max({0, Cardinality(DOMAIN table) - MaxTracked})
    IN  {Restrict(table, DOMAIN table \ D) : D \in
            {E \in SUBSET DOMAIN table :
                /\ Cardinality(E) = excess
                /\ \A d \in E, k \in DOMAIN table \ E : Last(table[d]) <= Last(table[k])}}

\* What may be left of a table that has grown above its bound.
CutBack(table) ==
    LET fresh == Restrict(table, {a \in DOMAIN table : Last(table[a]) <= Stale})
        excess == Max({0, Cardinality(DOMAIN fresh) - MaxTracked})
    IN  {Restrict(fresh, DOMAIN fresh \ D) : D \in LeastRecent(fresh, excess)}

\* The tables a call may find after its housekeeping.
Tables == IF Cardinality(DOMAIN store) > MaxTracked THEN CutBack(store) ELSE {store}

\* The assignment store[client_ip] = window.
Put(table, a, window) ==
    [b \in DOMAIN table \cup {a} |-> IF b = a THEN window ELSE table[b]]

WindowOf(table, a) == IF a \in DOMAIN table THEN InWindow(table[a]) ELSE <<>>

-----------------------------------------------------------------------------
(* AuthMiddleware                                                          *)

\* A request with a bearer token from address a comes in.
Arrive(r, a, t) ==
    /\ stage[r] = "idle"
    /\ \E table \in Tables :
         LET window == WindowOf(table, a)
             allow == Len(window) < AddressMax
             now == IF allow THEN Append(window, 0) ELSE window
         IN  /\ store' = Put(table, a, now)
             /\ IF allow
                THEN /\ stage' = [stage EXCEPT ![r] = "validate"]
                     /\ bearer' = [bearer EXCEPT ![r] = t]
                     /\ admitted' = [admitted EXCEPT ![a] = Noted(@, AddressMax)]
                ELSE UNCHANGED <<stage, bearer, admitted>>  \* 429
    /\ refusal' = Invalid
    /\ UNCHANGED <<counter, ttl, asked, passed>>

Finish(r) ==
    /\ stage' = [stage EXCEPT ![r] = "idle"]
    /\ bearer' = [bearer EXCEPT ![r] = Invalid]

\* Mutant: a token that does not validate is counted like the others.
Validated_Unchecked(r) ==
    /\ stage[r] = "validate"
    /\ stage' = [stage EXCEPT ![r] = "count"]
    /\ refusal' = Invalid
    /\ UNCHANGED <<store, bearer, counter, ttl, admitted, asked, passed>>

\* validate_token has returned, or Redis has failed it (503).
Validated(r) ==
    /\ stage[r] = "validate"
    /\ \/ bearer[r] \in Tokens /\ stage' = [stage EXCEPT ![r] = "count"] /\ UNCHANGED bearer
       \/ (bearer[r] = Invalid \/ "outage" \in faults) /\ Finish(r)
    /\ refusal' = Invalid
    /\ UNCHANGED <<store, counter, ttl, admitted, asked, passed>>

\* Mutant: the expiry is armed by the first request only.
Increment_Fixed(t) ==
    /\ counter' = [counter EXCEPT ![t] = IF @ > TokenMax THEN @ ELSE @ + 1]
    /\ ttl' = [ttl EXCEPT ![t] = IF @ = 0 THEN Window ELSE @]

\* Mutant: a failure falls between INCR and EXPIRE.
Increment_Unarmed(t) ==
    /\ counter' = [counter EXCEPT ![t] = IF @ > TokenMax THEN @ ELSE @ + 1]
    /\ \/ ttl' = [ttl EXCEPT ![t] = Window]
       \/ "outage" \in faults /\ UNCHANGED ttl

\* INCR and EXPIRE in one transaction: the expiry is armed by every request,
\* refused ones included.
Increment(t) ==
    /\ counter' = [counter EXCEPT ![t] = IF @ > TokenMax THEN @ ELSE @ + 1]
    /\ ttl' = [ttl EXCEPT ![t] = Window]

\* check_rate_limit lets the request through up to the limit.
Count(r) ==
    LET t == bearer[r] IN
    /\ stage[r] = "count"
    /\ Increment(t)
    /\ asked' = [asked EXCEPT ![t] = Noted(@, TokenMax)]
    /\ Finish(r)
    /\ IF counter'[t] <= TokenMax
       THEN passed' = [passed EXCEPT ![t] = Noted(@, TokenMax)] /\ refusal' = Invalid
       ELSE UNCHANGED passed /\ refusal' = t
    /\ UNCHANGED <<store, admitted>>

\* It fails closed; the transaction may have been executed.
CountFails(r) ==
    /\ stage[r] = "count"
    /\ "outage" \in faults
    /\ Finish(r)
    /\ \/ Increment(bearer[r])
          /\ asked' = [asked EXCEPT ![bearer[r]] = Noted(@, TokenMax)]
       \/ UNCHANGED <<counter, ttl, asked>>
    /\ refusal' = Invalid
    /\ UNCHANGED <<store, admitted, passed>>

-----------------------------------------------------------------------------
\* Redis drops a counter: it was restarted, or its memory is full and the
\* policy volatile-lru takes keys that have an expiry.
Drop(t) ==
    /\ "loss" \in faults
    /\ counter[t] > 0
    /\ counter' = [counter EXCEPT ![t] = 0]
    /\ ttl' = [ttl EXCEPT ![t] = 0]
    /\ refusal' = Invalid
    /\ UNCHANGED <<store, stage, bearer, admitted, asked, passed>>

Older(ages) == [i \in DOMAIN ages |-> IF ages[i] > Stale THEN ages[i] ELSE ages[i] + 1]

Tick ==
    /\ store' = [a \in DOMAIN store |-> Older(store[a])]
    /\ admitted' = [a \in Addresses |-> InWindow(Older(admitted[a]))]
    /\ asked' = [t \in Tokens |-> InWindow(Older(asked[t]))]
    /\ passed' = [t \in Tokens |-> InWindow(Older(passed[t]))]
    /\ ttl' = [t \in Tokens |-> IF ttl[t] > 0 THEN ttl[t] - 1 ELSE 0]
    /\ counter' = [t \in Tokens |-> IF ttl[t] = 1 THEN 0 ELSE counter[t]]
    /\ refusal' = Invalid
    /\ UNCHANGED <<stage, bearer>>

Next ==
    /\ \/ \E r \in Requests, a \in Addresses, t \in Tokens \cup {Invalid} : Arrive(r, a, t)
       \/ \E r \in Requests : Validated(r) \/ Count(r) \/ CountFails(r)
       \/ \E t \in Tokens : Drop(t)
       \/ Tick
    /\ UNCHANGED faults

Spec == Init /\ [][Next]_vars

-----------------------------------------------------------------------------
(* Properties                                                              *)

\* Every variable is of its type; the table holds one address more than its
\* bound at most, and no empty window, whose last entry the cut would read;
\* only a token that validated is counted.
TypeOK ==
    /\ DOMAIN store \subseteq Addresses
    /\ Cardinality(DOMAIN store) <= MaxTracked + 1
    /\ \A a \in DOMAIN store : store[a] \in Seq(0 .. Stale + 1) \ {<<>>}
    /\ stage \in [Requests -> {"idle", "validate", "count"}]
    /\ bearer \in [Requests -> Tokens \cup {Invalid}]
    /\ \A r \in Requests : stage[r] = "count" => bearer[r] \in Tokens
    /\ counter \in [Tokens -> 0 .. TokenMax + 1]
    /\ ttl \in [Tokens -> 0 .. Window]
    /\ admitted \in [Addresses -> Seq(0 .. Window - 1)]
    /\ asked \in [Tokens -> Seq(0 .. Window - 1)]
    /\ passed \in [Tokens -> Seq(0 .. Window - 1)]
    /\ refusal \in Tokens \cup {Invalid}

\* The bound of the table weakens the limit only in a crowd: an address gets
\* more than its maximum through in a minute only when as many other addresses
\* as the table holds were let through in that minute too.
AddressLimit ==
    \A a \in Addresses :
        Len(admitted[a]) > AddressMax =>
            Cardinality({b \in Addresses \ {a} : admitted[b] # <<>>}) >= MaxTracked

\* In no minute does a token get more than its maximum through, however its
\* requests overlap and Redis fails, unless Redis loses the counter.
TokenLimit == "loss" \notin faults => \A t \in Tokens : Len(passed[t]) <= TokenMax

\* A token that has been silent for a minute is served again: INCR and EXPIRE
\* are one transaction (H-06), so no failure leaves a counter that stays.
PauseRestores == refusal \in Tokens => Len(asked[refusal]) > 1

\* "Each token is rate-limited to a configurable number of requests per
\* minute": it is refused only when it made more than that many in the last
\* minute.
RefusedOnlyOverLimit == refusal \in Tokens => Len(asked[refusal]) > TokenMax
=============================================================================
