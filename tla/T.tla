---- MODULE T ----
EXTENDS MCMcpTokens
\* A DELETE is pending only for a revoked row.
DeletesRevoked == \A t \in pendingDel : db[t] = "revoked"

\* A SET that is pending for a token revoked meanwhile is on record.
SetTracked == pendingSet \ Active \subseteq stray

\* So is a row of the running fill that was revoked after the SELECT.
FillTracked == phase = "fill" => todo \ Active \subseteq stray

\* Only tokens that were created are in use anywhere.
Created == {t \in Tokens : db[t] # "absent"}
OnlyCreated ==
    /\ mirror \union pendingSet \union todo \union used \subseteq Created
    /\ \A q \in Requests : stage[q] # "idle" => token[q] \in Created

\* What an undisturbed sync has done so far.
AloneSync ==
    /\ alone /\ phase # "off" => pendingSet = {} /\ pendingDel = {}
    /\ alone /\ phase = "scan" => mirror \subseteq todo
    /\ alone /\ phase = "fill" => /\ todo \subseteq Active
                                  /\ mirror \subseteq Active
                                  /\ Active \subseteq mirror \union todo

Parts == /\ NoActiveLost
         /\ NoOtherStray
         /\ DeletesRevoked
         /\ SetTracked
         /\ FillTracked
         /\ AloneSync
         /\ OnlyCreated

IInv == TypeOK /\ Parts

====
