--------------------------- MODULE MCOAuthSessions ---------------------------
(***************************************************************************)
(* Model-checking instance of OAuthSessions.                               *)
(***************************************************************************)
EXTENDS OAuthSessions, TLC

CONSTANTS s1, s2, h1, h2, a1

SafetyMixes == {{}, {"restart"}, {"restart", "wipe"}, {"outage", "restart"}}

\* Sessions are interchangeable, and so are handlers.
NameSymmetry == Permutations(Sessions) \union Permutations(Handlers)
=============================================================================
