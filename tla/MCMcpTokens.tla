----------------------------- MODULE MCMcpTokens -----------------------------
(***************************************************************************)
(* Model-checking instance of McpTokens.                                   *)
(***************************************************************************)
EXTENDS McpTokens, TLC

CONSTANTS t1, t2, q1
=============================================================================
