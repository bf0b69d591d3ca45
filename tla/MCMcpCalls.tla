----------------------------- MODULE MCMcpCalls -----------------------------
(* Instances of McpCalls for TLC; the values of the constants, other than   *)
(* the settings, are in the configurations.                                 *)
EXTENDS McpCalls

\* Everything fails closed, or nothing does
TwoSettings == {x \in Setting : x.closed = x.guardsClosed}
=============================================================================
