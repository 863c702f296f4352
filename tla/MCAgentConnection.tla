------------------------- MODULE MCAgentConnection -------------------------
(***************************************************************************)
(* Two sockets (a session and the one that replaces it) and two commands,  *)
(* one CONFIG_PUSH and one EXEC.                                           *)
(***************************************************************************)
EXTENDS AgentConnection

CONSTANTS s1, s2, c1, c2
=============================================================================
