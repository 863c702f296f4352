---------------------------- MODULE MCAgentTasks ----------------------------
(***************************************************************************)
(* Channels of two and one messages; as many requests as the inbound       *)
(* channel and the connection hold between them (MCAgentTasks.cfg), or one *)
(* more (MCAgentTasksFull.cfg).                                            *)
(***************************************************************************)
EXTENDS AgentTasks
=============================================================================
