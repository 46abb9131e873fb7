---------------------------- MODULE MCAgentTasks ----------------------------
(***************************************************************************)
(* TLC instances of AgentTasks: an ordinary piece of work beside a market  *)
(* context task, and two workers, so that one takes what the other lost.   *)
(***************************************************************************)
EXTENDS AgentTasks, TLC

CONSTANTS r1, c1

MCRecoveries == (r1 :> 1) @@ (c1 :> 0)
=============================================================================
