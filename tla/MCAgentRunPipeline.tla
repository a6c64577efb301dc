-------------------------- MODULE MCAgentRunPipeline --------------------------
(* One prompt behind its queue, with two calls of one or two processes.      *)
EXTENDS AgentRunPipeline, TLC

CONSTANTS c1, r1, w1, w2

OnePrompt == r1 :> [key |-> "k1", conversation |-> c1, text |-> "a"]
=============================================================================
