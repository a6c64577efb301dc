-------------------------- MODULE MCConversationRuns --------------------------
(* A small tenant for TLC: two prompts of one conversation, and a client's   *)
(* retry of the first one, which reuses its client request id.               *)
EXTENDS ConversationRuns, TLC

CONSTANTS c1, r1, r2, r3, w1, w2

RetriedPrompt == r1 :> [key |-> "k1", conversation |-> c1, text |-> "a"] @@
                 r2 :> [key |-> "k2", conversation |-> c1, text |-> "b"] @@
                 r3 :> [key |-> "k1", conversation |-> c1, text |-> "a"]

WorkerSymmetry == Permutations(Worker)
=============================================================================
