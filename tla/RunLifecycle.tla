----------------------------- MODULE RunLifecycle -----------------------------
(***************************************************************************)
(* What a conversation promises its user about the prompts sent to it,     *)
(* without messages, events, checkpoints, workers or queues: prompts of a  *)
(* conversation are taken one at a time, each may be answered with one     *)
(* question, and each ends at most once, with a reply or without.          *)
(***************************************************************************)
CONSTANTS Prompt, Conversation,
          Of  \* Of[p] is the conversation a prompt is sent to

VARIABLES phase,    \* where a prompt stands
          clarified \* whether its user has answered a question about it

lifecycle == <<phase, clarified>>

Phase == {"unsent", "open", "asking", "replied", "ended", "erased"}
Pending == {"open", "asking"}

Init == /\ phase = [p \in Prompt |-> "unsent"]
        /\ clarified = [p \in Prompt |-> FALSE]

\* A prompt is taken only while no other of its conversation is pending.
Take(p) == /\ phase[p] = "unsent"
           /\ \A q \in Prompt : Of[q] = Of[p] => phase[q] \notin Pending
           /\ phase' = [phase EXCEPT ![p] = "open"]
           /\ UNCHANGED clarified

\* One question is asked per prompt, and its prompt waits for the answer.
Ask(p) == /\ phase[p] = "open"
          /\ ~clarified[p]
          /\ phase' = [phase EXCEPT ![p] = "asking"]
          /\ UNCHANGED clarified

Clarify(p) == /\ phase[p] = "asking"
              /\ phase' = [phase EXCEPT ![p] = "open"]
              /\ clarified' = [clarified EXCEPT ![p] = TRUE]

\* A reply is never given while its question is open.
Reply(p) == /\ phase[p] = "open"
            /\ phase' = [phase EXCEPT ![p] = "replied"]
            /\ UNCHANGED clarified

\* Failure, cancellation and privacy requests end pending prompts only.
End(S) == /\ \A p \in S : phase[p] \in Pending
          /\ phase' = [p \in Prompt |-> IF p \in S THEN "ended" ELSE phase[p]]
          /\ UNCHANGED clarified

\* Deleting a conversation erases what was sent to it.
Erase(c) ==
  LET sent == {p \in Prompt : Of[p] = c /\ phase[p] # "unsent"} IN
  /\ phase' = [p \in Prompt |-> IF p \in sent THEN "erased" ELSE phase[p]]
  /\ clarified' = [p \in Prompt |-> IF p \in sent THEN FALSE ELSE clarified[p]]

Next == \/ \E p \in Prompt : Take(p) \/ Ask(p) \/ Clarify(p) \/ Reply(p)
        \/ \E S \in SUBSET Prompt : End(S)
        \/ \E c \in Conversation : Erase(c)

Spec == Init /\ [][Next]_lifecycle
=============================================================================
