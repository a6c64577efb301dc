------------------------ MODULE MCConversationWorkspace ------------------------
(* A conversation of one prompt, which may wait for an answer and go on; one    *)
(* connection at a time, pages of two events, two loads under way at once, one  *)
(* failure and one reload.                                                      *)
EXTENDS ConversationWorkspace
================================================================================
