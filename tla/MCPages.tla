-------------------------------- MODULE MCPages --------------------------------
(* The two pages that keep state of their own beside the server's, the settings *)
(* and a conversation.  A tab shows one of them, and they share no row, no call *)
(* and no stream: a behaviour is one of the settings or one of the conversation.*)
(*                                                                              *)
(* Settings: two accounts, one with both compatible models, one with the second *)
(* only, which does not reason; each also lists a model that no rule matches.   *)
(* Conversation: one prompt, which may wait for an answer and go on; one        *)
(* connection at a time, pages of two events, two loads under way at once, one  *)
(* failure and one reload.                                                      *)
EXTENDS ProviderSettings, ConversationWorkspace, TLC

CONSTANTS keyA, keyB, gpt5, gpt4, embedding, none, medium

TwoAccounts == (keyA :> {gpt5, gpt4, embedding}) @@ (keyB :> {gpt4, embedding})

TwoModels == <<gpt5, gpt4>>

ReasoningEfforts == (gpt5 :> <<none, medium>>) @@ (gpt4 :> <<none>>)

PagesNext ==
  \/ WorkspaceInit /\ SettingsNext /\ UNCHANGED workspaceVars
  \/ SettingsInit /\ WorkspaceNext /\ UNCHANGED settingsVars

PagesInit == SettingsInit /\ WorkspaceInit

PagesSpec == PagesInit /\ [][PagesNext]_<<settingsVars, workspaceVars>>
================================================================================
