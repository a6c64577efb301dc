--------------------------- MODULE ProviderSettings ---------------------------
(***************************************************************************)
(* The OpenAI credential and the model preference of one user: the two     *)
(* rows, the requests of the settings API, which read the credential, ask  *)
(* the provider about it and record what they learnt in separate steps,    *)
(* the gateway's retries, and the settings page in the user's browser.     *)
(*                                                                         *)
(* A transaction is one step; one that deadlocks or loses its connection   *)
(* is a request that fails without effect.                                 *)
(***************************************************************************)
EXTENDS Naturals, Sequences, FiniteSets, FiniteSetsExt, Functions

CONSTANTS
  ApiKey,           \* keys the user may paste
  Revocable,        \* those the provider may cease to accept
  Offered,          \* [ApiKey -> SUBSET of ids]: what the provider lists for a key
  ModelsByRank,     \* the compatible ids, in the order of their rules
  Efforts,          \* [ids -> Seq(efforts)]: the efforts a rule allows
  Effort,           \* reasoningEfforts
  DefaultModel,     \* DEFAULT_OPENAI_MODEL
  DefaultEffort,    \* DEFAULT_REASONING_EFFORT
  MediumEffort,     \* the effort the page prefers
  SettingsPage,     \* a settings page, with the request it may have under way
  OtherTab,         \* requests of another tab or device of the user
  Nothing,          \* no row, no answer
  MaxAttempts,      \* maxValidationAttempts
  MaxCredentials,   \* bound: how often a credential is saved
  MaxFaults         \* bound on failing calls, transactions and responses

ASSUME SettingsAssumption ==
  /\ ModelsByRank \in Seq(DOMAIN Efforts)
  /\ \A m \in DOMAIN Efforts : Efforts[m] \in Seq(Effort) /\ Len(Efforts[m]) > 0
  /\ DOMAIN Offered = ApiKey
  /\ MediumEffort \in Effort

VARIABLES
  credential,  \* the row of provider_credentials
  preference,  \* the row of provider_preferences
  saved,       \* ids given to credentials so far
  revoked,     \* keys the provider rejects
  request,     \* requests under way
  form,        \* the state of OpenAiProviderSettings
  faults

settingsVars == <<credential, preference, saved, revoked, request, form, faults>>

rows == <<credential, preference, saved>>

Fault == /\ faults < MaxFaults
         /\ faults' = faults + 1

-----------------------------------------------------------------------------
(* Rows *)

Model == Range(ModelsByRank)

Preference == [model : Model, effort : Effort]

\* Encrypted under a key the servers keep.
Sealed == [key : ApiKey, for : Nat]

Credential == [id : Nat, sealed : Sealed, status : {"valid", "invalid"}]

\* Authenticated encryption bound to the credential's id; the user and the
\* provider, to which it is bound as well, are the same throughout.
Encrypt(key, id) == [key |-> key, for |-> id]

Decrypts(c) == c.sealed.for = c.id

\* What the API returns: the status, never the key.
View == [status : {"unconfigured", "valid", "invalid"}, preference : Preference \cup {Nothing}]

\* readSettings, toView
ViewOf(c, p) == [status |-> IF c = Nothing THEN "unconfigured" ELSE c.status, preference |-> p]

StoredView == ViewOf(credential, preference)

-----------------------------------------------------------------------------
(* OpenAiProviderGateway *)

\* Ids a rule matches, once each; they are listed by the rank of the rule.
CompatibleModels(ids) == Model \cap ids

FirstOf(models) ==
  ModelsByRank[Min({i \in DOMAIN ModelsByRank : ModelsByRank[i] \in models})]

\* 401 or 403, 429, and everything else that is not a usable list.
Failure == {"KEY_INVALID", "RATE_LIMITED", "UNAVAILABLE"}

Retries(failure, attempt) == failure = "UNAVAILABLE" /\ attempt < MaxAttempts

-----------------------------------------------------------------------------
(* Requests *)

Operation == {"save", "revalidate", "models", "preference", "delete"}

Phase == {"idle", "read", "ask", "rejected", "write", "answered", "failed"}

\* What a request knows: its arguments, the id it read, the answers it was given.
Call ==
  [op : Operation \cup {Nothing}, phase : Phase, key : ApiKey \cup {Nothing},
   wanted : Preference \cup {Nothing}, stored : Nat \cup {Nothing}, attempt : Nat,
   models : SUBSET Model, view : View \cup {Nothing}]

NoRequest == [op |-> Nothing, phase |-> "idle", key |-> Nothing, wanted |-> Nothing,
              stored |-> Nothing, attempt |-> 0, models |-> {}, view |-> Nothing]

\* A key is submitted with "save", a model and an effort with "preference".
Submit(r, op, key, wanted) ==
  request' = [request EXCEPT ![r] =
    [NoRequest EXCEPT !.op = op, !.key = key, !.wanted = wanted,
                      !.phase = CASE op = "save" -> "ask"
                                  [] op = "delete" -> "write"
                                  [] OTHER -> "read"]]

\* The five routes.
PutCredential(r, key) == Submit(r, "save", key, Nothing)
PostValidate(r) == Submit(r, "revalidate", Nothing, Nothing)
GetModels(r) == Submit(r, "models", Nothing, Nothing)
PutPreferences(r, wanted) == Submit(r, "preference", Nothing, wanted)
DeleteRoute(r) == Submit(r, "delete", Nothing, Nothing)

\* What another tab shows its user is not followed.
Becomes(r, call) ==
  request' = [request EXCEPT ![r] =
    IF r \in OtherTab /\ call.phase \in {"answered", "failed"} THEN NoRequest ELSE call]

Reply(r, phase) == Becomes(r, [request[r] EXCEPT !.phase = phase])

\* requireCredential and decrypt.
ReadCredential(r) ==
  /\ request[r].phase = "read"
  /\ IF credential # Nothing /\ Decrypts(credential)
     THEN Becomes(r, [request[r] EXCEPT !.phase = "ask", !.stored = credential.id,
                                        !.key = credential.sealed.key])
     ELSE Reply(r, "failed")
  /\ UNCHANGED <<rows, revoked, form, faults>>

\* The provider lists the models of a key it accepts.
Listed(r) ==
  /\ request[r].key \notin revoked
  /\ Becomes(r, [request[r] EXCEPT
       !.phase = IF request[r].op = "models" THEN "answered" ELSE "write",
       !.attempt = 0,
       !.models = CompatibleModels(Offered[request[r].key])])
  /\ UNCHANGED faults

\* A rejected key is recorded where one is stored; other failures leave an audit
\* event only.
Refused(r) ==
  \E failure \in Failure :
    /\ IF failure = "KEY_INVALID" THEN request[r].key \in revoked /\ UNCHANGED faults
                                  ELSE Fault
    /\ Becomes(r,
         IF Retries(failure, request[r].attempt + 1)
         THEN [request[r] EXCEPT !.attempt = @ + 1]
         ELSE [request[r] EXCEPT
                 !.attempt = 0,
                 !.phase = IF /\ failure = "KEY_INVALID"
                              /\ request[r].op \in {"revalidate", "preference"}
                           THEN "rejected" ELSE "failed"])

AskProvider(r) ==
  /\ request[r].phase = "ask"
  /\ Listed(r) \/ Refused(r)
  /\ UNCHANGED <<rows, revoked, form>>

\* Seeded fault: the row of the user, whichever credential it holds by now.
SameUser(r) == credential # Nothing

\* where id = the credential that was read
StillStored(r) == credential # Nothing /\ credential.id = request[r].stored

RecordRejection(r) ==
  /\ request[r].phase = "rejected"
  /\ credential' = IF StillStored(r) THEN [credential EXCEPT !.status = "invalid"]
                                     ELSE credential
  /\ Reply(r, "failed")
  /\ UNCHANGED <<preference, saved, revoked, form, faults>>

\* selectInitialPreference: the default if the key has it, else the first model.
InitialPreference(models) ==
  IF models = {} THEN Nothing
  ELSE LET model == IF DefaultModel \in models THEN DefaultModel ELSE FirstOf(models) IN
       [model |-> model,
        effort |-> IF DefaultEffort \in Range(Efforts[model]) THEN DefaultEffort
                                                              ELSE Head(Efforts[model])]

\* The page is sent the rows as the transaction left them.
Returns(r, c, p) ==
  Becomes(r, [request[r] EXCEPT !.phase = "answered", !.view = ViewOf(c, p)])

\* saveCredential: the old rows make way for the new ones.
ReplaceCredential(r) ==
  LET new == [id |-> saved + 1, sealed |-> Encrypt(request[r].key, saved + 1),
              status |-> "valid"] IN
  /\ request[r].op = "save" /\ request[r].phase = "write"
  /\ saved' = saved + 1
  /\ credential' = new
  /\ preference' = InitialPreference(request[r].models)
  /\ Returns(r, new, preference')
  /\ UNCHANGED <<revoked, form, faults>>

\* updateValidation after the provider accepted the key.
RecordValidation(r) ==
  /\ request[r].op = "revalidate" /\ request[r].phase = "write"
  /\ IF StillStored(r)
     THEN /\ credential' = [credential EXCEPT !.status = "valid"]
          /\ Returns(r, credential', preference)
     ELSE /\ Reply(r, "failed")
          /\ UNCHANGED credential
  /\ UNCHANGED <<preference, saved, revoked, form, faults>>

\* ProviderPreference.create for a model of the list.
Accepts(models, wanted) ==
  wanted.model \in models /\ wanted.effort \in Range(Efforts[wanted.model])

SavePreference(r) ==
  /\ request[r].op = "preference" /\ request[r].phase = "write"
  /\ IF Accepts(request[r].models, request[r].wanted) /\ StillStored(r)
     THEN /\ credential' = [credential EXCEPT !.status = "valid"]
          /\ preference' = request[r].wanted
          /\ Returns(r, credential', preference')
     ELSE /\ Reply(r, "failed")
          /\ UNCHANGED <<credential, preference>>
  /\ UNCHANGED <<saved, revoked, form, faults>>

DeleteCredential(r) ==
  /\ request[r].op = "delete" /\ request[r].phase = "write"
  /\ credential' = Nothing
  /\ preference' = Nothing
  /\ Returns(r, Nothing, Nothing)
  /\ UNCHANGED <<saved, revoked, form, faults>>

\* The transaction is aborted, or its answer does not reach the browser.
RequestFails(r) ==
  /\ request[r].phase \in {"read", "write", "rejected", "answered"}
  /\ Fault
  /\ Reply(r, "failed")
  /\ UNCHANGED <<rows, revoked, form>>

Handle(r) == \/ ReadCredential(r) \/ AskProvider(r) \/ RecordRejection(r)
             \/ ReplaceCredential(r) \/ RecordValidation(r) \/ SavePreference(r)
             \/ DeleteCredential(r)

-----------------------------------------------------------------------------
(* Another tab, the provider *)

MaySave ==
  saved + Cardinality({r \in DOMAIN request : request[r].op = "save"}) < MaxCredentials

OtherTabAsks(r) ==
  /\ request[r].phase = "idle"
  /\ \/ \E key \in ApiKey : MaySave /\ PutCredential(r, key)
     \/ PostValidate(r)
     \/ DeleteRoute(r)
     \/ \E wanted \in Preference : PutPreferences(r, wanted)
  /\ UNCHANGED <<rows, revoked, form, faults>>

Revoke(key) ==
  /\ key \notin revoked
  /\ revoked' = revoked \cup {key}
  /\ UNCHANGED <<rows, request, form, faults>>

-----------------------------------------------------------------------------
(* The settings page *)

Selection == [model : Model \cup {Nothing}, effort : Effort]

FormState == [settings : View, models : SUBSET Model,
              pending : Operation \cup {Nothing}, selected : Selection]

ASSUME NothingAssumption ==
  Nothing \notin Operation \cup Model \cup ApiKey \cup Nat \cup Preference
                \cup Credential \cup View

\* The model the page selects, with its preferred effort.
FirstEffort(model) ==
  IF model = Nothing \/ MediumEffort \in Range(Efforts[model]) THEN MediumEffort
                                                               ELSE Head(Efforts[model])

\* Seeded fault: the effort stays when the model changes.
EffortStays(v, models, p) ==
  [model |-> IF models = {} THEN Nothing ELSE FirstOf(models), effort |-> v.effort]

\* syncSelection: the preference if it is listed, else the first model.
SyncSelection(v, models, p) ==
  IF p # Nothing /\ p.model \in models THEN p
  ELSE LET model == IF models = {} THEN Nothing ELSE FirstOf(models) IN
       [model |-> model, effort |-> FirstEffort(model)]

\* The page as the server renders it.
LoadedPage(view) ==
  [settings |-> view, models |-> {}, pending |-> Nothing,
   selected |-> IF view.preference = Nothing THEN [model |-> Nothing, effort |-> MediumEffort]
                                             ELSE view.preference]

Enabled(p) == form[p].pending = Nothing

\* begin: every button is disabled until the request is over.
Sends(p, op) ==
  /\ Enabled(p)
  /\ form' = [form EXCEPT ![p].pending = op]
  /\ UNCHANGED <<rows, revoked, faults>>

Configured(p) == form[p].settings.status # "unconfigured"

PressSave(p) == \E key \in ApiKey : MaySave /\ PutCredential(p, key) /\ Sends(p, "save")
PressRevalidate(p) == Configured(p) /\ PostValidate(p) /\ Sends(p, "revalidate")
PressModels(p) == Configured(p) /\ GetModels(p) /\ Sends(p, "models")
PressDelete(p) == Configured(p) /\ DeleteRoute(p) /\ Sends(p, "delete")

\* The button waits for a selection that is in the list.
CanSavePreference(p) ==
  /\ Configured(p)
  /\ form[p].selected.model \in form[p].models

PressSavePreference(p) ==
  CanSavePreference(p) /\ PutPreferences(p, form[p].selected) /\ Sends(p, "preference")

\* Any other listed model, or another effort of the selected one.
ChangeSelection(p) ==
  /\ Enabled(p)
  /\ Configured(p)
  /\ \/ \E m \in form[p].models :
          form' = [form EXCEPT ![p].selected = [model |-> m, effort |-> FirstEffort(m)]]
     \/ \E e \in Effort :
          /\ form[p].selected.model \in form[p].models
          /\ e \in Range(Efforts[form[p].selected.model])
          /\ form' = [form EXCEPT ![p].selected.effort = e]
  /\ UNCHANGED <<rows, revoked, request, faults>>

Finish(p, shown) ==
  /\ form' = [form EXCEPT ![p] = [shown EXCEPT !.pending = Nothing]]
  /\ request' = [request EXCEPT ![p] = NoRequest]
  /\ UNCHANGED <<rows, revoked, faults>>

\* The list of models is synchronised with the preference the page knows.
ShowModels(p) ==
  /\ request[p].phase = "answered" /\ request[p].op = "models"
  /\ Finish(p, [form[p] EXCEPT
       !.models = request[p].models,
       !.selected = SyncSelection(@, request[p].models, form[p].settings.preference)])

\* applyProviderData
ShowResult(p) ==
  /\ request[p].phase = "answered" /\ request[p].op \in {"save", "revalidate", "preference"}
  /\ Finish(p, [form[p] EXCEPT
       !.settings = request[p].view,
       !.models = request[p].models,
       !.selected = SyncSelection(@, request[p].models, request[p].view.preference)])

ShowDeleted(p) ==
  /\ request[p].phase = "answered" /\ request[p].op = "delete"
  /\ Finish(p, LoadedPage(request[p].view))

\* refreshSafeSettings: a list that no valid credential stands behind is dropped.
Refreshed(p) ==
  LET view == StoredView IN
  [form[p] EXCEPT !.settings = view,
                  !.models = IF view.status = "valid" THEN @ ELSE {}]

\* The error is shown; after a failed check the settings are read anew, if that
\* works.
ShowFailure(p) ==
  /\ request[p].phase = "failed"
  /\ \/ Finish(p, form[p])
     \/ request[p].op \in {"revalidate", "preference"} /\ Finish(p, Refreshed(p))

Reopen(p) ==
  /\ Enabled(p)
  /\ form' = [form EXCEPT ![p] = LoadedPage(StoredView)]
  /\ UNCHANGED <<rows, revoked, request, faults>>

Show(p) == ShowModels(p) \/ ShowResult(p) \/ ShowDeleted(p) \/ ShowFailure(p)

Press(p) == \/ PressSave(p) \/ PressRevalidate(p) \/ PressModels(p) \/ PressDelete(p)
            \/ PressSavePreference(p) \/ ChangeSelection(p) \/ Reopen(p)

-----------------------------------------------------------------------------

SettingsInit ==
  /\ credential = Nothing
  /\ preference = Nothing
  /\ saved = 0
  /\ revoked = {}
  /\ request = [r \in SettingsPage \cup OtherTab |-> NoRequest]
  /\ form = [p \in SettingsPage |-> LoadedPage(ViewOf(Nothing, Nothing))]
  /\ faults = 0

SettingsNext ==
  \/ \E r \in SettingsPage \cup OtherTab : Handle(r) \/ RequestFails(r)
  \/ \E r \in OtherTab : OtherTabAsks(r)
  \/ \E p \in SettingsPage : Press(p) \/ Show(p)
  \/ \E key \in Revocable : Revoke(key)

SettingsSpec == SettingsInit /\ [][SettingsNext]_settingsVars

-----------------------------------------------------------------------------
(* Properties *)

\* Rows, requests and the page have the fields and values of their types.
SettingsTypeOK ==
  /\ credential \in Credential \cup {Nothing}
  /\ preference \in Preference \cup {Nothing}
  /\ saved \in Nat
  /\ request \in [SettingsPage \cup OtherTab -> Call]
  /\ form \in [SettingsPage -> FormState]

\* The stored preference is a model, with one of its efforts, that the provider
\* offers the stored key: a preference validated with one key never ends up beside
\* another one or survives its key, whatever two tabs replace, delete and save
\* while the provider is being asked.
PreferenceFits ==
  preference # Nothing =>
    /\ credential # Nothing
    /\ preference.model \in Offered[credential.sealed.key]
    /\ preference.effort \in Range(Efforts[preference.model])

\* A credential is marked invalid only if the provider rejects the very key it
\* holds, not because of a late answer about a key it replaced.
InvalidForCause ==
  credential # Nothing /\ credential.status = "invalid" => credential.sealed.key \in revoked

\* Whenever the page lets its user save a preference, the effort is one the
\* selected model allows, however lists, answers, refreshes and clicks followed
\* each other.
SelectionOffered ==
  \A p \in SettingsPage :
    CanSavePreference(p) => form[p].selected.effort \in Range(Efforts[form[p].selected.model])
=============================================================================
