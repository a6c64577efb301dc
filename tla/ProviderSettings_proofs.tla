----------------------- MODULE ProviderSettings_proofs -----------------------
(***************************************************************************)
(* Proofs about ProviderSettings, for any keys, models and efforts, any    *)
(* number of pages and of requests of other tabs, and any bounds.          *)
(***************************************************************************)
EXTENDS ProviderSettings, WellFoundedInduction, TLAPS

Requests == SettingsPage \cup OtherTab

Allowed(p) == p.effort \in Range(Efforts[p.model])

-----------------------------------------------------------------------------
(* Lists of models and their efforts *)

LEMMA NatMin ==
  ASSUME NEW S \in SUBSET Nat, S # {}
  PROVE  Min(S) \in S
<1> DEFINE less == {p \in Nat \X Nat : p[1] < p[2]}
<1>2. IsWellFoundedOn(less, Nat)
  BY NatLessThanWellFounded DEF OpToRel
<1>3. PICK x \in S : \A y \in S : <<y, x>> \notin less
  <2> HIDE DEF less
  <2> QED
    BY <1>2, WFMin
<1>4. \A y \in S : ~(y < x)
  <2> TAKE y \in S
  <2>1. <<y, x>> \in Nat \X Nat
    OBVIOUS
  <2>2. <<y, x>>[1] = y /\ <<y, x>>[2] = x
    OBVIOUS
  <2> QED
    BY <1>3, <2>1, <2>2
<1>5. \A y \in S : x <= y
  BY <1>4
<1> QED
  BY <1>5 DEF Min

LEMMA ModelsListed ==
  /\ Model \subseteq DOMAIN Efforts
  /\ Model = {ModelsByRank[i] : i \in 1 .. Len(ModelsByRank)}
  /\ DOMAIN ModelsByRank \in SUBSET Nat
BY SettingsAssumption DEF Model, Range

LEMMA FirstListed ==
  ASSUME NEW S \in SUBSET Model, S # {}
  PROVE  FirstOf(S) \in S
<1> DEFINE places == {i \in DOMAIN ModelsByRank : ModelsByRank[i] \in S}
<1>1. places \in SUBSET Nat
  BY ModelsListed
<1>2. places # {}
  BY SettingsAssumption DEF Model, Range
<1>3. Min(places) \in places
  BY <1>1, <1>2, NatMin
<1> QED
  BY <1>3 DEF FirstOf

LEMMA EffortsOf ==
  ASSUME NEW m \in Model
  PROVE  /\ Range(Efforts[m]) \subseteq Effort
         /\ Head(Efforts[m]) \in Range(Efforts[m])
BY ModelsListed, SettingsAssumption DEF Range

LEMMA FirstEffortAllowed ==
  ASSUME NEW m \in Model
  PROVE  FirstEffort(m) \in Effort /\ FirstEffort(m) \in Range(Efforts[m])
BY EffortsOf, NothingAssumption DEF FirstEffort

\* The preference stored with a new credential is one the key offers.
LEMMA InitialFits ==
  ASSUME NEW S \in SUBSET Model, InitialPreference(S) # Nothing
  PROVE  /\ InitialPreference(S) \in Preference
         /\ InitialPreference(S).model \in S
         /\ Allowed(InitialPreference(S))
<1> DEFINE model == IF DefaultModel \in S THEN DefaultModel ELSE FirstOf(S)
           effort == IF DefaultEffort \in Range(Efforts[model]) THEN DefaultEffort
                                                                ELSE Head(Efforts[model])
<1>1. S # {}
  BY DEF InitialPreference
<1>2. model \in S /\ model \in Model
  BY <1>1, FirstListed
<1>3. effort \in Range(Efforts[model]) /\ effort \in Effort
  BY <1>2, EffortsOf
<1>4. InitialPreference(S) = [model |-> model, effort |-> effort]
  BY <1>1 DEF InitialPreference
<1> HIDE DEF model, effort
<1> QED
  BY <1>2, <1>3, <1>4 DEF Preference, Allowed

\* The page's selection follows a preference that is allowed, or is one.
LEMMA SyncedSelection ==
  ASSUME NEW v, NEW S \in SUBSET Model, NEW p \in Preference \cup {Nothing},
         p # Nothing => Allowed(p)
  PROVE  /\ SyncSelection(v, S, p) \in Selection
         /\ SyncSelection(v, S, p).model # Nothing => Allowed(SyncSelection(v, S, p))
<1>1. CASE p # Nothing /\ p.model \in S
  BY <1>1 DEF SyncSelection, Preference, Selection
<1>2. CASE ~(p # Nothing /\ p.model \in S)
  <2> DEFINE model == IF S = {} THEN Nothing ELSE FirstOf(S)
  <2>1. SyncSelection(v, S, p) = [model |-> model, effort |-> FirstEffort(model)]
    BY <1>2 DEF SyncSelection
  <2>2. model \in Model \cup {Nothing}
    BY FirstListed
  <2>3. CASE model = Nothing
    BY <2>1, <2>3, SettingsAssumption DEF Selection, FirstEffort
  <2>4. CASE model \in Model
    <3> HIDE DEF model
    <3> QED
      BY <2>1, <2>4, FirstEffortAllowed DEF Selection, Allowed
  <2> QED
    BY <2>2, <2>3, <2>4
<1> QED
  BY <1>1, <1>2

-----------------------------------------------------------------------------
(* The inductive invariant *)

\* What a request read is what is stored, as long as its credential is.
Read(q, c, n) ==
  /\ q.stored \in Nat /\ q.stored <= n /\ q.key \in ApiKey
  /\ c # Nothing /\ c.id = q.stored => c.sealed.key = q.key

Informed(q, c, n, bad) ==
  /\ q.phase \in {"ask", "rejected", "write"} /\ q.op \in {"revalidate", "models", "preference"} =>
       Read(q, c, n)
  /\ q.phase \in {"ask", "write"} /\ q.op = "save" => q.key \in ApiKey
  /\ q.phase = "write" /\ q.op \in {"save", "preference"} =>
       q.models = CompatibleModels(Offered[q.key])
  /\ q.phase = "rejected" => q.op \in {"revalidate", "preference"} /\ q.key \in bad
  /\ q.op = "preference" => q.wanted # Nothing
  /\ q.phase = "answered" /\ q.op # "models" => q.view # Nothing

ViewAllowed(v) == v.preference # Nothing => Allowed(v.preference)

Fits(p, c) == p # Nothing => /\ c # Nothing
                             /\ p.model \in Offered[c.sealed.key]
                             /\ Allowed(p)

RowsInv ==
  /\ credential # Nothing => credential.id <= saved
  /\ Fits(preference, credential)
  /\ InvalidForCause
  /\ \A r \in Requests : Informed(request[r], credential, saved, revoked)

PageGood(s) == /\ ViewAllowed(s.settings)
               /\ s.selected.model # Nothing => Allowed(s.selected)

PagesInv ==
  /\ \A r \in Requests : request[r].view # Nothing => ViewAllowed(request[r].view)
  /\ \A p \in SettingsPage : PageGood(form[p])

SettingsInv == SettingsTypeOK /\ RowsInv /\ PagesInv

-----------------------------------------------------------------------------
(* Steps of one request *)

LEMMA NoRequestType == NoRequest \in Call /\ NoRequest.view = Nothing
BY DEF NoRequest, Call, Phase

LEMMA NoRequestInformed ==
  \A c, n, bad : Informed(NoRequest, c, n, bad)
BY NothingAssumption DEF Informed, NoRequest, Operation

\* The other requests keep what they know; the one that moves becomes call, or
\* is forgotten if it is over.
LEMMA BecomesCall ==
  ASSUME SettingsTypeOK, NEW r \in Requests, NEW call \in Call, Becomes(r, call)
  PROVE  /\ request' \in [Requests -> Call]
         /\ \A s \in Requests : s # r => request'[s] = request[s]
         /\ request'[r] \in {call, NoRequest}
BY NoRequestType DEF SettingsTypeOK, Becomes, Requests

\* A row may be replaced by one with a new id, or change its status, while a
\* request is under way.
LEMMA StaysInformed ==
  ASSUME NEW q, NEW c \in Credential \cup {Nothing}, NEW d \in Credential \cup {Nothing},
         NEW n \in Nat, NEW m \in Nat, n <= m, NEW bad, NEW worse, bad \subseteq worse,
         \/ d = Nothing
         \/ d.id > n
         \/ c # Nothing /\ d.id = c.id /\ d.sealed = c.sealed,
         Informed(q, c, n, bad)
  PROVE  Informed(q, d, m, worse)
<1>1. ASSUME Read(q, c, n) PROVE Read(q, d, m)
  BY <1>1 DEF Read, Credential
<1> QED
  BY <1>1 DEF Informed

\* The invariant after a step of request r to call that leaves the pages alone.
LEMMA Moves ==
  ASSUME SettingsInv, NEW r \in Requests, NEW call \in Call, Becomes(r, call),
         UNCHANGED form,
         credential' \in Credential \cup {Nothing}, preference' \in Preference \cup {Nothing},
         saved' \in Nat, saved <= saved', revoked \subseteq revoked',
         \/ credential' = Nothing
         \/ credential'.id > saved
         \/ /\ credential # Nothing /\ credential'.id = credential.id
            /\ credential'.sealed = credential.sealed,
         credential' # Nothing => credential'.id <= saved',
         Fits(preference', credential'), InvalidForCause',
         Informed(call, credential', saved', revoked'),
         call.view # Nothing => ViewAllowed(call.view)
  PROVE  SettingsInv'
<1>1. /\ request' \in [Requests -> Call]
      /\ \A s \in Requests : s # r => request'[s] = request[s]
      /\ request'[r] \in {call, NoRequest}
  BY BecomesCall DEF SettingsInv
<1>2. SettingsTypeOK'
  BY <1>1 DEF SettingsInv, SettingsTypeOK, Requests
<1>3. ASSUME NEW s \in Requests PROVE Informed(request'[s], credential', saved', revoked')
  <2>1. CASE s = r
    BY <1>1, <2>1, NoRequestInformed
  <2>2. CASE s # r
    <3>1. Informed(request[s], credential, saved, revoked)
      BY DEF SettingsInv, RowsInv
    <3>2. credential \in Credential \cup {Nothing} /\ saved \in Nat
      BY DEF SettingsInv, SettingsTypeOK
    <3>3. Informed(request[s], credential', saved', revoked')
      BY <3>1, <3>2, StaysInformed
    <3> QED
      BY <1>1, <2>2, <3>3
  <2> QED
    BY <2>1, <2>2
<1>4. RowsInv'
  BY <1>3 DEF RowsInv
<1>5. ASSUME NEW s \in Requests PROVE request'[s].view # Nothing => ViewAllowed(request'[s].view)
  BY <1>1, NoRequestType DEF SettingsInv, PagesInv
<1>6. PagesInv'
  BY <1>5 DEF SettingsInv, PagesInv
<1> QED
  BY <1>2, <1>4, <1>6 DEF SettingsInv

\* Rows that stay as they are keep what the invariant says of them.
LEMMA RowsStay ==
  ASSUME SettingsInv, UNCHANGED <<rows, revoked>>
  PROVE  /\ credential' \in Credential \cup {Nothing} /\ preference' \in Preference \cup {Nothing}
         /\ saved' \in Nat /\ saved <= saved' /\ revoked \subseteq revoked'
         /\ \/ credential' = Nothing
            \/ credential'.id > saved
            \/ /\ credential # Nothing /\ credential'.id = credential.id
               /\ credential'.sealed = credential.sealed
         /\ credential' # Nothing => credential'.id <= saved'
         /\ Fits(preference', credential') /\ InvalidForCause'
BY DEF SettingsInv, SettingsTypeOK, RowsInv, rows, InvalidForCause

\* A step of a request that changes no row.
LEMMA MovesOnly ==
  ASSUME SettingsInv, NEW r \in Requests, NEW call \in Call, Becomes(r, call),
         UNCHANGED <<rows, revoked, form>>,
         Informed(call, credential, saved, revoked),
         call.view # Nothing => ViewAllowed(call.view)
  PROVE  SettingsInv'
<1>1. Informed(call, credential', saved', revoked')
  BY DEF rows
<1> QED
  BY <1>1, RowsStay, Moves

\* What is known of a request before its step.
LEMMA CallFacts ==
  ASSUME SettingsInv, NEW r \in Requests
  PROVE  /\ request[r] \in Call
         /\ Informed(request[r], credential, saved, revoked)
         /\ request[r].view # Nothing => ViewAllowed(request[r].view)
BY DEF SettingsInv, SettingsTypeOK, RowsInv, PagesInv, Requests

\* A request that is over has nothing left to know.
LEMMA Ended ==
  ASSUME NEW q \in Call, NEW c, NEW n, NEW bad, Informed(q, c, n, bad),
         NEW d, NEW m, NEW worse
  PROVE  /\ [q EXCEPT !.phase = "failed"] \in Call
         /\ Informed([q EXCEPT !.phase = "failed"], d, m, worse)
         /\ [q EXCEPT !.phase = "failed"].view = q.view
BY DEF Call, Phase, Informed

LEMMA FailsOnly ==
  ASSUME SettingsInv, NEW r \in Requests, Reply(r, "failed"), UNCHANGED <<rows, revoked, form>>
  PROVE  SettingsInv'
<1> DEFINE call == [request[r] EXCEPT !.phase = "failed"]
<1>1. call \in Call /\ Informed(call, credential, saved, revoked) /\ call.view = request[r].view
  BY CallFacts, Ended
<1>2. Becomes(r, call)
  BY DEF Reply
<1> HIDE DEF call
<1> QED
  BY <1>1, <1>2, CallFacts, MovesOnly

LEMMA ReadsCredential ==
  ASSUME SettingsInv, NEW r \in Requests, ReadCredential(r)
  PROVE  SettingsInv'
<1>1. CASE credential # Nothing /\ Decrypts(credential)
  <2> DEFINE call == [request[r] EXCEPT !.phase = "ask", !.stored = credential.id,
                                        !.key = credential.sealed.key]
  <2>1. Becomes(r, call) /\ UNCHANGED <<rows, revoked, form>>
    BY <1>1 DEF ReadCredential
  <2>2. credential \in Credential /\ credential.id <= saved
    BY <1>1 DEF SettingsInv, SettingsTypeOK, RowsInv
  <2>3. /\ call \in Call /\ call.view = request[r].view
        /\ call.phase = "ask" /\ call.op = request[r].op /\ call.wanted = request[r].wanted
        /\ call.stored = credential.id /\ call.key = credential.sealed.key
    BY <2>2, CallFacts DEF Call, Phase, Credential, Sealed
  <2> HIDE DEF call
  <2>4. Informed(call, credential, saved, revoked)
    BY <2>2, <2>3, CallFacts DEF Informed, Read, Credential, Sealed
  <2> QED
    BY <2>1, <2>3, <2>4, CallFacts, MovesOnly
<1>2. CASE ~(credential # Nothing /\ Decrypts(credential))
  BY <1>2, FailsOnly DEF ReadCredential
<1> QED
  BY <1>1, <1>2

LEMMA IsListed ==
  ASSUME SettingsInv, NEW r \in Requests, request[r].phase = "ask", Listed(r),
         UNCHANGED <<rows, revoked, form>>
  PROVE  SettingsInv'
<1> DEFINE phase == IF request[r].op = "models" THEN "answered" ELSE "write"
           models == CompatibleModels(Offered[request[r].key])
           call == [request[r] EXCEPT !.phase = phase, !.attempt = 0, !.models = models]
<1>1. Becomes(r, call)
  BY DEF Listed
<1>2. models \in SUBSET Model /\ phase \in {"answered", "write"}
  BY DEF CompatibleModels
<1>3. phase = "answered" => request[r].op = "models"
  OBVIOUS
<1>4. models = CompatibleModels(Offered[request[r].key])
  OBVIOUS
<1> HIDE DEF models, phase
<1>5. /\ call \in Call /\ call.view = request[r].view
      /\ call.phase = phase /\ call.models = models /\ call.op = request[r].op
      /\ call.key = request[r].key /\ call.stored = request[r].stored
      /\ call.wanted = request[r].wanted
  BY <1>2, CallFacts DEF Call, Phase
<1> HIDE DEF call
<1>6. Informed(call, credential, saved, revoked)
  BY <1>2, <1>3, <1>4, <1>5, CallFacts DEF Informed, Read
<1> QED
  BY <1>1, <1>5, <1>6, CallFacts, MovesOnly

LEMMA IsRefused ==
  ASSUME SettingsInv, NEW r \in Requests, request[r].phase = "ask", Refused(r),
         UNCHANGED <<rows, revoked, form>>
  PROVE  SettingsInv'
<1>1. PICK failure \in Failure :
        /\ failure = "KEY_INVALID" => request[r].key \in revoked
        /\ Becomes(r,
             IF Retries(failure, request[r].attempt + 1)
             THEN [request[r] EXCEPT !.attempt = @ + 1]
             ELSE [request[r] EXCEPT
                     !.attempt = 0,
                     !.phase = IF /\ failure = "KEY_INVALID"
                                  /\ request[r].op \in {"revalidate", "preference"}
                               THEN "rejected" ELSE "failed"])
  BY DEF Refused
<1> DEFINE again == [request[r] EXCEPT !.attempt = @ + 1]
           phase == IF failure = "KEY_INVALID" /\ request[r].op \in {"revalidate", "preference"}
                    THEN "rejected" ELSE "failed"
           over == [request[r] EXCEPT !.attempt = 0, !.phase = phase]
<1>2. CASE Retries(failure, request[r].attempt + 1)
  <2>1. Becomes(r, again)
    BY <1>1, <1>2
  <2>2. /\ again \in Call /\ again.view = request[r].view /\ again.phase = "ask"
        /\ again.op = request[r].op /\ again.key = request[r].key
        /\ again.stored = request[r].stored /\ again.wanted = request[r].wanted
    BY CallFacts DEF Call
  <2> HIDE DEF again
  <2>3. Informed(again, credential, saved, revoked)
    BY <2>2, CallFacts DEF Informed, Read
  <2> QED
    BY <2>1, <2>2, <2>3, CallFacts, MovesOnly
<1>3. CASE ~Retries(failure, request[r].attempt + 1)
  <2>1. Becomes(r, over)
    BY <1>1, <1>3
  <2>2. /\ phase \in {"rejected", "failed"}
        /\ phase = "rejected" => /\ request[r].op \in {"revalidate", "preference"}
                                 /\ request[r].key \in revoked
    BY <1>1
  <2> HIDE DEF phase
  <2>3. /\ over \in Call /\ over.view = request[r].view /\ over.phase = phase
        /\ over.op = request[r].op /\ over.key = request[r].key
        /\ over.stored = request[r].stored /\ over.wanted = request[r].wanted
    BY <2>2, CallFacts DEF Call, Phase
  <2> HIDE DEF over
  <2>4. Informed(over, credential, saved, revoked)
    BY <2>2, <2>3, CallFacts DEF Informed, Read
  <2> QED
    BY <2>1, <2>3, <2>4, CallFacts, MovesOnly
<1> QED
  BY <1>2, <1>3

LEMMA Answers ==
  ASSUME NEW q \in Call, NEW c, NEW n, NEW bad, Informed(q, c, n, bad),
         NEW d \in Credential \cup {Nothing}, NEW p \in Preference \cup {Nothing},
         p # Nothing => Allowed(p), NEW m, NEW worse
  PROVE  /\ [q EXCEPT !.phase = "answered", !.view = ViewOf(d, p)] \in Call
         /\ Informed([q EXCEPT !.phase = "answered", !.view = ViewOf(d, p)], d, m, worse)
         /\ ViewAllowed([q EXCEPT !.phase = "answered", !.view = ViewOf(d, p)].view)
<1>1. ViewOf(d, p) \in View /\ ViewOf(d, p).preference = p /\ ViewOf(d, p) # Nothing
  BY NothingAssumption DEF ViewOf, View, Credential
<1> DEFINE view == ViewOf(d, p)
           call == [q EXCEPT !.phase = "answered", !.view = view]
<1> HIDE DEF view
<1>2. /\ call \in Call /\ call.view = view /\ call.phase = "answered"
      /\ call.op = q.op /\ call.wanted = q.wanted
  BY <1>1 DEF Call, Phase, view
<1> HIDE DEF call
<1>3. Informed(call, d, m, worse) /\ ViewAllowed(call.view)
  BY <1>1, <1>2 DEF Informed, ViewAllowed, view
<1> USE DEF call, view
<1> QED
  BY <1>2, <1>3

LEMMA RecordsRejection ==
  ASSUME SettingsInv, NEW r \in Requests, RecordRejection(r)
  PROVE  SettingsInv'
<1> DEFINE call == [request[r] EXCEPT !.phase = "failed"]
<1>1. Becomes(r, call) /\ UNCHANGED <<preference, saved, revoked, form>>
  BY DEF RecordRejection, Reply
<1>2. /\ call \in Call /\ Informed(call, credential', saved', revoked')
      /\ call.view = request[r].view
  BY CallFacts, Ended
<1>3. CASE StillStored(r)
  <2>1. credential \in Credential /\ credential' = [credential EXCEPT !.status = "invalid"]
    BY <1>3 DEF StillStored, RecordRejection, SettingsInv, SettingsTypeOK
  <2>2. /\ credential' \in Credential /\ credential'.id = credential.id
        /\ credential'.sealed = credential.sealed
    BY <2>1 DEF Credential
  <2>3. credential.sealed.key \in revoked
    BY <1>3, CallFacts DEF Informed, Read, StillStored, RecordRejection
  <2>4. Fits(preference', credential') /\ InvalidForCause'
    BY <1>1, <2>1, <2>2, <2>3, NothingAssumption DEF Fits, InvalidForCause, SettingsInv, RowsInv
  <2>5. credential'.id <= saved' /\ saved' \in Nat /\ saved <= saved' /\ revoked \subseteq revoked'
        /\ preference' \in Preference \cup {Nothing} /\ credential # Nothing
    BY <1>1, <2>1, <2>2, NothingAssumption DEF SettingsInv, SettingsTypeOK, RowsInv
  <2> HIDE DEF call
  <2> QED
    BY <1>1, <1>2, <2>2, <2>4, <2>5, CallFacts, Moves
<1>4. CASE ~StillStored(r)
  <2>1. UNCHANGED <<rows, revoked>>
    BY <1>1, <1>4 DEF RecordRejection, rows
  <2> QED
    BY <1>1, <2>1, FailsOnly DEF Reply
<1> QED
  BY <1>3, <1>4

\* A preference beside a credential of the key its models were listed for.
LEMMA ReplacesCredential ==
  ASSUME SettingsInv, NEW r \in Requests, ReplaceCredential(r)
  PROVE  SettingsInv'
<1> DEFINE new == [id |-> saved + 1, sealed |-> Encrypt(request[r].key, saved + 1),
                   status |-> "valid"]
           call == [request[r] EXCEPT !.phase = "answered", !.view = ViewOf(new, preference')]
<1>1. /\ credential' = new /\ saved' = saved + 1 /\ UNCHANGED <<revoked, form>>
      /\ preference' = InitialPreference(request[r].models)
      /\ Becomes(r, call)
  BY DEF ReplaceCredential, Returns
<1>2. /\ request[r].key \in ApiKey
      /\ request[r].models = CompatibleModels(Offered[request[r].key])
      /\ saved \in Nat
  BY CallFacts DEF ReplaceCredential, Informed, SettingsInv, SettingsTypeOK
<1>3. /\ new \in Credential /\ new.id = saved + 1 /\ new.status = "valid"
      /\ new.sealed.key = request[r].key /\ new # Nothing
  BY <1>2, NothingAssumption DEF Credential, Sealed, Encrypt
<1>4. request[r].models \in SUBSET Model
  BY <1>2 DEF CompatibleModels
<1>5. /\ preference' \in Preference \cup {Nothing}
      /\ preference' # Nothing => /\ Allowed(preference')
                                  /\ preference'.model \in Offered[request[r].key]
  BY <1>1, <1>2, <1>4, InitialFits DEF CompatibleModels
<1> HIDE DEF new
<1>6. Fits(preference', credential') /\ InvalidForCause'
  BY <1>1, <1>3, <1>5 DEF Fits, InvalidForCause
<1>7. /\ call \in Call /\ Informed(call, credential', saved', revoked')
      /\ ViewAllowed(call.view)
  BY <1>1, <1>3, <1>5, CallFacts, Answers
<1> HIDE DEF call
<1>8. /\ credential' \in Credential \cup {Nothing} /\ credential'.id > saved
      /\ credential'.id <= saved' /\ saved' \in Nat /\ saved <= saved' /\ revoked \subseteq revoked'
  BY <1>1, <1>2, <1>3
<1> QED
  BY <1>1, <1>5, <1>6, <1>7, <1>8, Moves

\* The credential that was read is marked valid.
LEMMA MarksValid ==
  ASSUME SettingsInv, NEW r \in Requests, StillStored(r),
         credential' = [credential EXCEPT !.status = "valid"],
         preference' \in Preference \cup {Nothing}, Fits(preference', credential),
         Returns(r, credential', preference'), UNCHANGED <<saved, revoked, form>>
  PROVE  SettingsInv'
<1> DEFINE call ==
      [request[r] EXCEPT !.phase = "answered", !.view = ViewOf(credential', preference')]
<1>1. credential \in Credential /\ credential # Nothing
  BY DEF StillStored, SettingsInv, SettingsTypeOK
<1>2. /\ credential' \in Credential /\ credential'.id = credential.id
      /\ credential'.sealed = credential.sealed /\ credential'.status = "valid"
  BY <1>1 DEF Credential
<1>3. Fits(preference', credential') /\ InvalidForCause'
  BY <1>2, NothingAssumption DEF Fits, InvalidForCause
<1>4. preference' # Nothing => Allowed(preference')
  BY <1>3 DEF Fits
<1>5. /\ call \in Call /\ Informed(call, credential', saved', revoked')
      /\ ViewAllowed(call.view)
  BY <1>2, <1>4, CallFacts, Answers
<1>6. Becomes(r, call)
  BY DEF Returns
<1> HIDE DEF call
<1>7. credential'.id <= saved' /\ saved' \in Nat /\ saved <= saved' /\ revoked \subseteq revoked'
  BY <1>1, <1>2 DEF SettingsInv, SettingsTypeOK, RowsInv
<1> QED
  BY <1>1, <1>2, <1>3, <1>5, <1>6, <1>7, Moves

LEMMA RecordsValidation ==
  ASSUME SettingsInv, NEW r \in Requests, RecordValidation(r)
  PROVE  SettingsInv'
<1>1. CASE StillStored(r)
  <2>1. preference' \in Preference \cup {Nothing} /\ Fits(preference', credential)
    BY DEF RecordValidation, SettingsInv, SettingsTypeOK, RowsInv
  <2>2. /\ credential' = [credential EXCEPT !.status = "valid"]
        /\ Returns(r, credential', preference') /\ UNCHANGED <<saved, revoked, form>>
    BY <1>1 DEF RecordValidation
  <2> QED
    BY <1>1, <2>1, <2>2, MarksValid
<1>2. CASE ~StillStored(r)
  BY <1>2, FailsOnly DEF RecordValidation, rows
<1> QED
  BY <1>1, <1>2

LEMMA SavesPreference ==
  ASSUME SettingsInv, NEW r \in Requests, SavePreference(r)
  PROVE  SettingsInv'
<1> DEFINE good == Accepts(request[r].models, request[r].wanted) /\ StillStored(r)
<1>1. CASE good
  <2>1. /\ credential' = [credential EXCEPT !.status = "valid"]
        /\ preference' = request[r].wanted
        /\ Returns(r, credential', preference') /\ UNCHANGED <<saved, revoked, form>>
    BY <1>1 DEF SavePreference
  <2>2. request[r].wanted \in Preference
    BY CallFacts DEF Call, Informed, SavePreference
  <2>3. /\ request[r].models = CompatibleModels(Offered[request[r].key])
        /\ request[r].key = credential.sealed.key /\ credential # Nothing
    BY <1>1, CallFacts DEF Informed, Read, SavePreference, StillStored
  <2>4. Fits(request[r].wanted, credential)
    BY <1>1, <2>3 DEF Fits, Accepts, Allowed, CompatibleModels
  <2> QED
    BY <1>1, <2>1, <2>2, <2>4, MarksValid
<1>2. CASE ~good
  BY <1>2, FailsOnly DEF SavePreference, rows
<1> QED
  BY <1>1, <1>2

LEMMA DeletesCredential ==
  ASSUME SettingsInv, NEW r \in Requests, DeleteCredential(r)
  PROVE  SettingsInv'
<1> DEFINE call == [request[r] EXCEPT !.phase = "answered", !.view = ViewOf(Nothing, Nothing)]
<1>1. /\ credential' = Nothing /\ preference' = Nothing /\ UNCHANGED <<saved, revoked, form>>
      /\ Becomes(r, call)
  BY DEF DeleteCredential, Returns
<1>2. /\ call \in Call /\ Informed(call, credential', saved', revoked')
      /\ ViewAllowed(call.view)
  BY <1>1, CallFacts, Answers
<1> HIDE DEF call
<1>3. /\ Fits(preference', credential') /\ InvalidForCause'
      /\ saved' \in Nat /\ saved <= saved' /\ revoked \subseteq revoked'
  BY <1>1 DEF Fits, InvalidForCause, SettingsInv, SettingsTypeOK
<1> QED
  BY <1>1, <1>2, <1>3, Moves

LEMMA Serves ==
  ASSUME SettingsInv, NEW r \in Requests, Handle(r) \/ RequestFails(r)
  PROVE  SettingsInv'
<1>1. CASE AskProvider(r)
  BY <1>1, IsListed, IsRefused DEF AskProvider
<1>2. CASE RequestFails(r)
  BY <1>2, FailsOnly DEF RequestFails
<1> QED
  BY <1>1, <1>2, ReadsCredential, RecordsRejection, ReplacesCredential,
     RecordsValidation, SavesPreference, DeletesCredential DEF Handle

-----------------------------------------------------------------------------
(* Steps of the pages and of another tab *)

\* A new request, beside pages that stay good.
LEMMA Asks ==
  ASSUME SettingsInv, NEW r \in Requests, NEW op \in Operation,
         NEW key \in ApiKey \cup {Nothing}, NEW wanted \in Preference \cup {Nothing},
         op = "save" => key \in ApiKey, op = "preference" => wanted # Nothing,
         Submit(r, op, key, wanted), UNCHANGED <<rows, revoked>>,
         form' \in [SettingsPage -> FormState], \A p \in SettingsPage : PageGood(form'[p])
  PROVE  SettingsInv'
<1> DEFINE phase == CASE op = "save" -> "ask" [] op = "delete" -> "write" [] OTHER -> "read"
           call == [NoRequest EXCEPT !.op = op, !.key = key, !.wanted = wanted, !.phase = phase]
<1>1. request' = [request EXCEPT ![r] = call]
  BY DEF Submit
<1>2. /\ phase \in {"ask", "write", "read"}
      /\ phase = "ask" => op = "save"
      /\ phase = "write" => op = "delete"
  OBVIOUS
<1> HIDE DEF phase
<1>3. /\ call \in Call /\ call.view = Nothing /\ call.phase = phase /\ call.op = op
      /\ call.key = key /\ call.wanted = wanted
  BY <1>2, NoRequestType DEF Call, Phase, NoRequest
<1> HIDE DEF call
<1>4. Informed(call, credential, saved, revoked)
  BY <1>2, <1>3 DEF Informed
<1>5. /\ request' \in [Requests -> Call]
      /\ \A s \in Requests : request'[s] \in {request[s], call}
  BY <1>1, <1>3 DEF SettingsInv, SettingsTypeOK, Requests
<1>6. SettingsTypeOK'
  BY <1>5 DEF SettingsInv, SettingsTypeOK, Requests, rows
<1>7. \A s \in Requests : Informed(request'[s], credential', saved', revoked')
  BY <1>4, <1>5 DEF SettingsInv, RowsInv, rows
<1>8. RowsInv'
  BY <1>7, RowsStay DEF RowsInv
<1>9. PagesInv'
  BY <1>3, <1>5 DEF SettingsInv, PagesInv
<1> QED
  BY <1>6, <1>8, <1>9 DEF SettingsInv

LEMMA PageBecomes ==
  ASSUME SettingsInv, NEW p \in SettingsPage, NEW s \in FormState, PageGood(s),
         form' = [form EXCEPT ![p] = s]
  PROVE  /\ form' \in [SettingsPage -> FormState]
         /\ \A o \in SettingsPage : PageGood(form'[o])
<1>1. \A o \in SettingsPage : form'[o] \in {form[o], s}
  BY DEF SettingsInv, SettingsTypeOK
<1> QED
  BY <1>1 DEF SettingsInv, SettingsTypeOK, PagesInv

LEMMA PageFacts ==
  ASSUME SettingsInv, NEW p \in SettingsPage
  PROVE  form[p] \in FormState /\ PageGood(form[p])
BY DEF SettingsInv, SettingsTypeOK, PagesInv

LEMMA SendsPage ==
  ASSUME SettingsInv, NEW p \in SettingsPage, NEW op \in Operation, Sends(p, op)
  PROVE  /\ UNCHANGED <<rows, revoked>>
         /\ form' \in [SettingsPage -> FormState]
         /\ \A o \in SettingsPage : PageGood(form'[o])
<1> DEFINE s == [form[p] EXCEPT !.pending = op]
<1>1. s \in FormState /\ s.settings = form[p].settings /\ s.selected = form[p].selected
  BY PageFacts DEF FormState
<1>2. form' = [form EXCEPT ![p] = s] /\ UNCHANGED <<rows, revoked>>
  BY DEF Sends
<1> HIDE DEF s
<1>3. PageGood(s)
  BY <1>1, PageFacts DEF PageGood
<1> QED
  BY <1>1, <1>2, <1>3, PageBecomes

\* The page alone changes.
LEMMA PageOnly ==
  ASSUME SettingsInv, NEW p \in SettingsPage, NEW s \in FormState, PageGood(s),
         form' = [form EXCEPT ![p] = s], UNCHANGED <<rows, revoked, request>>
  PROVE  SettingsInv'
<1>1. form' \in [SettingsPage -> FormState] /\ \A o \in SettingsPage : PageGood(form'[o])
  BY PageBecomes
<1>2. SettingsTypeOK'
  BY <1>1 DEF SettingsInv, SettingsTypeOK, rows
<1>3. RowsInv'
  BY RowsStay DEF SettingsInv, RowsInv, rows
<1>4. PagesInv'
  BY <1>1 DEF SettingsInv, PagesInv
<1> QED
  BY <1>2, <1>3, <1>4 DEF SettingsInv

LEMMA Finishes ==
  ASSUME SettingsInv, NEW p \in SettingsPage, NEW shown \in FormState, PageGood(shown),
         Finish(p, shown)
  PROVE  SettingsInv'
<1> DEFINE s == [shown EXCEPT !.pending = Nothing]
<1>1. s \in FormState /\ s.settings = shown.settings /\ s.selected = shown.selected
  BY DEF FormState
<1>2. form' = [form EXCEPT ![p] = s] /\ UNCHANGED <<rows, revoked>>
      /\ request' = [request EXCEPT ![p] = NoRequest]
  BY DEF Finish
<1> HIDE DEF s
<1>3. PageGood(s)
  BY <1>1 DEF PageGood
<1>4. form' \in [SettingsPage -> FormState] /\ \A o \in SettingsPage : PageGood(form'[o])
  BY <1>1, <1>2, <1>3, PageBecomes
<1>5. /\ request' \in [Requests -> Call]
      /\ \A r \in Requests : request'[r] \in {request[r], NoRequest}
  BY <1>2, NoRequestType DEF SettingsInv, SettingsTypeOK, Requests
<1>6. SettingsTypeOK'
  BY <1>2, <1>4, <1>5 DEF SettingsInv, SettingsTypeOK, Requests, rows
<1>7. \A r \in Requests : Informed(request'[r], credential', saved', revoked')
  BY <1>2, <1>5, NoRequestInformed DEF SettingsInv, RowsInv, rows
<1>8. RowsInv'
  BY <1>2, <1>7, RowsStay DEF RowsInv
<1>9. PagesInv'
  BY <1>4, <1>5, NoRequestType DEF SettingsInv, PagesInv
<1> QED
  BY <1>6, <1>8, <1>9 DEF SettingsInv

\* A page as the server renders it for rows that fit.
LEMMA LoadedGood ==
  ASSUME NEW v \in View, ViewAllowed(v)
  PROVE  LoadedPage(v) \in FormState /\ PageGood(LoadedPage(v))
<1> DEFINE selected == IF v.preference = Nothing THEN [model |-> Nothing, effort |-> MediumEffort]
                                              ELSE v.preference
<1>1. selected \in Selection /\ (selected.model # Nothing => Allowed(selected))
  BY SettingsAssumption DEF View, Preference, Selection, ViewAllowed
<1>2. LoadedPage(v) = [settings |-> v, models |-> {}, pending |-> Nothing, selected |-> selected]
  BY DEF LoadedPage
<1> HIDE DEF selected
<1> QED
  BY <1>1, <1>2 DEF FormState, PageGood

LEMMA StoredViewGood ==
  ASSUME SettingsInv
  PROVE  StoredView \in View /\ ViewAllowed(StoredView)
BY DEF SettingsInv, SettingsTypeOK, RowsInv, Fits, StoredView, ViewOf, View, Credential, ViewAllowed

\* A page that shows a view and a list, with the selection of the list.
LEMMA SyncedGood ==
  ASSUME SettingsInv, NEW p \in SettingsPage, NEW v \in View, ViewAllowed(v),
         NEW S \in SUBSET Model, NEW q \in Preference \cup {Nothing}, q # Nothing => Allowed(q),
         NEW old
  PROVE  LET s == [form[p] EXCEPT !.settings = v, !.models = S,
                                  !.selected = SyncSelection(old, S, q)]
         IN  s \in FormState /\ PageGood(s)
<1> DEFINE selected == SyncSelection(old, S, q)
           s == [form[p] EXCEPT !.settings = v, !.models = S, !.selected = selected]
<1>1. selected \in Selection /\ (selected.model # Nothing => Allowed(selected))
  BY SyncedSelection
<1> HIDE DEF selected
<1>2. s \in FormState /\ s.settings = v /\ s.selected = selected
  BY <1>1, PageFacts DEF FormState
<1>3. PageGood(s)
  BY <1>1, <1>2 DEF PageGood
<1> USE DEF selected
<1> QED
  BY <1>2, <1>3

LEMMA ShowsModels ==
  ASSUME SettingsInv, NEW p \in SettingsPage, ShowModels(p)
  PROVE  SettingsInv'
<1> DEFINE v == form[p].settings
           S == request[p].models
           s == [form[p] EXCEPT !.models = S,
                                !.selected = SyncSelection(@, S, form[p].settings.preference)]
           t == [form[p] EXCEPT !.settings = v, !.models = S,
                                !.selected = SyncSelection(form[p].selected, S, v.preference)]
<1>1. v \in View /\ ViewAllowed(v) /\ v.preference \in Preference \cup {Nothing}
  BY PageFacts DEF FormState, PageGood, View
<1>2. S \in SUBSET Model
  BY CallFacts DEF Requests, Call
<1>3. t \in FormState /\ PageGood(t)
  BY <1>1, <1>2, SyncedGood DEF ViewAllowed
<1>4. s = t
  BY PageFacts DEF FormState
<1>5. Finish(p, s)
  BY DEF ShowModels
<1> HIDE DEF s, t
<1> QED
  BY <1>3, <1>4, <1>5, Finishes

LEMMA ShowsResult ==
  ASSUME SettingsInv, NEW p \in SettingsPage, ShowResult(p)
  PROVE  SettingsInv'
<1> DEFINE v == request[p].view
           S == request[p].models
           s == [form[p] EXCEPT !.settings = v, !.models = S,
                                !.selected = SyncSelection(@, S, v.preference)]
           t == [form[p] EXCEPT !.settings = v, !.models = S,
                                !.selected = SyncSelection(form[p].selected, S, v.preference)]
<1>1. v \in View /\ ViewAllowed(v) /\ v.preference \in Preference \cup {Nothing}
  BY CallFacts DEF Requests, Call, View, Informed, ShowResult
<1>2. S \in SUBSET Model
  BY CallFacts DEF Requests, Call
<1>3. t \in FormState /\ PageGood(t)
  BY <1>1, <1>2, SyncedGood DEF ViewAllowed
<1>4. s = t
  BY PageFacts DEF FormState
<1>5. Finish(p, s)
  BY DEF ShowResult
<1> HIDE DEF s, t
<1> QED
  BY <1>3, <1>4, <1>5, Finishes

LEMMA ShowsDeleted ==
  ASSUME SettingsInv, NEW p \in SettingsPage, ShowDeleted(p)
  PROVE  SettingsInv'
<1>1. request[p].view \in View /\ ViewAllowed(request[p].view)
  BY CallFacts DEF Requests, Call, Informed, ShowDeleted
<1>2. Finish(p, LoadedPage(request[p].view))
  BY DEF ShowDeleted
<1> QED
  BY <1>1, <1>2, LoadedGood, Finishes

LEMMA ShowsFailure ==
  ASSUME SettingsInv, NEW p \in SettingsPage, ShowFailure(p)
  PROVE  SettingsInv'
<1>1. CASE Finish(p, form[p])
  BY <1>1, PageFacts, Finishes
<1>2. CASE Finish(p, Refreshed(p))
  <2> DEFINE v == StoredView
             S == IF v.status = "valid" THEN form[p].models ELSE {}
             s == [form[p] EXCEPT !.settings = v, !.models = S]
  <2>1. v \in View /\ ViewAllowed(v) /\ S \in SUBSET Model
    BY StoredViewGood, PageFacts DEF FormState
  <2>2. Refreshed(p) = s
    BY PageFacts DEF Refreshed, FormState
  <2> HIDE DEF v, S
  <2>3. s \in FormState /\ s.settings = v /\ s.selected = form[p].selected
    BY <2>1, PageFacts DEF FormState
  <2> HIDE DEF s
  <2>4. PageGood(s)
    BY <2>1, <2>3, PageFacts DEF PageGood
  <2> QED
    BY <1>2, <2>2, <2>3, <2>4, Finishes
<1> QED
  BY <1>1, <1>2 DEF ShowFailure

\* Another listed model comes with an effort of its own; another effort is one
\* of the selected model.
LEMMA ChangesSelection ==
  ASSUME SettingsInv, NEW p \in SettingsPage, ChangeSelection(p)
  PROVE  SettingsInv'
<1> DEFINE With(x) == [form[p] EXCEPT !.selected = x]
<1>1. UNCHANGED <<rows, revoked, request>>
  BY DEF ChangeSelection
<1>2. ASSUME NEW x \in Selection, x.model # Nothing => Allowed(x),
             form' = [form EXCEPT ![p] = With(x)]
      PROVE  SettingsInv'
  <2>1. With(x) \in FormState /\ With(x).settings = form[p].settings /\ With(x).selected = x
    BY PageFacts DEF FormState
  <2> HIDE DEF With
  <2>2. PageGood(With(x))
    BY <1>2, <2>1, PageFacts DEF PageGood
  <2> QED
    BY <1>1, <1>2, <2>1, <2>2, PageOnly
<1>3. CASE \E m \in form[p].models :
             form' = [form EXCEPT ![p].selected = [model |-> m, effort |-> FirstEffort(m)]]
  <2>1. PICK m \in form[p].models :
          form' = [form EXCEPT ![p].selected = [model |-> m, effort |-> FirstEffort(m)]]
    BY <1>3
  <2>2. m \in Model
    BY PageFacts DEF FormState
  <2> DEFINE x == [model |-> m, effort |-> FirstEffort(m)]
  <2>3. x \in Selection /\ Allowed(x)
    BY <2>2, FirstEffortAllowed DEF Selection, Allowed
  <2>4. form' = [form EXCEPT ![p] = With(x)]
    BY <2>1
  <2> HIDE DEF x, With
  <2> QED
    BY <1>2, <2>3, <2>4
<1>4. CASE \E e \in Effort :
             /\ form[p].selected.model \in form[p].models
             /\ e \in Range(Efforts[form[p].selected.model])
             /\ form' = [form EXCEPT ![p].selected.effort = e]
  <2>1. PICK e \in Effort :
             /\ e \in Range(Efforts[form[p].selected.model])
             /\ form' = [form EXCEPT ![p].selected.effort = e]
    BY <1>4
  <2> DEFINE x == [form[p].selected EXCEPT !.effort = e]
  <2>2. form[p].selected \in Selection
    BY PageFacts DEF FormState
  <2>3. x \in Selection /\ x.model = form[p].selected.model /\ x.effort = e
    BY <2>2 DEF Selection
  <2>4. Allowed(x)
    BY <2>1, <2>3 DEF Allowed
  <2>5. form' = [form EXCEPT ![p] = With(x)]
    BY <2>1
  <2> HIDE DEF x, With
  <2> QED
    BY <1>2, <2>3, <2>4, <2>5
<1> QED
  BY <1>3, <1>4 DEF ChangeSelection

LEMMA Reloads ==
  ASSUME SettingsInv, NEW p \in SettingsPage, Reopen(p)
  PROVE  SettingsInv'
BY StoredViewGood, LoadedGood, PageOnly DEF Reopen

LEMMA SelectionWanted ==
  ASSUME SettingsInv, NEW p \in SettingsPage, CanSavePreference(p)
  PROVE  form[p].selected \in Preference
BY PageFacts DEF CanSavePreference, FormState, Selection, Preference

LEMMA Clicks ==
  ASSUME SettingsInv, NEW p \in SettingsPage, Press(p)
  PROVE  SettingsInv'
<1>1. p \in Requests /\ {"save", "revalidate", "models", "preference", "delete"} = Operation
  BY DEF Requests, Operation
<1>2. CASE PressSave(p)
  <2>1. PICK key \in ApiKey : Submit(p, "save", key, Nothing) /\ Sends(p, "save")
    BY <1>2 DEF PressSave, PutCredential
  <2> QED
    BY <1>1, <2>1, SendsPage, Asks
<1>3. CASE PressRevalidate(p)
  <2>1. Submit(p, "revalidate", Nothing, Nothing) /\ Sends(p, "revalidate")
    BY <1>3 DEF PressRevalidate, PostValidate
  <2> QED
    BY <1>1, <2>1, SendsPage, Asks
<1>4. CASE PressModels(p)
  <2>1. Submit(p, "models", Nothing, Nothing) /\ Sends(p, "models")
    BY <1>4 DEF PressModels, GetModels
  <2> QED
    BY <1>1, <2>1, SendsPage, Asks
<1>5. CASE PressDelete(p)
  <2>1. Submit(p, "delete", Nothing, Nothing) /\ Sends(p, "delete")
    BY <1>5 DEF PressDelete, DeleteRoute
  <2> QED
    BY <1>1, <2>1, SendsPage, Asks
<1>6. CASE PressSavePreference(p)
  <2>1. Submit(p, "preference", Nothing, form[p].selected) /\ Sends(p, "preference")
    BY <1>6 DEF PressSavePreference, PutPreferences
  <2>2. form[p].selected \in Preference /\ form[p].selected # Nothing
    BY <1>6, SelectionWanted, NothingAssumption DEF PressSavePreference
  <2> QED
    BY <1>1, <2>1, <2>2, SendsPage, Asks
<1> QED
  BY <1>2, <1>3, <1>4, <1>5, <1>6, ChangesSelection, Reloads DEF Press

LEMMA OtherTabs ==
  ASSUME SettingsInv, NEW r \in OtherTab, OtherTabAsks(r)
  PROVE  SettingsInv'
<1>1. r \in Requests /\ {"save", "revalidate", "models", "preference", "delete"} = Operation
  BY DEF Requests, Operation
<1>2. UNCHANGED <<rows, revoked>> /\ form' \in [SettingsPage -> FormState]
      /\ \A p \in SettingsPage : PageGood(form'[p])
  BY DEF OtherTabAsks, SettingsInv, SettingsTypeOK, PagesInv
<1>3. CASE \E key \in ApiKey : Submit(r, "save", key, Nothing)
  BY <1>1, <1>2, <1>3, Asks
<1>4. CASE Submit(r, "revalidate", Nothing, Nothing)
  BY <1>1, <1>2, <1>4, Asks
<1>5. CASE Submit(r, "delete", Nothing, Nothing)
  BY <1>1, <1>2, <1>5, Asks
<1>6. CASE \E wanted \in Preference : Submit(r, "preference", Nothing, wanted)
  BY <1>1, <1>2, <1>6, NothingAssumption, Asks
<1> QED
  BY <1>3, <1>4, <1>5, <1>6
  DEF OtherTabAsks, PutCredential, PostValidate, DeleteRoute, PutPreferences

\* A key that is no longer accepted is rejected wherever it is known to be.
LEMMA Revokes ==
  ASSUME SettingsInv, NEW key, Revoke(key)
  PROVE  SettingsInv'
<1>1. UNCHANGED <<credential, preference, saved, request, form>> /\ revoked \subseteq revoked'
  BY DEF Revoke, rows
<1>2. \A r \in Requests : Informed(request'[r], credential', saved', revoked')
  BY <1>1 DEF SettingsInv, RowsInv, Informed
<1>3. RowsInv'
  BY <1>1, <1>2 DEF SettingsInv, RowsInv, InvalidForCause
<1> QED
  BY <1>1, <1>3 DEF SettingsInv, SettingsTypeOK, PagesInv

LEMMA Stutters ==
  ASSUME SettingsInv, UNCHANGED settingsVars
  PROVE  SettingsInv'
BY DEF SettingsInv, SettingsTypeOK, RowsInv, PagesInv, InvalidForCause, settingsVars

-----------------------------------------------------------------------------
(* Theorems *)

\* The rows, the requests and the pages agree in every reachable state: what a
\* request knows of the credential it read is true of it as long as it is stored.
THEOREM SettingsInvariant == SettingsSpec => []SettingsInv
<1>1. SettingsInit => SettingsInv
  <2> SUFFICES ASSUME SettingsInit PROVE SettingsInv
    OBVIOUS
  <2>1. ViewOf(Nothing, Nothing) \in View /\ ViewAllowed(ViewOf(Nothing, Nothing))
    BY DEF ViewOf, View, ViewAllowed
  <2>2. SettingsTypeOK
    BY <2>1, LoadedGood, NoRequestType DEF SettingsInit, SettingsTypeOK
  <2>3. RowsInv
    BY NoRequestInformed DEF SettingsInit, RowsInv, Fits, InvalidForCause, Requests
  <2>4. PagesInv
    BY <2>1, LoadedGood, NoRequestType DEF SettingsInit, PagesInv, Requests
  <2> QED
    BY <2>2, <2>3, <2>4 DEF SettingsInv
<1>2. SettingsInv /\ [SettingsNext]_settingsVars => SettingsInv'
  <2> SUFFICES ASSUME SettingsInv, [SettingsNext]_settingsVars PROVE SettingsInv'
    OBVIOUS
  <2>1. CASE \E r \in Requests : Handle(r) \/ RequestFails(r)
    BY <2>1, Serves
  <2>2. CASE \E r \in OtherTab : OtherTabAsks(r)
    BY <2>2, OtherTabs
  <2>3. CASE \E p \in SettingsPage : Press(p) \/ Show(p)
    BY <2>3, Clicks, ShowsModels, ShowsResult, ShowsDeleted, ShowsFailure DEF Show
  <2>4. CASE \E key \in Revocable : Revoke(key)
    BY <2>4, Revokes
  <2>5. CASE UNCHANGED settingsVars
    BY <2>5, Stutters
  <2> QED
    BY <2>1, <2>2, <2>3, <2>4, <2>5 DEF SettingsNext, Requests
<1> QED
  BY <1>1, <1>2, PTL DEF SettingsSpec

\* Rows, requests and pages keep their types.
THEOREM SettingsTyped == SettingsSpec => []SettingsTypeOK
<1>1. SettingsInv => SettingsTypeOK
  BY DEF SettingsInv
<1> QED
  BY <1>1, SettingsInvariant, PTL

\* The stored preference is always one that the stored key offers.
THEOREM PreferencesFit == SettingsSpec => []PreferenceFits
<1>1. SettingsInv => PreferenceFits
  BY DEF SettingsInv, RowsInv, Fits, Allowed, PreferenceFits
<1> QED
  BY <1>1, SettingsInvariant, PTL

\* A credential is marked invalid only if the provider rejects the key it holds.
THEOREM VerdictsHaveCause == SettingsSpec => []InvalidForCause
<1>1. SettingsInv => InvalidForCause
  BY DEF SettingsInv, RowsInv
<1> QED
  BY <1>1, SettingsInvariant, PTL

\* What the page lets its user save is allowed by the selected model.
THEOREM SelectionsOffered == SettingsSpec => []SelectionOffered
<1>1. SettingsInv => SelectionOffered
  <2> SUFFICES ASSUME SettingsInv, NEW p \in SettingsPage, CanSavePreference(p)
               PROVE  form[p].selected.effort \in Range(Efforts[form[p].selected.model])
    BY DEF SelectionOffered
  <2>1. form[p].selected.model # Nothing
    BY SelectionWanted, NothingAssumption DEF Preference
  <2> QED
    BY <2>1, PageFacts DEF PageGood, Allowed
<1> QED
  BY <1>1, SettingsInvariant, PTL
=============================================================================
