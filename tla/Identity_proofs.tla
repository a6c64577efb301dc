----------------------------- MODULE Identity_proofs -----------------------------
(***************************************************************************)
(* What Identity promises of an account, for any number of tabs, sessions  *)
(* and links: a change of the password leaves no session of the old one,   *)
(* an active account's address is proven, and an error tells the truth.    *)
(***************************************************************************)
EXTENDS Identity, SequenceTheorems, TLAPS

-----------------------------------------------------------------------------
(* The inductive invariant *)

\* A request that asks more than to be sent a link.
Asks(t) ==
  \/ request[t].step \notin {"idle", "failed", "mail"}
  \/ request[t].step = "mail" /\ request[t].session # 0

\* Nothing is opened, sent or asked before an account is registered, and
\* what a request asks beyond its link needs an active one.
Rooted ==
  /\ account = None => session = <<>> /\ link = <<>>
  /\ \A t \in Tab : Asks(t) => Active

\* Links go to the address they are about.  Those of a pending account are
\* initial ones or resets, and are about its address.
Addressed ==
  /\ \A k \in DOMAIN link : link[k].to = link[k].email
  /\ ~Active => \A k \in DOMAIN link :
       link[k].purpose # "email_change" /\ link[k].email = account.email

\* The sessions and the link a request names are there.
Names(t) ==
  /\ request[t].session <= Len(session)
  /\ request[t].new <= Len(session)
  /\ request[t].prior <= Len(session)
  /\ request[t].link <= Len(link)
  /\ request[t].step \in {"authenticate", "limit", "replace", "answer"} => request[t].new # 0
  /\ request[t].step = "mail" => request[t].link # 0
  /\ request[t].step \in {"prepare", "rotate", "change", "revoke", "logout"} =>
       request[t].session # 0
  /\ request[t].step = "revoke" => request[t].prior # 0
  /\ request[t].step = "prepare" => request[t].email \in Email
  /\ request[t].step = "failed" /\ request[t].applied =>
       request[t].faulted \/ Standing(t) # 0

\* A request has no effect before the step that makes it, and until it has
\* ended its session itself, only another tab did.
Unspent(t) ==
  /\ \/ request[t].step \in {"post", "prepare", "change", "revoke", "logout", "limit",
                             "replace"}
     \/ request[t].step \in {"create", "authenticate"} /\ request[t].session = 0
     => ~request[t].applied
  /\ request[t].step \in {"prepare", "mail", "rotate"} /\ request[t].session # 0 =>
       session[request[t].session].by # t
  /\ request[t].step \in {"prepare", "mail", "rotate", "change", "create"} =>
       request[t].new = 0
  /\ request[t].step = "authenticate" => session[request[t].new].by # t

\* A request that is to open a session has shown the password that was in force
\* at its last check; one that is to rotate a session has shown the present one,
\* unless that session has ended.
Shown(t) ==
  /\ request[t].step = "create" =>
       request[t].verified \in 1 .. MaxPasswords /\ request[t].checked = request[t].verified
  /\ \/ request[t].step \in {"prepare", "rotate"}
     \/ request[t].step = "mail" /\ request[t].session # 0
     => /\ request[t].verified \in 1 .. MaxPasswords
        /\ session[request[t].session].by = None => request[t].verified = account.password

\* What EffectReported says of one tab.
Reported(t) ==
  request[t].step = "failed" /\ request[t].applied =>
    request[t].faulted \/ session[Standing(t)].by \notin {t, None}

Holds(t) == Names(t) /\ Unspent(t) /\ Shown(t) /\ Reported(t)

\* Every session was opened by a request that had shown the password in force at
\* its last check, and an accepted one under the present password.
SessionsShown ==
  \A s \in DOMAIN session :
    /\ session[s].verified = session[s].checked
    /\ session[s].by = None => session[s].opened = account.password

IdentityInv ==
  /\ IdentityTypeOK
  /\ Rooted
  /\ Addressed
  /\ \A t \in Tab : Holds(t)
  /\ SessionsShown
  /\ AddressProven

-----------------------------------------------------------------------------
(* What a step does to the rows *)

\* A row keeps what it says of passwords.
SamePasswords(r, s) ==
  r.verified = s.verified /\ r.checked = s.checked /\ r.opened = s.opened

\* A step that changes the password ends every session there is.
PasswordStands ==
  \/ account'.password = account.password
  \/ \A s \in DOMAIN session : session'[s].by # None

\* Rows of sessions stay, with what they say of passwords, and only t revokes
\* one, once.
SessionsMoved(t) ==
  /\ session' \in Seq(Session)
  /\ Len(session') <= MaxSessions
  /\ Len(session) <= Len(session')
  /\ \A s \in DOMAIN session' : session'[s].idle <= session'[s].absolute
  /\ \A s \in DOMAIN session :
       /\ SamePasswords(session'[s], session[s])
       /\ \/ session'[s].by = session[s].by
          \/ session[s].by = None /\ session'[s].by = t

\* Links stay, and one that was mailed and used stays so.
LinksMoved ==
  /\ link' \in Seq(Link)
  /\ Len(link') <= MaxLinks
  /\ Len(link) <= Len(link')
  /\ \A k \in DOMAIN link :
       /\ link'[k].purpose = link[k].purpose
       /\ link'[k].to = link[k].to
       /\ link'[k].email = link[k].email
       /\ link[k].mailed => link'[k].mailed
       /\ link[k].state = "used" => link'[k].state = "used"

LEMMA Positions ==
  ASSUME NEW S, NEW s \in Seq(S)
  PROVE  Len(s) \in Nat /\ DOMAIN s = 1 .. Len(s) /\ \A i \in 1 .. Len(s) : s[i] \in S
OBVIOUS

LEMMA SameLength ==
  ASSUME NEW S, NEW s \in Seq(S), NEW f, f = [i \in DOMAIN s |-> f[i]],
         \A i \in DOMAIN s : f[i] \in S
  PROVE  f \in Seq(S) /\ Len(f) = Len(s) /\ DOMAIN f = DOMAIN s
<1>1. Len(s) \in Nat /\ DOMAIN s = 1 .. Len(s)
  OBVIOUS
<1>2. f \in [1 .. Len(s) -> S]
  BY <1>1
<1>3. f \in Seq(S)
  BY <1>1, <1>2, SeqDef
<1>4. QED
  BY <1>1, <1>2, <1>3, LenProperties

\* A step that rewrites rows of sessions in their places.
LEMMA SessionsRewritten ==
  ASSUME IdentityTypeOK, NEW t \in Tab,
         session' = [s \in DOMAIN session |-> session'[s]],
         \A s \in DOMAIN session :
           /\ session'[s] \in Session
           /\ session'[s].idle <= session'[s].absolute
           /\ SamePasswords(session'[s], session[s])
           /\ \/ session'[s].by = session[s].by
              \/ session[s].by = None /\ session'[s].by = t
  PROVE  SessionsMoved(t) /\ Len(session') = Len(session)
<1>1. session \in Seq(Session) /\ Len(session) <= MaxSessions
  BY DEF IdentityTypeOK
<1>2. session' \in Seq(Session) /\ Len(session') = Len(session)
      /\ DOMAIN session' = DOMAIN session
  BY <1>1, SameLength
<1>3. Len(session) \in Nat
  BY <1>1
<1>4. QED
  BY <1>1, <1>2, <1>3 DEF SessionsMoved

LEMMA SessionsStay ==
  ASSUME IdentityTypeOK, UNCHANGED session, NEW t \in Tab
  PROVE  SessionsMoved(t)
<1>1. session \in Seq(Session) /\ Len(session) <= MaxSessions
  BY DEF IdentityTypeOK
<1>2. Len(session) \in Nat
  BY <1>1
<1>3. QED
  BY <1>1, <1>2 DEF SessionsMoved, SamePasswords, IdentityTypeOK

LEMMA SessionRow ==
  ASSUME IdentityTypeOK, NEW s \in DOMAIN session
  PROVE  session[s] \in Session /\ session[s].idle <= session[s].absolute
<1>1. session \in Seq(Session)
  BY DEF IdentityTypeOK
<1>2. QED
  BY <1>1 DEF IdentityTypeOK

LEMMA Revoking ==
  ASSUME IdentityTypeOK, NEW t \in Tab, NEW S, session' = RevokedBy(t, S)
  PROVE  /\ SessionsMoved(t)
         /\ Len(session') = Len(session)
         /\ \A s \in DOMAIN session : s \in S => session'[s].by # None
<1>1. \A s \in DOMAIN session :
        /\ session[s] \in Session /\ session[s].idle <= session[s].absolute
        /\ session'[s] = IF s \in S /\ session[s].by = None
                           THEN [session[s] EXCEPT !.by = t] ELSE session[s]
  BY SessionRow DEF RevokedBy
<1>2. session' = [s \in DOMAIN session |-> session'[s]]
  BY DEF RevokedBy
<1>3. ASSUME NEW s \in DOMAIN session
      PROVE  /\ session'[s] \in Session
             /\ session'[s].idle <= session'[s].absolute
             /\ SamePasswords(session'[s], session[s])
             /\ \/ session'[s].by = session[s].by
                \/ session[s].by = None /\ session'[s].by = t
             /\ s \in S => session'[s].by # None
  <2>1. CASE s \in S /\ session[s].by = None
    <3>1. t # None
      BY NoneAssumption
    <3>2. session[s] \in Session /\ session'[s] = [session[s] EXCEPT !.by = t]
          /\ session[s].idle <= session[s].absolute
      BY <1>1, <2>1
    <3>3. session'[s] \in Session /\ session'[s].by = t
          /\ session'[s].idle = session[s].idle /\ session'[s].absolute = session[s].absolute
          /\ SamePasswords(session'[s], session[s])
      BY <3>2 DEF Session, SamePasswords
    <3>4. QED
      BY <2>1, <3>1, <3>2, <3>3
  <2>2. CASE ~(s \in S /\ session[s].by = None)
    BY <1>1, <2>2 DEF SamePasswords
  <2>3. QED
    BY <2>1, <2>2
<1>4. QED
  BY <1>2, <1>3, SessionsRewritten

LEMMA Touching ==
  ASSUME IdentityTypeOK, NEW t \in Tab, NEW c \in Tab \cup {None}, cookie \in DOMAIN session,
         \/ session' = Touched(cookie)
         \/ session' = [Touched(cookie) EXCEPT ![cookie].csrf = c]
  PROVE  /\ SessionsMoved(t)
         /\ Len(session') = Len(session)
         /\ session'[cookie].by = session[cookie].by
<1> DEFINE idle == Least(now + IdleTtl, session[cookie].absolute)
<1>1. session[cookie] \in Session
  BY SessionRow
<1>2. idle \in Nat /\ idle <= session[cookie].absolute
  <2>1. now \in Nat /\ IdleTtl \in Nat /\ session[cookie].absolute \in Nat
    BY <1>1, IdentityAssumption DEF Session, IdentityTypeOK
  <2>2. QED
    BY <2>1 DEF Least
<1>3. session \in Seq(Session)
  BY DEF IdentityTypeOK
<1>4. session' = [s \in DOMAIN session |-> session'[s]]
  BY DEF Touched
<1>5. \/ session'[cookie] = [session[cookie] EXCEPT !.idle = idle]
      \/ session'[cookie] = [session[cookie] EXCEPT !.idle = idle, !.csrf = c]
  BY DEF Touched
<1>6. \A s \in DOMAIN session : s # cookie => session'[s] = session[s]
  BY DEF Touched
<1> HIDE DEF idle
<1>7. /\ session'[cookie] \in Session
      /\ session'[cookie].idle <= session'[cookie].absolute
      /\ SamePasswords(session'[cookie], session[cookie])
      /\ session'[cookie].by = session[cookie].by
  BY <1>1, <1>2, <1>5 DEF Session, SamePasswords
<1>8. QED
  BY <1>4, <1>6, <1>7, SessionRow, SessionsRewritten DEF SamePasswords

LEMMA Opening ==
  ASSUME IdentityTypeOK, NEW t \in Tab, account # None, Len(session) < MaxSessions,
         session' = Append(session, Opened(t)),
         request[t].verified \in 1 .. MaxPasswords, request[t].checked = request[t].verified
  PROVE  /\ SessionsMoved(t)
         /\ Len(session') = Len(session) + 1
         /\ session'[Len(session) + 1].opened = account.password
         /\ session'[Len(session) + 1].verified = session'[Len(session) + 1].checked
         /\ session'[Len(session) + 1].by = None
<1>1. session \in Seq(Session) /\ Len(session) \in Nat
  BY DEF IdentityTypeOK
<1>2. /\ now \in Nat /\ IdleTtl \in Nat /\ AbsoluteTtl \in Nat /\ IdleTtl <= AbsoluteTtl
      /\ MaxSessions \in Nat
  BY IdentityAssumption DEF IdentityTypeOK
<1>3. account.password \in 1 .. MaxPasswords
  BY DEF IdentityTypeOK, Account
<1>4. /\ Opened(t) \in Session /\ Opened(t).idle <= Opened(t).absolute
      /\ Opened(t).opened = account.password /\ Opened(t).verified = Opened(t).checked
      /\ Opened(t).by = None
  BY <1>2, <1>3 DEF Session, Opened
<1> HIDE DEF Opened
<1>5. /\ session' \in Seq(Session) /\ Len(session') = Len(session) + 1
      /\ DOMAIN session' = 1 .. Len(session) + 1
      /\ session'[Len(session) + 1] = Opened(t)
      /\ \A s \in 1 .. Len(session) : session'[s] = session[s]
  BY <1>1, <1>4
<1>6. \A s \in DOMAIN session' : session'[s].idle <= session'[s].absolute
  <2>1. SUFFICES ASSUME NEW s \in DOMAIN session'
                 PROVE  session'[s].idle <= session'[s].absolute
    OBVIOUS
  <2>2. CASE s = Len(session) + 1
    BY <1>4, <1>5, <2>2
  <2>3. CASE s \in DOMAIN session
    BY <1>1, <1>5, <2>3, SessionRow
  <2>4. QED
    BY <1>1, <1>5, <2>2, <2>3
<1>7. QED
  BY <1>1, <1>2, <1>4, <1>5, <1>6 DEF SessionsMoved, SamePasswords

LEMMA LinksStay ==
  ASSUME IdentityTypeOK, UNCHANGED link
  PROVE  LinksMoved
<1>1. link \in Seq(Link) /\ Len(link) <= MaxLinks
  BY DEF IdentityTypeOK
<1>2. Len(link) \in Nat
  BY <1>1
<1>3. QED
  BY <1>1, <1>2 DEF LinksMoved

LEMMA LinkRow ==
  ASSUME IdentityTypeOK, NEW k \in DOMAIN link
  PROVE  link[k] \in Link
BY DEF IdentityTypeOK

\* A link is marked as mailed or as used.
LEMMA Marking ==
  ASSUME IdentityTypeOK, NEW k \in DOMAIN link,
         \/ link' = [link EXCEPT ![k].mailed = TRUE]
         \/ link' = Used(k)
  PROVE  LinksMoved /\ Len(link') = Len(link)
<1>1. link \in Seq(Link) /\ Len(link) <= MaxLinks /\ Len(link) \in Nat
  BY DEF IdentityTypeOK
<1>2. link[k] \in Link
  BY LinkRow
<1>3. link' = [i \in DOMAIN link |-> link'[i]]
  BY DEF Used
<1>4. \A i \in DOMAIN link : i # k => link'[i] = link[i]
  BY DEF Used
<1>5. \/ link'[k] = [link[k] EXCEPT !.mailed = TRUE]
      \/ link'[k] = [link[k] EXCEPT !.state = "used"]
  BY DEF Used
<1>6. /\ link'[k] \in Link
      /\ link'[k].purpose = link[k].purpose
      /\ link'[k].to = link[k].to
      /\ link'[k].email = link[k].email
      /\ link[k].mailed => link'[k].mailed
      /\ link[k].state = "used" => link'[k].state = "used"
  BY <1>2, <1>5 DEF Link
<1>7. link' \in Seq(Link) /\ Len(link') = Len(link) /\ DOMAIN link' = DOMAIN link
  BY <1>1, <1>3, <1>4, <1>6, LinkRow, SameLength
<1>8. QED
  BY <1>1, <1>4, <1>6, <1>7 DEF LinksMoved

\* A link is issued: earlier ones may be replaced, this one goes out.
LEMMA Issuing ==
  ASSUME IdentityTypeOK, NEW t \in Tab,
         NEW purpose \in {"initial", "email_change", "reset"},
         NEW to \in Email, NEW email \in Email, Issue(t, purpose, to, email)
  PROVE  /\ LinksMoved
         /\ Len(link') = Len(link) + 1
         /\ DOMAIN link' = DOMAIN link \cup {Len(link) + 1}
         /\ link'[Len(link) + 1].purpose = purpose
         /\ link'[Len(link) + 1].to = to
         /\ link'[Len(link) + 1].email = email
<1> DEFINE new == [purpose |-> purpose, to |-> to, email |-> email, state |-> "live",
                   expires |-> now + LinkTtl, mailed |-> FALSE]
           old == [k \in DOMAIN link |->
                     IF link[k].purpose = purpose /\ link[k].state = "live"
                       THEN [link[k] EXCEPT !.state = "replaced"] ELSE link[k]]
<1>1. link \in Seq(Link) /\ Len(link) < MaxLinks /\ Len(link) \in Nat /\ MaxLinks \in Nat
  BY IdentityAssumption DEF IdentityTypeOK, Issue
<1>2. new \in Link /\ new.purpose = purpose /\ new.to = to /\ new.email = email
  <2>1. now \in Nat /\ LinkTtl \in Nat
    BY IdentityAssumption DEF IdentityTypeOK
  <2>2. QED
    BY <2>1 DEF Link
<1>3. link' = Append(old, new)
  BY DEF Issue
<1>4. ASSUME NEW k \in DOMAIN link
      PROVE  /\ old[k] \in Link
             /\ old[k].purpose = link[k].purpose
             /\ old[k].to = link[k].to
             /\ old[k].email = link[k].email
             /\ old[k].mailed = link[k].mailed
             /\ link[k].state = "used" => old[k].state = "used"
  <2>1. link[k] \in Link
    BY LinkRow
  <2>2. CASE link[k].purpose = purpose /\ link[k].state = "live"
    <3>1. old[k] = [link[k] EXCEPT !.state = "replaced"]
      BY <2>2
    <3>2. QED
      BY <2>1, <2>2, <3>1 DEF Link
  <2>3. CASE ~(link[k].purpose = purpose /\ link[k].state = "live")
    <3>1. old[k] = link[k]
      BY <2>3
    <3>2. QED
      BY <2>1, <3>1
  <2>4. QED
    BY <2>2, <2>3
<1>5. old = [k \in DOMAIN link |-> old[k]]
  OBVIOUS
<1> HIDE DEF new, old
<1>6. old \in Seq(Link) /\ Len(old) = Len(link) /\ DOMAIN old = DOMAIN link
  BY <1>1, <1>4, <1>5, SameLength
<1>7. /\ link' \in Seq(Link) /\ Len(link') = Len(link) + 1
      /\ DOMAIN link' = 1 .. Len(link) + 1
      /\ link'[Len(link) + 1] = new
      /\ \A k \in 1 .. Len(link) : link'[k] = old[k]
  BY <1>1, <1>2, <1>3, <1>6
<1>8. DOMAIN link = 1 .. Len(link)
  BY <1>1
<1>9. QED
  BY <1>1, <1>2, <1>4, <1>7, <1>8 DEF LinksMoved

-----------------------------------------------------------------------------
(* What a step does to the requests *)

LEMMA SetRequest ==
  ASSUME request \in [Tab -> Request], NEW t \in Tab, NEW r, Set(t, r)
  PROVE  /\ request'[t] = r
         /\ \A u \in Tab : u # t => request'[u] = request[u]
         /\ r \in Request => request' \in [Tab -> Request]
BY DEF Set

LEMMA QuietRequest ==
  /\ Quiet \in Request
  /\ Quiet.step = "idle" /\ Quiet.session = 0 /\ Quiet.new = 0 /\ Quiet.prior = 0
  /\ Quiet.link = 0 /\ Quiet.applied = FALSE /\ Quiet.verified = 0 /\ Quiet.checked = 0
BY IdentityAssumption DEF Quiet, Request

\* A request that fails holds nothing but its session, and that only if it
\* took effect.
LEMMA Failing ==
  ASSUME IdentityTypeOK, NEW t \in Tab, NEW f \in BOOLEAN, Failed(t, f)
  PROVE  /\ request' \in [Tab -> Request]
         /\ \A u \in Tab : u # t => request'[u] = request[u]
         /\ request'[t].step \in {"idle", "failed"}
         /\ request'[t].session \in {0, request[t].session}
         /\ request'[t].new \in {0, request[t].new}
         /\ request'[t].prior = 0 /\ request'[t].link = 0
         /\ request'[t].step = "failed" =>
              /\ request[t].applied /\ ~Free(t)
              /\ request'[t].faulted = f
              /\ request'[t].session = request[t].session
              /\ request'[t].new = request[t].new
<1>1. request \in [Tab -> Request] /\ request[t] \in Request
  BY DEF IdentityTypeOK
<1>2. CASE request[t].applied /\ ~Free(t)
  <2> DEFINE r == [Quiet EXCEPT !.step = "failed", !.applied = TRUE, !.faulted = f,
                                !.session = request[t].session, !.new = request[t].new]
  <2>1. Set(t, r)
    BY <1>2 DEF Failed
  <2>2. /\ request[t].session \in 0 .. MaxSessions /\ request[t].new \in 0 .. MaxSessions
        /\ 0 \in 0 .. MaxSessions /\ 0 \in 0 .. MaxLinks
    BY <1>1, IdentityAssumption DEF Request
  <2>3. /\ r \in Request /\ r.step = "failed" /\ r.session = request[t].session
        /\ r.new = request[t].new /\ r.prior = 0 /\ r.link = 0 /\ r.faulted = f
    BY <2>2, QuietRequest DEF Request
  <2> HIDE DEF r
  <2>4. QED
    BY <1>1, <1>2, <2>1, <2>3, SetRequest
<1>3. CASE ~(request[t].applied /\ ~Free(t))
  <2>1. Set(t, Quiet)
    BY <1>3 DEF Failed
  <2>2. QED
    BY <1>1, <2>1, QuietRequest, SetRequest
<1>4. QED
  BY <1>2, <1>3

LEMMA Answering ==
  ASSUME IdentityTypeOK, NEW t \in Tab, Answered(t)
  PROVE  /\ request' \in [Tab -> Request]
         /\ \A u \in Tab : u # t => request'[u] = request[u]
         /\ request'[t] = Quiet
BY QuietRequest, SetRequest DEF Answered, IdentityTypeOK

LEMMA Going ==
  ASSUME IdentityTypeOK, NEW t \in Tab, NEW step \in {"rotate", "replace", "answer", "limit"},
         Go(t, step)
  PROVE  /\ request' \in [Tab -> Request]
         /\ \A u \in Tab : u # t => request'[u] = request[u]
         /\ request'[t] = [request[t] EXCEPT !.step = step]
         /\ request'[t].step = step
         /\ request'[t].session = request[t].session
         /\ request'[t].new = request[t].new
         /\ request'[t].prior = request[t].prior
         /\ request'[t].link = request[t].link
         /\ request'[t].applied = request[t].applied
         /\ request'[t].verified = request[t].verified
<1>1. request \in [Tab -> Request] /\ request[t] \in Request
  BY DEF IdentityTypeOK
<1> DEFINE r == [request[t] EXCEPT !.step = step]
<1>2. r \in Request /\ r.step = step /\ r.session = request[t].session
      /\ r.new = request[t].new /\ r.prior = request[t].prior
      /\ r.link = request[t].link /\ r.applied = request[t].applied
      /\ r.verified = request[t].verified
  BY <1>1 DEF Request
<1>3. Set(t, r)
  BY DEF Go
<1> HIDE DEF r
<1>4. request'[t] = r
  BY <1>1, <1>3, SetRequest
<1>5. QED
  BY <1>1, <1>2, <1>3, <1>4, SetRequest DEF r

LEMMA RequestRow ==
  ASSUME IdentityTypeOK, NEW t \in Tab
  PROVE  /\ request[t] \in Request
         /\ request[t].session \in Nat /\ request[t].new \in Nat
         /\ request[t].prior \in Nat /\ request[t].link \in Nat
         /\ request[t].applied \in BOOLEAN
BY DEF IdentityTypeOK, Request

LEMMA Lengths ==
  ASSUME IdentityTypeOK
  PROVE  /\ Len(session) \in Nat /\ DOMAIN session = 1 .. Len(session)
         /\ Len(link) \in Nat /\ DOMAIN link = 1 .. Len(link)
BY DEF IdentityTypeOK

\* What a request of another tab holds, it still holds.
LEMMA OthersHold ==
  ASSUME IdentityTypeOK, NEW t \in Tab, NEW u \in Tab, u # t, request'[u] = request[u],
         SessionsMoved(t), LinksMoved, PasswordStands, Holds(u)
  PROVE  Holds(u)'
<1>1. /\ request[u].session \in Nat /\ request[u].new \in Nat
      /\ request[u].prior \in Nat /\ request[u].link \in Nat
  BY RequestRow
<1>2. /\ Len(session) \in Nat /\ Len(session') \in Nat /\ Len(session) <= Len(session')
      /\ Len(link) \in Nat /\ Len(link') \in Nat /\ Len(link) <= Len(link')
  BY Lengths DEF SessionsMoved, LinksMoved
<1>3. Names(u)'
  BY <1>1, <1>2 DEF Holds, Names, Standing
<1>4. t # None
  BY NoneAssumption
<1>5. ASSUME NEW s \in {request[u].session, request[u].new}, s # 0
      PROVE  /\ s \in DOMAIN session
             /\ \/ session'[s].by = session[s].by
                \/ session[s].by = None /\ session'[s].by = t
  <2>1. s \in DOMAIN session
    BY <1>1, <1>5, Lengths DEF Holds, Names
  <2>2. QED
    BY <2>1 DEF SessionsMoved
<1>6. Unspent(u)'
  BY <1>5 DEF Holds, Names, Unspent
<1>7. Shown(u)'
  <2>1. CASE account'.password = account.password
    BY <1>4, <1>5, <2>1 DEF Holds, Names, Shown
  <2>2. CASE \A s \in DOMAIN session : session'[s].by # None
    BY <1>5, <2>2 DEF Holds, Names, Shown
  <2>3. QED
    BY <2>1, <2>2 DEF PasswordStands
<1>8. Reported(u)'
  BY <1>4, <1>5 DEF Holds, Reported, Names, Standing
<1>9. QED
  BY <1>3, <1>6, <1>7, <1>8 DEF Holds

\* The invariant, from what a step does to the rows and to its own request.
LEMMA Stepped ==
  ASSUME IdentityInv, NEW t \in Tab,
         SessionsMoved(t), LinksMoved,
         request' \in [Tab -> Request],
         \A u \in Tab : u # t => request'[u] = request[u],
         Holds(t)', Asks(t)' => Active',
         account' \in Account \cup {None},
         account' = None => session' = <<>> /\ link' = <<>>,
         Active => Active', PasswordStands,
         cookie' \in 0 .. Len(session'),
         now' = now, faults' \in 0 .. MaxFaults,
         Addressed', SessionsShown', AddressProven'
  PROVE  IdentityInv'
<1>1. IdentityTypeOK'
  BY DEF IdentityTypeOK, SessionsMoved, LinksMoved, IdentityInv
<1>2. \A u \in Tab : Holds(u)'
  BY OthersHold DEF IdentityInv
<1>3. Rooted'
  <2>1. \A u \in Tab : Asks(u)' => Active'
    BY DEF Rooted, Asks, IdentityInv
  <2>2. QED
    BY <2>1 DEF Rooted
<1>4. QED
  BY <1>1, <1>2, <1>3 DEF IdentityInv

LEMMA PasswordKept ==
  ASSUME IdentityTypeOK, SessionsShown, NEW t \in Tab, SessionsMoved(t),
         Len(session') = Len(session), account'.password = account.password
  PROVE  SessionsShown'
<1>1. t # None
  BY NoneAssumption
<1>2. DOMAIN session' = DOMAIN session
  BY Lengths DEF SessionsMoved
<1>3. QED
  BY <1>1, <1>2 DEF SessionsShown, SessionsMoved, SamePasswords

LEMMA ProofKept ==
  ASSUME IdentityTypeOK, AddressProven, LinksMoved,
         Active' => Active /\ account'.email = account.email
  PROVE  AddressProven'
<1>1. DOMAIN link \subseteq DOMAIN link'
  BY Lengths DEF LinksMoved
<1>2. QED
  BY <1>1 DEF AddressProven, LinksMoved

\* A step that leaves the account, and adds no session and no link.
LEMMA AccountStays ==
  ASSUME IdentityInv, NEW t \in Tab,
         SessionsMoved(t), Len(session') = Len(session),
         LinksMoved, Len(link') = Len(link),
         request' \in [Tab -> Request],
         \A u \in Tab : u # t => request'[u] = request[u],
         Holds(t)', Asks(t)' => Active,
         UNCHANGED <<account, now>>,
         cookie' \in 0 .. Len(session'), faults' \in 0 .. MaxFaults
  PROVE  IdentityInv'
<1>1. IdentityTypeOK /\ Rooted /\ Addressed /\ SessionsShown /\ AddressProven
  BY DEF IdentityInv
<1>2. Active' = Active
  BY DEF Active
<1>3. SessionsShown'
  BY <1>1, PasswordKept
<1>4. AddressProven'
  BY <1>1, <1>2, ProofKept
<1>5. DOMAIN link' = DOMAIN link
  BY <1>1, Lengths DEF LinksMoved
<1>6. Addressed'
  BY <1>1, <1>2, <1>5 DEF Addressed, LinksMoved
<1>7. account' = None => session' = <<>> /\ link' = <<>>
  <2>1. ASSUME account' = None
        PROVE  Len(session') = 0 /\ Len(link') = 0
    BY <1>1, <2>1 DEF Rooted
  <2>2. session' \in Seq(Session) /\ link' \in Seq(Link)
    BY DEF SessionsMoved, LinksMoved
  <2>3. QED
    BY <2>1, <2>2, EmptySeq
<1>8. account' \in Account \cup {None}
  BY <1>1 DEF IdentityTypeOK
<1>9. PasswordStands
  BY DEF PasswordStands
<1>10. QED
  BY <1>2, <1>3, <1>4, <1>6, <1>7, <1>8, <1>9, Stepped

-----------------------------------------------------------------------------
(* The steps of a request, one by one *)

LEMMA Known ==
  ASSUME IdentityInv, NEW t \in Tab
  PROVE  /\ IdentityTypeOK /\ Rooted /\ Addressed /\ SessionsShown /\ AddressProven
         /\ Holds(t) /\ Names(t) /\ Unspent(t) /\ Shown(t) /\ Reported(t)
         /\ cookie \in 0 .. Len(session) /\ faults \in 0 .. MaxFaults
         /\ now \in Nat
         /\ request \in [Tab -> Request]
         /\ account \in Account \cup {None}
         /\ t # None
BY NoneAssumption, IdentityAssumption DEF IdentityInv, IdentityTypeOK, Holds

\* A request that had no effect, or says what became of it, may fail.
LEMMA FailedHolds ==
  ASSUME IdentityInv, NEW t \in Tab, NEW f \in BOOLEAN, Failed(t, f),
         SessionsMoved(t), LinksMoved,
         request[t].applied /\ ~Free(t) =>
           \/ f
           \/ Standing(t) # 0 /\ session[Standing(t)].by \notin {t, None}
  PROVE  /\ Holds(t)'
         /\ request' \in [Tab -> Request]
         /\ \A u \in Tab : u # t => request'[u] = request[u]
         /\ ~Asks(t)'
<1>1. IdentityTypeOK /\ Names(t)
  BY Known
<1>2. /\ request' \in [Tab -> Request]
      /\ \A u \in Tab : u # t => request'[u] = request[u]
      /\ request'[t].step \in {"idle", "failed"}
      /\ request'[t].session \in {0, request[t].session}
      /\ request'[t].new \in {0, request[t].new}
      /\ request'[t].prior = 0 /\ request'[t].link = 0
      /\ request'[t].step = "failed" =>
           /\ request[t].applied /\ ~Free(t)
           /\ request'[t].faulted = f
           /\ request'[t].session = request[t].session
           /\ request'[t].new = request[t].new
  BY <1>1, Failing
<1>3. /\ Len(session) \in Nat /\ Len(session') \in Nat /\ Len(session) <= Len(session')
      /\ Len(link) \in Nat /\ Len(link') \in Nat /\ Len(link) <= Len(link')
      /\ DOMAIN session = 1 .. Len(session)
  BY <1>1, Lengths DEF SessionsMoved, LinksMoved
<1>4. /\ request[t].session \in Nat /\ request[t].session <= Len(session)
      /\ request[t].new \in Nat /\ request[t].new <= Len(session)
      /\ Standing(t) \in Nat /\ Standing(t) <= Len(session)
  BY <1>1, RequestRow DEF Names, Standing
<1>5. request'[t].step = "failed" => Standing(t)' = Standing(t)
  BY <1>2 DEF Standing
<1>6. Names(t)'
  BY <1>2, <1>3, <1>4, <1>5 DEF Names
<1>7. Unspent(t)' /\ Shown(t)'
  BY <1>2 DEF Unspent, Shown
<1>8. Reported(t)'
  <2>1. SUFFICES ASSUME request'[t].step = "failed", ~f
                 PROVE  session'[Standing(t)].by \notin {t, None}
    BY <1>2, <1>5 DEF Reported
  <2>2. Standing(t) # 0 /\ session[Standing(t)].by \notin {t, None}
    BY <1>2, <2>1
  <2>3. Standing(t) \in DOMAIN session
    BY <1>3, <1>4, <2>2
  <2>4. session'[Standing(t)].by = session[Standing(t)].by
    BY <2>2, <2>3 DEF SessionsMoved
  <2>5. QED
    BY <2>2, <2>4
<1>9. QED
  BY <1>2, <1>6, <1>7, <1>8 DEF Holds, Asks

LEMMA AnsweredHolds ==
  ASSUME IdentityInv, NEW t \in Tab, Answered(t), SessionsMoved(t), LinksMoved
  PROVE  /\ Holds(t)'
         /\ request' \in [Tab -> Request]
         /\ \A u \in Tab : u # t => request'[u] = request[u]
         /\ ~Asks(t)'
<1>1. IdentityTypeOK
  BY Known
<1>2. /\ request' \in [Tab -> Request]
      /\ \A u \in Tab : u # t => request'[u] = request[u]
      /\ request'[t] = Quiet
  BY <1>1, Answering
<1>3. Len(session') \in Nat /\ Len(link') \in Nat
  BY DEF SessionsMoved, LinksMoved
<1>4. QED
  BY <1>2, <1>3, QuietRequest DEF Holds, Names, Unspent, Shown, Reported, Asks

LEMMA IssueHolds ==
  ASSUME IdentityInv, NEW t \in Tab,
         NEW purpose \in {"initial", "email_change", "reset"},
         NEW to \in Email, NEW email \in Email, Issue(t, purpose, to, email),
         UNCHANGED session, Free(t) \/ request[t].step = "prepare",
         Free(t) \/ account'.password = account.password
  PROVE  /\ Holds(t)'
         /\ request' \in [Tab -> Request]
         /\ \A u \in Tab : u # t => request'[u] = request[u]
         /\ Asks(t)' => Active
<1> DEFINE q == [Quiet EXCEPT !.step = "mail", !.link = Len(link) + 1, !.applied = TRUE,
                              !.session = IF Free(t) THEN 0 ELSE request[t].session,
                              !.verified = request[t].verified]
<1>1. IdentityTypeOK /\ Names(t) /\ Unspent(t) /\ Shown(t)
  BY Known
<1>2. Set(t, q) /\ Len(link) < MaxLinks
  BY DEF Issue
<1>3. /\ Len(link) + 1 \in 0 .. MaxLinks
      /\ request[t].session \in 0 .. MaxSessions /\ 0 \in 0 .. MaxSessions
      /\ request[t].session <= Len(session)
      /\ request[t].verified \in 0 .. MaxPasswords
  <2>1. MaxLinks \in Nat /\ MaxSessions \in Nat
    BY IdentityAssumption
  <2>2. Len(link) \in Nat /\ Len(session) \in Nat
    BY <1>1, Lengths
  <2>3. request[t].session \in 0 .. MaxSessions /\ request[t].verified \in 0 .. MaxPasswords
    BY <1>1, RequestRow DEF Request
  <2>4. QED
    BY <1>1, <1>2, <2>1, <2>2, <2>3 DEF Names
<1>4. /\ q \in Request
      /\ q.step = "mail" /\ q.link = Len(link) + 1 /\ q.new = 0 /\ q.prior = 0
      /\ q.session = IF Free(t) THEN 0 ELSE request[t].session
      /\ q.verified = request[t].verified
  BY <1>3, QuietRequest DEF Request
<1> HIDE DEF q
<1>5. /\ request'[t] = q /\ request' \in [Tab -> Request]
      /\ \A u \in Tab : u # t => request'[u] = request[u]
  BY <1>1, <1>2, <1>4, SetRequest DEF IdentityTypeOK
<1>6. Len(link') = Len(link) + 1 /\ Len(link) \in Nat /\ Len(session) \in Nat
  BY <1>1, Issuing, Lengths
<1>7. Names(t)'
  BY <1>3, <1>4, <1>5, <1>6 DEF Names
<1>8. Unspent(t)'
  BY <1>1, <1>4, <1>5 DEF Unspent
<1>9. Asks(t)' => Active
  BY <1>4, <1>5, Known DEF Asks, Rooted
<1>10. request[t].step = "prepare" =>
         /\ request[t].verified \in 1 .. MaxPasswords
         /\ session[request[t].session].by = None => request[t].verified = account.password
  BY <1>1 DEF Shown
<1>11. Shown(t)'
  BY <1>4, <1>5, <1>10 DEF Shown, Free
<1>12. QED
  BY <1>4, <1>5, <1>7, <1>8, <1>9, <1>11 DEF Holds, Reported

\* A request with a link of the account's own: registration, a new
\* verification, a reset.
LEMMA RegisterHolds ==
  ASSUME IdentityInv, NEW t \in Tab, Register(t)
  PROVE  IdentityInv'
<1>1. /\ IdentityTypeOK /\ Rooted /\ AddressProven
      /\ cookie \in 0 .. Len(session) /\ faults \in 0 .. MaxFaults
  BY Known
<1>2. /\ account = None /\ session = <<>> /\ link = <<>> /\ Free(t)
      /\ Issue(t, "initial", Home, Home)
      /\ UNCHANGED <<session, hits, cookie, now, faults>>
  BY <1>1 DEF Register, Rooted
<1>3. Home \in Email
  BY IdentityAssumption
<1>4. /\ LinksMoved
      /\ Len(link') = Len(link) + 1
      /\ DOMAIN link' = DOMAIN link \cup {Len(link) + 1}
      /\ link'[Len(link) + 1].purpose = "initial"
      /\ link'[Len(link) + 1].to = Home
      /\ link'[Len(link) + 1].email = Home
  BY <1>1, <1>2, <1>3, Issuing
<1>5. SessionsMoved(t)
  BY <1>1, <1>2, SessionsStay
<1>6. /\ Holds(t)'
      /\ request' \in [Tab -> Request]
      /\ \A u \in Tab : u # t => request'[u] = request[u]
      /\ Asks(t)' => Active
  BY <1>2, <1>3, IssueHolds
<1>7. /\ account' \in Account /\ account' # None /\ ~Active'
      /\ account'.email = Home
  <2>1. account' = [status |-> "pending_verification", email |-> Home,
                    pendingEmail |-> None, password |-> 1]
    BY DEF Register
  <2>2. 1 \in 1 .. MaxPasswords
    BY IdentityAssumption
  <2>3. account' \in Account
    BY <1>3, <2>1, <2>2 DEF Account
  <2>4. QED
    BY <2>1, <2>3, NoneAssumption DEF Active
<1>8. ~Active /\ DOMAIN link = {} /\ Len(link) = 0 /\ DOMAIN session = {}
  BY <1>1, <1>2, Lengths DEF Active
<1>9. Addressed'
  BY <1>4, <1>7, <1>8 DEF Addressed
<1>10. SessionsShown' /\ AddressProven' /\ PasswordStands
  BY <1>2, <1>7, <1>8 DEF SessionsShown, AddressProven, PasswordStands
<1>11. QED
  BY <1>1, <1>2, <1>4, <1>5, <1>6, <1>7, <1>8, <1>9, <1>10, Stepped

\* A link of the purpose, to an address of the account or to the one it is to
\* change to.
LEMMA IssueSteps ==
  ASSUME IdentityInv, NEW t \in Tab,
         NEW purpose \in {"initial", "email_change", "reset"}, NEW email \in Email,
         Issue(t, purpose, email, email),
         Free(t) \/ request[t].step = "prepare",
         account # None, account' \in Account, account' # None,
         account'.email = account.email, account'.status = account.status,
         account'.password = account.password,
         ~Active => purpose # "email_change" /\ email = account.email,
         UNCHANGED <<session, hits, cookie, now, faults>>
  PROVE  IdentityInv'
<1>1. /\ IdentityTypeOK /\ Rooted /\ Addressed /\ AddressProven /\ SessionsShown
      /\ cookie \in 0 .. Len(session) /\ faults \in 0 .. MaxFaults
  BY Known
<1>2. /\ LinksMoved
      /\ DOMAIN link' = DOMAIN link \cup {Len(link) + 1}
      /\ link'[Len(link) + 1].purpose = purpose
      /\ link'[Len(link) + 1].to = email
      /\ link'[Len(link) + 1].email = email
  BY <1>1, Issuing
<1>3. SessionsMoved(t)
  BY <1>1, SessionsStay
<1>4. /\ Holds(t)'
      /\ request' \in [Tab -> Request]
      /\ \A u \in Tab : u # t => request'[u] = request[u]
      /\ Asks(t)' => Active
  BY IssueHolds
<1>5. Active' = Active
  BY DEF Active
<1>6. Addressed'
  BY <1>1, <1>2, <1>5 DEF Addressed, LinksMoved
<1>7. SessionsShown'
  BY <1>1, <1>3, PasswordKept
<1>8. AddressProven'
  BY <1>1, <1>2, <1>5, ProofKept
<1>9. PasswordStands
  BY DEF PasswordStands
<1>10. QED
  BY <1>1, <1>2, <1>3, <1>4, <1>5, <1>6, <1>7, <1>8, <1>9, Stepped

LEMMA RequestLinkHolds ==
  ASSUME IdentityInv, NEW t \in Tab, RequestEmailVerification(t) \/ RequestPasswordReset(t)
  PROVE  IdentityInv'
<1>1. account # None /\ account \in Account
  BY Known DEF RequestEmailVerification, RequestPasswordReset, Active
<1>2. account.email \in Email
  BY <1>1 DEF Account
<1>3. CASE RequestEmailVerification(t)
  BY <1>1, <1>2, <1>3, IssueSteps DEF RequestEmailVerification
<1>4. CASE RequestPasswordReset(t)
  BY <1>1, <1>2, <1>4, IssueSteps DEF RequestPasswordReset
<1>5. QED
  BY <1>3, <1>4

LEMMA PrepareHolds ==
  ASSUME IdentityInv, NEW t \in Tab, PrepareEmailChange(t)
  PROVE  IdentityInv'
<1> DEFINE email == request[t].email
<1>1. /\ IdentityTypeOK /\ Rooted /\ Names(t) /\ Unspent(t) /\ account \in Account \cup {None}
      /\ cookie \in 0 .. Len(session) /\ faults \in 0 .. MaxFaults
  BY Known
<1>2. request[t].step = "prepare" /\ Active /\ account # None /\ account \in Account
      /\ UNCHANGED <<session, hits, cookie, now, faults>>
  BY <1>1 DEF PrepareEmailChange, Rooted, Asks, Active
<1>3. email \in Email
  BY <1>1, <1>2 DEF Names
<1>4. CASE /\ account' = [account EXCEPT !.pendingEmail = email]
           /\ Issue(t, "email_change", email, email)
  <2>1. account' \in Account /\ account'.email = account.email
        /\ account'.status = account.status /\ account'.password = account.password
    BY <1>2, <1>3, <1>4 DEF Account
  <2>2. account' # None
    BY <2>1, NoneAssumption
  <2>3. QED
    BY <1>2, <1>3, <1>4, <2>1, <2>2, IssueSteps
<1>5. CASE Refused(t) /\ UNCHANGED <<account, link>>
  <2>1. SessionsMoved(t) /\ LinksMoved
    BY <1>1, <1>2, <1>5, SessionsStay, LinksStay
  <2>2. Failed(t, FALSE) /\ ~request[t].applied
    BY <1>1, <1>2, <1>5 DEF Refused, Unspent
  <2>3. /\ Holds(t)'
        /\ request' \in [Tab -> Request]
        /\ \A u \in Tab : u # t => request'[u] = request[u]
        /\ ~Asks(t)'
    BY <2>1, <2>2, FailedHolds
  <2>4. QED
    BY <1>1, <1>2, <1>5, <2>1, <2>3, AccountStays
<1>6. QED
  BY <1>4, <1>5 DEF PrepareEmailChange

LEMMA MailHolds ==
  ASSUME IdentityInv, NEW t \in Tab, Mail(t)
  PROVE  IdentityInv'
<1>1. /\ IdentityTypeOK /\ Rooted /\ Names(t) /\ Unspent(t) /\ Shown(t)
      /\ cookie \in 0 .. Len(session) /\ faults \in 0 .. MaxFaults
  BY Known
<1>2. /\ request[t].step = "mail"
      /\ link' = [link EXCEPT ![request[t].link].mailed = TRUE]
      /\ UNCHANGED <<account, session, hits, cookie, now, faults>>
  BY DEF Mail
<1>3. request[t].link \in DOMAIN link
  BY <1>1, <1>2, RequestRow, Lengths DEF Names
<1>4. LinksMoved /\ Len(link') = Len(link) /\ SessionsMoved(t)
  BY <1>1, <1>2, <1>3, Marking, SessionsStay
<1>5. CASE request[t].session = 0 /\ Answered(t)
  <2>1. /\ Holds(t)'
        /\ request' \in [Tab -> Request]
        /\ \A u \in Tab : u # t => request'[u] = request[u]
        /\ ~Asks(t)'
    BY <1>4, <1>5, AnsweredHolds
  <2>2. QED
    BY <1>1, <1>2, <1>4, <2>1, AccountStays
<1>6. CASE request[t].session # 0 /\ Go(t, "rotate")
  <2>1. /\ request' \in [Tab -> Request]
        /\ \A u \in Tab : u # t => request'[u] = request[u]
        /\ request'[t].step = "rotate"
        /\ request'[t].session = request[t].session
        /\ request'[t].new = request[t].new
        /\ request'[t].prior = request[t].prior
        /\ request'[t].link = request[t].link
        /\ request'[t].applied = request[t].applied
        /\ request'[t].verified = request[t].verified
    BY <1>1, <1>6, Going
  <2>2. Names(t)'
    BY <1>1, <1>2, <1>4, <1>6, <2>1 DEF Names
  <2>3. Unspent(t)'
    BY <1>1, <1>2, <1>6, <2>1 DEF Unspent
  <2>4. Holds(t)'
    <3>1. Shown(t)'
      BY <1>1, <1>2, <1>6, <2>1 DEF Shown
    <3>2. QED
      BY <2>1, <2>2, <2>3, <3>1 DEF Holds, Reported
  <2>5. Active
    BY <1>1, <1>2, <1>6 DEF Rooted, Asks
  <2>6. QED
    BY <1>1, <1>2, <1>4, <2>1, <2>4, <2>5, AccountStays
<1>7. QED
  BY <1>5, <1>6 DEF Mail

LEMMA ConfirmEmailHolds ==
  ASSUME IdentityInv, NEW t \in Tab, NEW k \in DOMAIN link, ConfirmEmail(t, k)
  PROVE  IdentityInv'
<1>1. /\ IdentityTypeOK /\ Rooted /\ Names(t) /\ Addressed /\ AddressProven
      /\ SessionsShown /\ account \in Account \cup {None}
      /\ cookie \in 0 .. Len(session) /\ faults \in 0 .. MaxFaults
  BY Known
<1>2. /\ Free(t) /\ link[k].mailed
      /\ UNCHANGED <<session, hits, cookie, now, faults>>
  BY DEF ConfirmEmail
<1>3. account # None /\ account \in Account
  BY <1>1 DEF Rooted
<1>4. link[k] \in Link
  BY <1>1, LinkRow
<1>5. SessionsMoved(t)
  BY <1>1, <1>2, SessionsStay
<1>6. CASE Consumable(k) /\ account' = Confirmed(k) /\ link' = Used(k) /\ Answered(t)
  <2>1. LinksMoved /\ Len(link') = Len(link) /\ DOMAIN link' = DOMAIN link
    BY <1>1, <1>6, Marking, Lengths DEF LinksMoved
  <2>2. link'[k].state = "used" /\ link'[k].mailed /\ link'[k].to = link[k].email
    <3>1. link' = [link EXCEPT ![k] = [link[k] EXCEPT !.state = "used"]]
      BY <1>6 DEF Used
    <3>2. link'[k] = [link[k] EXCEPT !.state = "used"]
      BY <3>1
    <3>3. QED
      BY <1>1, <1>2, <1>4, <3>2 DEF Link, Addressed
  <2>3. /\ account' \in Account /\ account'.password = account.password
        /\ account'.status = "active" /\ account'.email = link[k].email
    <3>1. CASE link[k].purpose = "initial"
      <4>1. ~Active /\ account' = [account EXCEPT !.status = "active"]
        BY <1>6, <3>1 DEF Consumable, Confirmed
      <4>2. link[k].email = account.email
        BY <1>1, <4>1 DEF Addressed
      <4>3. QED
        BY <1>3, <4>1, <4>2 DEF Account
    <3>2. CASE link[k].purpose # "initial"
      <4>1. /\ link[k].purpose = "email_change"
            /\ account' = [account EXCEPT !.email = link[k].email, !.pendingEmail = None]
        BY <1>6, <3>2 DEF Consumable, Confirmed
      <4>2. Active
        BY <1>1, <4>1 DEF Addressed
      <4>3. QED
        BY <1>3, <1>4, <4>1, <4>2 DEF Account, Link, Active
    <3>3. QED
      BY <3>1, <3>2
  <2>4. account' # None /\ Active'
    BY <2>3, NoneAssumption DEF Active
  <2>5. AddressProven'
    BY <2>1, <2>2, <2>3 DEF AddressProven
  <2>6. Addressed'
    BY <1>1, <2>1, <2>4 DEF Addressed, LinksMoved
  <2>7. SessionsShown'
    BY <1>1, <1>2, <1>5, <2>3, PasswordKept
  <2>8. /\ Holds(t)'
        /\ request' \in [Tab -> Request]
        /\ \A u \in Tab : u # t => request'[u] = request[u]
        /\ ~Asks(t)'
    BY <1>5, <1>6, <2>1, AnsweredHolds
  <2>9. PasswordStands
    BY <2>3 DEF PasswordStands
  <2>10. QED
    BY <1>1, <1>2, <1>5, <2>1, <2>3, <2>4, <2>5, <2>6, <2>7, <2>8, <2>9, Stepped
<1>7. CASE Refused(t) /\ UNCHANGED <<account, link>>
  <2>1. LinksMoved
    BY <1>1, <1>7, LinksStay
  <2>2. Failed(t, FALSE)
    BY <1>7 DEF Refused
  <2>3. /\ Holds(t)'
        /\ request' \in [Tab -> Request]
        /\ \A u \in Tab : u # t => request'[u] = request[u]
        /\ ~Asks(t)'
    BY <1>2, <1>5, <2>1, <2>2, FailedHolds
  <2>4. QED
    BY <1>1, <1>2, <1>5, <1>7, <2>1, <2>3, AccountStays
<1>8. QED
  BY <1>6, <1>7 DEF ConfirmEmail

\* A new password, and every session before it ended.
LEMMA PasswordSteps ==
  ASSUME IdentityInv, NEW t \in Tab, account # None, account.password < MaxPasswords,
         account' = NextPassword, session' = RevokedBy(t, DOMAIN session)
  PROVE  /\ SessionsMoved(t) /\ Len(session') = Len(session)
         /\ account' \in Account /\ account' # None /\ Active' = Active
         /\ account'.email = account.email
         /\ SessionsShown' /\ PasswordStands
<1>1. IdentityTypeOK /\ account \in Account /\ SessionsShown
  BY Known
<1>2. /\ SessionsMoved(t) /\ Len(session') = Len(session)
      /\ \A s \in DOMAIN session : session'[s].by # None
  BY <1>1, Revoking
<1>3. account.password \in 1 .. MaxPasswords /\ MaxPasswords \in Nat
  BY <1>1, IdentityAssumption DEF Account
<1>4. /\ account' \in Account /\ account'.email = account.email
      /\ account'.status = account.status
  BY <1>1, <1>3 DEF NextPassword, Account
<1>5. account' # None
  BY <1>4, NoneAssumption
<1>6. DOMAIN session' = DOMAIN session
  BY <1>1, <1>2, Lengths DEF SessionsMoved
<1>7. SessionsShown' /\ PasswordStands
  BY <1>1, <1>2, <1>6 DEF SessionsShown, SessionsMoved, SamePasswords, PasswordStands
<1>8. Active' = Active
  BY <1>4, <1>5 DEF Active
<1>9. QED
  BY <1>2, <1>4, <1>5, <1>7, <1>8

LEMMA ConfirmResetHolds ==
  ASSUME IdentityInv, NEW t \in Tab, NEW k \in DOMAIN link, ConfirmPasswordReset(t, k)
  PROVE  IdentityInv'
<1>1. /\ IdentityTypeOK /\ Rooted /\ Names(t) /\ Addressed /\ AddressProven
      /\ SessionsShown /\ account \in Account \cup {None}
      /\ cookie \in 0 .. Len(session) /\ faults \in 0 .. MaxFaults
  BY Known
<1>2. Free(t) /\ UNCHANGED <<hits, cookie, now, faults>>
  BY DEF ConfirmPasswordReset
<1>3. account # None /\ account \in Account
  BY <1>1 DEF Rooted
<1>4. CASE /\ account.password < MaxPasswords
           /\ account' = NextPassword
           /\ session' = RevokedBy(t, DOMAIN session)
           /\ link' = Used(k)
           /\ Answered(t)
  <2>1. LinksMoved /\ Len(link') = Len(link) /\ DOMAIN link' = DOMAIN link
    BY <1>1, <1>4, Marking, Lengths DEF LinksMoved
  <2>2. /\ SessionsMoved(t) /\ Len(session') = Len(session)
        /\ account' \in Account /\ account' # None /\ Active' = Active
        /\ account'.email = account.email
        /\ SessionsShown' /\ PasswordStands
    BY <1>3, <1>4, PasswordSteps
  <2>3. Addressed'
    BY <1>1, <2>1, <2>2 DEF Addressed, LinksMoved
  <2>4. AddressProven'
    BY <1>1, <2>1, <2>2, ProofKept
  <2>5. /\ Holds(t)'
        /\ request' \in [Tab -> Request]
        /\ \A u \in Tab : u # t => request'[u] = request[u]
        /\ ~Asks(t)'
    BY <1>4, <2>1, <2>2, AnsweredHolds
  <2>6. cookie' \in 0 .. Len(session')
    BY <1>1, <1>2, <2>2
  <2>7. QED
    BY <1>1, <1>2, <2>1, <2>2, <2>3, <2>4, <2>5, <2>6, Stepped
<1>5. CASE Refused(t) /\ UNCHANGED <<account, session, link>>
  <2>1. LinksMoved /\ SessionsMoved(t)
    BY <1>1, <1>5, LinksStay, SessionsStay
  <2>2. Failed(t, FALSE)
    BY <1>5 DEF Refused
  <2>3. /\ Holds(t)'
        /\ request' \in [Tab -> Request]
        /\ \A u \in Tab : u # t => request'[u] = request[u]
        /\ ~Asks(t)'
    BY <1>2, <2>1, <2>2, FailedHolds
  <2>4. QED
    BY <1>1, <1>2, <1>5, <2>1, <2>3, AccountStays
<1>6. QED
  BY <1>4, <1>5 DEF ConfirmPasswordReset

\* The password is checked, the session not opened yet.
LEMMA LoginHolds ==
  ASSUME IdentityInv, NEW t \in Tab, Login(t)
  PROVE  IdentityInv'
<1> DEFINE q == [Quiet EXCEPT !.step = "create", !.prior = cookie,
                              !.verified = account.password, !.checked = account.password]
<1>1. /\ IdentityTypeOK /\ request \in [Tab -> Request]
      /\ cookie \in 0 .. Len(session) /\ faults \in 0 .. MaxFaults
  BY Known
<1>2. /\ Active /\ Set(t, q) /\ Len(session) < MaxSessions
      /\ UNCHANGED <<account, session, link, hits, cookie, now, faults>>
  BY DEF Login
<1>3. SessionsMoved(t) /\ LinksMoved /\ Len(session) \in Nat /\ Len(link) \in Nat
  BY <1>1, <1>2, SessionsStay, LinksStay, Lengths
<1>4. /\ cookie \in 0 .. MaxSessions /\ cookie <= Len(session)
      /\ account.password \in 1 .. MaxPasswords /\ account.password \in 0 .. MaxPasswords
  BY <1>1, <1>2, <1>3, IdentityAssumption DEF IdentityTypeOK, Account, Active
<1>5. /\ q \in Request
      /\ q.step = "create" /\ q.prior = cookie /\ q.session = 0 /\ q.new = 0 /\ q.link = 0
      /\ q.applied = FALSE /\ q.verified = account.password /\ q.checked = account.password
  BY <1>4, QuietRequest DEF Request
<1> HIDE DEF q
<1>6. /\ request'[t] = q /\ request' \in [Tab -> Request]
      /\ \A u \in Tab : u # t => request'[u] = request[u]
  BY <1>1, <1>2, <1>5, SetRequest
<1>7. Holds(t)'
  BY <1>2, <1>3, <1>4, <1>5, <1>6 DEF Holds, Names, Unspent, Shown, Reported
<1>8. QED
  BY <1>1, <1>2, <1>3, <1>6, <1>7, AccountStays

LEMMA CreateSessionHolds ==
  ASSUME IdentityInv, NEW t \in Tab, CreateSession(t)
  PROVE  IdentityInv'
<1> DEFINE q == [request[t] EXCEPT !.step = "authenticate", !.new = Len(session) + 1]
<1>1. /\ IdentityTypeOK /\ request \in [Tab -> Request] /\ Rooted /\ Addressed
      /\ Names(t) /\ Unspent(t) /\ Shown(t) /\ SessionsShown /\ AddressProven
      /\ cookie \in 0 .. Len(session) /\ faults \in 0 .. MaxFaults /\ t # None
  BY Known
<1>2. /\ request[t].step = "create" /\ Set(t, q) /\ Len(session) < MaxSessions
      /\ session' = Append(session, Opened(t))
      /\ UNCHANGED <<account, link, hits, cookie, now, faults>>
  BY DEF CreateSession
<1>3. Active /\ account # None
  BY <1>1, <1>2 DEF Rooted, Asks, Active
<1>4. /\ SessionsMoved(t)
      /\ Len(session') = Len(session) + 1
      /\ session'[Len(session) + 1].opened = account.password
      /\ session'[Len(session) + 1].verified = session'[Len(session) + 1].checked
      /\ session'[Len(session) + 1].by = None
  BY <1>1, <1>2, <1>3, Opening DEF Shown
<1>5. LinksMoved /\ Len(session) \in Nat /\ Len(link) \in Nat /\ DOMAIN session = 1 .. Len(session)
      /\ DOMAIN session' = 1 .. Len(session')
  BY <1>1, <1>2, LinksStay, Lengths, <1>4 DEF SessionsMoved
<1>6. Len(session) + 1 \in 0 .. MaxSessions
  BY <1>2, <1>5, IdentityAssumption
<1>7. request[t] \in Request
  BY <1>1
<1>8. /\ q \in Request
      /\ q.step = "authenticate"
      /\ q.new = Len(session) + 1 /\ q.session = request[t].session
      /\ q.prior = request[t].prior /\ q.link = request[t].link
      /\ q.applied = request[t].applied
  BY <1>6, <1>7 DEF Request
<1> HIDE DEF q
<1>9. /\ request'[t] = q /\ request' \in [Tab -> Request]
      /\ \A u \in Tab : u # t => request'[u] = request[u]
  BY <1>1, <1>2, <1>8, SetRequest
<1>10. Names(t)'
  <2>1. /\ q.session \in Nat /\ q.prior \in Nat /\ q.link \in Nat
        /\ q.session <= Len(session) /\ q.prior <= Len(session) /\ q.link <= Len(link')
    BY <1>1, <1>2, <1>8, RequestRow DEF Names
  <2>2. QED
    BY <1>2, <1>4, <1>5, <1>8, <1>9, <2>1 DEF Names
<1>11. Unspent(t)' /\ Shown(t)'
  BY <1>1, <1>2, <1>4, <1>8, <1>9 DEF Unspent, Shown
<1>12. Holds(t)'
  BY <1>8, <1>9, <1>10, <1>11 DEF Holds, Reported
<1>13. SessionsShown'
  <2>1. SUFFICES ASSUME NEW s \in DOMAIN session'
                 PROVE  /\ session'[s].verified = session'[s].checked
                        /\ session'[s].by = None => session'[s].opened = account.password
    BY <1>2 DEF SessionsShown
  <2>2. CASE s = Len(session) + 1
    BY <1>4, <2>2
  <2>3. CASE s \in DOMAIN session
    BY <1>1, <1>4, <2>3 DEF SessionsShown, SessionsMoved, SamePasswords
  <2>4. QED
    BY <1>4, <1>5, <2>2, <2>3
<1>14. Addressed' /\ AddressProven' /\ Active' = Active /\ PasswordStands
  BY <1>1, <1>2 DEF Addressed, AddressProven, Active, PasswordStands
<1>15. account' \in Account \cup {None} /\ account' # None /\ cookie' \in 0 .. Len(session')
  BY <1>1, <1>2, <1>3, <1>4, <1>5 DEF IdentityTypeOK
<1>16. QED
  BY <1>1, <1>2, <1>3, <1>4, <1>5, <1>9, <1>12, <1>13, <1>14, <1>15, Stepped

\* The new session is accepted, or another request has revoked it.
LEMMA AuthenticateHolds ==
  ASSUME IdentityInv, NEW t \in Tab, AuthenticateNew(t)
  PROVE  IdentityInv'
<1> DEFINE s == request[t].new
<1>1. /\ IdentityTypeOK /\ request \in [Tab -> Request] /\ Rooted
      /\ Names(t) /\ Unspent(t)
      /\ cookie \in 0 .. Len(session) /\ faults \in 0 .. MaxFaults
  BY Known
<1>2. /\ request[t].step = "authenticate"
      /\ UNCHANGED <<account, session, link, hits, cookie, now, faults>>
  BY DEF AuthenticateNew
<1>3. /\ Active /\ SessionsMoved(t) /\ LinksMoved
      /\ s # 0 /\ session[s].by # t
  BY <1>1, <1>2, SessionsStay, LinksStay DEF Rooted, Asks, Names, Unspent
<1>4. CASE /\ session[s].by = None
           /\ Go(t, IF request[t].session = 0 THEN "limit" ELSE "answer")
  <2>1. PICK step \in {"limit", "answer"} :
          /\ Go(t, step)
          /\ step = "limit" => request[t].session = 0
    BY <1>4
  <2>2. /\ request' \in [Tab -> Request]
        /\ \A u \in Tab : u # t => request'[u] = request[u]
        /\ request'[t].step = step
        /\ request'[t].session = request[t].session
        /\ request'[t].new = request[t].new
        /\ request'[t].prior = request[t].prior
        /\ request'[t].link = request[t].link
        /\ request'[t].applied = request[t].applied
    BY <1>1, <2>1, Going
  <2>3. Holds(t)'
    BY <1>1, <1>2, <1>3, <2>1, <2>2 DEF Holds, Names, Unspent, Shown, Reported
  <2>4. QED
    BY <1>1, <1>2, <1>3, <2>2, <2>3, AccountStays
<1>5. CASE session[s].by # None /\ Refused(t)
  <2>1. Failed(t, FALSE)
    BY <1>5 DEF Refused
  <2>2. Standing(t) # 0 /\ session[Standing(t)].by \notin {t, None}
    BY <1>3, <1>5 DEF Standing
  <2>3. /\ Holds(t)'
        /\ request' \in [Tab -> Request]
        /\ \A u \in Tab : u # t => request'[u] = request[u]
        /\ ~Asks(t)'
    BY <1>3, <2>1, <2>2, FailedHolds
  <2>4. QED
    BY <1>1, <1>2, <1>3, <2>3, AccountStays
<1>6. QED
  BY <1>4, <1>5 DEF AuthenticateNew

LEMMA LimitLoginHolds ==
  ASSUME IdentityInv, NEW t \in Tab, LimitLogin(t)
  PROVE  IdentityInv'
<1> DEFINE h == InWindow(hits)
           s == request[t].new
<1>1. /\ IdentityTypeOK /\ request \in [Tab -> Request] /\ Rooted
      /\ Names(t) /\ Unspent(t) /\ now \in Nat
      /\ cookie \in 0 .. Len(session) /\ faults \in 0 .. MaxFaults
  BY Known
<1>2. request[t].step = "limit" /\ UNCHANGED <<account, link, cookie, now, faults>>
  BY DEF LimitLogin
<1>3. Active /\ s \in DOMAIN session /\ ~request[t].applied /\ LinksMoved
  BY <1>1, <1>2, RequestRow, Lengths, LinksStay DEF Rooted, Asks, Names, Unspent
<1>5. CASE /\ hits' = Append(h, now)
           /\ session' = [session EXCEPT ![s].admitted = now]
           /\ Go(t, "replace")
  <2>1. session[s] \in Session /\ session[s].idle <= session[s].absolute
    BY <1>1, <1>3, SessionRow
  <2>2. /\ session' = [i \in DOMAIN session |-> session'[i]]
        /\ \A i \in DOMAIN session : i # s => session'[i] = session[i]
        /\ session'[s] = [session[s] EXCEPT !.admitted = now]
    BY <1>3, <1>5
  <2>3. /\ session'[s] \in Session
        /\ session'[s].idle <= session'[s].absolute
        /\ SamePasswords(session'[s], session[s])
        /\ session'[s].by = session[s].by
    BY <1>1, <2>1, <2>2 DEF Session, SamePasswords
  <2>4. \A i \in DOMAIN session :
          /\ session'[i] \in Session
          /\ session'[i].idle <= session'[i].absolute
          /\ SamePasswords(session'[i], session[i])
          /\ session'[i].by = session[i].by
    BY <1>1, <2>2, <2>3, SessionRow DEF SamePasswords
  <2>5. SessionsMoved(t) /\ Len(session') = Len(session)
    BY <1>1, <2>2, <2>4, SessionsRewritten
  <2>6. /\ request' \in [Tab -> Request]
        /\ \A u \in Tab : u # t => request'[u] = request[u]
        /\ request'[t].step = "replace"
        /\ request'[t].session = request[t].session
        /\ request'[t].new = request[t].new
        /\ request'[t].prior = request[t].prior
        /\ request'[t].link = request[t].link
        /\ request'[t].applied = request[t].applied
    BY <1>1, <1>5, Going
  <2>7. Holds(t)'
    BY <1>1, <1>2, <2>5, <2>6 DEF Holds, Names, Unspent, Shown, Reported
  <2>8. QED
    BY <1>1, <1>2, <1>3, <1>5, <2>5, <2>6, <2>7, AccountStays
<1>6. CASE hits' = h /\ session' = RevokedBy(t, {s}) /\ Refused(t)
  <2>1. SessionsMoved(t) /\ Len(session') = Len(session)
    BY <1>1, <1>6, Revoking
  <2>2. Failed(t, FALSE)
    BY <1>6 DEF Refused
  <2>3. /\ Holds(t)'
        /\ request' \in [Tab -> Request]
        /\ \A u \in Tab : u # t => request'[u] = request[u]
        /\ ~Asks(t)'
    BY <1>3, <2>1, <2>2, FailedHolds
  <2>4. QED
    BY <1>1, <1>2, <1>3, <1>6, <2>1, <2>3, AccountStays
<1>7. QED
  BY <1>5, <1>6 DEF LimitLogin

LEMMA ReplaceHolds ==
  ASSUME IdentityInv, NEW t \in Tab, ReplaceSession(t)
  PROVE  IdentityInv'
<1>1. /\ IdentityTypeOK /\ request \in [Tab -> Request] /\ Rooted
      /\ Names(t) /\ Unspent(t)
      /\ cookie \in 0 .. Len(session) /\ faults \in 0 .. MaxFaults
  BY Known
<1>2. /\ request[t].step = "replace"
      /\ session' = RevokedBy(t, {request[t].prior})
      /\ Go(t, "answer")
      /\ UNCHANGED <<account, link, hits, cookie, now, faults>>
  BY DEF ReplaceSession
<1>3. Active /\ LinksMoved /\ SessionsMoved(t) /\ Len(session') = Len(session)
  BY <1>1, <1>2, LinksStay, Revoking DEF Rooted, Asks
<1>4. /\ request' \in [Tab -> Request]
      /\ \A u \in Tab : u # t => request'[u] = request[u]
      /\ request'[t].step = "answer"
      /\ request'[t].session = request[t].session
      /\ request'[t].new = request[t].new
      /\ request'[t].prior = request[t].prior
      /\ request'[t].link = request[t].link
  BY <1>1, <1>2, Going
<1>5. Holds(t)'
  BY <1>1, <1>2, <1>3, <1>4 DEF Holds, Names, Unspent, Shown, Reported
<1>6. QED
  BY <1>1, <1>2, <1>3, <1>4, <1>5, AccountStays

LEMMA CookieHolds ==
  ASSUME IdentityInv, NEW t \in Tab, SetSessionCookie(t)
  PROVE  IdentityInv'
<1>1. /\ IdentityTypeOK /\ Names(t) /\ faults \in 0 .. MaxFaults
  BY Known
<1>2. /\ request[t].step = "answer" /\ cookie' = request[t].new /\ Answered(t)
      /\ UNCHANGED <<account, session, link, hits, now, faults>>
  BY DEF SetSessionCookie
<1>3. SessionsMoved(t) /\ LinksMoved
  BY <1>1, <1>2, SessionsStay, LinksStay
<1>4. /\ Holds(t)'
      /\ request' \in [Tab -> Request]
      /\ \A u \in Tab : u # t => request'[u] = request[u]
      /\ ~Asks(t)'
  BY <1>2, <1>3, AnsweredHolds
<1>5. cookie' \in 0 .. Len(session')
  BY <1>1, <1>2, RequestRow, Lengths DEF Names
<1>6. QED
  BY <1>1, <1>2, <1>3, <1>4, <1>5, AccountStays

LEMMA IssueCsrfHolds ==
  ASSUME IdentityInv, NEW t \in Tab, IssueCsrf(t)
  PROVE  IdentityInv'
<1> DEFINE q == [Quiet EXCEPT !.step = "post"]
<1>1. /\ IdentityTypeOK /\ request \in [Tab -> Request]
      /\ cookie \in 0 .. Len(session) /\ faults \in 0 .. MaxFaults
  BY Known
<1>2. Free(t) /\ UNCHANGED <<account, link, hits, cookie, now, faults>>
  BY DEF IssueCsrf
<1>3. LinksMoved
  BY <1>1, <1>2, LinksStay
<1>4. CASE /\ Usable(cookie)
           /\ session' = [Touched(cookie) EXCEPT ![cookie].csrf = t]
           /\ Set(t, q)
  <2>1. Active /\ cookie \in DOMAIN session
    BY <1>4 DEF Usable
  <2>2. SessionsMoved(t) /\ Len(session') = Len(session)
    BY <1>1, <1>4, <2>1, Touching
  <2>3. q \in Request /\ q.step = "post" /\ q.session = 0 /\ q.new = 0 /\ q.prior = 0
        /\ q.link = 0 /\ q.applied = FALSE
    BY QuietRequest DEF Request
  <2> HIDE DEF q
  <2>4. /\ request'[t] = q /\ request' \in [Tab -> Request]
        /\ \A u \in Tab : u # t => request'[u] = request[u]
    BY <1>1, <1>4, <2>3, SetRequest
  <2>5. Len(session') \in Nat /\ Len(link') \in Nat
    BY <1>3, <2>2 DEF SessionsMoved, LinksMoved
  <2>6. Holds(t)'
    BY <2>3, <2>4, <2>5 DEF Holds, Names, Unspent, Shown, Reported
  <2>7. QED
    BY <1>1, <1>2, <1>3, <2>1, <2>2, <2>4, <2>6, AccountStays
<1>5. CASE Refused(t) /\ UNCHANGED session
  <2>1. SessionsMoved(t)
    BY <1>1, <1>5, SessionsStay
  <2>2. Failed(t, FALSE)
    BY <1>5 DEF Refused
  <2>3. /\ Holds(t)'
        /\ request' \in [Tab -> Request]
        /\ \A u \in Tab : u # t => request'[u] = request[u]
        /\ ~Asks(t)'
    BY <1>2, <1>3, <2>1, <2>2, FailedHolds
  <2>4. QED
    BY <1>1, <1>2, <1>3, <1>5, <2>1, <2>3, AccountStays
<1>6. QED
  BY <1>4, <1>5 DEF IssueCsrf

\* A mutation is sent with the cookie of the moment.
LEMMA PostHolds ==
  ASSUME IdentityInv, NEW t \in Tab, NEW step \in {"prepare", "revoke", "change", "logout"},
         NEW e \in Email \cup {None}, NEW p \in 0 .. Len(session),
         step = "prepare" => e \in Email, step = "revoke" => p # 0, Post(t, step, e, p)
  PROVE  IdentityInv'
<1> DEFINE v == IF step \in {"prepare", "change"} THEN account.password ELSE 0
           q == [Quiet EXCEPT !.step = step, !.session = cookie, !.email = e, !.prior = p,
                              !.verified = v]
<1>1. /\ IdentityTypeOK /\ request \in [Tab -> Request] /\ account \in Account \cup {None}
      /\ cookie \in 0 .. Len(session) /\ faults \in 0 .. MaxFaults /\ Unspent(t)
      /\ t # None
  BY Known
<1>2. request[t].step = "post" /\ UNCHANGED <<account, link, hits, cookie, now, faults>>
  BY DEF Post
<1>3. LinksMoved /\ ~request[t].applied
  BY <1>1, <1>2, LinksStay DEF Unspent
<1>4. CASE Authorized(t) /\ session' = Touched(cookie) /\ Set(t, q)
  <2>1. Active /\ cookie \in DOMAIN session /\ session[cookie].by = None
    BY <1>4 DEF Authorized, Usable
  <2>2. /\ SessionsMoved(t) /\ Len(session') = Len(session)
        /\ session'[cookie].by = None
    BY <1>1, <1>4, <2>1, Touching
  <2>3. /\ cookie \in 0 .. MaxSessions /\ p \in 0 .. MaxSessions
        /\ cookie # 0 /\ cookie <= Len(session) /\ p <= Len(session)
    BY <1>1, <2>1, Lengths, IdentityAssumption DEF IdentityTypeOK
  <2>4. account.password \in 1 .. MaxPasswords
    BY <1>1, <2>1 DEF Active, Account
  <2>5. v \in 0 .. MaxPasswords /\ (step = "prepare" => v = account.password)
    BY <2>4, IdentityAssumption
  <2> HIDE DEF v
  <2>6. /\ q \in Request
        /\ q.step = step /\ q.session = cookie /\ q.new = 0 /\ q.prior = p
        /\ q.link = 0 /\ q.applied = FALSE /\ q.email = e /\ q.verified = v
    BY <2>3, <2>5, QuietRequest DEF Request
  <2> HIDE DEF q
  <2>7. /\ request'[t] = q /\ request' \in [Tab -> Request]
        /\ \A u \in Tab : u # t => request'[u] = request[u]
    BY <1>1, <1>4, <2>6, SetRequest
  <2>8. Len(session') \in Nat /\ Len(link') \in Nat
    BY <1>3, <2>2 DEF SessionsMoved, LinksMoved
  <2>9. Names(t)'
    BY <2>2, <2>3, <2>6, <2>7, <2>8 DEF Names
  <2>10. Unspent(t)' /\ Shown(t)'
    BY <1>1, <1>2, <2>2, <2>6, <2>7, <2>4, <2>5 DEF Unspent, Shown
  <2>11. Holds(t)'
    BY <2>6, <2>7, <2>9, <2>10 DEF Holds, Reported
  <2>12. QED
    BY <1>1, <1>2, <1>3, <2>1, <2>2, <2>7, <2>11, AccountStays
<1>5. CASE Refused(t) /\ session' = IF Usable(cookie) THEN Touched(cookie) ELSE session
  <2>1. SessionsMoved(t) /\ Len(session') = Len(session)
    <3>1. CASE Usable(cookie)
      BY <1>1, <1>5, <3>1, Touching DEF Usable
    <3>2. CASE ~Usable(cookie)
      BY <1>1, <1>5, <3>2, SessionsStay
    <3>3. QED
      BY <3>1, <3>2
  <2>2. Failed(t, FALSE)
    BY <1>5 DEF Refused
  <2>3. /\ Holds(t)'
        /\ request' \in [Tab -> Request]
        /\ \A u \in Tab : u # t => request'[u] = request[u]
        /\ ~Asks(t)'
    BY <1>3, <2>1, <2>2, FailedHolds
  <2>4. QED
    BY <1>1, <1>2, <1>3, <2>1, <2>3, AccountStays
<1>6. QED
  BY <1>4, <1>5 DEF Post

LEMMA RotateHolds ==
  ASSUME IdentityInv, NEW t \in Tab, RotateSession(t)
  PROVE  IdentityInv'
<1> DEFINE s == request[t].session
           q == [request[t] EXCEPT !.step = "create", !.checked = account.password]
<1>1. /\ IdentityTypeOK /\ request \in [Tab -> Request] /\ Rooted
      /\ Names(t) /\ Unspent(t) /\ Shown(t)
      /\ cookie \in 0 .. Len(session) /\ faults \in 0 .. MaxFaults
  BY Known
<1>2. /\ request[t].step = "rotate" /\ session' = RevokedBy(t, {s})
      /\ UNCHANGED <<account, link, hits, cookie, now, faults>>
  BY DEF RotateSession
<1>3. /\ Active /\ LinksMoved /\ SessionsMoved(t) /\ Len(session') = Len(session)
      /\ s # 0 /\ session[s].by # t
  BY <1>1, <1>2, LinksStay, Revoking DEF Rooted, Asks, Names, Unspent
<1>4. CASE session[s].by = None /\ Set(t, q)
  <2>1. /\ request[t].verified = account.password
        /\ request[t].verified \in 1 .. MaxPasswords
        /\ account.password \in 0 .. MaxPasswords
        /\ request[t] \in Request
    BY <1>1, <1>2, <1>4, RequestRow DEF Shown
  <2>2. /\ q \in Request /\ q.step = "create" /\ q.session = request[t].session
        /\ q.new = request[t].new /\ q.prior = request[t].prior
        /\ q.link = request[t].link
        /\ q.verified = request[t].verified /\ q.checked = request[t].verified
    BY <2>1 DEF Request
  <2> HIDE DEF q
  <2>3. /\ request'[t] = q /\ request' \in [Tab -> Request]
        /\ \A u \in Tab : u # t => request'[u] = request[u]
    BY <1>1, <1>4, <2>2, SetRequest
  <2>4. Names(t)' /\ Unspent(t)'
    BY <1>1, <1>2, <1>3, <2>2, <2>3 DEF Names, Unspent
  <2>5. Holds(t)'
    BY <2>1, <2>2, <2>3, <2>4 DEF Holds, Shown, Reported
  <2>6. QED
    BY <1>1, <1>2, <1>3, <2>3, <2>5, AccountStays
<1>5. CASE session[s].by # None /\ Refused(t)
  <2>1. Failed(t, FALSE)
    BY <1>5 DEF Refused
  <2>2. Standing(t) # 0 /\ session[Standing(t)].by \notin {t, None}
    BY <1>1, <1>2, <1>3, <1>5 DEF Standing, Unspent
  <2>3. /\ Holds(t)'
        /\ request' \in [Tab -> Request]
        /\ \A u \in Tab : u # t => request'[u] = request[u]
        /\ ~Asks(t)'
    BY <1>3, <2>1, <2>2, FailedHolds
  <2>4. QED
    BY <1>1, <1>2, <1>3, <2>3, AccountStays
<1>6. QED
  BY <1>4, <1>5 DEF RotateSession

LEMMA ChangePasswordHolds ==
  ASSUME IdentityInv, NEW t \in Tab, ChangePassword(t)
  PROVE  IdentityInv'
<1> DEFINE q == [request[t] EXCEPT !.step = "create", !.applied = TRUE,
                                   !.verified = account'.password,
                                   !.checked = account'.password]
<1>1. /\ IdentityTypeOK /\ request \in [Tab -> Request] /\ Rooted /\ Addressed
      /\ Names(t) /\ Unspent(t) /\ AddressProven
      /\ cookie \in 0 .. Len(session) /\ faults \in 0 .. MaxFaults
  BY Known
<1>2. /\ request[t].step = "change" /\ account.password < MaxPasswords
      /\ account' = NextPassword /\ session' = RevokedBy(t, DOMAIN session)
      /\ Set(t, q)
      /\ UNCHANGED <<link, hits, cookie, now, faults>>
  BY DEF ChangePassword
<1>3. Active /\ account # None /\ LinksMoved
  BY <1>1, <1>2, LinksStay DEF Rooted, Asks, Active
<1>4. /\ SessionsMoved(t) /\ Len(session') = Len(session)
      /\ account' \in Account /\ account' # None /\ Active' = Active
      /\ account'.email = account.email
      /\ SessionsShown' /\ PasswordStands
  BY <1>2, <1>3, PasswordSteps
<1>5. /\ q \in Request
      /\ q.step = "create" /\ q.session = request[t].session /\ q.new = request[t].new
      /\ q.prior = request[t].prior /\ q.link = request[t].link
      /\ q.verified \in 1 .. MaxPasswords /\ q.checked = q.verified
  <2>1. account'.password \in 1 .. MaxPasswords /\ account'.password \in 0 .. MaxPasswords
    BY <1>4 DEF Account
  <2>2. request[t] \in Request
    BY <1>1
  <2>3. QED
    BY <2>1, <2>2 DEF Request
<1> HIDE DEF q
<1>6. /\ request'[t] = q /\ request' \in [Tab -> Request]
      /\ \A u \in Tab : u # t => request'[u] = request[u]
  BY <1>1, <1>2, <1>5, SetRequest
<1>7. Holds(t)'
  BY <1>1, <1>2, <1>4, <1>5, <1>6 DEF Holds, Names, Unspent, Shown, Reported
<1>8. Addressed' /\ AddressProven'
  BY <1>1, <1>2, <1>3, <1>4, ProofKept DEF Addressed
<1>9. cookie' \in 0 .. Len(session')
  BY <1>1, <1>2, <1>4
<1>10. QED
  BY <1>1, <1>2, <1>3, <1>4, <1>6, <1>7, <1>8, <1>9, Stepped

\* A revocation or a logout: an answer, or a session that was revoked before.
LEMMA EndSessionHolds ==
  ASSUME IdentityInv, NEW t \in Tab, RevokeSession(t) \/ Logout(t)
  PROVE  IdentityInv'
<1>1. /\ IdentityTypeOK /\ Rooted /\ Names(t) /\ Unspent(t)
      /\ cookie \in 0 .. Len(session) /\ faults \in 0 .. MaxFaults
  BY Known
<1>2. /\ request[t].step \in {"revoke", "logout"}
      /\ UNCHANGED <<account, link, hits, now, faults>>
      /\ cookie' \in {0, cookie}
      /\ Answered(t) \/ Failed(t, FALSE)
      /\ \E S : session' = RevokedBy(t, S)
  BY DEF RevokeSession, Logout, Refused
<1>3. /\ LinksMoved /\ SessionsMoved(t) /\ Len(session') = Len(session)
      /\ ~request[t].applied
  BY <1>1, <1>2, LinksStay, Revoking DEF Unspent
<1>4. /\ Holds(t)'
      /\ request' \in [Tab -> Request]
      /\ \A u \in Tab : u # t => request'[u] = request[u]
      /\ ~Asks(t)'
  <2>1. CASE Answered(t)
    BY <1>3, <2>1, AnsweredHolds
  <2>2. CASE Failed(t, FALSE)
    BY <1>3, <2>2, FailedHolds
  <2>3. QED
    BY <1>2, <2>1, <2>2
<1>5. cookie' \in 0 .. Len(session')
  BY <1>1, <1>2, <1>3, Lengths
<1>6. QED
  BY <1>1, <1>2, <1>3, <1>4, <1>5, AccountStays

LEMMA CallFailsHolds ==
  ASSUME IdentityInv, NEW t \in Tab, CallFails(t)
  PROVE  IdentityInv'
<1>1. IdentityTypeOK /\ cookie \in 0 .. Len(session) /\ faults \in 0 .. MaxFaults
  BY Known
<1>2. /\ faults < MaxFaults /\ faults' = faults + 1 /\ Failed(t, TRUE)
      /\ UNCHANGED <<account, session, link, hits, cookie, now>>
  BY DEF CallFails
<1>3. SessionsMoved(t) /\ LinksMoved
  BY <1>1, <1>2, SessionsStay, LinksStay
<1>4. /\ Holds(t)'
      /\ request' \in [Tab -> Request]
      /\ \A u \in Tab : u # t => request'[u] = request[u]
      /\ ~Asks(t)'
  BY <1>2, <1>3, FailedHolds
<1>5. faults' \in 0 .. MaxFaults
  BY <1>1, <1>2, IdentityAssumption
<1>6. QED
  BY <1>1, <1>2, <1>3, <1>4, <1>5, AccountStays

\* The clock passes, or nothing happens.
LEMMA TimePasses ==
  ASSUME IdentityInv, now' \in 0 .. MaxTime,
         UNCHANGED <<account, session, link, hits, cookie, request, faults>>
  PROVE  IdentityInv'
<1>1. IdentityTypeOK'
  BY DEF IdentityInv, IdentityTypeOK
<1>2. Rooted' /\ Addressed'
  BY DEF IdentityInv, Rooted, Asks, Active, Addressed
<1>3. \A t \in Tab : Holds(t)'
  BY DEF IdentityInv, Holds, Names, Unspent, Shown, Reported, Standing
<1>4. SessionsShown' /\ AddressProven'
  BY DEF IdentityInv, SessionsShown, AddressProven, Active
<1>5. QED
  BY <1>1, <1>2, <1>3, <1>4 DEF IdentityInv

-----------------------------------------------------------------------------
(* Theorems *)

LEMMA InitHolds == IdentityInit => IdentityInv
<1> SUFFICES ASSUME IdentityInit PROVE IdentityInv
  OBVIOUS
<1>1. /\ account = None /\ session = <<>> /\ link = <<>> /\ cookie = 0
      /\ request = [t \in Tab |-> Quiet] /\ now = 0 /\ faults = 0
  BY DEF IdentityInit
<1>2. Len(session) = 0 /\ DOMAIN session = {} /\ Len(link) = 0 /\ DOMAIN link = {}
  BY <1>1
<1>3. MaxSessions \in Nat /\ MaxLinks \in Nat /\ MaxTime \in Nat /\ MaxFaults \in Nat
  BY IdentityAssumption
<1>4. IdentityTypeOK
  BY <1>1, <1>2, <1>3, QuietRequest DEF IdentityTypeOK
<1>5. \A t \in Tab : Holds(t) /\ ~Asks(t)
  BY <1>1, <1>2, QuietRequest DEF Holds, Names, Unspent, Shown, Reported, Asks
<1>6. Rooted /\ Addressed /\ SessionsShown /\ AddressProven
  BY <1>1, <1>2, <1>5 DEF Rooted, Addressed, SessionsShown, AddressProven, Active
<1>7. QED
  BY <1>4, <1>5, <1>6 DEF IdentityInv

LEMMA NextHolds == IdentityInv /\ [IdentityNext]_identityVars => IdentityInv'
<1> SUFFICES ASSUME IdentityInv, [IdentityNext]_identityVars PROVE IdentityInv'
  OBVIOUS
<1>1. CASE UNCHANGED identityVars
  BY <1>1, TimePasses, IdentityAssumption DEF identityVars, IdentityInv, IdentityTypeOK
<1>2. CASE Tick
  <2>1. now' \in 0 .. MaxTime
    BY <1>2, IdentityAssumption DEF Tick, IdentityInv, IdentityTypeOK
  <2>2. QED
    BY <1>2, <2>1, TimePasses DEF Tick
<1>3. ASSUME NEW t \in Tab, LinkStep(t)
      PROVE  IdentityInv'
  BY <1>3, RegisterHolds, RequestLinkHolds, MailHolds, ConfirmEmailHolds, ConfirmResetHolds
     DEF LinkStep
<1>4. ASSUME NEW t \in Tab, SessionStep(t)
      PROVE  IdentityInv'
  BY <1>4, LoginHolds, CreateSessionHolds, AuthenticateHolds, LimitLoginHolds, ReplaceHolds, CookieHolds,
     IssueCsrfHolds DEF SessionStep
<1>5. ASSUME NEW t \in Tab, MutationStep(t)
      PROVE  IdentityInv'
  <2>1. DOMAIN session = 1 .. Len(session) /\ Len(session) \in Nat
    BY Known, <1>5, Lengths
  <2>2. ASSUME NEW e \in Email, Post(t, "prepare", e, 0)
        PROVE  IdentityInv'
    BY <2>1, <2>2, PostHolds
  <2>3. ASSUME NEW s \in Listed, Post(t, "revoke", None, s)
        PROVE  IdentityInv'
    BY <2>1, <2>3, PostHolds DEF Listed
  <2>4. CASE Post(t, "change", None, 0)
    BY <2>1, <2>4, PostHolds
  <2>5. CASE Post(t, "logout", None, 0)
    BY <2>1, <2>5, PostHolds
  <2>6. QED
    BY <1>5, <2>2, <2>3, <2>4, <2>5, PrepareHolds, RotateHolds, ChangePasswordHolds,
       EndSessionHolds DEF MutationStep
<1>6. ASSUME NEW t \in Tab, CallFails(t)
      PROVE  IdentityInv'
  BY <1>6, CallFailsHolds
<1>7. QED
  BY <1>1, <1>2, <1>3, <1>4, <1>5, <1>6 DEF IdentityNext

\* Accounts, sessions, links and requests keep their types, and what a request
\* names is there, whatever the tabs do (identity-service.ts, identity-http.ts).
THEOREM IdentityInvariant == IdentitySpec => []IdentityInv
BY InitHolds, NextHolds, PTL DEF IdentitySpec

\* A session that is still accepted was inserted after the last change or reset,
\* and the request that opened it had shown, or set, the present password, but
\* for one that a change overtook between its check and its insertion
\* (identity-service.ts, login, changePassword, rotateSession and createSession).
THEOREM PasswordsEndSessions == IdentitySpec => []PasswordEndsSessions
<1>1. IdentityInv => PasswordEndsSessions
  BY DEF IdentityInv, SessionsShown, PasswordEndsSessions, Overtaken
<1>2. QED
  BY <1>1, IdentityInvariant, PTL

\* The address of an active account was confirmed by a link mailed to it
\* (identity_consume_verification).
THEOREM AddressesProven == IdentitySpec => []AddressProven
<1>1. IdentityInv => AddressProven
  BY DEF IdentityInv
<1>2. QED
  BY <1>1, IdentityInvariant, PTL

\* A request that took effect and is answered with an error lost a call, or
\* another request ended the session it goes by: the one it was sent with, or the
\* replacement before it was looked up again (createSession, rotateSession).
THEOREM EffectsReported == IdentitySpec => []EffectReported
<1>1. IdentityInv => EffectReported
  BY DEF IdentityInv, Holds, Reported, EffectReported
<1>2. QED
  BY <1>1, IdentityInvariant, PTL
=============================================================================
