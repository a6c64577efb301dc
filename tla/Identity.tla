------------------------------- MODULE Identity -------------------------------
(***************************************************************************)
(* One account and its browser: registration, the links sent by mail,      *)
(* sessions, and the requests of the browser's tabs.  A tab asks for a     *)
(* CSRF token before each mutation, and the tabs share one cookie; the     *)
(* service checks a password, changes rows and opens a session in separate *)
(* steps, which the requests of the other tab and the clock come between.  *)
(*                                                                         *)
(* A transaction, or a call of a database function, is one step; a request *)
(* that loses the database, Redis or the mail server fails where it is.    *)
(***************************************************************************)
EXTENDS Naturals, Sequences, FiniteSets

CONSTANTS
  Tab,           \* the tabs of the browser, each with at most one request
  Email,         \* addresses
  Home,          \* the address the account is registered with
  Taken,         \* addresses of other accounts
  None,
  IdleTtl,       \* SESSION_IDLE_TTL_SECONDS
  AbsoluteTtl,   \* SESSION_ABSOLUTE_TTL_SECONDS
  LinkTtl,       \* how long a mailed link works
  LoginLimit,    \* RATE_LIMIT_LOGIN_MAX_REQUESTS
  Window,        \* RATE_LIMIT_WINDOW_SECONDS
  MaxTime, MaxSessions, MaxLinks, MaxPasswords, MaxFaults  \* bounds

ASSUME IdentityAssumption ==
  /\ Home \in Email \ Taken
  /\ {IdleTtl, AbsoluteTtl, LinkTtl, LoginLimit, Window} \subseteq Nat \ {0}
  /\ IdleTtl <= AbsoluteTtl  \* sessions_expiry_order_check would refuse any session
  /\ {MaxTime, MaxSessions, MaxLinks, MaxFaults} \subseteq Nat
  /\ MaxPasswords \in Nat \ {0}

VARIABLES
  account,   \* the row of users, or None
  session,   \* rows of sessions, in the order they are opened
  link,      \* rows of verification_tokens and password_reset_tokens
  hits,      \* the sorted set of the account's login bucket
  cookie,    \* the session whose token the browser holds, 0 for none
  request,   \* what each tab's request has reached
  now, faults

identityVars == <<account, session, link, hits, cookie, request, now, faults>>

-----------------------------------------------------------------------------
(* Rows.  A password is known by how many came before it.  A session keeps *)
(* the password its request showed or set ("verified"), the one in force   *)
(* when the request last looked at an account or a session ("checked"),    *)
(* and the one in force when it was inserted ("opened"); "admitted" is     *)
(* when its login passed the limiter, "by" whose request revoked it.       *)

Account ==
  [status : {"pending_verification", "active"}, email : Email,
   pendingEmail : Email \cup {None}, password : 1 .. MaxPasswords]

Session ==
  [idle : Nat, absolute : Nat, csrf : Tab \cup {None}, by : Tab \cup {None},
   verified : 1 .. MaxPasswords, checked : 1 .. MaxPasswords, opened : 1 .. MaxPasswords,
   admitted : Nat \cup {None}]

Link ==
  [purpose : {"initial", "email_change", "reset"}, to : Email, email : Email,
   state : {"live", "replaced", "used"}, expires : Nat, mailed : BOOLEAN]

Request ==
  [step : {"idle", "failed", "mail", "create", "authenticate", "limit", "replace", "answer",
           "post", "prepare", "rotate", "change", "revoke", "logout"},
   session : 0 .. MaxSessions, new : 0 .. MaxSessions, prior : 0 .. MaxSessions,
   link : 0 .. MaxLinks, email : Email \cup {None},
   verified : 0 .. MaxPasswords, checked : 0 .. MaxPasswords,
   applied : BOOLEAN, faulted : BOOLEAN]

ASSUME NoneAssumption == None \notin Account \cup Tab

Quiet ==
  [step |-> "idle", session |-> 0, new |-> 0, prior |-> 0, link |-> 0,
   email |-> None, verified |-> 0, checked |-> 0, applied |-> FALSE, faulted |-> FALSE]

Least(a, b) == IF a < b THEN a ELSE b

Active == account # None /\ account.status = "active"

\* identity_authenticate_session
Usable(s) ==
  /\ s \in DOMAIN session
  /\ session[s].by = None
  /\ now < session[s].idle
  /\ now < session[s].absolute
  /\ Active

Touched(s) ==
  [session EXCEPT ![s].idle = Least(now + IdleTtl, session[s].absolute)]

RevokedBy(t, S) ==
  [s \in DOMAIN session |->
     IF s \in S /\ session[s].by = None THEN [session[s] EXCEPT !.by = t] ELSE session[s]]

-----------------------------------------------------------------------------
(* RedisRateLimiter *)

InWindow(h) == SelectSeq(h, LAMBDA at : now < at + Window)

Admits(h) == Len(h) < LoginLimit

-----------------------------------------------------------------------------
(* Requests *)

Free(t) == request[t].step \in {"idle", "failed"}

Set(t, r) == request' = [request EXCEPT ![t] = r]

Answered(t) == Set(t, Quiet)

Go(t, step) == Set(t, [request[t] EXCEPT !.step = step])

\* A request answered with an error; of one that took effect, what remains.
Failed(t, faulted) ==
  Set(t, IF request[t].applied /\ ~Free(t)
           THEN [Quiet EXCEPT !.step = "failed", !.applied = TRUE, !.faulted = faulted,
                              !.session = request[t].session, !.new = request[t].new]
           ELSE Quiet)

Refused(t) == Failed(t, FALSE)

(* Links *)

\* Earlier links of the same purpose cease to work; the mail goes out next.
Issue(t, purpose, to, email) ==
  /\ Len(link) < MaxLinks
  /\ link' = Append([k \in DOMAIN link |->
                       IF link[k].purpose = purpose /\ link[k].state = "live"
                         THEN [link[k] EXCEPT !.state = "replaced"] ELSE link[k]],
                    [purpose |-> purpose, to |-> to, email |-> email, state |-> "live",
                     expires |-> now + LinkTtl, mailed |-> FALSE])
  /\ Set(t, [Quiet EXCEPT !.step = "mail", !.link = Len(link) + 1, !.applied = TRUE,
                          !.session = IF Free(t) THEN 0 ELSE request[t].session,
                          !.verified = request[t].verified])

\* An address in use is answered alike, and nothing is stored or sent.
Register(t) ==
  /\ Free(t)
  /\ account = None
  /\ account' = [status |-> "pending_verification", email |-> Home,
                 pendingEmail |-> None, password |-> 1]
  /\ Issue(t, "initial", Home, Home)
  /\ UNCHANGED <<session, hits, cookie, now, faults>>

RequestEmailVerification(t) ==
  /\ Free(t)
  /\ account # None /\ ~Active
  /\ Issue(t, "initial", account.email, account.email)
  /\ UNCHANGED <<account, session, hits, cookie, now, faults>>

RequestPasswordReset(t) ==
  /\ Free(t)
  /\ Active
  /\ Issue(t, "reset", account.email, account.email)
  /\ UNCHANGED <<account, session, hits, cookie, now, faults>>

\* SmtpIdentityMailer; a change of address goes on to rotate the session.
Mail(t) ==
  /\ request[t].step = "mail"
  /\ link' = [link EXCEPT ![request[t].link].mailed = TRUE]
  /\ IF request[t].session = 0 THEN Answered(t) ELSE Go(t, "rotate")
  /\ UNCHANGED <<account, session, hits, cookie, now, faults>>

Works(k) == link[k].mailed /\ link[k].state = "live" /\ now < link[k].expires

Used(k) == [link EXCEPT ![k].state = "used"]

\* identity_consume_verification; an address taken meanwhile violates the
\* unique index.
Consumable(k) ==
  /\ Works(k)
  /\ \/ link[k].purpose = "initial" /\ ~Active
     \/ /\ link[k].purpose = "email_change"
        /\ account.pendingEmail = link[k].email
        /\ link[k].email \notin Taken

Confirmed(k) ==
  IF link[k].purpose = "initial"
    THEN [account EXCEPT !.status = "active"]
    ELSE [account EXCEPT !.email = link[k].email, !.pendingEmail = None]

ConfirmEmail(t, k) ==
  /\ Free(t)
  /\ link[k].mailed /\ link[k].purpose # "reset"
  /\ \/ /\ Consumable(k)
        /\ account' = Confirmed(k)
        /\ link' = Used(k)
        /\ Answered(t)
     \/ /\ ~Consumable(k)
        /\ Refused(t)
        /\ UNCHANGED <<account, link>>
  /\ UNCHANGED <<session, hits, cookie, now, faults>>

NextPassword == [account EXCEPT !.password = @ + 1]

\* identity_reset_password
ConfirmPasswordReset(t, k) ==
  /\ Free(t)
  /\ link[k].mailed /\ link[k].purpose = "reset"
  /\ \/ /\ Works(k)
        /\ account.password < MaxPasswords
        /\ account' = NextPassword
        /\ session' = RevokedBy(t, DOMAIN session)
        /\ link' = Used(k)
        /\ Answered(t)
     \/ /\ ~Works(k)
        /\ Refused(t)
        /\ UNCHANGED <<account, session, link>>
  /\ UNCHANGED <<hits, cookie, now, faults>>

(* Sessions *)

\* The password is verified here, the session opened in a later step.
Login(t) ==
  /\ Free(t)
  /\ Active
  /\ Len(session) < MaxSessions
  /\ Set(t, [Quiet EXCEPT !.step = "create", !.prior = cookie,
                          !.verified = account.password, !.checked = account.password])
  /\ UNCHANGED <<account, session, link, hits, cookie, now, faults>>

\* identity_create_session looks at the account's status, not at its password.
Opened(t) ==
  [idle |-> now + IdleTtl, absolute |-> now + AbsoluteTtl, csrf |-> None, by |-> None,
   verified |-> request[t].verified, checked |-> request[t].checked,
   opened |-> account.password, admitted |-> None]

\* What if a replacement needed the session it replaces?
CreateFromLive(t) ==
  /\ request[t].step = "create"
  /\ Len(session) < MaxSessions
  /\ \/ /\ request[t].session # 0 => session[request[t].session].by = None
        /\ session' = Append(session, Opened(t))
        /\ Set(t, [request[t] EXCEPT !.step = "authenticate", !.new = Len(session) + 1])
     \/ /\ request[t].session # 0 /\ session[request[t].session].by # None
        /\ Refused(t)
        /\ UNCHANGED session
  /\ UNCHANGED <<account, link, hits, cookie, now, faults>>

CreateSession(t) ==
  /\ request[t].step = "create"
  /\ Len(session) < MaxSessions
  /\ session' = Append(session, Opened(t))
  /\ Set(t, [request[t] EXCEPT !.step = "authenticate", !.new = Len(session) + 1])
  /\ UNCHANGED <<account, link, hits, cookie, now, faults>>

\* The new session is looked up again, at the time it was opened at, so that its
\* expiry stays; another request may have revoked it.  A login goes on to the
\* limiter, a rotation to its answer.
AuthenticateNew(t) ==
  /\ request[t].step = "authenticate"
  /\ IF session[request[t].new].by = None
       THEN Go(t, IF request[t].session = 0 THEN "limit" ELSE "answer")
       ELSE Refused(t)
  /\ UNCHANGED <<account, session, link, hits, cookie, now, faults>>

\* A login over the limit is refused, its session revoked.
LimitLogin(t) ==
  LET h == InWindow(hits)
      s == request[t].new
  IN /\ request[t].step = "limit"
     /\ \/ /\ Admits(h)
           /\ hits' = Append(h, now)
           /\ session' = [session EXCEPT ![s].admitted = now]
           /\ Go(t, "replace")
        \/ /\ ~Admits(h)
           /\ hits' = h
           /\ session' = RevokedBy(t, {s})
           /\ Refused(t)
     /\ UNCHANGED <<account, link, cookie, now, faults>>

\* The session that the browser presented ends.
ReplaceSession(t) ==
  /\ request[t].step = "replace"
  /\ session' = RevokedBy(t, {request[t].prior})
  /\ Go(t, "answer")
  /\ UNCHANGED <<account, link, hits, cookie, now, faults>>

SetSessionCookie(t) ==
  /\ request[t].step = "answer"
  /\ cookie' = request[t].new
  /\ Answered(t)
  /\ UNCHANGED <<account, session, link, hits, now, faults>>

(* Mutations of a signed-in browser *)

\* GET /auth/csrf: the token before this one ceases to match.
IssueCsrf(t) ==
  /\ Free(t)
  /\ \/ /\ Usable(cookie)
        /\ session' = [Touched(cookie) EXCEPT ![cookie].csrf = t]
        /\ Set(t, [Quiet EXCEPT !.step = "post"])
     \/ /\ cookie # 0 /\ ~Usable(cookie)
        /\ Refused(t)
        /\ UNCHANGED session
  /\ UNCHANGED <<account, link, hits, cookie, now, faults>>

\* authorizeBrowserMutation
Authorized(t) == Usable(cookie) /\ session[cookie].csrf = t

\* The cookie sent is the one the browser holds by now.  A request that
\* needs the current password verifies it here.
Post(t, step, email, target) ==
  /\ request[t].step = "post"
  /\ \/ /\ Authorized(t)
        /\ session' = Touched(cookie)
        /\ Set(t, [Quiet EXCEPT !.step = step, !.session = cookie, !.email = email,
                                !.prior = target,
                                !.verified = IF step \in {"prepare", "change"}
                                               THEN account.password ELSE 0])
     \/ /\ ~Authorized(t)
        /\ session' = IF Usable(cookie) THEN Touched(cookie) ELSE session
        /\ Refused(t)
  /\ UNCHANGED <<account, link, hits, cookie, now, faults>>

\* What if the link went to the address that is being replaced?
PrepareMailsOldAddress(t) ==
  LET email == request[t].email IN
  /\ request[t].step = "prepare"
  /\ email # account.email
  /\ account' = [account EXCEPT !.pendingEmail = email]
  /\ Issue(t, "email_change", account.email, email)
  /\ UNCHANGED <<session, hits, cookie, now, faults>>

\* Row security shows the transaction the user's own row only.
PrepareEmailChange(t) ==
  LET email == request[t].email IN
  /\ request[t].step = "prepare"
  /\ \/ /\ email # account.email
        /\ account' = [account EXCEPT !.pendingEmail = email]
        /\ Issue(t, "email_change", email, email)
     \/ /\ email = account.email
        /\ Refused(t)
        /\ UNCHANGED <<account, link>>
  /\ UNCHANGED <<session, hits, cookie, now, faults>>

RotateSession(t) ==
  LET s == request[t].session IN
  /\ request[t].step = "rotate"
  /\ IF session[s].by = None
       THEN Set(t, [request[t] EXCEPT !.step = "create", !.checked = account.password])
       ELSE Refused(t)
  /\ session' = RevokedBy(t, {s})
  /\ UNCHANGED <<account, link, hits, cookie, now, faults>>

\* What if only the session that asked were ended?
ChangeEndsOwnSession(t) ==
  /\ request[t].step = "change"
  /\ account.password < MaxPasswords
  /\ account' = NextPassword
  /\ session' = RevokedBy(t, {request[t].session})
  /\ Set(t, [request[t] EXCEPT !.step = "create", !.applied = TRUE,
                               !.verified = account'.password, !.checked = account'.password])
  /\ UNCHANGED <<link, hits, cookie, now, faults>>

ChangePassword(t) ==
  /\ request[t].step = "change"
  /\ account.password < MaxPasswords
  /\ account' = NextPassword
  /\ session' = RevokedBy(t, DOMAIN session)
  /\ Set(t, [request[t] EXCEPT !.step = "create", !.applied = TRUE,
                               !.verified = account'.password, !.checked = account'.password])
  /\ UNCHANGED <<link, hits, cookie, now, faults>>

\* listSessions: those not revoked when the page was loaded, revoked or not
\* by now.
Listed == DOMAIN session

\* DELETE /me/sessions/[sessionId], sent from the list of sessions.
RevokeSession(t) ==
  LET s == request[t].prior IN
  /\ request[t].step = "revoke"
  /\ session' = RevokedBy(t, {s})
  /\ IF session[s].by = None
       THEN /\ cookie' = IF s = request[t].session THEN 0 ELSE cookie
            /\ Answered(t)
       ELSE /\ UNCHANGED cookie
            /\ Refused(t)
  /\ UNCHANGED <<account, link, hits, now, faults>>

Logout(t) ==
  /\ request[t].step = "logout"
  /\ session' = RevokedBy(t, {request[t].session})
  /\ cookie' = 0
  /\ Answered(t)
  /\ UNCHANGED <<account, link, hits, now, faults>>

-----------------------------------------------------------------------------
(* The environment *)

Tick == /\ now < MaxTime
        /\ now' = now + 1
        /\ UNCHANGED <<account, session, link, hits, cookie, request, faults>>

\* A call fails or the server dies; what the request has done so far stays.
CallFails(t) ==
  /\ ~Free(t)
  /\ faults < MaxFaults
  /\ faults' = faults + 1
  /\ Failed(t, TRUE)
  /\ UNCHANGED <<account, session, link, hits, cookie, now>>

IdentityInit ==
  /\ account = None
  /\ session = <<>>
  /\ link = <<>>
  /\ hits = <<>>
  /\ cookie = 0
  /\ request = [t \in Tab |-> Quiet]
  /\ now = 0
  /\ faults = 0

LinkStep(t) ==
  \/ Register(t) \/ RequestEmailVerification(t) \/ RequestPasswordReset(t) \/ Mail(t)
  \/ \E k \in DOMAIN link : ConfirmEmail(t, k) \/ ConfirmPasswordReset(t, k)

SessionStep(t) ==
  \/ Login(t) \/ CreateSession(t) \/ AuthenticateNew(t) \/ LimitLogin(t)
  \/ ReplaceSession(t) \/ SetSessionCookie(t) \/ IssueCsrf(t)

MutationStep(t) ==
  \/ \E e \in Email : Post(t, "prepare", e, 0)
  \/ \E s \in Listed : Post(t, "revoke", None, s)
  \/ Post(t, "change", None, 0)
  \/ Post(t, "logout", None, 0)
  \/ PrepareEmailChange(t) \/ RotateSession(t) \/ ChangePassword(t)
  \/ RevokeSession(t) \/ Logout(t)

IdentityNext ==
  \/ \E t \in Tab : LinkStep(t) \/ SessionStep(t) \/ MutationStep(t) \/ CallFails(t)
  \/ Tick

IdentitySpec == IdentityInit /\ [][IdentityNext]_identityVars

-----------------------------------------------------------------------------
(* Properties *)

\* Every row and request has the type the schema and the handlers give it,
\* and an idle expiry never lies beyond the absolute one.
IdentityTypeOK ==
  /\ account \in Account \cup {None}
  /\ session \in Seq(Session) /\ Len(session) <= MaxSessions
  /\ \A s \in DOMAIN session : session[s].idle <= session[s].absolute
  /\ link \in Seq(Link) /\ Len(link) <= MaxLinks
  /\ cookie \in 0 .. Len(session)
  /\ request \in [Tab -> Request]
  /\ now \in 0 .. MaxTime /\ faults \in 0 .. MaxFaults

\* The password was changed after the session's request had last looked at the
\* account or at the session it replaces, and before the session was inserted.
Overtaken(s) == session[s].checked # session[s].opened

\* A session that is still accepted was inserted after the last change or reset
\* of the password, which ends every session there is at that moment; and the
\* request that opened it had shown, or set, the present password itself.  The
\* exception is the request that a change overtakes between its check and its
\* insertion: nothing looks at the password again, and its session is accepted.
PasswordEndsSessions ==
  \A s \in DOMAIN session : session[s].by = None =>
    /\ session[s].opened = account.password
    /\ session[s].verified = account.password \/ Overtaken(s)

\* A usable account has an address whose owner opened a link sent to it.
AddressProven ==
  Active => \E k \in DOMAIN link :
    link[k].state = "used" /\ link[k].mailed /\ link[k].to = account.email

\* The session a request goes by: the one it opened, or the one it was sent with.
Standing(t) == IF request[t].new # 0 THEN request[t].new ELSE request[t].session

\* A request that is answered with an error after it took effect lost a call,
\* or another request had ended the session it goes by, which for a change of
\* the password is the replacement: a password is never changed by a request
\* that says it was not, when nothing else went wrong.
EffectReported ==
  \A t \in Tab : request[t].step = "failed" /\ request[t].applied =>
    request[t].faulted \/ session[Standing(t)].by \notin {t, None}
===============================================================================
