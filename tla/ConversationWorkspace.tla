------------------------- MODULE ConversationWorkspace -------------------------
(***************************************************************************)
(* The page of one conversation: the run and the replies it shows, the     *)
(* loads that fetch them, and the calls the user makes with it, over the   *)
(* event stream of its run.  A load reads the timeline and then the active *)
(* run; loads under way at once may be answered in another order.          *)
(***************************************************************************)
EXTENDS RunEventStream, SequencesExt

CONSTANTS
  MaxLoads,      \* bound on loads under way
  MaxOvertakes,  \* bound on answers that overtake
  MaxErrors,     \* bound on calls and loads that fail
  MaxReloads     \* bound on reloads of the page

VARIABLES
  page,       \* run, detail's replies and lastEventSequences
  loads,      \* getConversation call, in the order made
  call,       \* the user's call under way: the controls are busy during one
  overtakes,  \* answers that came before an earlier load's
  torn,       \* a run ended between the two reads of a load
  replayed,   \* a question closed the stream, answered or its answer under way
  errors,
  reloads

workspaceVars == <<streamVars, page, loads, call, overtakes, torn, replayed, errors, reloads>>

ghosts == <<overtakes, torn, replayed, reloads>>

Op == {"send", "answer", "stop", "delete"}

ShownRun == [id : Run, status : {"queued", "running", "waiting_for_user"}]

UserCall == [op : Op, run : Run \cup {None}, done : BOOLEAN]

ASSUME NothingShown == None \notin Run \cup ShownRun \cup UserCall

Idle == call = None

Shown(r) == page.run # None /\ page.run.id = r

\* A run is streamed unless it waits for the user.
StreamOf(shown) ==
  IF shown = None \/ shown.status = "waiting_for_user" THEN None ELSE shown.id

-----------------------------------------------------------------------------
(* The effects of setRun *)

\* The stream of another run, or of one that no longer waits, is opened after
\* the last event that was handled; the one before is closed.
Follow(shown) ==
  IF StreamOf(shown) = StreamOf(page.run)
    THEN UNCHANGED <<source, stream>>
    ELSE /\ source' = IF StreamOf(shown) = None THEN None
                      ELSE NewSource(shown.id, page.seen[shown.id])
         /\ stream' = Abandon

Asked(first) == [first |-> first, step |-> "timeline", replies |-> {}, active |-> None]

Load ==
  /\ Len(loads) < MaxLoads
  /\ loads' = Append(loads, Asked(FALSE))

-----------------------------------------------------------------------------
(* Events *)

Event == log[source.run][Head(source.inbox)]

Seen == Head(source.inbox) <= page.seen[source.run]

\* What if only an outcome ended the stream?
EndsForGood == Event \in {"run.completed", "run.failed", "run.cancelled"}

Ends == Event \in {"run.clarification", "run.completed", "run.failed", "run.cancelled"}

\* handleEvent: one that was seen is dropped; one that ends the stream closes
\* it and loads the conversation again.
HandleEvent ==
  LET n == Head(source.inbox)
      working == Event \in {"run.started", "run.progress"}
  IN
  /\ source # None /\ source.inbox # <<>>
  /\ page' = IF Seen THEN page
             ELSE [page EXCEPT
               !.seen[source.run] = n,
               !.run = IF @ # None /\ working THEN [@ EXCEPT !.status = "running"] ELSE @]
  /\ IF ~Seen /\ Ends
       THEN Load /\ source' = None /\ stream' = Abandon
       ELSE /\ source' = [source EXCEPT !.inbox = Tail(@), !.last = n]
            /\ UNCHANGED <<loads, stream>>
  /\ replayed' = (replayed \/ (~Seen /\ Event = "run.clarification"
                               /\ \/ run[source.run] # "waiting_for_user"
                                  \/ ~Idle /\ call.op = "answer"))
  /\ UNCHANGED <<run, log, lease, deaths, call, overtakes, torn, errors, reloads>>

-----------------------------------------------------------------------------
(* Loads *)

Replied == {r \in Run : run[r] = "completed"}

ActiveRun == IF Active = {} THEN None
             ELSE LET r == CHOOSE a \in Active : TRUE IN [id |-> r, status |-> run[r]]

ReadTimeline(i) ==
  /\ loads[i].step = "timeline"
  /\ loads' = [loads EXCEPT ![i].step = "run", ![i].replies = Replied]
  /\ UNCHANGED <<streamVars, page, call, ghosts, errors>>

ReadRun(i) ==
  /\ loads[i].step = "run"
  /\ loads' = [loads EXCEPT ![i].step = "answered", ![i].active = ActiveRun]
  /\ torn' = (torn \/ loads[i].replies # Replied)
  /\ UNCHANGED <<streamVars, page, call, overtakes, replayed, errors, reloads>>

Arrive(i) ==
  /\ loads[i].step = "answered"
  /\ i = 1 \/ overtakes < MaxOvertakes
  /\ overtakes' = IF i = 1 THEN overtakes ELSE overtakes + 1
  /\ page' = [page EXCEPT !.run = loads[i].active, !.replies = loads[i].replies]
  /\ Follow(loads[i].active)
  /\ loads' = RemoveAt(loads, i)
  /\ UNCHANGED <<run, log, lease, deaths, call, torn, replayed, errors, reloads>>

\* The first load clears what is shown; a later one leaves it.
LoadFails(i) ==
  /\ errors < MaxErrors
  /\ errors' = errors + 1
  /\ page' = IF loads[i].first THEN [page EXCEPT !.run = None, !.replies = {}] ELSE page
  /\ Follow(page'.run)
  /\ loads' = RemoveAt(loads, i)
  /\ UNCHANGED <<run, log, lease, deaths, call, ghosts>>

-----------------------------------------------------------------------------
(* The user's calls *)

Calling(op, done) == ~Idle /\ call.op = op /\ call.done = done

Returned == call' = None

Ask(op, r) ==
  /\ Idle
  /\ call' = [op |-> op, run |-> r, done |-> FALSE]
  /\ UNCHANGED <<streamVars, page, loads, ghosts, errors>>

\* The composer waits for the first load.
ClickSend(r) ==
  /\ page.run = None /\ run[r] = "none"
  /\ \A i \in DOMAIN loads : ~loads[i].first
  /\ Ask("send", r)

ClickAnswer ==
  page.run # None /\ page.run.status = "waiting_for_user" /\ Ask("answer", page.run.id)

ClickStop == page.run # None /\ Ask("stop", page.run.id)

ClickDelete == page.run # None /\ Ask("delete", None)

\* What the server commits for a call.
Commit(op) ==
  LET r == call.run IN
  /\ Calling(op, FALSE)
  /\ \/ op = "send" /\ EnqueueMessage(r)
     \/ op = "answer" /\ ResumeRun(r)
     \/ op = "stop" /\ CancelRun(r)
     \/ op = "stop" /\ run[r] \in Terminal /\ UNCHANGED <<run, log>>
     \/ op = "delete" /\ CancelByDeletion
  /\ call' = [call EXCEPT !.done = TRUE]
  /\ UNCHANGED <<server, source, page, loads, ghosts, errors>>

Sent ==
  LET queued == [id |-> call.run, status |-> "queued"] IN
  /\ Calling("send", TRUE)
  /\ page' = [page EXCEPT !.run = queued]
  /\ Follow(queued)
  /\ Load
  /\ Returned
  /\ UNCHANGED <<run, log, lease, deaths, ghosts, errors>>

Answered ==
  LET resumed == [id |-> call.run, status |-> "queued"] IN
  /\ Calling("answer", TRUE)
  /\ page' = [page EXCEPT !.run = resumed]
  /\ Follow(resumed)
  /\ Load
  /\ Returned
  /\ UNCHANGED <<run, log, lease, deaths, ghosts, errors>>

Stopped ==
  /\ Calling("stop", TRUE)
  /\ Load
  /\ Returned
  /\ UNCHANGED <<streamVars, page, ghosts, errors>>

Deleted ==
  /\ Calling("delete", TRUE)
  /\ Load
  /\ Returned
  /\ UNCHANGED <<streamVars, page, ghosts, errors>>

\* The server refuses, or fails before or after its commit, and the page says so.
CallFails(op) ==
  /\ ~Idle
  /\ errors < MaxErrors
  /\ errors' = errors + 1
  /\ Returned
  /\ UNCHANGED <<streamVars, page, loads, ghosts>>

\* The run was cancelled, or ended, before the answer or another tab's prompt
\* took the turn.
CallRefused(op) ==
  /\ Calling(op, FALSE)
  /\ \/ op = "send" /\ Active # {}
     \/ op = "answer" /\ run[call.run] # "waiting_for_user"
  /\ Returned
  /\ UNCHANGED <<streamVars, page, loads, ghosts, errors>>

-----------------------------------------------------------------------------

\* lastEventSequences is kept in memory.
NewPage == [run |-> None, replies |-> {}, seen |-> [r \in Run |-> 0]]

Reload ==
  /\ Idle
  /\ reloads < MaxReloads
  /\ reloads' = reloads + 1
  /\ page' = NewPage
  /\ loads' = <<Asked(TRUE)>>
  /\ source' = None
  /\ stream' = Abandon
  /\ UNCHANGED <<run, log, lease, deaths, call, overtakes, torn, replayed, errors>>

Opened ==
  /\ page = NewPage
  /\ loads = <<Asked(TRUE)>>
  /\ call = None
  /\ overtakes = 0
  /\ torn = FALSE
  /\ replayed = FALSE
  /\ errors = 0
  /\ reloads = 0

WorkspaceInit == StreamInit /\ Opened

\* The page is opened, or opened again, while the run waits for an answer.
WaitingInit ==
  /\ run = [r \in Run |-> "waiting_for_user"]
  /\ log = [r \in Run |-> <<"run.queued", "run.started", "run.clarification">>]
  /\ lease = [s \in Stream |-> 0]
  /\ stream = [s \in Stream |-> None]
  /\ source = None
  /\ deaths = 0
  /\ Opened

Return == Sent \/ Answered \/ Stopped \/ Deleted

Answer(i) == ReadTimeline(i) \/ ReadRun(i) \/ Arrive(i)

Click == (\E r \in Run : ClickSend(r)) \/ ClickAnswer \/ ClickStop \/ ClickDelete

WorkspaceNext ==
  \/ StreamStep /\ UNCHANGED <<page, loads, call, ghosts, errors>>
  \/ HandleEvent \/ Return \/ Click \/ Reload
  \/ \E i \in DOMAIN loads : Answer(i) \/ LoadFails(i)
  \/ \E op \in Op : Commit(op) \/ CallFails(op) \/ CallRefused(op)

WorkspaceSpec == WorkspaceInit /\ [][WorkspaceNext]_workspaceVars

ReopenedSpec == WaitingInit /\ [][WorkspaceNext]_workspaceVars

-----------------------------------------------------------------------------
(* Properties *)

\* Over pages, reconnections, pauses and runs shown again, the page handles
\* each event of a run once and in its order.
EventsOnceInOrder ==
  [][\A r \in Run : Reload \/ page'.seen[r] \in {page.seen[r], page.seen[r] + 1}]_workspaceVars

CaughtUp ==
  source = None \/ (source.inbox = <<>> /\ page.seen[source.run] = Len(log[source.run]))

Waits(shown) == shown # None /\ shown.status = "waiting_for_user"

\* When no call and no load is under way and the stream has nothing new, the
\* page shows the conversation's active run, whether it waits for an answer, and
\* every reply: unless a call failed, a load overtook another, a run ended between
\* a load's two reads, or a question closed the stream whose answer was given
\* or under way.
SettledPageIsTrue ==
  loads = <<>> /\ Idle /\ CaughtUp /\ errors = 0 /\ overtakes = 0 /\ ~torn /\ ~replayed =>
    /\ page.replies = Replied
    /\ (page.run = None) = (ActiveRun = None)
    /\ page.run # None => page.run.id = ActiveRun.id /\ Waits(page.run) = Waits(ActiveRun)

\* "A refresh reconstructs current state from PostgreSQL and resumes event
\* delivery" (docs/specs/005): a page at rest follows the run it shows, unless
\* the run waits for an answer.
RefreshResumesDelivery ==
  loads = <<>> /\ Idle /\ errors = 0 /\ overtakes = 0 /\ page.run # None =>
    source # None \/ Waits(page.run)
================================================================================
