--------------------------- MODULE ConversationRuns ---------------------------
(***************************************************************************)
(* The conversation tables of PostgreSQL (conversations, messages,         *)
(* agent_runs, run_events, agent_clarifications, agent_checkpoints and the *)
(* outbox rows of agent runs), the HTTP requests that write them and the   *)
(* worker threads that answer them.  One user's tenant is modelled: row    *)
(* level security keeps every query inside it.                             *)
(*                                                                         *)
(* A step is one database transaction: each of them locks the rows it      *)
(* tests before it writes.  What a caller read in an earlier transaction   *)
(* (a replay lookup, a claimed run, a loaded checkpoint) is state of that  *)
(* caller.  BullMQ delivers a job any number of times and at any moment    *)
(* after its outbox row exists, so nothing here depends on the queue.      *)
(***************************************************************************)
EXTENDS Naturals, Sequences, FiniteSets

CONSTANTS
  Conversation,  \* conversation ids
  Run,           \* one POST .../messages each; it carries a fresh run id
  Worker,        \* slots of the agent-run BullMQ workers
  Answer,        \* answers a user may give to a clarification
  Submission,    \* Submission[r] = [key |-> clientRequestId, conversation, text]
  MaxProgress    \* bound on run.progress events of one run

ASSUME SubmissionAssumption ==
  \A r \in Run : Submission[r].conversation \in Conversation

ASSUME MaxProgressAssumption == MaxProgress \in Nat

VARIABLES
  conversation,  \* conversations.status, "deleted" once the row is gone
  lastSequence,  \* conversations.last_message_sequence
  messages,      \* rows of messages
  run,           \* agent_runs.status
  events,        \* run_events of a run, in sequence order
  clarification, \* the run's row of agent_clarifications
  checkpoint,    \* the run's row of agent_checkpoints
  outbox,        \* outbox rows that make agent-run jobs
  request,       \* where the HTTP request of a submission stands
  worker         \* what a worker thread holds between transactions

tables == <<conversation, lastSequence, messages, run, events, clarification,
            checkpoint, outbox>>
vars == <<conversation, lastSequence, messages, run, events, clarification,
          checkpoint, outbox, request, worker>>

-----------------------------------------------------------------------------

ActiveStatus == {"queued", "running", "waiting_for_user"}
TerminalStatus == {"completed", "failed", "cancelled"}
RunStatus == ActiveStatus \cup TerminalStatus \cup {"none", "erased"}

EventType == {"run.queued", "run.started", "run.progress", "run.clarification",
              "run.resumed", "assistant.delta", "run.completed", "run.failed",
              "run.cancelled"}

Message == [conversation : Conversation, sequence : Nat \ {0},
            role : {"prompt", "answer", "assistant"}, run : Run]

NoAnswer == "no answer"
ClarificationStatus == {"none", "pending", "answered"}
NoClarification == [status |-> "none", answer |-> NoAnswer]

\* revision 0 stands for the absent row; clarification is that of the snapshot.
NoCheckpoint == [revision |-> 0, clarification |-> "none"]

\* "start" rows are keyed by clientRequestId, "resume" rows by clarification id.
OutboxRow == [run : Run, kind : {"start", "resume"}]

RequestState == {"new", "checked", "conflict", "accepted", "replayed", "reused",
                 "run_active", "archived", "not_found"}

\* A worker is idle, has claimed a run and not yet loaded its checkpoint, is
\* between two graph nodes, is inside a node, or has caught an error.
WorkerPhase == {"idle", "claimed", "responding", "working", "failing"}
NoRun == "no run"
Thread == [phase : WorkerPhase, run : Run \cup {NoRun}, revision : Nat,
           clarification : ClarificationStatus]
Idle == [phase |-> "idle", run |-> NoRun, revision |-> 0, clarification |-> "none"]

ConversationOf(r) == Submission[r].conversation
RunsOf(c) == {r \in Run : ConversationOf(r) = c}

\* The rows of agent_runs, whatever their status.
Exists(r) == run[r] \in ActiveStatus \cup TerminalStatus

\* Seeded fault: a key is looked for among the runs that are still active.
SameActiveKey(r) ==
  {s \in Run : run[s] \in ActiveStatus /\ Submission[s].key = Submission[r].key}

\* The runs an insert with the clientRequestId of r collides with.
SameKey(r) == {s \in Run : Exists(s) /\ Submission[s].key = Submission[r].key}

\* findExistingSubmission returns the stored ids only for the same
\* conversation and text; any other use of the key is an error.
SameSubmission(r, s) ==
  /\ ConversationOf(s) = ConversationOf(r)
  /\ Submission[s].text = Submission[r].text

ReplayVerdict(r) ==
  IF \A s \in SameKey(r) : SameSubmission(r, s) THEN "replayed" ELSE "reused"

\* Seeded fault: a run that waits for its user no longer blocks the next prompt.
HasActiveRunUnlessWaiting(c) == \E s \in RunsOf(c) : run[s] \in {"queued", "running"}

HasActiveRun(c) == \E s \in RunsOf(c) : run[s] \in ActiveStatus

\* Seeded fault: a retried delivery takes over a run that is already running.
ClaimableAgain(r) == run[r] \in {"queued", "running"}

\* claimRun, completeRun, failRun and cancelRun test the locked run row.
Claimable(r) == run[r] = "queued"

Completable(r) == run[r] \in {"running", "waiting_for_user"}

\* Seeded fault: the catch block overwrites a completed run.
FailableIfCompleted(r) == run[r] \in ActiveStatus \cup {"completed"}

Failable(r) == run[r] \in ActiveStatus

\* save inserts the first row or updates the row of the expected revision; both
\* need the run, to which the checkpoint has a foreign key.
Savable(r, revision) == Exists(r) /\ checkpoint[r].revision = revision

-----------------------------------------------------------------------------

\* nextRunEventSequence is max + 1 under the lock of the run row: the new
\* event takes the next place in the run's log.
AppendEvents(r, types) == events' = [events EXCEPT ![r] = @ \o types]

\* A message takes last_message_sequence + 1 under the conversation's lock.
AppendMessage(r, role) ==
  LET c == ConversationOf(r)
      next == lastSequence[c] + 1
  IN  /\ messages' = messages \cup {[conversation |-> c, sequence |-> next,
                                     role |-> role, run |-> r]}
      /\ lastSequence' = [lastSequence EXCEPT ![c] = next]

SetRun(r, status) == run' = [run EXCEPT ![r] = status]

-----------------------------------------------------------------------------
(* Submitting a message: ConversationService.submitMessage, enqueueMessage *)

\* The first query of enqueueMessage looks for an earlier submission with the
\* same key.  It takes no lock: what it saw may be old when the conversation
\* row is locked.
LookUpReplay(r) ==
  /\ request[r] = "new"
  /\ request' = [request EXCEPT ![r] =
                   IF SameKey(r) = {} THEN "checked" ELSE ReplayVerdict(r)]
  /\ UNCHANGED <<tables, worker>>

\* Under the conversation's lock the submission is refused ...
Refuse(r) ==
  LET c == ConversationOf(r) IN
  /\ request[r] = "checked"
  /\ \/ /\ conversation[c] = "deleted"
        /\ request' = [request EXCEPT ![r] = "not_found"]
     \/ /\ conversation[c] = "archived"
        /\ request' = [request EXCEPT ![r] = "archived"]
     \/ /\ conversation[c] = "active"
        /\ HasActiveRun(c)
        /\ request' = [request EXCEPT ![r] = "run_active"]
  /\ UNCHANGED <<tables, worker>>

\* ... or violates the unique index on the key, which aborts it ...
Collide(r) ==
  LET c == ConversationOf(r) IN
  /\ request[r] = "checked"
  /\ conversation[c] = "active"
  /\ ~HasActiveRun(c)
  /\ SameKey(r) # {}
  /\ request' = [request EXCEPT ![r] = "conflict"]
  /\ UNCHANGED <<tables, worker>>

\* ... and is looked up again in a second transaction ...
ResolveCollision(r) ==
  /\ request[r] = "conflict"
  /\ request' = [request EXCEPT ![r] =
                   IF SameKey(r) = {} THEN "reused" ELSE ReplayVerdict(r)]
  /\ UNCHANGED <<tables, worker>>

\* ... or inserts message, run, first event and outbox row together.
Accept(r) ==
  LET c == ConversationOf(r) IN
  /\ request[r] = "checked"
  /\ conversation[c] = "active"
  /\ ~HasActiveRun(c)
  /\ SameKey(r) = {}
  /\ AppendMessage(r, "prompt")
  /\ SetRun(r, "queued")
  /\ AppendEvents(r, <<"run.queued">>)
  /\ outbox' = outbox \cup {[run |-> r, kind |-> "start"]}
  /\ request' = [request EXCEPT ![r] = "accepted"]
  /\ UNCHANGED <<conversation, clarification, checkpoint, worker>>

-----------------------------------------------------------------------------
(* The worker: ConversationRunService.process around the analysis graph    *)

SetWorker(w, state) == worker' = [worker EXCEPT ![w] = state]
Failing(w) == [worker[w] EXCEPT !.phase = "failing"]

\* claimRun: only a queued run is claimed, so a duplicate delivery ends here.
ClaimRun(r) ==
  /\ \E kind \in {"start", "resume"} : [run |-> r, kind |-> kind] \in outbox
  /\ Claimable(r)
  /\ SetRun(r, "running")
  /\ AppendEvents(r, <<"run.started">>)
  /\ UNCHANGED <<conversation, lastSequence, messages, clarification,
                 checkpoint, outbox, request>>

\* The commit may also be lost to the caller, which leaves the run running.
Claim(w, r) ==
  /\ worker[w].phase = "idle"
  /\ ClaimRun(r)
  /\ \/ SetWorker(w, [phase |-> "claimed", run |-> r, revision |-> 0,
                      clarification |-> "none"])
     \/ UNCHANGED worker

\* respond loads the checkpoint once and carries its revision from then on.
LoadCheckpoint(w) ==
  /\ worker[w].phase = "claimed"
  /\ LET r == worker[w].run IN
       SetWorker(w, [phase |-> "responding", run |-> r,
                     revision |-> checkpoint[r].revision,
                     clarification |-> checkpoint[r].clarification])
  /\ UNCHANGED <<tables, request>>

ProgressEvents(r) ==
  {i \in DOMAIN events[r] : events[r][i] = "run.progress"}

\* A graph node first records its progress; a run that is no longer running
\* refuses it and the node raises AGENT_CANCELLED.
EnterNode(w) ==
  /\ worker[w].phase = "responding"
  /\ LET r == worker[w].run IN
       \/ /\ run[r] = "running"
          /\ Cardinality(ProgressEvents(r)) < MaxProgress
          /\ AppendEvents(r, <<"run.progress">>)
          /\ SetWorker(w, [worker[w] EXCEPT !.phase = "working"])
       \/ /\ run[r] # "running"
          /\ SetWorker(w, Failing(w))
          /\ UNCHANGED events
  /\ UNCHANGED <<conversation, lastSequence, messages, run, clarification,
                 checkpoint, outbox, request>>

\* After its work the node saves the snapshot under the revision it expects.
\* Planning may decide to ask, but never again once an answer is stored.
LeaveNode(w) ==
  /\ worker[w].phase = "working"
  /\ LET r == worker[w].run
         mine == worker[w]
     IN  \/ /\ Savable(r, mine.revision)
            /\ \E asked \in {mine.clarification} \cup
                            (IF mine.clarification = "answered" THEN {}
                                                                ELSE {"pending"}) :
                 /\ checkpoint' = [checkpoint EXCEPT ![r] =
                       [revision |-> mine.revision + 1, clarification |-> asked]]
                 /\ SetWorker(w, [phase |-> "responding", run |-> r,
                                  revision |-> mine.revision + 1,
                                  clarification |-> asked])
         \/ /\ ~Savable(r, mine.revision)
            /\ SetWorker(w, Failing(w))
            /\ UNCHANGED checkpoint
  /\ UNCHANGED <<conversation, lastSequence, messages, run, events,
                 clarification, outbox, request>>

\* Seeded fault: an error of the graph ends the worker without failRun.
GraphErrorUncaught(w) ==
  /\ worker[w].phase \in {"claimed", "responding", "working"}
  /\ SetWorker(w, Idle)
  /\ UNCHANGED <<tables, request>>

\* Any step of the graph may throw: provider, storage, limits, DuckDB.
GraphError(w) ==
  /\ worker[w].phase \in {"claimed", "responding", "working"}
  /\ SetWorker(w, Failing(w))
  /\ UNCHANGED <<tables, request>>

\* The caller of a committed transaction is done, or sees an error although
\* the commit happened and goes to the catch block of process.
Returns(w) == \/ SetWorker(w, Idle)
              \/ SetWorker(w, Failing(w))

\* pauseRun: the clarification insert does nothing if the run has one already.
Pause(w) ==
  /\ worker[w].phase = "responding"
  /\ worker[w].clarification = "pending"
  /\ worker[w].revision > 0
  /\ LET r == worker[w].run IN
       \/ /\ run[r] = "running"
          /\ clarification' = [clarification EXCEPT ![r] =
               IF @.status = "none" THEN [status |-> "pending", answer |-> NoAnswer]
                                    ELSE @]
          /\ SetRun(r, "waiting_for_user")
          /\ AppendEvents(r, <<"run.clarification">>)
       \/ /\ run[r] # "running"
          /\ UNCHANGED <<run, events, clarification>>
  /\ Returns(w)
  /\ UNCHANGED <<conversation, lastSequence, messages, checkpoint, outbox, request>>

\* completeRun: reply, run and final events are one transaction, and nothing
\* is written for a run that is neither running nor waiting.
Complete(w) ==
  /\ worker[w].phase = "responding"
  /\ worker[w].clarification # "pending"
  /\ worker[w].revision > 0
  /\ LET r == worker[w].run IN
       \/ /\ Completable(r)
          /\ AppendMessage(r, "assistant")
          /\ SetRun(r, "completed")
          /\ AppendEvents(r, <<"assistant.delta", "run.completed">>)
       \/ /\ ~Completable(r)
          /\ UNCHANGED <<lastSequence, messages, run, events>>
  /\ Returns(w)
  /\ UNCHANGED <<conversation, clarification, checkpoint, outbox, request>>

\* failRun: the catch block ends any run that is not terminal.
Fail(w) ==
  /\ worker[w].phase = "failing"
  /\ LET r == worker[w].run IN
       \/ /\ Failable(r)
          /\ SetRun(r, "failed")
          /\ AppendEvents(r, <<"run.failed">>)
       \/ /\ ~Failable(r)
          /\ UNCHANGED <<run, events>>
  /\ SetWorker(w, Idle)
  /\ UNCHANGED <<conversation, lastSequence, messages, clarification,
                 checkpoint, outbox, request>>

\* A worker process dies with the threads it runs, or failRun itself throws:
\* the state of the threads is gone and the tables stay as they are.
Crash(threads) ==
  /\ threads # {}
  /\ \A w \in threads : worker[w].phase # "idle"
  /\ worker' = [w \in Worker |-> IF w \in threads THEN Idle ELSE worker[w]]
  /\ UNCHANGED <<tables, request>>

-----------------------------------------------------------------------------
(* The user: cancel, answer, archive, delete                               *)

\* cancelRun
Cancel(r) ==
  /\ run[r] \in ActiveStatus
  /\ SetRun(r, "cancelled")
  /\ AppendEvents(r, <<"run.cancelled">>)
  /\ UNCHANGED <<conversation, lastSequence, messages, clarification,
                 checkpoint, outbox, request, worker>>

\* Seeded fault: the answer is not written into the checkpoint.
AnswerCheckpointLost(r) ==
  checkpoint' = [checkpoint EXCEPT ![r].revision = @ + 1]

\* The resumed graph must find the answer in its snapshot.
AnswerCheckpoint(r) ==
  checkpoint' = [checkpoint EXCEPT ![r] =
                   [revision |-> @.revision + 1, clarification |-> "answered"]]

\* resumeRun.  A second answer finds the row answered and writes nothing.
Resume(r, answer) ==
  /\ Exists(r)
  /\ clarification[r].status = "pending"
  /\ run[r] = "waiting_for_user"
  /\ checkpoint[r].revision > 0
  /\ checkpoint[r].clarification # "none"
  /\ AppendMessage(r, "answer")
  /\ clarification' = [clarification EXCEPT ![r] =
                         [status |-> "answered", answer |-> answer]]
  /\ AnswerCheckpoint(r)
  /\ SetRun(r, "queued")
  /\ AppendEvents(r, <<"run.resumed">>)
  /\ outbox' = outbox \cup {[run |-> r, kind |-> "resume"]}
  /\ UNCHANGED <<conversation, request, worker>>

\* setArchived, in both directions; runs and their workers are not told.
SetArchived(c, status) ==
  /\ conversation[c] # "deleted"
  /\ conversation[c] # status
  /\ conversation' = [conversation EXCEPT ![c] = status]
  /\ UNCHANGED <<lastSequence, messages, run, events, clarification,
                 checkpoint, outbox, request, worker>>

\* delete: the foreign keys cascade from the conversation row.
Delete(c) ==
  /\ conversation[c] # "deleted"
  /\ conversation' = [conversation EXCEPT ![c] = "deleted"]
  /\ lastSequence' = [lastSequence EXCEPT ![c] = 0]
  /\ messages' = {m \in messages : m.conversation # c}
  /\ run' = [r \in Run |-> IF r \in RunsOf(c) /\ Exists(r) THEN "erased" ELSE run[r]]
  /\ events' = [r \in Run |-> IF r \in RunsOf(c) THEN <<>> ELSE events[r]]
  /\ clarification' = [r \in Run |-> IF r \in RunsOf(c) THEN NoClarification
                                                         ELSE clarification[r]]
  /\ checkpoint' = [r \in Run |-> IF r \in RunsOf(c) THEN NoCheckpoint
                                                     ELSE checkpoint[r]]
  /\ UNCHANGED <<outbox, request, worker>>

\* privacy_schedule_dataset and privacy_schedule_account cancel the active runs
\* of the conversations they reach, and insert no event for them.
PrivacySchedule(reached) ==
  /\ \E c \in reached : HasActiveRun(c)
  /\ run' = [r \in Run |-> IF ConversationOf(r) \in reached /\ run[r] \in ActiveStatus
                           THEN "cancelled" ELSE run[r]]
  /\ UNCHANGED <<conversation, lastSequence, messages, events, clarification,
                 checkpoint, outbox, request, worker>>

-----------------------------------------------------------------------------

Init ==
  /\ conversation = [c \in Conversation |-> "active"]
  /\ lastSequence = [c \in Conversation |-> 0]
  /\ messages = {}
  /\ run = [r \in Run |-> "none"]
  /\ events = [r \in Run |-> <<>>]
  /\ clarification = [r \in Run |-> NoClarification]
  /\ checkpoint = [r \in Run |-> NoCheckpoint]
  /\ outbox = {}
  /\ request = [r \in Run |-> "new"]
  /\ worker = [w \in Worker |-> Idle]

Submit(r) == \/ LookUpReplay(r)
             \/ Refuse(r)
             \/ Collide(r)
             \/ ResolveCollision(r)
             \/ Accept(r)

Work(w) == \/ \E r \in Run : Claim(w, r)
           \/ LoadCheckpoint(w)
           \/ EnterNode(w)
           \/ LeaveNode(w)
           \/ GraphError(w)
           \/ Pause(w)
           \/ Complete(w)
           \/ Fail(w)

UserStep == \/ \E r \in Run : Cancel(r)
            \/ \E r \in Run, answer \in Answer : Resume(r, answer)
            \/ \E c \in Conversation, status \in {"active", "archived"} :
                 SetArchived(c, status)
            \/ \E c \in Conversation : Delete(c)
            \/ \E reached \in SUBSET Conversation : PrivacySchedule(reached)

Next == \/ \E r \in Run : Submit(r)
        \/ \E w \in Worker : Work(w)
        \/ \E threads \in SUBSET Worker : Crash(threads)
        \/ UserStep

Spec == Init /\ [][Next]_vars

-----------------------------------------------------------------------------
(* Properties *)

TypeOK ==
  /\ conversation \in [Conversation -> {"active", "archived", "deleted"}]
  /\ lastSequence \in [Conversation -> Nat]
  /\ messages \in SUBSET Message
  /\ run \in [Run -> RunStatus]
  /\ events \in [Run -> Seq(EventType)]
  /\ clarification \in [Run -> [status : ClarificationStatus,
                                answer : Answer \cup {NoAnswer}]]
  /\ checkpoint \in [Run -> [revision : Nat, clarification : ClarificationStatus]]
  /\ outbox \in SUBSET OutboxRow
  /\ request \in [Run -> RequestState]
  /\ worker \in [Worker -> Thread]
  /\ \A w \in Worker : worker[w].phase # "idle" => worker[w].run \in Run

\* A conversation has at most one queued, running or waiting run, whatever the
\* interleaving of submissions, answers and workers.
OneActiveRun ==
  \A r, s \in Run :
    /\ run[r] \in ActiveStatus
    /\ run[s] \in ActiveStatus
    /\ ConversationOf(r) = ConversationOf(s)
    => r = s

MessagesOf(r) == {m \in messages : m.run = r}

\* Message sequences of a conversation have no gap and no duplicate, and
\* last_message_sequence is the greatest of them.
TimelineSequenced ==
  \A c \in Conversation :
    LET timeline == {m \in messages : m.conversation = c} IN
    /\ {m.sequence : m \in timeline} = 1 .. lastSequence[c]
    /\ \A m, n \in timeline : m.sequence = n.sequence => m = n

\* A run is completed exactly when its reply is in the timeline, and no crash,
\* retry, late worker or unseen commit gives it a second one.
RepliedOnce ==
  \A r \in Run :
    LET replies == {m \in MessagesOf(r) : m.role = "assistant"} IN
    /\ run[r] = "completed" <=> replies # {}
    /\ \A m, n \in replies : m = n

\* Run, clarification, checkpoint, timeline and outbox agree on the question: a
\* run that waits for its user can be resumed, and an answer is recorded once
\* and everywhere, so that the resumed graph cannot ask again.
ClarificationAgrees ==
  \A r \in Run :
    LET answers == {m \in MessagesOf(r) : m.role = "answer"}
        status == clarification[r].status
    IN  /\ run[r] = "waiting_for_user" =>
             status = "pending" /\ checkpoint[r].clarification = "pending"
        /\ run[r] \in {"queued", "running"} => status # "pending"
        /\ status = "answered" => /\ checkpoint[r].clarification = "answered"
                                  /\ [run |-> r, kind |-> "resume"] \in outbox
        /\ answers # {} <=> status = "answered"
        /\ \A m, n \in answers : m = n

Occurrences(r, type) == Cardinality({i \in DOMAIN events[r] : events[r][i] = type})

TerminalEvent == [completed |-> "run.completed", failed |-> "run.failed",
                  cancelled |-> "run.cancelled"]

\* The event log a client replays tells the run's history: it opens with
\* run.queued, every start answers a queueing of its own, a question is asked
\* once, and a terminal event comes last, only in the log of a run with that
\* status.  Completed and failed runs have one; a run that a privacy request
\* cancelled has none.
LogTellsHistory ==
  \A r \in Run : LET log == events[r] IN
    /\ Exists(r) => log # <<>> /\ Head(log) = "run.queued"
    /\ Occurrences(r, "run.started") <= 1 + Occurrences(r, "run.resumed")
    /\ Occurrences(r, "run.resumed") <= Occurrences(r, "run.clarification")
    /\ Occurrences(r, "run.clarification") <= 1
    /\ \A status \in TerminalStatus, i \in DOMAIN log :
         log[i] = TerminalEvent[status] => i = Len(log) /\ run[r] = status
    /\ run[r] \in {"completed", "failed"} => log[Len(log)] = TerminalEvent[run[r]]

Responders(r) == {w \in Worker : /\ worker[w].phase \in {"claimed", "responding", "working"}
                                 /\ worker[w].run = r}

\* However often its job is delivered, a run has one responder at a time, none
\* while it is queued or waits for its user, and the stored checkpoint is the
\* one that responder loaded or saved last: an optimistic conflict never fails
\* a live run.
SoleResponder ==
  \A r \in Run :
    /\ \A v, w \in Responders(r) : v = w
    /\ run[r] \in {"queued", "waiting_for_user"} => Responders(r) = {}
    /\ \A w \in Responders(r) :
         Exists(r) /\ worker[w].phase # "claimed" =>
           checkpoint[r] = [revision |-> worker[w].revision,
                            clarification |-> worker[w].clarification]

\* Two existing runs never share a client request id, and a submission that was
\* told it replays another created no run of its own.
SubmissionsIdempotent ==
  /\ \A r, s \in Run :
       Exists(r) /\ Exists(s) /\ Submission[r].key = Submission[s].key => r = s
  /\ \A r \in Run : run[r] # "none" <=> request[r] = "accepted"

\* A terminal run is settled: until its conversation is deleted no step changes
\* its status, adds an event to its log or a message to its timeline.
SettledRunsStay ==
  [][\A r \in Run :
       run[r] \in TerminalStatus /\ run'[r] # "erased" =>
         /\ run'[r] = run[r]
         /\ events'[r] = events[r]
         /\ {m \in messages' : m.run = r} = MessagesOf(r)]_vars

\* Deleting a conversation is final: no worker or request that was under way
\* brings a row of it back.
DeletedStaysEmpty ==
  \A c \in Conversation : conversation[c] = "deleted" =>
    /\ \A m \in messages : m.conversation # c
    /\ \A r \in RunsOf(c) : /\ ~Exists(r)
                            /\ events[r] = <<>>
                            /\ clarification[r] = NoClarification
                            /\ checkpoint[r] = NoCheckpoint

-----------------------------------------------------------------------------
(* The tables implement the promise of RunLifecycle                        *)

PhaseOf(status) ==
  CASE status = "none" -> "unsent"
    [] status \in {"queued", "running"} -> "open"
    [] status = "waiting_for_user" -> "asking"
    [] status = "completed" -> "replied"
    [] status \in {"failed", "cancelled"} -> "ended"
    [] status = "erased" -> "erased"

Lifecycle == INSTANCE RunLifecycle WITH
  Prompt <- Run,
  Of <- [r \in Run |-> ConversationOf(r)],
  phase <- [r \in Run |-> PhaseOf(run[r])],
  clarified <- [r \in Run |-> clarification[r].status = "answered"]

\* Every step of requests, workers and users is a step the user was promised,
\* or invisible: prompts are taken one at a time, no prompt is asked about
\* twice, replied to while it asks, or revived after its end.
ImplementsLifecycle == Lifecycle!Spec
=============================================================================
