------------------------ MODULE ConversationRuns_proofs ------------------------
(***************************************************************************)
(* What ConversationRuns promises for every set of conversations, runs and *)
(* workers, proved with TLAPS: its types and tables, the one question of a *)
(* run, what stays of a settled run, that it implements RunLifecycle, and  *)
(* what AgentRunPipeline adds to it.                                       *)
(***************************************************************************)
EXTENDS AgentRunPipeline, FiniteSetTheorems, SequenceTheorems, TLAPS

-----------------------------------------------------------------------------
(* Type correctness *)

\* The worker conjuncts of TypeOK, by themselves.
ThreadsTyped ==
  /\ worker \in [Worker -> Thread]
  /\ \A w \in Worker : worker[w].phase # "idle" => worker[w].run \in Run

LEMMA AppendEventsTyped ==
  ASSUME TypeOK, NEW r \in Run, NEW types \in Seq(EventType), AppendEvents(r, types)
  PROVE  events' \in [Run -> Seq(EventType)]
BY DEF AppendEvents, TypeOK

LEMMA SetRunTyped ==
  ASSUME TypeOK, NEW r \in Run, NEW status \in RunStatus, SetRun(r, status)
  PROVE  run' \in [Run -> RunStatus]
BY DEF TypeOK, SetRun

LEMMA AppendMessageTyped ==
  ASSUME TypeOK, NEW r \in Run, NEW role \in {"prompt", "answer", "assistant"},
         AppendMessage(r, role)
  PROVE  /\ messages' \in SUBSET Message
         /\ lastSequence' \in [Conversation -> Nat]
<1> DEFINE c == ConversationOf(r)
<1>1. c \in Conversation
  BY SubmissionAssumption DEF ConversationOf
<1>2. lastSequence[c] + 1 \in Nat \ {0}
  BY <1>1 DEF TypeOK
<1>3. [conversation |-> c, sequence |-> lastSequence[c] + 1, role |-> role, run |-> r]
        \in Message
  BY <1>1, <1>2 DEF Message
<1>4. QED
  BY <1>1, <1>2, <1>3 DEF AppendMessage, TypeOK

LEMMA EventsTyped ==
  /\ \A type \in EventType : <<type>> \in Seq(EventType)
  /\ <<"assistant.delta", "run.completed">> \in Seq(EventType)
BY DEF EventType

LEMMA SetWorkerTyped ==
  ASSUME TypeOK, NEW w \in Worker, NEW thread \in Thread,
         thread.phase # "idle" => thread.run \in Run, SetWorker(w, thread)
  PROVE  ThreadsTyped'
BY DEF SetWorker, TypeOK, ThreadsTyped

LEMMA IdleTyped == Idle \in Thread /\ Idle.phase = "idle"
BY DEF Idle, Thread, WorkerPhase, ClarificationStatus

LEMMA PhaseTyped ==
  ASSUME TypeOK, NEW w \in Worker, worker[w].phase # "idle",
         NEW phase \in WorkerPhase
  PROVE  /\ [worker[w] EXCEPT !.phase = phase] \in Thread
         /\ [worker[w] EXCEPT !.phase = phase].phase = phase
         /\ [worker[w] EXCEPT !.phase = phase].run = worker[w].run
         /\ worker[w].run \in Run
BY DEF TypeOK, Thread

LEMMA FailingTyped ==
  ASSUME TypeOK, NEW w \in Worker, worker[w].phase # "idle"
  PROVE  /\ Failing(w) \in Thread
         /\ Failing(w).phase = "failing"
         /\ Failing(w).run = worker[w].run
         /\ Failing(w).run \in Run
<1>1. "failing" \in WorkerPhase
  BY DEF WorkerPhase
<1>2. QED
  BY <1>1, PhaseTyped DEF Failing

LEMMA ReturnsTyped ==
  ASSUME TypeOK, NEW w \in Worker, worker[w].phase # "idle", Returns(w)
  PROVE  ThreadsTyped'
BY IdleTyped, FailingTyped, SetWorkerTyped DEF Returns

LEMMA InitTyped == Init => TypeOK
BY SubmissionAssumption DEF Init, TypeOK, RunStatus, RequestState, NoClarification,
   NoCheckpoint, ClarificationStatus, Idle, Thread, WorkerPhase

LEMMA TypeKept ==
  ASSUME TypeOK, [Next]_vars
  PROVE  TypeOK'
<1> USE SubmissionAssumption DEF TypeOK, tables, ActiveStatus, TerminalStatus,
      RunStatus, ClarificationStatus, WorkerPhase, Idle, Thread, ConversationOf
<1>1. ASSUME NEW r \in Run, LookUpReplay(r) PROVE TypeOK'
  BY <1>1 DEF LookUpReplay, ReplayVerdict, RequestState
<1>2. ASSUME NEW r \in Run, Refuse(r) PROVE TypeOK'
  BY <1>2 DEF Refuse, RequestState
<1>3. ASSUME NEW r \in Run, Collide(r) PROVE TypeOK'
  BY <1>3 DEF Collide, RequestState
<1>4. ASSUME NEW r \in Run, ResolveCollision(r) PROVE TypeOK'
  BY <1>4 DEF ResolveCollision, ReplayVerdict, RequestState
<1>5. ASSUME NEW r \in Run, Accept(r) PROVE TypeOK'
  BY <1>5 DEF Accept, AppendMessage, SetRun, AppendEvents, RequestState, Message,
     EventType, OutboxRow
<1>6. ASSUME NEW w \in Worker, NEW r \in Run, Claim(w, r) PROVE TypeOK'
  <2>1. ThreadsTyped'
    <3> DEFINE claimed == [phase |-> "claimed", run |-> r, revision |-> 0,
                           clarification |-> "none"]
    <3>1. claimed \in Thread /\ claimed.run \in Run
      OBVIOUS
    <3>2. CASE SetWorker(w, claimed)
      BY <3>1, <3>2, SetWorkerTyped
    <3>3. CASE UNCHANGED worker
      BY <3>3 DEF ThreadsTyped
    <3>4. QED
      BY <1>6, <3>2, <3>3 DEF Claim
  <2>2. events' \in [Run -> Seq(EventType)]
    BY <1>6, AppendEventsTyped, EventsTyped DEF Claim, ClaimRun, EventType
  <2>3. QED
    BY <1>6, <2>1, <2>2 DEF Claim, ClaimRun, SetRun, ThreadsTyped
<1>7. ASSUME NEW w \in Worker, LoadCheckpoint(w) PROVE TypeOK'
  BY <1>7 DEF LoadCheckpoint, SetWorker
<1>8. ASSUME NEW w \in Worker, EnterNode(w) PROVE TypeOK'
  <2> DEFINE r == worker[w].run
  <2>1. r \in Run /\ worker[w].phase # "idle"
    BY <1>8 DEF EnterNode
  <2>2. ThreadsTyped'
    <3> DEFINE inside == [worker[w] EXCEPT !.phase = "working"]
    <3>1. inside \in Thread /\ inside.run \in Run
      <4>1. "working" \in WorkerPhase
        OBVIOUS
      <4>2. QED
        BY <2>1, <4>1, PhaseTyped
    <3>2. SetWorker(w, inside) \/ SetWorker(w, Failing(w))
      BY <1>8 DEF EnterNode
    <3>3. QED
      BY <2>1, <3>1, <3>2, FailingTyped, SetWorkerTyped
  <2>3. events' \in [Run -> Seq(EventType)]
    BY <1>8, <2>1, AppendEventsTyped, EventsTyped DEF EnterNode, EventType
  <2>4. QED
    BY <1>8, <2>2, <2>3 DEF EnterNode, ThreadsTyped
<1>9. ASSUME NEW w \in Worker, LeaveNode(w) PROVE TypeOK'
  <2> DEFINE r == worker[w].run
  <2>1. r \in Run /\ worker[w].phase # "idle" /\ worker[w].revision \in Nat
    BY <1>9 DEF LeaveNode
  <2>2. CASE Savable(r, worker[w].revision)
    <3>1. PICK asked \in ClarificationStatus :
            /\ checkpoint' = [checkpoint EXCEPT ![r] =
                  [revision |-> worker[w].revision + 1, clarification |-> asked]]
            /\ SetWorker(w, [phase |-> "responding", run |-> r,
                             revision |-> worker[w].revision + 1,
                             clarification |-> asked])
      BY <1>9, <2>2 DEF LeaveNode
    <3> DEFINE saved == [phase |-> "responding", run |-> r,
                         revision |-> worker[w].revision + 1,
                         clarification |-> asked]
    <3>2. saved \in Thread /\ saved.run \in Run
      BY <2>1
    <3>3. ThreadsTyped'
      BY <3>1, <3>2, SetWorkerTyped
    <3>4. QED
      BY <1>9, <2>1, <3>1, <3>3 DEF LeaveNode, ThreadsTyped
  <2>3. CASE ~Savable(r, worker[w].revision)
    <3>1. SetWorker(w, Failing(w)) /\ UNCHANGED checkpoint
      BY <1>9, <2>3 DEF LeaveNode
    <3>2. ThreadsTyped'
      BY <2>1, <3>1, FailingTyped, SetWorkerTyped
    <3>3. QED
      BY <1>9, <3>1, <3>2 DEF LeaveNode, ThreadsTyped
  <2>4. QED
    BY <2>2, <2>3
<1>10. ASSUME NEW w \in Worker, GraphError(w) PROVE TypeOK'
  BY <1>10, ZenonT(30) DEF GraphError, SetWorker, Failing
<1>11. ASSUME NEW w \in Worker, Pause(w) PROVE TypeOK'
  <2>1. worker[w].run \in Run /\ worker[w].phase # "idle"
    BY <1>11 DEF Pause
  <2>2. ThreadsTyped'
    BY <1>11, <2>1, ReturnsTyped DEF Pause
  <2>3. events' \in [Run -> Seq(EventType)]
    BY <1>11, <2>1, AppendEventsTyped, EventsTyped DEF Pause, EventType
  <2>4. run' \in [Run -> RunStatus]
    <3>1. UNCHANGED run \/ SetRun(worker[w].run, "waiting_for_user")
      BY <1>11 DEF Pause
    <3>2. QED
      BY <2>1, <3>1, SetRunTyped
  <2>5. clarification' \in [Run -> [status : ClarificationStatus,
                                    answer : Answer \cup {NoAnswer}]]
    <3>1. CASE UNCHANGED clarification
      BY <3>1
    <3>2. CASE clarification' = [clarification EXCEPT ![worker[w].run] =
                 IF @.status = "none" THEN [status |-> "pending", answer |-> NoAnswer]
                                      ELSE @]
      BY <2>1, <3>2
    <3>3. QED
      BY <1>11, <3>1, <3>2 DEF Pause
  <2>6. QED
    BY <1>11, <2>2, <2>3, <2>4, <2>5 DEF Pause, ThreadsTyped
<1>12. ASSUME NEW w \in Worker, Complete(w) PROVE TypeOK'
  <2>1. worker[w].run \in Run /\ worker[w].phase # "idle"
    BY <1>12 DEF Complete
  <2>2. ThreadsTyped'
    BY <1>12, <2>1, ReturnsTyped DEF Complete
  <2>3. events' \in [Run -> Seq(EventType)]
    BY <1>12, <2>1, AppendEventsTyped, EventsTyped DEF Complete, EventType
  <2>4. run' \in [Run -> RunStatus]
    <3>1. UNCHANGED run \/ SetRun(worker[w].run, "completed")
      BY <1>12 DEF Complete
    <3>2. QED
      BY <2>1, <3>1, SetRunTyped
  <2>5. /\ messages' \in SUBSET Message
        /\ lastSequence' \in [Conversation -> Nat]
    <3>1. CASE UNCHANGED <<lastSequence, messages>>
      BY <3>1
    <3>2. CASE AppendMessage(worker[w].run, "assistant")
      BY <2>1, <3>2, AppendMessageTyped
    <3>3. QED
      BY <1>12, <3>1, <3>2 DEF Complete
  <2>6. QED
    BY <1>12, <2>2, <2>3, <2>4, <2>5 DEF Complete, ThreadsTyped
<1>13. ASSUME NEW w \in Worker, Fail(w) PROVE TypeOK'
  <2>1. worker[w].run \in Run
    BY <1>13 DEF Fail
  <2>2. ThreadsTyped'
    BY <1>13, IdleTyped, SetWorkerTyped DEF Fail
  <2>3. events' \in [Run -> Seq(EventType)]
    BY <1>13, <2>1, AppendEventsTyped, EventsTyped DEF Fail, EventType
  <2>4. run' \in [Run -> RunStatus]
    <3>1. UNCHANGED run \/ SetRun(worker[w].run, "failed")
      BY <1>13 DEF Fail
    <3>2. QED
      BY <2>1, <3>1, SetRunTyped
  <2>5. QED
    BY <1>13, <2>2, <2>3, <2>4 DEF Fail, ThreadsTyped
<1>14. ASSUME NEW threads \in SUBSET Worker, Crash(threads) PROVE TypeOK'
  BY <1>14 DEF Crash
<1>15. ASSUME NEW r \in Run, Cancel(r) PROVE TypeOK'
  BY <1>15 DEF Cancel, SetRun, AppendEvents, EventType
<1>16. ASSUME NEW r \in Run, NEW answer \in Answer, Resume(r, answer) PROVE TypeOK'
  BY <1>16 DEF Resume, AppendMessage, AnswerCheckpoint, SetRun, AppendEvents,
     Message, EventType, OutboxRow
<1>17. ASSUME NEW c \in Conversation, NEW status \in {"active", "archived"},
              SetArchived(c, status)
       PROVE TypeOK'
  BY <1>17 DEF SetArchived
<1>18. ASSUME NEW c \in Conversation, Delete(c) PROVE TypeOK'
  BY <1>18 DEF Delete, NoClarification, NoCheckpoint
<1>19. ASSUME NEW reached \in SUBSET Conversation, PrivacySchedule(reached)
       PROVE TypeOK'
  BY <1>19 DEF PrivacySchedule
<1>20. CASE UNCHANGED vars
  BY <1>20 DEF vars
<1>21. QED
  BY <1>1, <1>2, <1>3, <1>4, <1>5, <1>6, <1>7, <1>8, <1>9, <1>10, <1>11, <1>12,
     <1>13, <1>14, <1>15, <1>16, <1>17, <1>18, <1>19, <1>20
     DEF Next, Submit, Work, UserStep

\* Every transaction keeps the tables, the requests and the workers in their types.
THEOREM TypeCorrect == Spec => []TypeOK
<1>1. Init => TypeOK
  BY InitTyped
<1>2. TypeOK /\ [Next]_vars => TypeOK'
  BY TypeKept
<1>3. QED
  BY <1>1, <1>2, PTL DEF Spec

-----------------------------------------------------------------------------
(* Which steps add a run *)

\* No run is added or woken, and no request is accepted.
NoNewRun ==
  \A s \in Run :
    /\ run'[s] \in ActiveStatus => run[s] \in ActiveStatus
    /\ Exists(s)' => Exists(s)
    /\ run'[s] = "none" <=> run[s] = "none"
    /\ request'[s] = "accepted" <=> request[s] = "accepted"

LEMMA StillRuns ==
  ASSUME UNCHANGED <<run, request>>
  PROVE  NoNewRun
BY DEF NoNewRun, Exists

LEMMA ActiveRunMoves ==
  ASSUME TypeOK, NEW r \in Run, run[r] \in ActiveStatus,
         NEW status \in ActiveStatus \cup TerminalStatus, SetRun(r, status),
         UNCHANGED request
  PROVE  NoNewRun
BY DEF TypeOK, SetRun, NoNewRun, Exists, ActiveStatus, TerminalStatus

\* Of all steps only Accept makes a run where there was none.
LEMMA OnlyAcceptAdds ==
  ASSUME TypeOK, [Next]_vars
  PROVE  NoNewRun \/ \E r \in Run : Accept(r)
<1> USE DEF ActiveStatus, TerminalStatus
<1>1. ASSUME NEW r \in Run, LookUpReplay(r) PROVE NoNewRun
  BY <1>1 DEF LookUpReplay, tables, ReplayVerdict, NoNewRun, Exists, TypeOK
<1>2. ASSUME NEW r \in Run, Refuse(r) PROVE NoNewRun
  BY <1>2 DEF Refuse, tables, NoNewRun, Exists, TypeOK
<1>3. ASSUME NEW r \in Run, Collide(r) PROVE NoNewRun
  BY <1>3 DEF Collide, tables, NoNewRun, Exists, TypeOK
<1>4. ASSUME NEW r \in Run, ResolveCollision(r) PROVE NoNewRun
  BY <1>4 DEF ResolveCollision, tables, ReplayVerdict, NoNewRun, Exists, TypeOK
<1>5. ASSUME NEW w \in Worker, NEW r \in Run, Claim(w, r) PROVE NoNewRun
  BY <1>5, ActiveRunMoves DEF Claim, ClaimRun, Claimable
<1>6. ASSUME NEW w \in Worker,
             LoadCheckpoint(w) \/ EnterNode(w) \/ LeaveNode(w) \/ GraphError(w)
      PROVE  NoNewRun
  BY <1>6, StillRuns DEF LoadCheckpoint, EnterNode, LeaveNode, GraphError, tables
<1>7. ASSUME NEW w \in Worker, Pause(w) PROVE NoNewRun
  <2>1. worker[w].run \in Run
    BY <1>7 DEF Pause, TypeOK
  <2>2. CASE run[worker[w].run] = "running"
    BY <1>7, <2>1, <2>2, ActiveRunMoves DEF Pause
  <2>3. CASE run[worker[w].run] # "running"
    BY <1>7, <2>3, StillRuns DEF Pause
  <2>4. QED
    BY <2>2, <2>3
<1>8. ASSUME NEW w \in Worker, Complete(w) PROVE NoNewRun
  <2>1. worker[w].run \in Run
    BY <1>8 DEF Complete, TypeOK
  <2>2. CASE Completable(worker[w].run)
    BY <1>8, <2>1, <2>2, ActiveRunMoves DEF Complete, Completable
  <2>3. CASE ~Completable(worker[w].run)
    BY <1>8, <2>3, StillRuns DEF Complete
  <2>4. QED
    BY <2>2, <2>3
<1>9. ASSUME NEW w \in Worker, Fail(w) PROVE NoNewRun
  <2>1. worker[w].run \in Run
    BY <1>9 DEF Fail, TypeOK
  <2>2. CASE Failable(worker[w].run)
    BY <1>9, <2>1, <2>2, ActiveRunMoves DEF Fail, Failable
  <2>3. CASE ~Failable(worker[w].run)
    BY <1>9, <2>3, StillRuns DEF Fail
  <2>4. QED
    BY <2>2, <2>3
<1>10. ASSUME NEW r \in Run, Cancel(r) PROVE NoNewRun
  BY <1>10, ActiveRunMoves DEF Cancel
<1>11. ASSUME NEW r \in Run, NEW answer \in Answer, Resume(r, answer) PROVE NoNewRun
  BY <1>11, ActiveRunMoves DEF Resume
<1>12. ASSUME NEW c \in Conversation, NEW status \in {"active", "archived"},
              SetArchived(c, status)
       PROVE  NoNewRun
  BY <1>12, StillRuns DEF SetArchived
<1>13. ASSUME NEW c \in Conversation, Delete(c) PROVE NoNewRun
  BY <1>13 DEF Delete, NoNewRun, Exists
<1>14. ASSUME NEW reached \in SUBSET Conversation, PrivacySchedule(reached) PROVE NoNewRun
  BY <1>14 DEF PrivacySchedule, NoNewRun, Exists
<1>15. ASSUME NEW threads \in SUBSET Worker, Crash(threads) PROVE NoNewRun
  BY <1>15, StillRuns DEF Crash, tables
<1>16. CASE UNCHANGED vars
  BY <1>16, StillRuns DEF vars
<1>17. QED
  BY <1>1, <1>2, <1>3, <1>4, <1>5, <1>6, <1>7, <1>8, <1>9, <1>10, <1>11, <1>12, <1>13,
     <1>14, <1>15, <1>16 DEF Next, Submit, Work, UserStep

\* At most one run of a conversation is queued, running or waiting: enqueueMessage
\* looks for an active run under the lock of the conversation.
THEOREM OneActive == Spec => []OneActiveRun
<1>1. Init => OneActiveRun
  BY DEF Init, OneActiveRun, ActiveStatus
<1>2. TypeOK /\ OneActiveRun /\ [Next]_vars => OneActiveRun'
  <2> SUFFICES ASSUME TypeOK, OneActiveRun, [Next]_vars PROVE OneActiveRun'
    OBVIOUS
  <2>1. CASE NoNewRun
    BY <2>1 DEF NoNewRun, OneActiveRun
  <2>2. ASSUME NEW r \in Run, Accept(r) PROVE OneActiveRun'
    <3>1. \A s \in Run : s # r => run'[s] = run[s]
      BY <2>2 DEF Accept, SetRun, TypeOK
    <3>2. \A s \in Run : ConversationOf(s) = ConversationOf(r) => run[s] \notin ActiveStatus
      BY <2>2 DEF Accept, HasActiveRun, RunsOf
    <3>3. QED
      BY <3>1, <3>2 DEF OneActiveRun
  <2>3. QED
    BY <2>1, <2>2, OnlyAcceptAdds
<1>3. QED
  BY <1>1, <1>2, TypeCorrect, PTL DEF Spec

\* A client request id names one stored run at most, and a run exists only for
\* an accepted request: the unique index and the replay lookup together.
THEOREM Idempotent == Spec => []SubmissionsIdempotent
<1>1. Init => SubmissionsIdempotent
  BY DEF Init, SubmissionsIdempotent, Exists, ActiveStatus, TerminalStatus
<1>2. TypeOK /\ SubmissionsIdempotent /\ [Next]_vars => SubmissionsIdempotent'
  <2> SUFFICES ASSUME TypeOK, SubmissionsIdempotent, [Next]_vars
               PROVE  SubmissionsIdempotent'
    OBVIOUS
  <2>1. CASE NoNewRun
    BY <2>1 DEF NoNewRun, SubmissionsIdempotent
  <2>2. ASSUME NEW r \in Run, Accept(r) PROVE SubmissionsIdempotent'
    <3>1. /\ run' = [run EXCEPT ![r] = "queued"]
          /\ request' = [request EXCEPT ![r] = "accepted"]
      BY <2>2 DEF Accept, SetRun
    <3>2. \A s \in Run : Submission[s].key = Submission[r].key => ~Exists(s)
      BY <2>2 DEF Accept, SameKey
    <3>3. \A s \in Run : s # r => run'[s] = run[s] /\ request'[s] = request[s]
      BY <3>1 DEF TypeOK
    <3>4. run'[r] = "queued" /\ request'[r] = "accepted"
      BY <3>1 DEF TypeOK
    <3>5. QED
      BY <3>2, <3>3, <3>4 DEF SubmissionsIdempotent, Exists
  <2>3. QED
    BY <2>1, <2>2, OnlyAcceptAdds
<1>3. QED
  BY <1>1, <1>2, TypeCorrect, PTL DEF Spec

-----------------------------------------------------------------------------
(* The timeline of a conversation *)

Role == {"prompt", "answer", "assistant"}

\* Messages are appended by Accept, Resume and Complete, and erased by Delete.
LEMMA TimelineSteps ==
  ASSUME TypeOK, [Next]_vars
  PROVE  \/ UNCHANGED <<messages, lastSequence>>
         \/ \E r \in Run, role \in Role : AppendMessage(r, role)
         \/ \E c \in Conversation : Delete(c)
<1>1. ASSUME NEW r \in Run,
             LookUpReplay(r) \/ Refuse(r) \/ Collide(r) \/ ResolveCollision(r) \/ Cancel(r)
      PROVE  UNCHANGED <<messages, lastSequence>>
  BY <1>1 DEF LookUpReplay, Refuse, Collide, ResolveCollision, Cancel, tables
<1>2. ASSUME NEW w \in Worker, NEW r \in Run, Claim(w, r)
      PROVE  UNCHANGED <<messages, lastSequence>>
  BY <1>2 DEF Claim, ClaimRun
<1>3. ASSUME NEW w \in Worker,
             \/ LoadCheckpoint(w) \/ EnterNode(w) \/ LeaveNode(w) \/ GraphError(w)
             \/ Pause(w) \/ Fail(w)
      PROVE  UNCHANGED <<messages, lastSequence>>
  BY <1>3 DEF LoadCheckpoint, EnterNode, LeaveNode, GraphError, Pause, Fail, tables
<1>4. ASSUME NEW c \in Conversation, NEW status \in {"active", "archived"},
             SetArchived(c, status)
      PROVE  UNCHANGED <<messages, lastSequence>>
  BY <1>4 DEF SetArchived
<1>5. ASSUME NEW reached \in SUBSET Conversation, PrivacySchedule(reached)
      PROVE  UNCHANGED <<messages, lastSequence>>
  BY <1>5 DEF PrivacySchedule
<1>6. ASSUME NEW r \in Run, Accept(r)
      PROVE  \E s \in Run, role \in Role : AppendMessage(s, role)
  BY <1>6 DEF Accept, Role
<1>7. ASSUME NEW r \in Run, NEW answer \in Answer, Resume(r, answer)
      PROVE  \E s \in Run, role \in Role : AppendMessage(s, role)
  BY <1>7 DEF Resume, Role
<1>8. ASSUME NEW w \in Worker, Complete(w)
      PROVE  \/ UNCHANGED <<messages, lastSequence>>
             \/ \E s \in Run, role \in Role : AppendMessage(s, role)
  <2>1. worker[w].run \in Run
    BY <1>8 DEF Complete, TypeOK
  <2>2. QED
    BY <1>8, <2>1 DEF Complete, Role
<1>9. ASSUME NEW threads \in SUBSET Worker, Crash(threads)
      PROVE  UNCHANGED <<messages, lastSequence>>
  BY <1>9 DEF Crash, tables
<1>10. CASE UNCHANGED vars
  BY <1>10 DEF vars
<1>11. QED
  BY <1>1, <1>2, <1>3, <1>4, <1>5, <1>6, <1>7, <1>8, <1>9, <1>10
     DEF Next, Submit, Work, UserStep

\* What TimelineSequenced says of one conversation, without images of sets.
Sequenced(c) ==
  /\ \A m \in messages : m.conversation = c => m.sequence \in 1 .. lastSequence[c]
  /\ \A n \in 1 .. lastSequence[c] :
       \E m \in messages : m.conversation = c /\ m.sequence = n
  /\ \A m, n \in messages :
       m.conversation = c /\ n.conversation = c /\ m.sequence = n.sequence => m = n

LEMMA SequencedEverywhere ==
  TimelineSequenced <=> \A c \in Conversation : Sequenced(c)
<1>1. ASSUME NEW c \in Conversation
      PROVE  LET timeline == {m \in messages : m.conversation = c} IN
             (/\ {m.sequence : m \in timeline} = 1 .. lastSequence[c]
              /\ \A m, n \in timeline : m.sequence = n.sequence => m = n)
             <=> Sequenced(c)
  <2> DEFINE timeline == {m \in messages : m.conversation = c}
  <2>1. {m.sequence : m \in timeline} = 1 .. lastSequence[c]
        <=> /\ \A m \in timeline : m.sequence \in 1 .. lastSequence[c]
            /\ \A n \in 1 .. lastSequence[c] : \E m \in timeline : m.sequence = n
    OBVIOUS
  <2>2. QED
    BY <2>1 DEF Sequenced
<1>2. QED
  BY <1>1 DEF TimelineSequenced

LEMMA AppendSequenced ==
  ASSUME TypeOK, NEW r \in Run, NEW role \in Role, AppendMessage(r, role),
         NEW d \in Conversation, Sequenced(d)
  PROVE  Sequenced(d)'
<1> DEFINE c == ConversationOf(r)
           new == [conversation |-> c, sequence |-> lastSequence[c] + 1,
                   role |-> role, run |-> r]
<1>1. /\ c \in Conversation
      /\ lastSequence[c] \in Nat
  BY SubmissionAssumption DEF ConversationOf, TypeOK
<1>2. /\ messages' = messages \cup {new}
      /\ lastSequence' = [lastSequence EXCEPT ![c] = @ + 1]
      /\ new.conversation = c
      /\ new.sequence = lastSequence[c] + 1
  BY DEF AppendMessage
<1> HIDE DEF c, new
<1>3. CASE d # c
  BY <1>1, <1>2, <1>3 DEF Sequenced, TypeOK
<1>4. CASE d = c
  <2>1. lastSequence'[d] = lastSequence[d] + 1
    BY <1>1, <1>2, <1>4 DEF TypeOK
  <2>2. \A m \in messages' : m.conversation = d => m.sequence \in 1 .. lastSequence'[d]
    BY <1>1, <1>2, <1>4, <2>1 DEF Sequenced
  <2>3. \A n \in 1 .. lastSequence'[d] :
          \E m \in messages' : m.conversation = d /\ m.sequence = n
    <3>1. ASSUME NEW n \in 1 .. lastSequence'[d]
          PROVE  \E m \in messages' : m.conversation = d /\ m.sequence = n
      <4>1. CASE n = lastSequence[d] + 1
        BY <1>2, <1>4, <4>1
      <4>2. CASE n # lastSequence[d] + 1
        <5>1. n \in 1 .. lastSequence[d]
          BY <1>1, <1>4, <2>1, <4>2
        <5>2. QED
          BY <1>2, <5>1 DEF Sequenced
      <4>3. QED
        BY <4>1, <4>2
    <3>2. QED
      BY <3>1
  <2>4. \A m, n \in messages' :
          m.conversation = d /\ n.conversation = d /\ m.sequence = n.sequence => m = n
    <3>1. \A m \in messages : m.conversation = d => m.sequence # new.sequence
      BY <1>1, <1>2, <1>4 DEF Sequenced
    <3>2. QED
      BY <1>2, <3>1 DEF Sequenced
  <2>5. QED
    BY <2>2, <2>3, <2>4 DEF Sequenced
<1>5. QED
  BY <1>3, <1>4

LEMMA DeleteSequenced ==
  ASSUME TypeOK, NEW c \in Conversation, Delete(c), NEW d \in Conversation, Sequenced(d)
  PROVE  Sequenced(d)'
<1>1. /\ messages' = {m \in messages : m.conversation # c}
      /\ lastSequence' = [lastSequence EXCEPT ![c] = 0]
  BY DEF Delete
<1>2. CASE d = c
  <2>1. lastSequence'[d] = 0 /\ \A m \in messages' : m.conversation # d
    BY <1>1, <1>2 DEF TypeOK
  <2>2. 1 .. lastSequence'[d] = {}
    BY <2>1
  <2>3. QED
    BY <2>1, <2>2 DEF Sequenced
<1>3. CASE d # c
  BY <1>1, <1>3 DEF Sequenced, TypeOK
<1>4. QED
  BY <1>2, <1>3

\* The sequences of a conversation's messages are 1, 2, ... without a gap or a
\* duplicate: each append holds the conversation's lock and writes its counter.
THEOREM Timeline == Spec => []TimelineSequenced
<1> DEFINE Everywhere == \A c \in Conversation : Sequenced(c)
<1>1. Init => Everywhere
  BY DEF Init, Sequenced
<1>2. TypeOK /\ Everywhere /\ [Next]_vars => Everywhere'
  <2> SUFFICES ASSUME TypeOK, Everywhere, [Next]_vars, NEW d \in Conversation
               PROVE  Sequenced(d)'
    OBVIOUS
  <2>1. CASE UNCHANGED <<messages, lastSequence>>
    BY <2>1 DEF Sequenced
  <2>2. ASSUME NEW r \in Run, NEW role \in Role, AppendMessage(r, role)
        PROVE  Sequenced(d)'
    BY <2>2, AppendSequenced
  <2>3. ASSUME NEW c \in Conversation, Delete(c) PROVE Sequenced(d)'
    BY <2>3, DeleteSequenced
  <2>4. QED
    BY <2>1, <2>2, <2>3, TimelineSteps
<1>3. Everywhere => TimelineSequenced
  BY SequencedEverywhere
<1> HIDE DEF Everywhere
<1>4. QED
  BY <1>1, <1>2, <1>3, TypeCorrect, PTL DEF Spec

-----------------------------------------------------------------------------
(* Why the question of a run is asked once and answered once: the          *)
(* invariant that ties a run's worker to its checkpoint and both to its    *)
(* row of agent_clarifications.                                            *)

Responding(w) == worker[w].phase \in {"claimed", "responding", "working"}

OneResponder ==
  \A v, w \in Worker :
    Responding(v) /\ Responding(w) /\ worker[v].run = worker[w].run => v = w

\* A claimed run is running, or was ended behind its worker's back.
RespondersRun ==
  \A w \in Worker :
    Responding(w) => run[worker[w].run] \notin {"none", "queued", "waiting_for_user"}

\* The revision a worker expects is the stored one.
HoldsCheckpoint ==
  \A w \in Worker :
    Responding(w) /\ worker[w].phase # "claimed" /\ Exists(worker[w].run) =>
      checkpoint[worker[w].run] = [revision |-> worker[w].revision,
                                   clarification |-> worker[w].clarification]

AnswerKept ==
  \A r \in Run :
    clarification[r].status = "answered" => checkpoint[r].clarification = "answered"

QuestionOpen ==
  \A r \in Run :
    /\ run[r] = "none" => clarification[r].status = "none"
    /\ run[r] \in {"queued", "running"} => clarification[r].status # "pending"
    /\ run[r] = "waiting_for_user" => /\ clarification[r].status = "pending"
                                      /\ checkpoint[r].clarification = "pending"

\* The inductive invariant: SoleResponder, ClarificationAgrees and the
\* refinement of RunLifecycle all rest on it.
QuestionInv ==
  OneResponder /\ RespondersRun /\ HoldsCheckpoint /\ AnswerKept /\ QuestionOpen

-----------------------------------------------------------------------------

\* Steps that end runs and move workers on without reading anything.
RunsOnlyEnd ==
  \A r \in Run : \/ run'[r] = run[r]
                 \/ run[r] \in ActiveStatus /\ run'[r] \in TerminalStatus

WorkersOnlyMove ==
  \A w \in Worker : Responding(w)' =>
    /\ Responding(w)
    /\ worker'[w].run = worker[w].run
    /\ worker'[w].revision = worker[w].revision
    /\ worker'[w].clarification = worker[w].clarification
    /\ worker[w].phase = "claimed" => worker'[w].phase = "claimed"

LEMMA EndingKeepsQuestion ==
  ASSUME TypeOK, QuestionInv, RunsOnlyEnd, WorkersOnlyMove,
         UNCHANGED <<clarification, checkpoint>>
  PROVE  QuestionInv'
<1> USE DEF ActiveStatus, TerminalStatus
<1>1. OneResponder'
  BY DEF QuestionInv, OneResponder, WorkersOnlyMove
<1>2. \A w \in Worker : Responding(w) => worker[w].run \in Run
  BY DEF TypeOK, Responding
<1>3. RespondersRun'
  BY <1>2 DEF QuestionInv, RespondersRun, WorkersOnlyMove, RunsOnlyEnd
<1>4. HoldsCheckpoint'
  BY <1>2 DEF QuestionInv, HoldsCheckpoint, WorkersOnlyMove, RunsOnlyEnd, Exists
<1>5. AnswerKept'
  BY DEF QuestionInv, AnswerKept
<1>6. QuestionOpen'
  BY DEF QuestionInv, QuestionOpen, RunsOnlyEnd
<1>7. QED
  BY <1>1, <1>3, <1>4, <1>5, <1>6 DEF QuestionInv

LEMMA SetRunEnds ==
  ASSUME TypeOK, NEW r \in Run, run[r] \in ActiveStatus, NEW status \in TerminalStatus,
         SetRun(r, status)
  PROVE  RunsOnlyEnd
BY DEF TypeOK, SetRun, RunsOnlyEnd

LEMMA WorkerLeaves ==
  ASSUME TypeOK, NEW w \in Worker, SetWorker(w, Idle) \/ SetWorker(w, Failing(w))
  PROVE  WorkersOnlyMove
<1>1. /\ worker' = [worker EXCEPT ![w] = worker'[w]]
      /\ worker'[w].phase \in {"idle", "failing"}
  <2>1. CASE SetWorker(w, Idle)
    BY <2>1 DEF SetWorker, Idle, TypeOK
  <2>2. CASE SetWorker(w, Failing(w))
    BY <2>2 DEF SetWorker, Failing, TypeOK, Thread
  <2>3. QED
    BY <2>1, <2>2
<1>2. \A v \in Worker : v # w => worker'[v] = worker[v]
  BY <1>1 DEF TypeOK
<1>3. ~Responding(w)'
  BY <1>1 DEF Responding
<1>4. QED
  BY <1>2, <1>3 DEF WorkersOnlyMove, Responding

LEMMA WorkersStay ==
  ASSUME UNCHANGED worker PROVE WorkersOnlyMove
BY DEF WorkersOnlyMove, Responding

LEMMA RunsStay ==
  ASSUME UNCHANGED run PROVE RunsOnlyEnd
BY DEF RunsOnlyEnd

-----------------------------------------------------------------------------
(* The steps that touch the question *)

LEMMA AcceptKeepsQuestion ==
  ASSUME TypeOK, SubmissionsIdempotent, QuestionInv, NEW r \in Run, Accept(r)
  PROVE  QuestionInv'
<1>1. /\ run[r] = "none"
      /\ run' = [run EXCEPT ![r] = "queued"]
      /\ UNCHANGED <<clarification, checkpoint, worker>>
  BY DEF Accept, SetRun, SubmissionsIdempotent
<1>2. \A s \in Run : s # r => run'[s] = run[s]
  BY <1>1 DEF TypeOK
<1>3. run'[r] = "queued"
  BY <1>1 DEF TypeOK
<1>4. \A w \in Worker : Responding(w) => worker[w].run \in Run \ {r}
  BY <1>1 DEF TypeOK, Responding, QuestionInv, RespondersRun
<1>5. OneResponder'
  BY <1>1 DEF QuestionInv, OneResponder, Responding
<1>6. RespondersRun'
  BY <1>1, <1>2, <1>4 DEF QuestionInv, RespondersRun, Responding
<1>7. HoldsCheckpoint'
  BY <1>1, <1>2, <1>4 DEF QuestionInv, HoldsCheckpoint, Responding, Exists
<1>8. AnswerKept'
  BY <1>1 DEF QuestionInv, AnswerKept
<1>9. QuestionOpen'
  BY <1>1, <1>2, <1>3 DEF QuestionInv, QuestionOpen
<1>10. QED
  BY <1>5, <1>6, <1>7, <1>8, <1>9 DEF QuestionInv

LEMMA ClaimKeepsQuestion ==
  ASSUME TypeOK, QuestionInv, NEW w \in Worker, NEW r \in Run, Claim(w, r)
  PROVE  QuestionInv'
<1>1. /\ run[r] = "queued"
      /\ run' = [run EXCEPT ![r] = "running"]
      /\ UNCHANGED <<clarification, checkpoint>>
  BY DEF Claim, ClaimRun, Claimable, SetRun
<1>2. \A s \in Run : s # r => run'[s] = run[s]
  BY <1>1 DEF TypeOK
<1>3. run'[r] = "running"
  BY <1>1 DEF TypeOK
<1>4. \A v \in Worker : Responding(v) => worker[v].run \in Run \ {r}
  BY <1>1 DEF TypeOK, Responding, QuestionInv, RespondersRun
<1>5. \A v \in Worker : v # w => worker'[v] = worker[v]
  BY DEF Claim, SetWorker, TypeOK
<1>6. ~Responding(w)
  BY DEF Claim, Responding
<1>7. \/ worker'[w] = worker[w]
      \/ worker'[w] = [phase |-> "claimed", run |-> r, revision |-> 0,
                       clarification |-> "none"]
  BY DEF Claim, SetWorker, TypeOK
<1>8. OneResponder'
  BY <1>4, <1>5, <1>6, <1>7 DEF QuestionInv, OneResponder, Responding
<1>9. RespondersRun'
  BY <1>2, <1>3, <1>4, <1>5, <1>6, <1>7 DEF QuestionInv, RespondersRun, Responding
<1>10. HoldsCheckpoint'
  BY <1>1, <1>2, <1>4, <1>5, <1>6, <1>7
     DEF QuestionInv, HoldsCheckpoint, Responding, Exists
<1>11. AnswerKept'
  BY <1>1 DEF QuestionInv, AnswerKept
<1>12. QuestionOpen'
  BY <1>1, <1>2, <1>3 DEF QuestionInv, QuestionOpen
<1>13. QED
  BY <1>8, <1>9, <1>10, <1>11, <1>12 DEF QuestionInv

\* A worker that goes on responding for the run it holds.
LEMMA SameRunStaysSole ==
  ASSUME TypeOK, QuestionInv, NEW w \in Worker, Responding(w), NEW thread,
         SetWorker(w, thread), thread.run = worker[w].run, UNCHANGED run
  PROVE  OneResponder' /\ RespondersRun'
<1>1. \A v \in Worker : v # w => worker'[v] = worker[v]
  BY DEF SetWorker, TypeOK
<1>2. worker'[w].run = worker[w].run
  BY DEF SetWorker, TypeOK
<1>3. OneResponder'
  BY <1>1, <1>2 DEF QuestionInv, OneResponder, Responding
<1>4. RespondersRun'
  BY <1>1, <1>2 DEF QuestionInv, RespondersRun, Responding
<1>5. QED
  BY <1>3, <1>4

LEMMA LoadKeepsQuestion ==
  ASSUME TypeOK, QuestionInv, NEW w \in Worker, LoadCheckpoint(w)
  PROVE  QuestionInv'
<1> DEFINE r == worker[w].run
           loaded == [phase |-> "responding", run |-> r,
                      revision |-> checkpoint[r].revision,
                      clarification |-> checkpoint[r].clarification]
<1>1. /\ Responding(w)
      /\ r \in Run
      /\ SetWorker(w, loaded)
      /\ UNCHANGED <<run, clarification, checkpoint>>
  BY DEF LoadCheckpoint, Responding, TypeOK, tables
<1>2. OneResponder' /\ RespondersRun'
  BY <1>1, SameRunStaysSole
<1>3. HoldsCheckpoint'
  <2>1. \A v \in Worker : v # w => worker'[v] = worker[v]
    BY <1>1 DEF SetWorker, TypeOK
  <2>2. worker'[w] = loaded
    BY <1>1 DEF SetWorker, TypeOK
  <2>3. checkpoint[r] = [revision |-> loaded.revision,
                         clarification |-> loaded.clarification]
    BY <1>1 DEF TypeOK
  <2>4. QED
    BY <1>1, <2>1, <2>2, <2>3 DEF QuestionInv, HoldsCheckpoint, Responding, Exists
<1>4. AnswerKept' /\ QuestionOpen'
  BY <1>1 DEF QuestionInv, AnswerKept, QuestionOpen
<1>5. QED
  BY <1>2, <1>3, <1>4 DEF QuestionInv

\* Only the sole responder of a run saves its checkpoint, and an answered
\* snapshot stays answered.
LEMMA LeaveKeepsQuestion ==
  ASSUME TypeOK, QuestionInv, NEW w \in Worker, LeaveNode(w)
  PROVE  QuestionInv'
<1> DEFINE r == worker[w].run
<1>1. /\ Responding(w)
      /\ worker[w].phase = "working"
      /\ r \in Run
      /\ UNCHANGED <<run, clarification>>
  BY DEF LeaveNode, Responding, TypeOK
<1>2. CASE ~Savable(r, worker[w].revision)
  <2>1. SetWorker(w, Failing(w)) /\ UNCHANGED checkpoint
    BY <1>2 DEF LeaveNode
  <2>2. QED
    BY <1>1, <2>1, WorkerLeaves, RunsStay, EndingKeepsQuestion
<1>3. CASE Savable(r, worker[w].revision)
  <2>1. PICK asked \in ClarificationStatus :
          /\ worker[w].clarification = "answered" => asked = "answered"
          /\ worker[w].clarification = "pending" => asked = "pending"
          /\ checkpoint' = [checkpoint EXCEPT ![r] =
                [revision |-> worker[w].revision + 1, clarification |-> asked]]
          /\ SetWorker(w, [phase |-> "responding", run |-> r,
                           revision |-> worker[w].revision + 1,
                           clarification |-> asked])
    BY <1>1, <1>3 DEF LeaveNode, ClarificationStatus, TypeOK, Thread
  <2>2. checkpoint[r].clarification = worker[w].clarification
    <3>1. Exists(r)
      BY <1>3 DEF Savable
    <3>2. checkpoint[r] = [revision |-> worker[w].revision,
                           clarification |-> worker[w].clarification]
      BY <1>1, <3>1 DEF QuestionInv, HoldsCheckpoint
    <3>3. QED
      BY <3>2
  <2>3. /\ \A v \in Worker : v # w => worker'[v] = worker[v]
        /\ worker'[w] = [phase |-> "responding", run |-> r,
                         revision |-> worker[w].revision + 1,
                         clarification |-> asked]
    BY <2>1 DEF SetWorker, TypeOK
  <2>4. /\ \A s \in Run : s # r => checkpoint'[s] = checkpoint[s]
        /\ checkpoint'[r] = [revision |-> worker[w].revision + 1,
                             clarification |-> asked]
    BY <1>1, <2>1 DEF TypeOK
  <2>5. OneResponder' /\ RespondersRun'
    BY <1>1, <2>1, SameRunStaysSole
  <2>6. \A v \in Worker : v # w /\ Responding(v) => worker[v].run \in Run \ {r}
    BY <1>1 DEF QuestionInv, OneResponder, Responding, TypeOK
  <2>7. HoldsCheckpoint'
    BY <1>1, <2>3, <2>4, <2>6 DEF QuestionInv, HoldsCheckpoint, Responding, Exists
  <2>8. AnswerKept'
    BY <1>1, <2>1, <2>2, <2>4 DEF QuestionInv, AnswerKept
  <2>9. QuestionOpen'
    BY <1>1, <2>4 DEF QuestionInv, QuestionOpen, RespondersRun
  <2>10. QED
    BY <2>5, <2>7, <2>8, <2>9 DEF QuestionInv
<1>4. QED
  BY <1>2, <1>3

LEMMA PauseKeepsQuestion ==
  ASSUME TypeOK, QuestionInv, NEW w \in Worker, Pause(w)
  PROVE  QuestionInv'
<1> DEFINE r == worker[w].run
<1>1. /\ Responding(w)
      /\ worker[w].phase = "responding"
      /\ worker[w].clarification = "pending"
      /\ r \in Run
      /\ UNCHANGED checkpoint
  BY DEF Pause, Responding, TypeOK
<1>2. WorkersOnlyMove
  BY WorkerLeaves DEF Pause, Returns
<1>3. CASE run[r] # "running"
  <2>1. UNCHANGED <<run, clarification>>
    BY <1>3 DEF Pause
  <2>2. QED
    BY <1>1, <1>2, <2>1, RunsStay, EndingKeepsQuestion
<1>4. CASE run[r] = "running"
  <2>1. /\ run' = [run EXCEPT ![r] = "waiting_for_user"]
        /\ clarification' = [clarification EXCEPT ![r] =
             IF @.status = "none" THEN [status |-> "pending", answer |-> NoAnswer]
                                  ELSE @]
    BY <1>4 DEF Pause, SetRun
  <2>2. checkpoint[r].clarification = "pending"
    <3>1. Exists(r)
      BY <1>4 DEF Exists, ActiveStatus
    <3>2. checkpoint[r] = [revision |-> worker[w].revision,
                           clarification |-> worker[w].clarification]
      BY <1>1, <3>1 DEF QuestionInv, HoldsCheckpoint
    <3>3. QED
      BY <1>1, <3>2
  <2>3. clarification[r].status = "none"
    <3>1. clarification[r].status # "answered"
      BY <1>1, <2>2 DEF QuestionInv, AnswerKept
    <3>2. clarification[r].status # "pending"
      BY <1>1, <1>4 DEF QuestionInv, QuestionOpen
    <3>3. clarification[r].status \in ClarificationStatus
      BY <1>1 DEF TypeOK
    <3>4. QED
      BY <3>1, <3>2, <3>3 DEF ClarificationStatus
  <2>4. /\ \A s \in Run : s # r => /\ run'[s] = run[s]
                                   /\ clarification'[s] = clarification[s]
        /\ run'[r] = "waiting_for_user"
        /\ clarification'[r].status = "pending"
    BY <1>1, <2>1, <2>3 DEF TypeOK
  <2>5. ~Responding(w)'
    <3>1. CASE SetWorker(w, Idle)
      BY <3>1 DEF SetWorker, Idle, TypeOK, Responding
    <3>2. CASE SetWorker(w, Failing(w))
      BY <3>2 DEF SetWorker, Failing, TypeOK, Thread, Responding
    <3>3. QED
      BY <3>1, <3>2 DEF Pause, Returns
  <2>6. \A v \in Worker : Responding(v)' => v # w /\ worker'[v].run \in Run \ {r}
    <3> SUFFICES ASSUME NEW v \in Worker, Responding(v)'
                 PROVE  v # w /\ worker'[v].run \in Run \ {r}
      OBVIOUS
    <3>1. v # w
      BY <2>5
    <3>2. Responding(v) /\ worker'[v].run = worker[v].run
      BY <1>2 DEF WorkersOnlyMove
    <3>3. worker[v].run # r
      BY <1>1, <3>1, <3>2 DEF QuestionInv, OneResponder
    <3>4. worker[v].run \in Run
      BY <3>2 DEF Responding, TypeOK
    <3>5. QED
      BY <3>1, <3>2, <3>3, <3>4
  <2>7. OneResponder'
    BY <1>2 DEF QuestionInv, OneResponder, WorkersOnlyMove
  <2>8. RespondersRun'
    BY <1>2, <2>4, <2>6 DEF QuestionInv, RespondersRun, WorkersOnlyMove
  <2>9. HoldsCheckpoint'
    BY <1>1, <1>2, <2>4, <2>6 DEF QuestionInv, HoldsCheckpoint, WorkersOnlyMove, Exists
  <2>10. AnswerKept'
    BY <1>1, <2>4 DEF QuestionInv, AnswerKept
  <2>11. QuestionOpen'
    BY <1>1, <2>2, <2>4 DEF QuestionInv, QuestionOpen
  <2>12. QED
    BY <2>7, <2>8, <2>9, <2>10, <2>11 DEF QuestionInv
<1>5. QED
  BY <1>3, <1>4

LEMMA ResumeKeepsQuestion ==
  ASSUME TypeOK, QuestionInv, NEW r \in Run, NEW answer \in Answer, Resume(r, answer)
  PROVE  QuestionInv'
<1>1. /\ run[r] = "waiting_for_user"
      /\ run' = [run EXCEPT ![r] = "queued"]
      /\ clarification' = [clarification EXCEPT ![r] =
                             [status |-> "answered", answer |-> answer]]
      /\ checkpoint' = [checkpoint EXCEPT ![r] =
                          [revision |-> @.revision + 1, clarification |-> "answered"]]
      /\ UNCHANGED worker
  BY DEF Resume, SetRun, AnswerCheckpoint
<1>2. /\ \A s \in Run : s # r => /\ run'[s] = run[s]
                                 /\ clarification'[s] = clarification[s]
                                 /\ checkpoint'[s] = checkpoint[s]
      /\ run'[r] = "queued"
      /\ clarification'[r].status = "answered"
      /\ checkpoint'[r].clarification = "answered"
  BY <1>1 DEF TypeOK
<1>3. \A w \in Worker : Responding(w) => worker[w].run \in Run \ {r}
  BY <1>1 DEF TypeOK, Responding, QuestionInv, RespondersRun
<1>4. OneResponder'
  BY <1>1 DEF QuestionInv, OneResponder, Responding
<1>5. RespondersRun'
  BY <1>1, <1>2, <1>3 DEF QuestionInv, RespondersRun, Responding
<1>6. HoldsCheckpoint'
  BY <1>1, <1>2, <1>3 DEF QuestionInv, HoldsCheckpoint, Responding, Exists
<1>7. AnswerKept' /\ QuestionOpen'
  BY <1>2 DEF QuestionInv, AnswerKept, QuestionOpen
<1>8. QED
  BY <1>4, <1>5, <1>6, <1>7 DEF QuestionInv

LEMMA DeleteKeepsQuestion ==
  ASSUME TypeOK, QuestionInv, NEW c \in Conversation, Delete(c)
  PROVE  QuestionInv'
<1>1. \A r \in Run :
        \/ /\ run'[r] = run[r]
           /\ clarification'[r] = clarification[r]
           /\ checkpoint'[r] = checkpoint[r]
        \/ /\ run'[r] = IF Exists(r) THEN "erased" ELSE run[r]
           /\ clarification'[r].status = "none"
  BY DEF Delete, NoClarification
<1>2. \A r \in Run : Exists(r)' => /\ run'[r] = run[r]
                                   /\ checkpoint'[r] = checkpoint[r]
  BY <1>1 DEF Exists, ActiveStatus, TerminalStatus, TypeOK, RunStatus
<1>3. UNCHANGED worker
  BY DEF Delete
<1>4. \A w \in Worker : Responding(w) => worker[w].run \in Run
  BY DEF TypeOK, Responding
<1>5. OneResponder'
  BY <1>3 DEF QuestionInv, OneResponder, Responding
<1>6. RespondersRun'
  BY <1>1, <1>3, <1>4 DEF QuestionInv, RespondersRun, Responding
<1>7. HoldsCheckpoint'
  BY <1>2, <1>3, <1>4 DEF QuestionInv, HoldsCheckpoint, Responding, Exists
<1>8. AnswerKept'
  BY <1>1 DEF QuestionInv, AnswerKept
<1>9. QuestionOpen'
  BY <1>1 DEF QuestionInv, QuestionOpen, Exists, ActiveStatus, TerminalStatus
<1>10. QED
  BY <1>5, <1>6, <1>7, <1>8, <1>9 DEF QuestionInv

\* The other steps end runs, move workers on, or do neither.
LEMMA OthersKeepQuestion ==
  ASSUME TypeOK, QuestionInv, [Next]_vars,
         \A r \in Run : ~Accept(r),
         \A r \in Run, answer \in Answer : ~Resume(r, answer),
         \A c \in Conversation : ~Delete(c),
         \A w \in Worker : /\ \A r \in Run : ~Claim(w, r)
                          /\ ~LoadCheckpoint(w)
                          /\ ~LeaveNode(w)
                          /\ ~Pause(w)
  PROVE  RunsOnlyEnd /\ WorkersOnlyMove /\ UNCHANGED <<clarification, checkpoint>>
<1> DEFINE Goal == RunsOnlyEnd /\ WorkersOnlyMove /\ UNCHANGED <<clarification, checkpoint>>
<1>1. ASSUME NEW r \in Run,
             LookUpReplay(r) \/ Refuse(r) \/ Collide(r) \/ ResolveCollision(r)
      PROVE  Goal
  BY <1>1, RunsStay, WorkersStay
     DEF LookUpReplay, Refuse, Collide, ResolveCollision, tables
<1>2. ASSUME NEW w \in Worker, EnterNode(w) PROVE Goal
  <2>1. WorkersOnlyMove
    <3>1. CASE SetWorker(w, Failing(w))
      BY <3>1, WorkerLeaves
    <3>2. CASE SetWorker(w, [worker[w] EXCEPT !.phase = "working"])
      <4>1. \A v \in Worker : v # w => worker'[v] = worker[v]
        BY <3>2 DEF SetWorker, TypeOK
      <4>2. /\ worker'[w].run = worker[w].run
            /\ worker'[w].revision = worker[w].revision
            /\ worker'[w].clarification = worker[w].clarification
        BY <3>2 DEF SetWorker, TypeOK, Thread
      <4>3. worker[w].phase = "responding"
        BY <1>2 DEF EnterNode
      <4>4. QED
        BY <4>1, <4>2, <4>3 DEF WorkersOnlyMove, Responding
    <3>3. QED
      BY <1>2, <3>1, <3>2 DEF EnterNode
  <2>2. QED
    BY <1>2, <2>1, RunsStay DEF EnterNode
<1>3. ASSUME NEW w \in Worker, GraphError(w) PROVE Goal
  BY <1>3, RunsStay, WorkerLeaves DEF GraphError, tables
<1>4. ASSUME NEW w \in Worker, Complete(w) PROVE Goal
  <2>1. worker[w].run \in Run
    BY <1>4 DEF Complete, TypeOK
  <2>2. RunsOnlyEnd
    <3>1. CASE Completable(worker[w].run)
      BY <1>4, <2>1, <3>1, SetRunEnds
         DEF Complete, Completable, ActiveStatus, TerminalStatus
    <3>2. CASE ~Completable(worker[w].run)
      BY <1>4, <3>2, RunsStay DEF Complete
    <3>3. QED
      BY <3>1, <3>2
  <2>3. WorkersOnlyMove
    BY <1>4, WorkerLeaves DEF Complete, Returns
  <2>4. QED
    BY <1>4, <2>2, <2>3 DEF Complete
<1>5. ASSUME NEW w \in Worker, Fail(w) PROVE Goal
  <2>1. worker[w].run \in Run
    BY <1>5 DEF Fail, TypeOK
  <2>2. RunsOnlyEnd
    <3>1. CASE Failable(worker[w].run)
      BY <1>5, <2>1, <3>1, SetRunEnds DEF Fail, Failable, TerminalStatus
    <3>2. CASE ~Failable(worker[w].run)
      BY <1>5, <3>2, RunsStay DEF Fail
    <3>3. QED
      BY <3>1, <3>2
  <2>3. WorkersOnlyMove
    BY <1>5, WorkerLeaves DEF Fail
  <2>4. QED
    BY <1>5, <2>2, <2>3 DEF Fail
<1>6. ASSUME NEW r \in Run, Cancel(r) PROVE Goal
  BY <1>6, SetRunEnds, WorkersStay DEF Cancel, TerminalStatus
<1>7. ASSUME NEW c \in Conversation, NEW status \in {"active", "archived"},
             SetArchived(c, status)
      PROVE  Goal
  BY <1>7, RunsStay, WorkersStay DEF SetArchived
<1>8. ASSUME NEW reached \in SUBSET Conversation, PrivacySchedule(reached) PROVE Goal
  BY <1>8, WorkersStay DEF PrivacySchedule, RunsOnlyEnd, TerminalStatus
<1>9. ASSUME NEW threads \in SUBSET Worker, Crash(threads) PROVE Goal
  <2>1. WorkersOnlyMove
    BY <1>9 DEF Crash, WorkersOnlyMove, Responding, Idle
  <2>2. QED
    BY <1>9, <2>1, RunsStay DEF Crash, tables
<1>10. CASE UNCHANGED vars
  BY <1>10, RunsStay, WorkersStay DEF vars
<1>11. QED
  BY <1>1, <1>2, <1>3, <1>4, <1>5, <1>6, <1>7, <1>8, <1>9, <1>10
     DEF Next, Submit, Work, UserStep

LEMMA QuestionKept ==
  ASSUME TypeOK, SubmissionsIdempotent, QuestionInv, [Next]_vars
  PROVE  QuestionInv'
BY OthersKeepQuestion, EndingKeepsQuestion, AcceptKeepsQuestion, ClaimKeepsQuestion,
   LoadKeepsQuestion, LeaveKeepsQuestion, PauseKeepsQuestion, ResumeKeepsQuestion,
   DeleteKeepsQuestion

\* The invariant holds whatever is delivered, lost, cancelled or deleted when.
THEOREM QuestionInvariant == Spec => []QuestionInv
<1>1. Init => QuestionInv
  BY DEF Init, QuestionInv, OneResponder, RespondersRun, HoldsCheckpoint, AnswerKept,
         QuestionOpen, Responding, Idle, NoClarification
<1>2. TypeOK /\ SubmissionsIdempotent /\ QuestionInv /\ [Next]_vars => QuestionInv'
  BY QuestionKept
<1>3. QED
  BY <1>1, <1>2, TypeCorrect, Idempotent, PTL DEF Spec

\* A run has one responder at a time and none while it is queued or waits, and
\* no optimistic save of that responder can conflict: claimRun takes queued
\* runs only, and nobody queues a run whose responder is still at work.
THEOREM SoleResponding == Spec => []SoleResponder
<1>1. TypeOK /\ QuestionInv => SoleResponder
  <2> SUFFICES ASSUME TypeOK, QuestionInv, NEW r \in Run
               PROVE  /\ \A v, w \in Responders(r) : v = w
                      /\ run[r] \in {"queued", "waiting_for_user"} => Responders(r) = {}
                      /\ \A w \in Responders(r) :
                           Exists(r) /\ worker[w].phase # "claimed" =>
                             checkpoint[r] = [revision |-> worker[w].revision,
                                              clarification |-> worker[w].clarification]
    BY DEF SoleResponder
  <2>1. \A w \in Responders(r) : w \in Worker /\ Responding(w) /\ worker[w].run = r
    BY DEF Responders, Responding
  <2>2. \A v, w \in Responders(r) : v = w
    BY <2>1 DEF QuestionInv, OneResponder
  <2>3. run[r] \in {"queued", "waiting_for_user"} => Responders(r) = {}
    BY <2>1 DEF QuestionInv, RespondersRun
  <2>4. \A w \in Responders(r) :
          Exists(r) /\ worker[w].phase # "claimed" =>
            checkpoint[r] = [revision |-> worker[w].revision,
                             clarification |-> worker[w].clarification]
    BY <2>1 DEF QuestionInv, HoldsCheckpoint
  <2>5. QED
    BY <2>2, <2>3, <2>4
<1>2. QED
  BY <1>1, TypeCorrect, QuestionInvariant, PTL

-----------------------------------------------------------------------------
(* Why a completed, failed or cancelled run stays as it is, what is left   *)
(* of a deleted conversation, why a run has one reply and one answer, and  *)
(* why its log tells its history: whoever comes late finds the run row     *)
(* terminal or gone, or the question answered, under the run's lock, and   *)
(* writes nothing.                                                         *)

\* A message stands in the conversation of its run.
MessagesPlaced == \A m \in messages : m.conversation = ConversationOf(m.run)

LEMMA AppendPlaced ==
  ASSUME MessagesPlaced, NEW r \in Run, NEW role, AppendMessage(r, role)
  PROVE  MessagesPlaced'
BY DEF MessagesPlaced, AppendMessage

\* The invariant behind SettledRunsStay: deleting another conversation takes
\* no message of the run away.
THEOREM Placed == Spec => []MessagesPlaced
<1>1. Init => MessagesPlaced
  BY DEF Init, MessagesPlaced
<1>2. TypeOK /\ MessagesPlaced /\ [Next]_vars => MessagesPlaced'
  <2> SUFFICES ASSUME TypeOK, MessagesPlaced, [Next]_vars PROVE MessagesPlaced'
    OBVIOUS
  <2>1. CASE UNCHANGED <<messages, lastSequence>>
    BY <2>1 DEF MessagesPlaced
  <2>2. ASSUME NEW r \in Run, NEW role \in Role, AppendMessage(r, role)
        PROVE  MessagesPlaced'
    BY <2>2, AppendPlaced
  <2>3. ASSUME NEW c \in Conversation, Delete(c) PROVE MessagesPlaced'
    BY <2>3 DEF Delete, MessagesPlaced
  <2>4. QED
    BY <2>1, <2>2, <2>3, TimelineSteps
<1>3. QED
  BY <1>1, <1>2, TypeCorrect, PTL DEF Spec

-----------------------------------------------------------------------------

\* What a step leaves of the run r.
Untouched(r) == /\ run'[r] = run[r]
                /\ events'[r] = events[r]
                /\ {m \in messages' : m.run = r} = MessagesOf(r)

LEMMA RowsStay ==
  ASSUME NEW r \in Run, UNCHANGED <<run, events, messages>>
  PROVE  Untouched(r)
BY DEF Untouched, MessagesOf

\* A transaction of the run s leaves the rows of another run alone.
LEMMA AnotherRunsStep ==
  ASSUME TypeOK, NEW r \in Run, NEW s \in Run, s # r,
         UNCHANGED run \/ \E status : SetRun(s, status),
         UNCHANGED events \/ \E types : AppendEvents(s, types),
         UNCHANGED messages \/ \E role : AppendMessage(s, role)
  PROVE  Untouched(r)
<1>1. run'[r] = run[r]
  BY DEF SetRun, TypeOK
<1>2. events'[r] = events[r]
  BY DEF AppendEvents, TypeOK
<1>3. {m \in messages' : m.run = r} = MessagesOf(r)
  <2>1. CASE UNCHANGED messages
    BY <2>1 DEF MessagesOf
  <2>2. ASSUME NEW role, AppendMessage(s, role)
        PROVE  {m \in messages' : m.run = r} = MessagesOf(r)
    BY <2>2 DEF AppendMessage, MessagesOf
  <2>3. QED
    BY <2>1, <2>2
<1>4. QED
  BY <1>1, <1>2, <1>3 DEF Untouched

LEMMA SettledStep ==
  ASSUME TypeOK, SubmissionsIdempotent, MessagesPlaced, [Next]_vars,
         NEW r \in Run, run[r] \in TerminalStatus, run'[r] # "erased"
  PROVE  Untouched(r)
<1> USE DEF ActiveStatus, TerminalStatus
<1>1. ASSUME NEW s \in Run,
             LookUpReplay(s) \/ Refuse(s) \/ Collide(s) \/ ResolveCollision(s)
      PROVE  Untouched(r)
  BY <1>1, RowsStay DEF LookUpReplay, Refuse, Collide, ResolveCollision, tables
<1>2. ASSUME NEW s \in Run, Accept(s) PROVE Untouched(r)
  <2>1. run[s] = "none"
    BY <1>2 DEF Accept, SubmissionsIdempotent
  <2>2. QED
    BY <1>2, <2>1, AnotherRunsStep DEF Accept
<1>3. ASSUME NEW w \in Worker, NEW s \in Run, Claim(w, s) PROVE Untouched(r)
  <2>1. run[s] = "queued"
    BY <1>3 DEF Claim, ClaimRun, Claimable
  <2>2. QED
    BY <1>3, <2>1, AnotherRunsStep DEF Claim, ClaimRun
<1>4. ASSUME NEW w \in Worker,
             LoadCheckpoint(w) \/ LeaveNode(w) \/ GraphError(w)
      PROVE  Untouched(r)
  BY <1>4, RowsStay DEF LoadCheckpoint, LeaveNode, GraphError, tables
<1>5. ASSUME NEW w \in Worker, EnterNode(w) PROVE Untouched(r)
  <2>1. worker[w].run \in Run
    BY <1>5 DEF EnterNode, TypeOK
  <2>2. CASE run[worker[w].run] = "running"
    BY <1>5, <2>1, <2>2, AnotherRunsStep DEF EnterNode
  <2>3. CASE run[worker[w].run] # "running"
    BY <1>5, <2>3, RowsStay DEF EnterNode
  <2>4. QED
    BY <2>2, <2>3
<1>6. ASSUME NEW w \in Worker, Pause(w) PROVE Untouched(r)
  <2>1. worker[w].run \in Run
    BY <1>6 DEF Pause, TypeOK
  <2>2. CASE run[worker[w].run] = "running"
    BY <1>6, <2>1, <2>2, AnotherRunsStep DEF Pause
  <2>3. CASE run[worker[w].run] # "running"
    BY <1>6, <2>3, RowsStay DEF Pause
  <2>4. QED
    BY <2>2, <2>3
<1>7. ASSUME NEW w \in Worker, Complete(w) PROVE Untouched(r)
  <2>1. worker[w].run \in Run
    BY <1>7 DEF Complete, TypeOK
  <2>2. CASE Completable(worker[w].run)
    BY <1>7, <2>1, <2>2, AnotherRunsStep DEF Complete, Completable
  <2>3. CASE ~Completable(worker[w].run)
    BY <1>7, <2>3, RowsStay DEF Complete
  <2>4. QED
    BY <2>2, <2>3
<1>8. ASSUME NEW w \in Worker, Fail(w) PROVE Untouched(r)
  <2>1. worker[w].run \in Run
    BY <1>8 DEF Fail, TypeOK
  <2>2. CASE Failable(worker[w].run)
    BY <1>8, <2>1, <2>2, AnotherRunsStep DEF Fail, Failable
  <2>3. CASE ~Failable(worker[w].run)
    BY <1>8, <2>3, RowsStay DEF Fail
  <2>4. QED
    BY <2>2, <2>3
<1>9. ASSUME NEW s \in Run, Cancel(s) PROVE Untouched(r)
  BY <1>9, AnotherRunsStep DEF Cancel
<1>10. ASSUME NEW s \in Run, NEW answer \in Answer, Resume(s, answer)
       PROVE  Untouched(r)
  <2>1. run[s] = "waiting_for_user"
    BY <1>10 DEF Resume
  <2>2. QED
    BY <1>10, <2>1, AnotherRunsStep DEF Resume
<1>11. ASSUME NEW c \in Conversation, NEW status \in {"active", "archived"},
              SetArchived(c, status)
       PROVE  Untouched(r)
  BY <1>11, RowsStay DEF SetArchived
<1>12. ASSUME NEW c \in Conversation, Delete(c) PROVE Untouched(r)
  <2>1. r \notin RunsOf(c)
    BY <1>12 DEF Delete, Exists
  <2>2. run'[r] = run[r] /\ events'[r] = events[r]
    BY <1>12, <2>1 DEF Delete
  <2>3. \A m \in messages : m.run = r => m.conversation # c
    BY <2>1 DEF MessagesPlaced, RunsOf
  <2>4. {m \in messages' : m.run = r} = MessagesOf(r)
    BY <1>12, <2>3 DEF Delete, MessagesOf
  <2>5. QED
    BY <2>2, <2>4 DEF Untouched
<1>13. ASSUME NEW reached \in SUBSET Conversation, PrivacySchedule(reached)
       PROVE  Untouched(r)
  <2>1. run'[r] = run[r]
    BY <1>13 DEF PrivacySchedule
  <2>2. QED
    BY <1>13, <2>1 DEF PrivacySchedule, Untouched, MessagesOf
<1>14. ASSUME NEW threads \in SUBSET Worker, Crash(threads) PROVE Untouched(r)
  BY <1>14, RowsStay DEF Crash, tables
<1>15. CASE UNCHANGED vars
  BY <1>15, RowsStay DEF vars
<1>16. QED
  BY <1>1, <1>2, <1>3, <1>4, <1>5, <1>6, <1>7, <1>8, <1>9, <1>10, <1>11, <1>12, <1>13,
     <1>14, <1>15 DEF Next, Submit, Work, UserStep

\* Cancelling, failing, completing, pausing, answering and recording progress
\* race for a run, and once one of them made it terminal the others change
\* neither its status nor its events nor its messages.
THEOREM Settled == Spec => SettledRunsStay
<1>1. TypeOK /\ SubmissionsIdempotent /\ MessagesPlaced /\ [Next]_vars
        => [\A r \in Run :
              run[r] \in TerminalStatus /\ run'[r] # "erased" =>
                /\ run'[r] = run[r]
                /\ events'[r] = events[r]
                /\ {m \in messages' : m.run = r} = MessagesOf(r)]_vars
  BY SettledStep DEF Untouched
<1>2. QED
  BY <1>1, TypeCorrect, Idempotent, Placed, PTL DEF Spec, SettledRunsStay

-----------------------------------------------------------------------------
(* Deleted conversations *)

\* A transaction of one run, in a conversation that is not deleted.
LEMMA LiveConversationsStep ==
  ASSUME TypeOK, DeletedStaysEmpty, NEW s \in Run,
         conversation[ConversationOf(s)] # "deleted", UNCHANGED conversation,
         UNCHANGED run \/ \E status : SetRun(s, status),
         UNCHANGED events \/ \E types : AppendEvents(s, types),
         UNCHANGED messages \/ \E role : AppendMessage(s, role),
         UNCHANGED clarification
           \/ \E row : clarification' = [clarification EXCEPT ![s] = row],
         UNCHANGED checkpoint
           \/ \E row : checkpoint' = [checkpoint EXCEPT ![s] = row]
  PROVE  DeletedStaysEmpty'
<1> SUFFICES ASSUME NEW c \in Conversation, conversation[c] = "deleted"
             PROVE  /\ \A m \in messages' : m.conversation # c
                    /\ \A r \in RunsOf(c) : /\ ~Exists(r)'
                                            /\ events'[r] = <<>>
                                            /\ clarification'[r] = NoClarification
                                            /\ checkpoint'[r] = NoCheckpoint
  BY DEF DeletedStaysEmpty, RunsOf
<1>1. c # ConversationOf(s)
  OBVIOUS
<1>2. \A m \in messages' : m.conversation # c
  <2>1. \A m \in messages : m.conversation # c
    BY DEF DeletedStaysEmpty
  <2>2. CASE UNCHANGED messages
    BY <2>1, <2>2
  <2>3. ASSUME NEW role, AppendMessage(s, role) PROVE \A m \in messages' : m.conversation # c
    BY <1>1, <2>1, <2>3 DEF AppendMessage
  <2>4. QED
    BY <2>2, <2>3
<1>3. ASSUME NEW r \in RunsOf(c)
      PROVE  /\ run'[r] = run[r]
             /\ events'[r] = events[r]
             /\ clarification'[r] = clarification[r]
             /\ checkpoint'[r] = checkpoint[r]
  <2>1. r \in Run /\ r # s
    BY <1>1, <1>3 DEF RunsOf
  <2>2. run'[r] = run[r]
    BY <2>1 DEF SetRun, TypeOK
  <2>3. events'[r] = events[r]
    BY <2>1 DEF AppendEvents, TypeOK
  <2>4. clarification'[r] = clarification[r] /\ checkpoint'[r] = checkpoint[r]
    BY <2>1 DEF TypeOK
  <2>5. QED
    BY <2>2, <2>3, <2>4
<1>4. QED
  BY <1>2, <1>3 DEF DeletedStaysEmpty, Exists

LEMMA LiveRun ==
  ASSUME TypeOK, DeletedStaysEmpty, NEW r \in Run, Exists(r)
  PROVE  conversation[ConversationOf(r)] # "deleted"
BY SubmissionAssumption DEF DeletedStaysEmpty, RunsOf, ConversationOf

LEMMA EmptyStays ==
  ASSUME DeletedStaysEmpty,
         UNCHANGED <<conversation, messages, run, events, clarification, checkpoint>>
  PROVE  DeletedStaysEmpty'
BY DEF DeletedStaysEmpty, RunsOf, Exists

LEMMA DeletedStep ==
  ASSUME TypeOK, MessagesPlaced, DeletedStaysEmpty, [Next]_vars
  PROVE  DeletedStaysEmpty'
<1> USE DEF ActiveStatus, TerminalStatus
<1>1. ASSUME NEW s \in Run,
             LookUpReplay(s) \/ Refuse(s) \/ Collide(s) \/ ResolveCollision(s)
      PROVE  DeletedStaysEmpty'
  BY <1>1, EmptyStays DEF LookUpReplay, Refuse, Collide, ResolveCollision, tables
<1>2. ASSUME NEW s \in Run, Accept(s) PROVE DeletedStaysEmpty'
  BY <1>2, LiveConversationsStep DEF Accept
<1>3. ASSUME NEW w \in Worker, NEW s \in Run, Claim(w, s) PROVE DeletedStaysEmpty'
  <2>1. conversation[ConversationOf(s)] # "deleted"
    BY <1>3, LiveRun DEF Claim, ClaimRun, Claimable, Exists
  <2>2. QED
    BY <1>3, <2>1, LiveConversationsStep DEF Claim, ClaimRun
<1>4. ASSUME NEW w \in Worker, LoadCheckpoint(w) \/ GraphError(w)
      PROVE  DeletedStaysEmpty'
  BY <1>4, EmptyStays DEF LoadCheckpoint, GraphError, tables
<1>5. ASSUME NEW w \in Worker, LeaveNode(w) PROVE DeletedStaysEmpty'
  <2> DEFINE s == worker[w].run
  <2>1. s \in Run
    BY <1>5 DEF LeaveNode, TypeOK
  <2>2. CASE Savable(s, worker[w].revision)
    <3>1. conversation[ConversationOf(s)] # "deleted"
      BY <2>1, <2>2, LiveRun DEF Savable
    <3>2. \E row : checkpoint' = [checkpoint EXCEPT ![s] = row]
      BY <1>5, <2>2 DEF LeaveNode
    <3>3. QED
      BY <1>5, <2>1, <3>1, <3>2, LiveConversationsStep DEF LeaveNode
  <2>3. CASE ~Savable(s, worker[w].revision)
    BY <1>5, <2>3, EmptyStays DEF LeaveNode
  <2>4. QED
    BY <2>2, <2>3
<1>6. ASSUME NEW w \in Worker, EnterNode(w) PROVE DeletedStaysEmpty'
  <2>1. worker[w].run \in Run
    BY <1>6 DEF EnterNode, TypeOK
  <2>2. CASE run[worker[w].run] = "running"
    <3>1. conversation[ConversationOf(worker[w].run)] # "deleted"
      BY <2>1, <2>2, LiveRun DEF Exists
    <3>2. QED
      BY <1>6, <2>1, <2>2, <3>1, LiveConversationsStep DEF EnterNode
  <2>3. CASE run[worker[w].run] # "running"
    BY <1>6, <2>3, EmptyStays DEF EnterNode
  <2>4. QED
    BY <2>2, <2>3
<1>7. ASSUME NEW w \in Worker, Pause(w) PROVE DeletedStaysEmpty'
  <2> DEFINE s == worker[w].run
  <2>1. s \in Run
    BY <1>7 DEF Pause, TypeOK
  <2>2. CASE run[s] = "running"
    <3>1. conversation[ConversationOf(s)] # "deleted"
      BY <2>1, <2>2, LiveRun DEF Exists
    <3>2. \E row : clarification' = [clarification EXCEPT ![s] = row]
      <4>1. clarification' = [clarification EXCEPT ![s] =
              IF @.status = "none" THEN [status |-> "pending", answer |-> NoAnswer]
                                   ELSE @]
        BY <1>7, <2>2 DEF Pause
      <4>2. QED
        BY <4>1
    <3>3. QED
      BY <1>7, <2>1, <2>2, <3>1, <3>2, LiveConversationsStep DEF Pause
  <2>3. CASE run[s] # "running"
    BY <1>7, <2>3, EmptyStays DEF Pause
  <2>4. QED
    BY <2>2, <2>3
<1>8. ASSUME NEW w \in Worker, Complete(w) PROVE DeletedStaysEmpty'
  <2>1. worker[w].run \in Run
    BY <1>8 DEF Complete, TypeOK
  <2>2. CASE Completable(worker[w].run)
    <3>1. conversation[ConversationOf(worker[w].run)] # "deleted"
      BY <2>1, <2>2, LiveRun DEF Exists, Completable
    <3>2. QED
      BY <1>8, <2>1, <2>2, <3>1, LiveConversationsStep DEF Complete
  <2>3. CASE ~Completable(worker[w].run)
    BY <1>8, <2>3, EmptyStays DEF Complete
  <2>4. QED
    BY <2>2, <2>3
<1>9. ASSUME NEW w \in Worker, Fail(w) PROVE DeletedStaysEmpty'
  <2>1. worker[w].run \in Run
    BY <1>9 DEF Fail, TypeOK
  <2>2. CASE Failable(worker[w].run)
    <3>1. conversation[ConversationOf(worker[w].run)] # "deleted"
      BY <2>1, <2>2, LiveRun DEF Exists, Failable
    <3>2. QED
      BY <1>9, <2>1, <2>2, <3>1, LiveConversationsStep DEF Fail
  <2>3. CASE ~Failable(worker[w].run)
    BY <1>9, <2>3, EmptyStays DEF Fail
  <2>4. QED
    BY <2>2, <2>3
<1>10. ASSUME NEW s \in Run, Cancel(s) PROVE DeletedStaysEmpty'
  <2>1. conversation[ConversationOf(s)] # "deleted"
    BY <1>10, LiveRun DEF Cancel, Exists
  <2>2. QED
    BY <1>10, <2>1, LiveConversationsStep DEF Cancel
<1>11. ASSUME NEW s \in Run, NEW answer \in Answer, Resume(s, answer)
       PROVE  DeletedStaysEmpty'
  <2>1. conversation[ConversationOf(s)] # "deleted"
    BY <1>11, LiveRun DEF Resume
  <2>2. \E row : checkpoint' = [checkpoint EXCEPT ![s] = row]
    <3>1. checkpoint' = [checkpoint EXCEPT ![s] =
                           [revision |-> @.revision + 1, clarification |-> "answered"]]
      BY <1>11 DEF Resume, AnswerCheckpoint
    <3>2. QED
      BY <3>1
  <2>3. QED
    BY <1>11, <2>1, <2>2, LiveConversationsStep DEF Resume
<1>12. ASSUME NEW c \in Conversation, NEW status \in {"active", "archived"},
              SetArchived(c, status)
       PROVE  DeletedStaysEmpty'
  <2>1. \A d \in Conversation : conversation'[d] = "deleted" => conversation[d] = "deleted"
    BY <1>12 DEF SetArchived, TypeOK
  <2>2. QED
    BY <1>12, <2>1 DEF SetArchived, DeletedStaysEmpty, Exists, RunsOf
<1>13. ASSUME NEW c \in Conversation, Delete(c) PROVE DeletedStaysEmpty'
  <2> SUFFICES ASSUME NEW d \in Conversation, conversation'[d] = "deleted"
               PROVE  /\ \A m \in messages' : m.conversation # d
                      /\ \A r \in RunsOf(d) : /\ ~Exists(r)'
                                              /\ events'[r] = <<>>
                                              /\ clarification'[r] = NoClarification
                                              /\ checkpoint'[r] = NoCheckpoint
    BY DEF DeletedStaysEmpty, RunsOf
  <2>1. CASE d = c
    BY <1>13, <2>1 DEF Delete, Exists, RunsOf
  <2>2. CASE d # c
    <3>1. conversation[d] = "deleted"
      BY <1>13, <2>2 DEF Delete, TypeOK
    <3>2. \A r \in RunsOf(d) : r \in Run /\ r \notin RunsOf(c)
      BY <2>2 DEF RunsOf
    <3>3. QED
      BY <1>13, <3>1, <3>2 DEF Delete, DeletedStaysEmpty, Exists
  <2>3. QED
    BY <2>1, <2>2
<1>14. ASSUME NEW reached \in SUBSET Conversation, PrivacySchedule(reached)
       PROVE  DeletedStaysEmpty'
  BY <1>14 DEF PrivacySchedule, DeletedStaysEmpty, Exists, RunsOf
<1>15. ASSUME NEW threads \in SUBSET Worker, Crash(threads) PROVE DeletedStaysEmpty'
  BY <1>15, EmptyStays DEF Crash, tables
<1>16. CASE UNCHANGED vars
  BY <1>16, EmptyStays DEF vars
<1>17. QED
  BY <1>1, <1>2, <1>3, <1>4, <1>5, <1>6, <1>7, <1>8, <1>9, <1>10, <1>11, <1>12, <1>13,
     <1>14, <1>15, <1>16 DEF Next, Submit, Work, UserStep

\* No worker, request or answer that was under way when a conversation was
\* deleted brings a row of it back: each write finds the run gone.
THEOREM Deleted == Spec => []DeletedStaysEmpty
<1>1. Init => DeletedStaysEmpty
  BY DEF Init, DeletedStaysEmpty
<1>2. TypeOK /\ MessagesPlaced /\ DeletedStaysEmpty /\ [Next]_vars => DeletedStaysEmpty'
  BY DeletedStep
<1>3. QED
  BY <1>1, <1>2, TypeCorrect, Placed, PTL DEF Spec

-----------------------------------------------------------------------------
(* One reply *)

Replies(r) == {m \in messages : m.run = r /\ m.role = "assistant"}

LEMMA SameReplies ==
  ASSUME RepliedOnce,
         \A r \in Run : /\ run'[r] = "completed" <=> run[r] = "completed"
                        /\ Replies(r)' = Replies(r)
  PROVE  RepliedOnce'
BY DEF RepliedOnce, Replies, MessagesOf

LEMMA ReplyRowsStay ==
  ASSUME RepliedOnce, UNCHANGED <<messages, run>>
  PROVE  RepliedOnce'
BY SameReplies DEF Replies

\* A transaction of an uncompleted run that does not complete it.
LEMMA NoReplyStep ==
  ASSUME TypeOK, RepliedOnce, NEW s \in Run, run[s] # "completed",
         UNCHANGED run \/ \E status : status # "completed" /\ SetRun(s, status),
         UNCHANGED messages
           \/ \E role \in {"prompt", "answer"} : AppendMessage(s, role)
  PROVE  RepliedOnce'
<1>1. \A r \in Run : run'[r] = "completed" <=> run[r] = "completed"
  BY DEF SetRun, TypeOK
<1>2. \A r \in Run : Replies(r)' = Replies(r)
  BY DEF AppendMessage, Replies
<1>3. QED
  BY <1>1, <1>2, SameReplies

\* The reply of completeRun is the first: the run was not completed before.
LEMMA FirstReply ==
  ASSUME TypeOK, RepliedOnce, NEW s \in Run, Completable(s),
         AppendMessage(s, "assistant"), SetRun(s, "completed")
  PROVE  RepliedOnce'
<1> DEFINE reply == [conversation |-> ConversationOf(s),
                     sequence |-> lastSequence[ConversationOf(s)] + 1,
                     role |-> "assistant", run |-> s]
<1>1. messages' = messages \cup {reply}
  BY DEF AppendMessage
<1>2. Replies(s) = {}
  BY DEF Completable, RepliedOnce, Replies, MessagesOf
<1>3. Replies(s)' = {reply}
  BY <1>1, <1>2 DEF Replies
<1>4. run'[s] = "completed"
  BY DEF SetRun, TypeOK
<1>5. \A r \in Run : r # s => run'[r] = run[r] /\ Replies(r)' = Replies(r)
  BY <1>1 DEF SetRun, TypeOK, Replies
<1>6. SUFFICES ASSUME NEW r \in Run
               PROVE  /\ run'[r] = "completed" <=> Replies(r)' # {}
                      /\ \A m, n \in Replies(r)' : m = n
  BY DEF RepliedOnce, Replies, MessagesOf
<1>7. CASE r = s
  BY <1>3, <1>4, <1>7
<1>8. CASE r # s
  BY <1>5, <1>8 DEF RepliedOnce, Replies, MessagesOf
<1>9. QED
  BY <1>7, <1>8

LEMMA DeleteReplies ==
  ASSUME TypeOK, MessagesPlaced, RepliedOnce, NEW c \in Conversation, Delete(c)
  PROVE  RepliedOnce'
<1> SUFFICES ASSUME NEW r \in Run
             PROVE  /\ run'[r] = "completed" <=> Replies(r)' # {}
                    /\ \A m, n \in Replies(r)' : m = n
  BY DEF RepliedOnce, Replies, MessagesOf
<1>1. \A m \in Replies(r) : m \in messages /\ m.conversation = ConversationOf(r)
  BY DEF MessagesPlaced, Replies
<1>2. CASE r \in RunsOf(c)
  <2>1. Replies(r)' = {}
    BY <1>1, <1>2 DEF Delete, Replies, RunsOf
  <2>2. run'[r] # "completed"
    BY <1>2 DEF Delete, Exists, TerminalStatus
  <2>3. QED
    BY <2>1, <2>2
<1>3. CASE r \notin RunsOf(c)
  <2>1. Replies(r)' = Replies(r)
    BY <1>1, <1>3 DEF Delete, Replies, RunsOf
  <2>2. run'[r] = run[r]
    BY <1>3 DEF Delete
  <2>3. QED
    BY <2>1, <2>2 DEF RepliedOnce, Replies, MessagesOf
<1>4. QED
  BY <1>2, <1>3

LEMMA RepliedStep ==
  ASSUME TypeOK, SubmissionsIdempotent, MessagesPlaced, RepliedOnce, [Next]_vars
  PROVE  RepliedOnce'
<1>1. ASSUME NEW s \in Run,
             LookUpReplay(s) \/ Refuse(s) \/ Collide(s) \/ ResolveCollision(s)
      PROVE  RepliedOnce'
  BY <1>1, ReplyRowsStay DEF LookUpReplay, Refuse, Collide, ResolveCollision, tables
<1>2. ASSUME NEW s \in Run, Accept(s) PROVE RepliedOnce'
  <2>1. run[s] = "none"
    BY <1>2 DEF Accept, SubmissionsIdempotent
  <2>2. QED
    BY <1>2, <2>1, NoReplyStep DEF Accept
<1>3. ASSUME NEW w \in Worker, NEW s \in Run, Claim(w, s) PROVE RepliedOnce'
  BY <1>3, NoReplyStep DEF Claim, ClaimRun, Claimable
<1>4. ASSUME NEW w \in Worker,
             LoadCheckpoint(w) \/ EnterNode(w) \/ LeaveNode(w) \/ GraphError(w)
      PROVE  RepliedOnce'
  BY <1>4, ReplyRowsStay DEF LoadCheckpoint, EnterNode, LeaveNode, GraphError, tables
<1>5. ASSUME NEW w \in Worker, Pause(w) PROVE RepliedOnce'
  <2>1. worker[w].run \in Run
    BY <1>5 DEF Pause, TypeOK
  <2>2. CASE run[worker[w].run] = "running"
    BY <1>5, <2>1, <2>2, NoReplyStep DEF Pause
  <2>3. CASE run[worker[w].run] # "running"
    BY <1>5, <2>3, ReplyRowsStay DEF Pause
  <2>4. QED
    BY <2>2, <2>3
<1>6. ASSUME NEW w \in Worker, Complete(w) PROVE RepliedOnce'
  <2>1. worker[w].run \in Run
    BY <1>6 DEF Complete, TypeOK
  <2>2. CASE Completable(worker[w].run)
    BY <1>6, <2>1, <2>2, FirstReply DEF Complete
  <2>3. CASE ~Completable(worker[w].run)
    BY <1>6, <2>3, ReplyRowsStay DEF Complete
  <2>4. QED
    BY <2>2, <2>3
<1>7. ASSUME NEW w \in Worker, Fail(w) PROVE RepliedOnce'
  <2>1. worker[w].run \in Run
    BY <1>7 DEF Fail, TypeOK
  <2>2. CASE Failable(worker[w].run)
    BY <1>7, <2>1, <2>2, NoReplyStep DEF Fail, Failable, ActiveStatus
  <2>3. CASE ~Failable(worker[w].run)
    BY <1>7, <2>3, ReplyRowsStay DEF Fail
  <2>4. QED
    BY <2>2, <2>3
<1>8. ASSUME NEW s \in Run, Cancel(s) PROVE RepliedOnce'
  BY <1>8, NoReplyStep DEF Cancel, ActiveStatus
<1>9. ASSUME NEW s \in Run, NEW answer \in Answer, Resume(s, answer)
      PROVE  RepliedOnce'
  BY <1>9, NoReplyStep DEF Resume
<1>10. ASSUME NEW c \in Conversation, NEW status \in {"active", "archived"},
              SetArchived(c, status)
       PROVE  RepliedOnce'
  BY <1>10, ReplyRowsStay DEF SetArchived
<1>11. ASSUME NEW c \in Conversation, Delete(c) PROVE RepliedOnce'
  BY <1>11, DeleteReplies
<1>12. ASSUME NEW reached \in SUBSET Conversation, PrivacySchedule(reached)
       PROVE  RepliedOnce'
  <2>1. \A r \in Run : run'[r] = "completed" <=> run[r] = "completed"
    BY <1>12 DEF PrivacySchedule, ActiveStatus
  <2>2. QED
    BY <1>12, <2>1, SameReplies DEF PrivacySchedule, Replies
<1>13. ASSUME NEW threads \in SUBSET Worker, Crash(threads) PROVE RepliedOnce'
  BY <1>13, ReplyRowsStay DEF Crash, tables
<1>14. CASE UNCHANGED vars
  BY <1>14, ReplyRowsStay DEF vars
<1>15. QED
  BY <1>1, <1>2, <1>3, <1>4, <1>5, <1>6, <1>7, <1>8, <1>9, <1>10, <1>11, <1>12, <1>13,
     <1>14 DEF Next, Submit, Work, UserStep

\* However often a job is delivered, retried or its commit left unseen, a run is
\* completed with exactly one reply and no other run has any.
THEOREM Replied == Spec => []RepliedOnce
<1>1. Init => RepliedOnce
  BY DEF Init, RepliedOnce, MessagesOf
<1>2. TypeOK /\ SubmissionsIdempotent /\ MessagesPlaced /\ RepliedOnce /\ [Next]_vars
        => RepliedOnce'
  BY RepliedStep
<1>3. QED
  BY <1>1, <1>2, TypeCorrect, Idempotent, Placed, PTL DEF Spec

-----------------------------------------------------------------------------
(* One answer *)

Answers(r) == {m \in messages : m.run = r /\ m.role = "answer"}

Answered(r) == clarification[r].status = "answered"

\* With QuestionInv, the invariant behind ClarificationAgrees: the answer is in
\* the timeline once and has its outbox row exactly when the row records it.
AnswerRecorded ==
  \A r \in Run :
    /\ Answered(r) => [run |-> r, kind |-> "resume"] \in outbox
    /\ Answered(r) <=> Answers(r) # {}
    /\ \A m, n \in Answers(r) : m = n

LEMMA SameAnswers ==
  ASSUME AnswerRecorded, outbox \subseteq outbox',
         \A r \in Run : (Answered(r)' <=> Answered(r)) /\ Answers(r)' = Answers(r)
  PROVE  AnswerRecorded'
BY DEF AnswerRecorded

LEMMA AnswerRowsStay ==
  ASSUME AnswerRecorded, UNCHANGED <<messages, clarification, outbox>>
  PROVE  AnswerRecorded'
BY SameAnswers DEF Answers, Answered

\* A prompt or a reply changes no answer.
LEMMA OtherMessageStep ==
  ASSUME AnswerRecorded, UNCHANGED clarification, outbox \subseteq outbox',
         NEW s \in Run, NEW role \in {"prompt", "assistant"}, AppendMessage(s, role)
  PROVE  AnswerRecorded'
<1>1. \A r \in Run : Answers(r)' = Answers(r)
  BY DEF AppendMessage, Answers
<1>2. QED
  BY <1>1, SameAnswers DEF Answered

\* resumeRun finds the question pending, hence without an answer.
LEMMA AnswerStep ==
  ASSUME TypeOK, AnswerRecorded, NEW s \in Run, NEW answer \in Answer, Resume(s, answer)
  PROVE  AnswerRecorded'
<1> DEFINE reply == [conversation |-> ConversationOf(s),
                     sequence |-> lastSequence[ConversationOf(s)] + 1,
                     role |-> "answer", run |-> s]
<1>1. messages' = messages \cup {reply}
  BY DEF Resume, AppendMessage
<1>2. Answers(s) = {}
  BY DEF Resume, AnswerRecorded, Answered
<1>3. Answers(s)' = {reply}
  BY <1>1, <1>2 DEF Answers
<1>4. clarification' = [clarification EXCEPT ![s] =
                          [status |-> "answered", answer |-> answer]]
  BY DEF Resume
<1>5. Answered(s)'
  BY <1>4 DEF Answered, TypeOK
<1>6. outbox' = outbox \cup {[run |-> s, kind |-> "resume"]}
  BY DEF Resume
<1>7. SUFFICES ASSUME NEW r \in Run
               PROVE  /\ Answered(r)' => [run |-> r, kind |-> "resume"] \in outbox'
                      /\ Answered(r)' <=> Answers(r)' # {}
                      /\ \A m, n \in Answers(r)' : m = n
  BY DEF AnswerRecorded
<1>8. CASE r = s
  BY <1>3, <1>5, <1>6, <1>8
<1>9. CASE r # s
  <2>1. Answers(r)' = Answers(r)
    BY <1>1, <1>9 DEF Answers
  <2>2. Answered(r)' <=> Answered(r)
    BY <1>4, <1>9 DEF Answered, TypeOK
  <2>3. QED
    BY <1>6, <2>1, <2>2 DEF AnswerRecorded
<1>10. QED
  BY <1>8, <1>9

LEMMA PauseAnswers ==
  ASSUME TypeOK, AnswerRecorded, NEW w \in Worker, Pause(w)
  PROVE  AnswerRecorded'
<1> DEFINE s == worker[w].run
<1>1. CASE run[s] = "running"
  <2>1. clarification' = [clarification EXCEPT ![s] =
          IF @.status = "none" THEN [status |-> "pending", answer |-> NoAnswer] ELSE @]
    BY <1>1 DEF Pause
  <2>2. \A r \in Run : Answered(r)' <=> Answered(r)
    BY <2>1 DEF Answered, TypeOK
  <2>3. UNCHANGED <<messages, outbox>>
    BY DEF Pause
  <2>4. QED
    BY <2>2, <2>3, SameAnswers DEF Answers
<1>2. CASE run[s] # "running"
  BY <1>2, AnswerRowsStay DEF Pause
<1>3. QED
  BY <1>1, <1>2

LEMMA DeleteAnswers ==
  ASSUME TypeOK, MessagesPlaced, AnswerRecorded, NEW c \in Conversation, Delete(c)
  PROVE  AnswerRecorded'
<1> SUFFICES ASSUME NEW r \in Run
             PROVE  /\ Answered(r)' => [run |-> r, kind |-> "resume"] \in outbox'
                    /\ Answered(r)' <=> Answers(r)' # {}
                    /\ \A m, n \in Answers(r)' : m = n
  BY DEF AnswerRecorded
<1>1. \A m \in Answers(r) : m \in messages /\ m.conversation = ConversationOf(r)
  BY DEF MessagesPlaced, Answers
<1>2. CASE r \in RunsOf(c)
  <2>1. Answers(r)' = {}
    BY <1>1, <1>2 DEF Delete, Answers, RunsOf
  <2>2. ~Answered(r)'
    BY <1>2 DEF Delete, Answered, NoClarification
  <2>3. QED
    BY <2>1, <2>2
<1>3. CASE r \notin RunsOf(c)
  <2>1. Answers(r)' = Answers(r)
    BY <1>1, <1>3 DEF Delete, Answers, RunsOf
  <2>2. Answered(r)' <=> Answered(r)
    BY <1>3 DEF Delete, Answered
  <2>3. outbox' = outbox
    BY DEF Delete
  <2>4. QED
    BY <2>1, <2>2, <2>3 DEF AnswerRecorded
<1>4. QED
  BY <1>2, <1>3

LEMMA AnswerRecordedStep ==
  ASSUME TypeOK, MessagesPlaced, AnswerRecorded, [Next]_vars
  PROVE  AnswerRecorded'
<1>1. ASSUME NEW s \in Run,
             LookUpReplay(s) \/ Refuse(s) \/ Collide(s) \/ ResolveCollision(s) \/ Cancel(s)
      PROVE  AnswerRecorded'
  BY <1>1, AnswerRowsStay
     DEF LookUpReplay, Refuse, Collide, ResolveCollision, Cancel, tables
<1>2. ASSUME NEW s \in Run, Accept(s) PROVE AnswerRecorded'
  BY <1>2, OtherMessageStep DEF Accept
<1>3. ASSUME NEW w \in Worker, NEW s \in Run, Claim(w, s) PROVE AnswerRecorded'
  BY <1>3, AnswerRowsStay DEF Claim, ClaimRun
<1>4. ASSUME NEW w \in Worker,
             \/ LoadCheckpoint(w) \/ EnterNode(w) \/ LeaveNode(w) \/ GraphError(w)
             \/ Fail(w)
      PROVE  AnswerRecorded'
  BY <1>4, AnswerRowsStay
     DEF LoadCheckpoint, EnterNode, LeaveNode, GraphError, Fail, tables
<1>5. ASSUME NEW w \in Worker, Pause(w) PROVE AnswerRecorded'
  BY <1>5, PauseAnswers
<1>6. ASSUME NEW w \in Worker, Complete(w) PROVE AnswerRecorded'
  <2>1. worker[w].run \in Run
    BY <1>6 DEF Complete, TypeOK
  <2>2. CASE Completable(worker[w].run)
    BY <1>6, <2>1, <2>2, OtherMessageStep DEF Complete
  <2>3. CASE ~Completable(worker[w].run)
    BY <1>6, <2>3, AnswerRowsStay DEF Complete
  <2>4. QED
    BY <2>2, <2>3
<1>7. ASSUME NEW s \in Run, NEW answer \in Answer, Resume(s, answer)
      PROVE  AnswerRecorded'
  BY <1>7, AnswerStep
<1>8. ASSUME NEW c \in Conversation, NEW status \in {"active", "archived"},
             SetArchived(c, status)
      PROVE  AnswerRecorded'
  BY <1>8, AnswerRowsStay DEF SetArchived
<1>9. ASSUME NEW c \in Conversation, Delete(c) PROVE AnswerRecorded'
  BY <1>9, DeleteAnswers
<1>10. ASSUME NEW reached \in SUBSET Conversation, PrivacySchedule(reached)
       PROVE  AnswerRecorded'
  BY <1>10, AnswerRowsStay DEF PrivacySchedule
<1>11. ASSUME NEW threads \in SUBSET Worker, Crash(threads) PROVE AnswerRecorded'
  BY <1>11, AnswerRowsStay DEF Crash, tables
<1>12. CASE UNCHANGED vars
  BY <1>12, AnswerRowsStay DEF vars
<1>13. QED
  BY <1>1, <1>2, <1>3, <1>4, <1>5, <1>6, <1>7, <1>8, <1>9, <1>10, <1>11, <1>12
     DEF Next, Submit, Work, UserStep

\* The answer of a run is recorded in its row, the timeline and the outbox at
\* once, and only once.
THEOREM AnswersRecorded == Spec => []AnswerRecorded
<1>1. Init => AnswerRecorded
  BY DEF Init, AnswerRecorded, Answered, Answers, NoClarification
<1>2. TypeOK /\ MessagesPlaced /\ AnswerRecorded /\ [Next]_vars => AnswerRecorded'
  BY AnswerRecordedStep
<1>3. QED
  BY <1>1, <1>2, TypeCorrect, Placed, PTL DEF Spec

\* Run, clarification row, checkpoint, timeline and outbox never disagree on the
\* question: a waiting run can be resumed, and of two answers one is recorded,
\* in all of them at once.
THEOREM QuestionAgreed == Spec => []ClarificationAgrees
<1>1. QuestionInv /\ AnswerRecorded => ClarificationAgrees
  <2> SUFFICES ASSUME QuestionInv, AnswerRecorded PROVE ClarificationAgrees
    OBVIOUS
  <2> DEFINE Agrees(r, answers) ==
    /\ run[r] = "waiting_for_user" =>
         clarification[r].status = "pending" /\ checkpoint[r].clarification = "pending"
    /\ run[r] \in {"queued", "running"} => clarification[r].status # "pending"
    /\ Answered(r) => /\ checkpoint[r].clarification = "answered"
                      /\ [run |-> r, kind |-> "resume"] \in outbox
    /\ answers # {} <=> Answered(r)
    /\ \A m, n \in answers : m = n
  <2>1. ASSUME NEW r \in Run PROVE Agrees(r, Answers(r))
    BY DEF QuestionInv, QuestionOpen, AnswerKept, AnswerRecorded, Answered
  <2>2. \A r \in Run : Answers(r) = {m \in MessagesOf(r) : m.role = "answer"}
    BY DEF MessagesOf, Answers
  <2>3. \A r \in Run : Agrees(r, {m \in MessagesOf(r) : m.role = "answer"})
    <3> HIDE DEF Agrees
    <3>1. QED
      BY <2>1, <2>2
  <2>4. QED
    BY <2>3 DEF ClarificationAgrees, Answered
<1>2. QED
  BY <1>1, QuestionInvariant, AnswersRecorded, PTL

-----------------------------------------------------------------------------
(* The event log *)

Places(log, type) == {i \in DOMAIN log : log[i] = type}

LEMMA PlacesFinite ==
  ASSUME NEW log \in Seq(EventType), NEW type
  PROVE  IsFiniteSet(Places(log, type)) /\ Cardinality(Places(log, type)) \in Nat
<1>1. IsFiniteSet(1 .. Len(log))
  BY FS_Interval
<1>2. Places(log, type) \in SUBSET (1 .. Len(log))
  BY DEF Places
<1>3. QED
  BY <1>1, <1>2, FS_Subset, FS_CardinalityType

\* What appended events add to the count of a type.
LEMMA CountOthers ==
  ASSUME NEW log \in Seq(EventType), NEW new \in Seq(EventType), NEW type,
         \A j \in 1 .. Len(new) : new[j] # type
  PROVE  Places(log \o new, type) = Places(log, type)
BY ConcatProperties DEF Places

LEMMA CountOne ==
  ASSUME NEW log \in Seq(EventType), NEW type \in EventType
  PROVE  Cardinality(Places(log \o <<type>>, type)) = Cardinality(Places(log, type)) + 1
<1>1. /\ DOMAIN (log \o <<type>>) = 1 .. Len(log) + 1
      /\ \A i \in 1 .. Len(log) + 1 :
           (log \o <<type>>)[i] = IF i <= Len(log) THEN log[i] ELSE type
  BY ConcatProperties
<1>2. Places(log \o <<type>>, type) = Places(log, type) \cup {Len(log) + 1}
  BY <1>1 DEF Places
<1>3. Len(log) + 1 \notin Places(log, type)
  BY DEF Places
<1>4. QED
  BY <1>2, <1>3, PlacesFinite, FS_AddElement

FinalType == {"run.completed", "run.failed", "run.cancelled"}

CountedType == {"run.started", "run.resumed", "run.clarification"}

Counts(r) == [type \in CountedType |-> Cardinality(Places(events[r], type))]

\* The invariant behind LogTellsHistory, for one run: the status says how many
\* starts, questions and resumptions the log may hold.
Told(r) ==
  LET log == events[r]
      started == Counts(r)["run.started"]
      resumed == Counts(r)["run.resumed"]
      asked == Counts(r)["run.clarification"]
  IN  /\ Exists(r) => log # <<>> /\ log[1] = "run.queued"
      /\ ~Exists(r) => log = <<>>
      /\ started <= 1 + resumed
      /\ run[r] = "queued" => started <= resumed
      /\ resumed <= asked
      /\ run[r] = "waiting_for_user" => resumed + 1 <= asked
      /\ asked <= 1
      /\ clarification[r].status = "none" => asked = 0
      /\ run[r] \in ActiveStatus => \A i \in DOMAIN log : log[i] \notin FinalType
      /\ \A i \in DOMAIN log : log[i] \in FinalType =>
           i = Len(log) /\ run[r] \in TerminalStatus /\ log[i] = TerminalEvent[run[r]]
      /\ run[r] \in {"completed", "failed"} => log[Len(log)] = TerminalEvent[run[r]]

\* What AppendEvents does to the log of an active run.
LEMMA LogGrows ==
  ASSUME TypeOK, NEW r \in Run, Told(r), Exists(r), NEW types \in Seq(EventType),
         types # <<>>, AppendEvents(r, types)
  PROVE  /\ events'[r] # <<>> /\ events'[r][1] = "run.queued"
         /\ Len(events'[r]) = Len(events[r]) + Len(types)
         /\ DOMAIN events'[r] = 1 .. Len(events'[r])
         /\ DOMAIN events[r] = 1 .. Len(events[r])
         /\ \A i \in DOMAIN events'[r] :
              events'[r][i] = IF i <= Len(events[r]) THEN events[r][i]
                                                     ELSE types[i - Len(events[r])]
<1>1. events'[r] = events[r] \o types /\ events[r] \in Seq(EventType)
  BY DEF AppendEvents, TypeOK
<1>2. events[r] # <<>> /\ events[r][1] = "run.queued"
  BY DEF Told
<1>3. QED
  BY <1>1, <1>2, ConcatProperties

LEMMA CountsGrow ==
  ASSUME TypeOK, NEW r \in Run, NEW type \in EventType, AppendEvents(r, <<type>>)
  PROVE  /\ Counts(r) \in [CountedType -> Nat]
         /\ \A t \in CountedType :
              Counts(r)'[t] = IF t = type THEN Counts(r)[t] + 1 ELSE Counts(r)[t]
<1>1. events'[r] = events[r] \o <<type>> /\ events[r] \in Seq(EventType)
  BY DEF AppendEvents, TypeOK
<1>2. ASSUME NEW t \in CountedType
      PROVE  Counts(r)'[t] = IF t = type THEN Counts(r)[t] + 1 ELSE Counts(r)[t]
  <2>1. CASE t = type
    BY <1>1, <2>1, CountOne DEF Counts
  <2>2. CASE t # type
    <3> DEFINE new == <<type>>
    <3>1. new \in Seq(EventType) /\ Len(new) = 1 /\ new[1] # t
      BY <2>2
    <3>2. events'[r] = events[r] \o new
      BY <1>1
    <3> HIDE DEF new
    <3>3. Places(events'[r], t) = Places(events[r], t)
      BY <1>1, <3>1, <3>2, CountOthers
    <3>4. QED
      BY <2>2, <3>3 DEF Counts
  <2>3. QED
    BY <2>1, <2>2
<1>3. QED
  BY <1>1, <1>2, PlacesFinite DEF Counts

LEMMA CountsTyped ==
  ASSUME TypeOK, NEW r \in Run
  PROVE  Counts(r) \in [CountedType -> Nat]
BY PlacesFinite DEF Counts, TypeOK

LEMMA ToldStays ==
  ASSUME NEW r \in Run, Told(r), run'[r] = run[r], events'[r] = events[r],
         clarification'[r] = clarification[r]
  PROVE  Told(r)'
BY DEF Told, Counts, Exists

\* Another run's transaction.
LEMMA AnotherTold ==
  ASSUME TypeOK, NEW r \in Run, Told(r), NEW s \in Run, s # r,
         UNCHANGED run \/ \E status : SetRun(s, status),
         UNCHANGED events \/ \E types : AppendEvents(s, types),
         UNCHANGED clarification
           \/ \E row : clarification' = [clarification EXCEPT ![s] = row]
  PROVE  Told(r)'
<1>1. run'[r] = run[r]
  BY DEF SetRun, TypeOK
<1>2. events'[r] = events[r]
  BY DEF AppendEvents, TypeOK
<1>3. clarification'[r] = clarification[r]
  BY DEF TypeOK
<1>4. QED
  BY <1>1, <1>2, <1>3, ToldStays

\* claimRun, progress, pauseRun and resumeRun append one event that ends nothing.
LEMMA ActiveTold ==
  ASSUME TypeOK, NEW r \in Run, Told(r),
         NEW type \in EventType \ FinalType, AppendEvents(r, <<type>>),
         run[r] \in ActiveStatus, run'[r] \in ActiveStatus,
         \/ /\ type = "run.started"
            /\ run[r] = "queued" /\ run'[r] = "running"
            /\ clarification'[r] = clarification[r]
         \/ /\ type = "run.progress"
            /\ run[r] = "running" /\ run'[r] = "running"
            /\ clarification'[r] = clarification[r]
         \/ /\ type = "run.clarification"
            /\ run[r] = "running" /\ run'[r] = "waiting_for_user"
            /\ clarification[r].status = "none" /\ clarification'[r].status = "pending"
         \/ /\ type = "run.resumed"
            /\ run[r] = "waiting_for_user" /\ run'[r] = "queued"
            /\ clarification'[r].status = "answered"
  PROVE  Told(r)'
<1> DEFINE new == <<type>>
<1>1. new \in Seq(EventType) /\ new # <<>> /\ Len(new) = 1 /\ new[1] = type
  OBVIOUS
<1>2. AppendEvents(r, new) /\ Exists(r)
  BY DEF Exists
<1> HIDE DEF new
<1>3. /\ events'[r] # <<>> /\ events'[r][1] = "run.queued"
      /\ \A i \in DOMAIN events'[r] : events'[r][i] \notin FinalType
  <2>1. \A i \in DOMAIN events[r] : events[r][i] \notin FinalType
    BY DEF Told
  <2>2. events[r] \in Seq(EventType)
    BY DEF TypeOK
  <2>3. QED
    BY <1>1, <1>2, <2>1, <2>2, LogGrows
<1>4. Exists(r)'
  BY DEF Exists
<1>5. /\ Counts(r) \in [CountedType -> Nat]
      /\ \A t \in CountedType :
           Counts(r)'[t] = IF t = type THEN Counts(r)[t] + 1 ELSE Counts(r)[t]
  BY CountsGrow, CountsTyped
<1>6. /\ Counts(r)'["run.started"] <= 1 + Counts(r)'["run.resumed"]
      /\ run'[r] = "queued" => Counts(r)'["run.started"] <= Counts(r)'["run.resumed"]
      /\ Counts(r)'["run.resumed"] <= Counts(r)'["run.clarification"]
      /\ run'[r] = "waiting_for_user" =>
           Counts(r)'["run.resumed"] + 1 <= Counts(r)'["run.clarification"]
      /\ Counts(r)'["run.clarification"] <= 1
      /\ clarification'[r].status = "none" => Counts(r)'["run.clarification"] = 0
  BY <1>5 DEF Told, CountedType
<1>7. run'[r] \notin {"completed", "failed"}
  BY DEF ActiveStatus
<1>8. QED
  BY <1>3, <1>4, <1>6, <1>7 DEF Told

\* completeRun, failRun and cancelRun end the log.
LEMMA EndTold ==
  ASSUME TypeOK, NEW r \in Run, Told(r), run[r] \in ActiveStatus,
         NEW status \in TerminalStatus, run'[r] = status,
         NEW new \in Seq(EventType), AppendEvents(r, new), Len(new) > 0,
         new[Len(new)] = TerminalEvent[status],
         \A j \in 1 .. Len(new) : new[j] \notin CountedType,
         \A j \in 1 .. Len(new) : j < Len(new) => new[j] \notin FinalType,
         clarification'[r] = clarification[r]
  PROVE  Told(r)'
<1>1. events[r] \in Seq(EventType) /\ events'[r] = events[r] \o new /\ Exists(r)
  BY DEF AppendEvents, TypeOK, Exists
<1>2. \A t \in CountedType : Counts(r)'[t] = Counts(r)[t]
  <2>1. ASSUME NEW t \in CountedType PROVE Places(events'[r], t) = Places(events[r], t)
    BY <1>1, CountOthers
  <2>2. QED
    BY <2>1 DEF Counts
<1>3. /\ events'[r] # <<>> /\ events'[r][1] = "run.queued"
      /\ Len(events'[r]) = Len(events[r]) + Len(new)
      /\ DOMAIN events'[r] = 1 .. Len(events'[r])
      /\ DOMAIN events[r] = 1 .. Len(events[r])
      /\ \A i \in DOMAIN events'[r] :
           events'[r][i] = IF i <= Len(events[r]) THEN events[r][i]
                                                  ELSE new[i - Len(events[r])]
  BY <1>1, LogGrows
<1>4. events'[r][Len(events'[r])] = TerminalEvent[status]
  BY <1>1, <1>3
<1>5. \A i \in DOMAIN events'[r] : events'[r][i] \in FinalType => i = Len(events'[r])
  <2>1. \A i \in DOMAIN events[r] : events[r][i] \notin FinalType
    BY DEF Told
  <2> SUFFICES ASSUME NEW i \in DOMAIN events'[r], i # Len(events'[r])
               PROVE  events'[r][i] \notin FinalType
    OBVIOUS
  <2>2. CASE i <= Len(events[r])
    BY <1>1, <1>3, <2>1, <2>2
  <2>3. CASE ~(i <= Len(events[r]))
    <3> DEFINE j == i - Len(events[r])
    <3>1. j \in 1 .. Len(new) /\ j < Len(new)
      BY <1>1, <1>3, <2>3
    <3>2. events'[r][i] = new[j]
      BY <1>3, <2>3
    <3> HIDE DEF j
    <3>3. QED
      BY <3>1, <3>2
  <2>4. QED
    BY <2>2, <2>3
<1>6. Exists(r)' /\ run'[r] \notin ActiveStatus
  BY DEF Exists, ActiveStatus, TerminalStatus
<1>7. QED
  BY <1>2, <1>3, <1>4, <1>5, <1>6 DEF Told, CountedType, ActiveStatus

LEMMA EmptyTold ==
  ASSUME NEW r \in Run, events[r] = <<>>, ~Exists(r), clarification[r] = NoClarification
  PROVE  Told(r)
<1>1. \A t : Places(<<>>, t) = {}
  BY DEF Places
<1>2. \A t \in CountedType : Counts(r)[t] = 0
  BY <1>1, FS_EmptySet DEF Counts
<1>3. run[r] \notin ActiveStatus \cup TerminalStatus
  BY DEF Exists
<1>4. QED
  BY <1>2, <1>3 DEF Told, CountedType, NoClarification, ActiveStatus, TerminalStatus

LEMMA AcceptTold ==
  ASSUME TypeOK, SubmissionsIdempotent, QuestionInv, NEW r \in Run, Told(r), Accept(r)
  PROVE  Told(r)'
<1>1. run[r] = "none" /\ run'[r] = "queued"
  BY DEF Accept, SubmissionsIdempotent, SetRun, TypeOK
<1>2. events'[r] = <<"run.queued">>
  <2>1. events[r] = <<>>
    BY <1>1 DEF Told, Exists, ActiveStatus, TerminalStatus
  <2>2. QED
    BY <2>1 DEF Accept, AppendEvents, TypeOK
<1>3. \A t \in CountedType : Counts(r)'[t] = 0
  <2>1. ASSUME NEW t \in CountedType PROVE Places(events'[r], t) = {}
    BY <1>2 DEF Places, CountedType
  <2>2. QED
    BY <2>1, FS_EmptySet DEF Counts
<1>4. Exists(r)'
  BY <1>1 DEF Exists, ActiveStatus
<1>5. QED
  BY <1>1, <1>2, <1>3, <1>4 DEF Told, CountedType, FinalType

\* pauseRun asks only if nobody asked before: with an answer stored, its worker
\* would hold an answered checkpoint.
LEMMA PauseTold ==
  ASSUME TypeOK, QuestionInv, NEW r \in Run, Told(r), NEW w \in Worker, Pause(w),
         worker[w].run = r, run[r] = "running"
  PROVE  Told(r)'
<1>1. checkpoint[r].clarification = "pending"
  <2>1. Responding(w) /\ worker[w].phase # "claimed" /\ Exists(worker[w].run)
    BY DEF Pause, Responding, Exists, ActiveStatus
  <2>2. checkpoint[r] = [revision |-> worker[w].revision,
                         clarification |-> worker[w].clarification]
    BY <2>1 DEF QuestionInv, HoldsCheckpoint
  <2>3. QED
    BY <2>2 DEF Pause
<1>2. clarification[r].status = "none"
  BY <1>1 DEF QuestionInv, QuestionOpen, AnswerKept, TypeOK, ClarificationStatus
<1>3. clarification' = [clarification EXCEPT ![r] =
                          [status |-> "pending", answer |-> NoAnswer]]
  BY <1>2 DEF Pause
<1>4. /\ AppendEvents(r, <<"run.clarification">>)
      /\ run'[r] = "waiting_for_user"
      /\ clarification'[r].status = "pending"
  BY <1>3 DEF Pause, SetRun, TypeOK
<1>5. QED
  BY <1>2, <1>4, ActiveTold DEF ActiveStatus, EventType, FinalType

LEMMA CompleteTold ==
  ASSUME TypeOK, NEW r \in Run, Told(r), Completable(r),
         SetRun(r, "completed"), AppendEvents(r, <<"assistant.delta", "run.completed">>),
         UNCHANGED clarification
  PROVE  Told(r)'
<1> DEFINE new == <<"assistant.delta", "run.completed">>
<1>1. /\ new \in Seq(EventType)
      /\ Len(new) = 2
      /\ new[1] = "assistant.delta"
      /\ new[2] = "run.completed"
  BY DEF EventType
<1>2. AppendEvents(r, new) /\ run'[r] = "completed"
  BY DEF SetRun, TypeOK
<1> HIDE DEF new
<1>3. /\ new[Len(new)] = TerminalEvent["completed"]
      /\ \A j \in 1 .. Len(new) : new[j] \notin CountedType
      /\ \A j \in 1 .. Len(new) : j < Len(new) => new[j] \notin FinalType
  BY <1>1 DEF TerminalEvent, CountedType, FinalType
<1>4. /\ Len(new) > 0
      /\ run[r] \in ActiveStatus
      /\ "completed" \in TerminalStatus
      /\ clarification'[r] = clarification[r]
  BY <1>1 DEF Completable, ActiveStatus, TerminalStatus
<1> HIDE DEF new
<1>5. QED
  BY <1>1, <1>2, <1>3, <1>4, EndTold

LEMMA StopTold ==
  ASSUME TypeOK, NEW r \in Run, Told(r), run[r] \in ActiveStatus,
         NEW status \in {"failed", "cancelled"}, SetRun(r, status),
         AppendEvents(r, <<TerminalEvent[status]>>), UNCHANGED clarification
  PROVE  Told(r)'
<1> DEFINE new == <<TerminalEvent[status]>>
<1>1. /\ new \in Seq(EventType)
      /\ Len(new) = 1
      /\ new[1] = TerminalEvent[status]
      /\ new[1] \notin CountedType
  BY DEF EventType, TerminalEvent, CountedType
<1>2. AppendEvents(r, new) /\ run'[r] = status
  BY DEF SetRun, TypeOK
<1> HIDE DEF new
<1>3. /\ Len(new) > 0
      /\ new[Len(new)] = TerminalEvent[status]
      /\ \A j \in 1 .. Len(new) : new[j] \notin CountedType
      /\ \A j \in 1 .. Len(new) : j < Len(new) => new[j] \notin FinalType
      /\ status \in TerminalStatus
      /\ clarification'[r] = clarification[r]
  BY <1>1 DEF TerminalStatus
<1>4. QED
  BY <1>1, <1>2, <1>3, EndTold

LEMMA ToldStep ==
  ASSUME TypeOK, SubmissionsIdempotent, QuestionInv, [Next]_vars, NEW r \in Run, Told(r)
  PROVE  Told(r)'
<1>1. ASSUME NEW s \in Run,
             LookUpReplay(s) \/ Refuse(s) \/ Collide(s) \/ ResolveCollision(s)
      PROVE  Told(r)'
  BY <1>1, ToldStays DEF LookUpReplay, Refuse, Collide, ResolveCollision, tables
<1>2. ASSUME NEW s \in Run, Accept(s) PROVE Told(r)'
  <2>1. CASE s = r
    BY <1>2, <2>1, AcceptTold
  <2>2. CASE s # r
    BY <1>2, <2>2, AnotherTold DEF Accept
  <2>3. QED
    BY <2>1, <2>2
<1>3. ASSUME NEW w \in Worker, NEW s \in Run, Claim(w, s) PROVE Told(r)'
  <2>1. CASE s = r
    <3>1. run[r] = "queued" /\ run'[r] = "running"
      BY <1>3, <2>1 DEF Claim, ClaimRun, Claimable, SetRun, TypeOK
    <3>2. QED
      BY <1>3, <2>1, <3>1, ActiveTold
         DEF Claim, ClaimRun, ActiveStatus, EventType, FinalType
  <2>2. CASE s # r
    BY <1>3, <2>2, AnotherTold DEF Claim, ClaimRun
  <2>3. QED
    BY <2>1, <2>2
<1>4. ASSUME NEW w \in Worker, LoadCheckpoint(w) \/ LeaveNode(w) \/ GraphError(w)
      PROVE  Told(r)'
  BY <1>4, ToldStays DEF LoadCheckpoint, LeaveNode, GraphError, tables
<1>5. ASSUME NEW w \in Worker, EnterNode(w) PROVE Told(r)'
  <2>1. worker[w].run \in Run
    BY <1>5 DEF EnterNode, TypeOK
  <2>2. CASE run[worker[w].run] # "running"
    BY <1>5, <2>2, ToldStays DEF EnterNode
  <2>3. CASE run[worker[w].run] = "running" /\ worker[w].run = r
    BY <1>5, <2>3, ActiveTold DEF EnterNode, ActiveStatus, EventType, FinalType
  <2>4. CASE run[worker[w].run] = "running" /\ worker[w].run # r
    BY <1>5, <2>1, <2>4, AnotherTold DEF EnterNode
  <2>5. QED
    BY <2>2, <2>3, <2>4
<1>6. ASSUME NEW w \in Worker, Pause(w) PROVE Told(r)'
  <2> DEFINE s == worker[w].run
  <2>1. s \in Run
    BY <1>6 DEF Pause, TypeOK
  <2>2. CASE run[s] # "running"
    BY <1>6, <2>2, ToldStays DEF Pause
  <2>3. CASE run[s] = "running" /\ s = r
    BY <1>6, <2>3, PauseTold
  <2>4. CASE run[s] = "running" /\ s # r
    <3>1. \E row : clarification' = [clarification EXCEPT ![s] = row]
      <4>1. clarification' = [clarification EXCEPT ![s] =
              IF @.status = "none" THEN [status |-> "pending", answer |-> NoAnswer]
                                   ELSE @]
        BY <1>6, <2>4 DEF Pause
      <4>2. QED
        BY <4>1
    <3>2. QED
      BY <1>6, <2>1, <2>4, <3>1, AnotherTold DEF Pause
  <2>5. QED
    BY <2>2, <2>3, <2>4
<1>7. ASSUME NEW w \in Worker, Complete(w) PROVE Told(r)'
  <2> DEFINE s == worker[w].run
  <2>1. s \in Run
    BY <1>7 DEF Complete, TypeOK
  <2>2. CASE ~Completable(s)
    BY <1>7, <2>2, ToldStays DEF Complete
  <2>3. CASE Completable(s) /\ s = r
    BY <1>7, <2>3, CompleteTold DEF Complete
  <2>4. CASE Completable(s) /\ s # r
    BY <1>7, <2>1, <2>4, AnotherTold DEF Complete
  <2>5. QED
    BY <2>2, <2>3, <2>4
<1>8. ASSUME NEW w \in Worker, Fail(w) PROVE Told(r)'
  <2> DEFINE s == worker[w].run
  <2>1. s \in Run
    BY <1>8 DEF Fail, TypeOK
  <2>2. CASE ~Failable(s)
    BY <1>8, <2>2, ToldStays DEF Fail
  <2>3. CASE Failable(s) /\ s = r
    BY <1>8, <2>3, StopTold DEF Fail, Failable, TerminalEvent
  <2>4. CASE Failable(s) /\ s # r
    BY <1>8, <2>1, <2>4, AnotherTold DEF Fail
  <2>5. QED
    BY <2>2, <2>3, <2>4
<1>9. ASSUME NEW s \in Run, Cancel(s) PROVE Told(r)'
  <2>1. CASE s = r
    BY <1>9, <2>1, StopTold DEF Cancel, TerminalEvent
  <2>2. CASE s # r
    BY <1>9, <2>2, AnotherTold DEF Cancel
  <2>3. QED
    BY <2>1, <2>2
<1>10. ASSUME NEW s \in Run, NEW answer \in Answer, Resume(s, answer) PROVE Told(r)'
  <2>1. CASE s = r
    <3>1. /\ run[r] = "waiting_for_user" /\ run'[r] = "queued"
          /\ clarification'[r].status = "answered"
          /\ AppendEvents(r, <<"run.resumed">>)
      BY <1>10, <2>1 DEF Resume, SetRun, TypeOK
    <3>2. QED
      BY <3>1, ActiveTold DEF ActiveStatus, EventType, FinalType
  <2>2. CASE s # r
    BY <1>10, <2>2, AnotherTold DEF Resume
  <2>3. QED
    BY <2>1, <2>2
<1>11. ASSUME NEW c \in Conversation, NEW status \in {"active", "archived"},
              SetArchived(c, status)
       PROVE  Told(r)'
  BY <1>11, ToldStays DEF SetArchived
<1>12. ASSUME NEW c \in Conversation, Delete(c) PROVE Told(r)'
  <2>1. CASE r \in RunsOf(c)
    <3>1. /\ events'[r] = <<>>
          /\ clarification'[r] = NoClarification
          /\ run'[r] \notin ActiveStatus \cup TerminalStatus
      BY <1>12, <2>1 DEF Delete, Exists, ActiveStatus, TerminalStatus
    <3>2. Told(r)'
      <4>1. ~Exists(r)'
        BY <3>1 DEF Exists
      <4>2. \A t : Places(<<>>, t) = {}
        BY DEF Places
      <4>3. \A t \in CountedType : Counts(r)'[t] = 0
        BY <3>1, <4>2, FS_EmptySet DEF Counts
      <4>4. QED
        BY <3>1, <4>1, <4>3
           DEF Told, CountedType, NoClarification, ActiveStatus, TerminalStatus
    <3>3. QED
      BY <3>2
  <2>2. CASE r \notin RunsOf(c)
    BY <1>12, <2>2, ToldStays DEF Delete
  <2>3. QED
    BY <2>1, <2>2
<1>13. ASSUME NEW reached \in SUBSET Conversation, PrivacySchedule(reached) PROVE Told(r)'
  <2>1. UNCHANGED <<events, clarification>>
    BY <1>13 DEF PrivacySchedule
  <2>2. CASE run'[r] = run[r]
    BY <2>1, <2>2, ToldStays
  <2>3. CASE run'[r] # run[r]
    <3>1. run[r] \in ActiveStatus /\ run'[r] = "cancelled"
      BY <1>13, <2>3 DEF PrivacySchedule
    <3>2. Counts(r)' = Counts(r)
      BY <2>1 DEF Counts
    <3>3. Exists(r) /\ Exists(r)'
      BY <3>1 DEF Exists, TerminalStatus
    <3>4. QED
      BY <2>1, <3>1, <3>2, <3>3 DEF Told, ActiveStatus, TerminalStatus
  <2>4. QED
    BY <2>2, <2>3
<1>14. ASSUME NEW threads \in SUBSET Worker, Crash(threads) PROVE Told(r)'
  BY <1>14, ToldStays DEF Crash, tables
<1>15. CASE UNCHANGED vars
  BY <1>15, ToldStays DEF vars
<1>16. QED
  BY <1>1, <1>2, <1>3, <1>4, <1>5, <1>6, <1>7, <1>8, <1>9, <1>10, <1>11, <1>12, <1>13,
     <1>14, <1>15 DEF Next, Submit, Work, UserStep

\* Whoever replays a run's log learns its history: one question at most, no
\* start without a queueing of its own, and an end that is the last event and
\* the run's status, whatever raced for the run.
THEOREM LogTold == Spec => []LogTellsHistory
<1> DEFINE AllTold == \A r \in Run : Told(r)
<1>1. Init => AllTold
  BY EmptyTold DEF Init, Exists, ActiveStatus, TerminalStatus
<1>2. TypeOK /\ SubmissionsIdempotent /\ QuestionInv /\ AllTold /\ [Next]_vars => AllTold'
  BY ToldStep
<1>3. TypeOK /\ AllTold => LogTellsHistory
  <2> SUFFICES ASSUME TypeOK, NEW r \in Run, Told(r)
               PROVE  /\ Exists(r) => events[r] # <<>> /\ Head(events[r]) = "run.queued"
                      /\ Occurrences(r, "run.started") <= 1 + Occurrences(r, "run.resumed")
                      /\ Occurrences(r, "run.resumed") <= Occurrences(r, "run.clarification")
                      /\ Occurrences(r, "run.clarification") <= 1
                      /\ \A status \in TerminalStatus, i \in DOMAIN events[r] :
                           events[r][i] = TerminalEvent[status] =>
                             i = Len(events[r]) /\ run[r] = status
                      /\ run[r] \in {"completed", "failed"} =>
                           events[r][Len(events[r])] = TerminalEvent[run[r]]
    BY DEF LogTellsHistory
  <2>1. \A t \in CountedType : Occurrences(r, t) = Counts(r)[t]
    BY DEF Occurrences, Counts, Places
  <2>2. Exists(r) => events[r] # <<>> /\ Head(events[r]) = "run.queued"
    <3>1. events[r] \in Seq(EventType)
      BY DEF TypeOK
    <3>2. QED
      BY <3>1 DEF Told
  <2>3. ASSUME NEW status \in TerminalStatus, NEW i \in DOMAIN events[r],
               events[r][i] = TerminalEvent[status]
        PROVE  i = Len(events[r]) /\ run[r] = status
    <3>1. events[r][i] \in FinalType
      BY <2>3 DEF TerminalEvent, TerminalStatus, FinalType
    <3>2. /\ i = Len(events[r])
          /\ run[r] \in TerminalStatus
          /\ TerminalEvent[status] = TerminalEvent[run[r]]
      BY <2>3, <3>1 DEF Told
    <3>3. QED
      BY <3>2 DEF TerminalEvent, TerminalStatus
  <2>4. QED
    BY <2>1, <2>2, <2>3 DEF Told, CountedType
<1> HIDE DEF AllTold
<1>4. QED
  BY <1>1, <1>2, <1>3, TypeCorrect, Idempotent, QuestionInvariant, PTL DEF Spec

-----------------------------------------------------------------------------
(* ConversationRuns implements RunLifecycle: every transaction of requests, *)
(* workers and users is one step of the promise or changes nothing of it.  *)

Clarified(r) == clarification[r].status = "answered"

LEMMA Phases ==
  /\ PhaseOf("none") = "unsent"
  /\ PhaseOf("queued") = "open"
  /\ PhaseOf("running") = "open"
  /\ PhaseOf("waiting_for_user") = "asking"
  /\ PhaseOf("completed") = "replied"
  /\ PhaseOf("failed") = "ended"
  /\ PhaseOf("cancelled") = "ended"
  /\ PhaseOf("erased") = "erased"
BY DEF PhaseOf

LEMMA PendingIsActive ==
  \A status \in RunStatus : PhaseOf(status) \in Lifecycle!Pending <=> status \in ActiveStatus
BY Phases DEF RunStatus, ActiveStatus, TerminalStatus, Lifecycle!Pending

LEMMA UnsentIsNone ==
  \A status \in RunStatus : PhaseOf(status) = "unsent" <=> status = "none"
BY Phases DEF RunStatus, ActiveStatus, TerminalStatus

\* A step that changes no status but from queued to running is invisible.
LEMMA Invisible ==
  ASSUME \A r \in Run : PhaseOf(run'[r]) = PhaseOf(run[r]), UNCHANGED clarification
  PROVE  [Lifecycle!Next]_(Lifecycle!lifecycle)
BY DEF Lifecycle!lifecycle

\* SetRun(r, status) moves the prompt r alone.
LEMMA PhaseMoves ==
  ASSUME TypeOK, NEW r \in Run, NEW status, SetRun(r, status)
  PROVE  /\ [s \in Run |-> PhaseOf(run[s])]'
              = [[s \in Run |-> PhaseOf(run[s])] EXCEPT ![r] = PhaseOf(status)]
         /\ \A s \in Run : s # r => run'[s] = run[s]
         /\ run'[r] = status
BY DEF TypeOK, SetRun

LEMMA TakeStep ==
  ASSUME TypeOK, SubmissionsIdempotent, NEW r \in Run, Accept(r)
  PROVE  Lifecycle!Take(r)
<1>1. /\ run[r] = "none"
      /\ SetRun(r, "queued")
      /\ UNCHANGED clarification
      /\ \A s \in Run : ConversationOf(s) = ConversationOf(r) => run[s] \notin ActiveStatus
  BY DEF Accept, SubmissionsIdempotent, HasActiveRun, RunsOf
<1>2. \A s \in Run : ConversationOf(s) = ConversationOf(r)
                       => PhaseOf(run[s]) \notin Lifecycle!Pending
  BY <1>1, PendingIsActive DEF TypeOK
<1>3. QED
  BY <1>1, <1>2, PhaseMoves, Phases DEF Lifecycle!Take

\* Only a run that never had its question answered may ask.
LEMMA AskStep ==
  ASSUME TypeOK, QuestionInv, NEW w \in Worker, Pause(w), run[worker[w].run] = "running"
  PROVE  Lifecycle!Ask(worker[w].run)
<1> DEFINE r == worker[w].run
<1>1. /\ Responding(w)
      /\ worker[w].phase # "claimed"
      /\ worker[w].clarification = "pending"
      /\ r \in Run
      /\ SetRun(r, "waiting_for_user")
      /\ clarification' = [clarification EXCEPT ![r] =
           IF @.status = "none" THEN [status |-> "pending", answer |-> NoAnswer] ELSE @]
  BY DEF Pause, Responding, TypeOK
<1>2. ~Clarified(r)
  <2>1. checkpoint[r] = [revision |-> worker[w].revision,
                         clarification |-> worker[w].clarification]
    BY <1>1 DEF QuestionInv, HoldsCheckpoint, Exists, ActiveStatus
  <2>2. checkpoint[r].clarification = "pending"
    BY <1>1, <2>1
  <2>3. QED
    BY <1>1, <2>2 DEF QuestionInv, AnswerKept, Clarified
<1>3. \A s \in Run : Clarified(s)' = Clarified(s)
  BY <1>1, <1>2 DEF Clarified, TypeOK
<1>4. [s \in Run |-> Clarified(s)]' = [s \in Run |-> Clarified(s)]
  BY <1>3
<1>5. [s \in Run |-> PhaseOf(run[s])]'
        = [[s \in Run |-> PhaseOf(run[s])] EXCEPT ![r] = "asking"]
  BY <1>1, PhaseMoves, Phases
<1>6. PhaseOf(run[r]) = "open"
  BY Phases
<1>7. QED
  BY <1>1, <1>2, <1>4, <1>5, <1>6 DEF Lifecycle!Ask, Clarified

LEMMA ClarifyStep ==
  ASSUME TypeOK, NEW r \in Run, NEW answer \in Answer, Resume(r, answer)
  PROVE  Lifecycle!Clarify(r)
<1>1. /\ run[r] = "waiting_for_user"
      /\ SetRun(r, "queued")
      /\ clarification' = [clarification EXCEPT ![r] =
                             [status |-> "answered", answer |-> answer]]
  BY DEF Resume
<1>2. /\ clarification'[r].status = "answered"
      /\ \A s \in Run : s # r => clarification'[s] = clarification[s]
  BY <1>1 DEF TypeOK
<1>3. [s \in Run |-> clarification[s].status = "answered"]'
        = [[s \in Run |-> clarification[s].status = "answered"] EXCEPT ![r] = TRUE]
  BY <1>2
<1>4. [s \in Run |-> PhaseOf(run[s])]'
        = [[s \in Run |-> PhaseOf(run[s])] EXCEPT ![r] = "open"]
  BY <1>1, PhaseMoves, Phases
<1>5. PhaseOf(run[r]) = "asking"
  BY <1>1, Phases
<1>6. QED
  BY <1>3, <1>4, <1>5 DEF Lifecycle!Clarify

\* A responder's run is not waiting: the reply never overtakes the question.
LEMMA ReplyStep ==
  ASSUME TypeOK, QuestionInv, NEW w \in Worker, Complete(w), Completable(worker[w].run)
  PROVE  Lifecycle!Reply(worker[w].run)
<1> DEFINE r == worker[w].run
<1>1. /\ Responding(w)
      /\ r \in Run
      /\ SetRun(r, "completed")
      /\ UNCHANGED clarification
  BY DEF Complete, Responding, TypeOK
<1>2. run[r] = "running"
  BY <1>1 DEF QuestionInv, RespondersRun, Completable
<1>3. QED
  BY <1>1, <1>2, PhaseMoves, Phases DEF Lifecycle!Reply

\* Failing, cancelling and privacy requests end active runs.
LEMMA EndStep ==
  ASSUME TypeOK, NEW S \in SUBSET Run, \A r \in S : run[r] \in ActiveStatus,
         \A r \in S : run'[r] \in {"failed", "cancelled"},
         \A r \in Run \ S : run'[r] = run[r],
         UNCHANGED clarification
  PROVE  Lifecycle!End(S)
<1>1. \A r \in S : PhaseOf(run[r]) \in Lifecycle!Pending
  BY PendingIsActive DEF TypeOK
<1>2. \A r \in S : PhaseOf(run'[r]) = "ended"
  BY Phases
<1>3. QED
  BY <1>1, <1>2 DEF Lifecycle!End

LEMMA SetRunEndStep ==
  ASSUME TypeOK, NEW r \in Run, run[r] \in ActiveStatus,
         NEW status \in {"failed", "cancelled"}, SetRun(r, status),
         UNCHANGED clarification
  PROVE  Lifecycle!End({r})
BY PhaseMoves, EndStep

LEMMA EraseStep ==
  ASSUME TypeOK, QuestionInv, NEW c \in Conversation, Delete(c)
  PROVE  Lifecycle!Erase(c)
<1> DEFINE sent == {r \in Run : ConversationOf(r) = c /\ PhaseOf(run[r]) # "unsent"}
<1>1. \A r \in Run : r \in sent <=> r \in RunsOf(c) /\ run[r] # "none"
  BY UnsentIsNone DEF RunsOf, TypeOK
<1>2. ASSUME NEW r \in Run
      PROVE  PhaseOf(run'[r]) = IF r \in sent THEN "erased" ELSE PhaseOf(run[r])
  BY <1>1, <1>2, Phases
     DEF Delete, Exists, ActiveStatus, TerminalStatus, RunStatus, TypeOK, RunsOf
<1>3. ASSUME NEW r \in Run
      PROVE  Clarified(r)' <=> IF r \in sent THEN FALSE ELSE Clarified(r)
  BY <1>1, <1>3 DEF Delete, NoClarification, Clarified, QuestionInv, QuestionOpen, RunsOf
<1>4. QED
  BY <1>2, <1>3 DEF Lifecycle!Erase, Clarified

-----------------------------------------------------------------------------

\* Every step of the tables is a step of the promise or stutters.
LEMMA LifecycleStep ==
  ASSUME TypeOK, SubmissionsIdempotent, QuestionInv, [Next]_vars
  PROVE  [Lifecycle!Next]_(Lifecycle!lifecycle)
<1> DEFINE Goal == [Lifecycle!Next]_(Lifecycle!lifecycle)
<1>1. ASSUME NEW r \in Run,
             LookUpReplay(r) \/ Refuse(r) \/ Collide(r) \/ ResolveCollision(r)
      PROVE  Goal
  BY <1>1, Invisible DEF LookUpReplay, Refuse, Collide, ResolveCollision, tables
<1>2. ASSUME NEW r \in Run, Accept(r) PROVE Goal
  BY <1>2, TakeStep DEF Lifecycle!Next
<1>3. ASSUME NEW w \in Worker, NEW r \in Run, Claim(w, r) PROVE Goal
  <2>1. run[r] = "queued" /\ SetRun(r, "running") /\ UNCHANGED clarification
    BY <1>3 DEF Claim, ClaimRun, Claimable
  <2>2. \A s \in Run : PhaseOf(run'[s]) = PhaseOf(run[s])
    <3>1. run'[r] = "running" /\ \A s \in Run : s # r => run'[s] = run[s]
      BY <2>1, PhaseMoves
    <3>2. PhaseOf(run'[r]) = PhaseOf(run[r])
      BY <2>1, <3>1, Phases
    <3>3. QED
      BY <3>1, <3>2
  <2>3. QED
    BY <2>1, <2>2, Invisible
<1>4. ASSUME NEW w \in Worker,
             LoadCheckpoint(w) \/ EnterNode(w) \/ LeaveNode(w) \/ GraphError(w)
      PROVE  Goal
  BY <1>4, Invisible DEF LoadCheckpoint, EnterNode, LeaveNode, GraphError, tables
<1>5. ASSUME NEW w \in Worker, Pause(w) PROVE Goal
  <2>1. worker[w].run \in Run
    BY <1>5 DEF Pause, TypeOK
  <2>2. CASE run[worker[w].run] = "running"
    BY <1>5, <2>1, <2>2, AskStep DEF Lifecycle!Next
  <2>3. CASE run[worker[w].run] # "running"
    BY <1>5, <2>3, Invisible DEF Pause
  <2>4. QED
    BY <2>2, <2>3
<1>6. ASSUME NEW w \in Worker, Complete(w) PROVE Goal
  <2>1. worker[w].run \in Run
    BY <1>6 DEF Complete, TypeOK
  <2>2. CASE Completable(worker[w].run)
    BY <1>6, <2>1, <2>2, ReplyStep DEF Lifecycle!Next
  <2>3. CASE ~Completable(worker[w].run)
    BY <1>6, <2>3, Invisible DEF Complete
  <2>4. QED
    BY <2>2, <2>3
<1>7. ASSUME NEW w \in Worker, Fail(w) PROVE Goal
  <2>1. worker[w].run \in Run
    BY <1>7 DEF Fail, TypeOK
  <2>2. CASE Failable(worker[w].run)
    <3>1. Lifecycle!End({worker[w].run})
      BY <1>7, <2>1, <2>2, SetRunEndStep DEF Fail, Failable
    <3>2. QED
      BY <2>1, <3>1 DEF Lifecycle!Next
  <2>3. CASE ~Failable(worker[w].run)
    BY <1>7, <2>3, Invisible DEF Fail
  <2>4. QED
    BY <2>2, <2>3
<1>8. ASSUME NEW r \in Run, Cancel(r) PROVE Goal
  <2>1. Lifecycle!End({r})
    BY <1>8, SetRunEndStep DEF Cancel
  <2>2. QED
    BY <2>1 DEF Lifecycle!Next
<1>9. ASSUME NEW r \in Run, NEW answer \in Answer, Resume(r, answer) PROVE Goal
  BY <1>9, ClarifyStep DEF Lifecycle!Next
<1>10. ASSUME NEW c \in Conversation, NEW status \in {"active", "archived"},
              SetArchived(c, status)
       PROVE  Goal
  BY <1>10, Invisible DEF SetArchived
<1>11. ASSUME NEW c \in Conversation, Delete(c) PROVE Goal
  BY <1>11, EraseStep DEF Lifecycle!Next
<1>12. ASSUME NEW reached \in SUBSET Conversation, PrivacySchedule(reached) PROVE Goal
  <2> DEFINE S == {r \in Run : ConversationOf(r) \in reached /\ run[r] \in ActiveStatus}
  <2>1. /\ \A r \in S : run'[r] = "cancelled" /\ run[r] \in ActiveStatus
        /\ \A r \in Run \ S : run'[r] = run[r]
        /\ UNCHANGED clarification
    BY <1>12 DEF PrivacySchedule
  <2>2. Lifecycle!End(S)
    BY <2>1, EndStep
  <2>3. QED
    BY <2>2 DEF Lifecycle!Next
<1>13. ASSUME NEW threads \in SUBSET Worker, Crash(threads) PROVE Goal
  BY <1>13, Invisible DEF Crash, tables
<1>14. CASE UNCHANGED vars
  BY <1>14, Invisible DEF vars
<1>15. QED
  BY <1>1, <1>2, <1>3, <1>4, <1>5, <1>6, <1>7, <1>8, <1>9, <1>10, <1>11, <1>12, <1>13, <1>14
     DEF Next, Submit, Work, UserStep

\* Whatever requests, workers, users and privacy requests do in whatever order,
\* the user sees the lifecycle that RunLifecycle promises.
THEOREM Refinement == Spec => ImplementsLifecycle
<1>1. Init => Lifecycle!Init
  <2> SUFFICES ASSUME Init PROVE Lifecycle!Init
    OBVIOUS
  <2>1. \A r \in Run : PhaseOf(run[r]) = "unsent"
    BY Phases DEF Init
  <2>2. \A r \in Run : (clarification[r].status = "answered") = FALSE
    BY DEF Init, NoClarification
  <2>3. QED
    BY <2>1, <2>2 DEF Lifecycle!Init
<1>2. TypeOK /\ SubmissionsIdempotent /\ QuestionInv /\ [Next]_vars
        => [Lifecycle!Next]_(Lifecycle!lifecycle)
  BY LifecycleStep
<1>3. QED
  BY <1>1, <1>2, TypeCorrect, Idempotent, QuestionInvariant, PTL
     DEF Spec, Lifecycle!Spec, ImplementsLifecycle

-----------------------------------------------------------------------------
(* The queue of the runs: AgentRunPipeline.  It adds nothing to            *)
(* ConversationRuns: its deliveries, retries and crashes only choose when  *)
(* the workers of that module move, so all that is proved of it holds      *)
(* behind the queue as well.  And it loses nothing: a queued run keeps its *)
(* outbox row or its job until a worker has it.                            *)

LEMMA ClaimedIsRun ==
  ASSUME TypeOK, NEW r, ClaimRun(r)
  PROVE  r \in Run
<1>1. PICK kind \in {"start", "resume"} : [run |-> r, kind |-> kind] \in outbox
  BY DEF ClaimRun
<1>2. [run |-> r, kind |-> kind] \in OutboxRow
  BY <1>1 DEF TypeOK
<1>3. QED
  BY <1>2 DEF OutboxRow

\* Every step with the queue is a step without it, or changes no table and no
\* worker.
LEMMA PipelineStep ==
  ASSUME TypeOK, [PipelineNext]_pipeline
  PROVE  [Next]_vars
<1>1. ASSUME NEW r \in Run, Request(r) PROVE Next
  BY <1>1 DEF Request, Next
<1>2. CASE User
  BY <1>2 DEF User, Next
<1>3. ASSUME NEW d \in Dispatcher, Dispatch(d) \/ DispatchFault(d) PROVE UNCHANGED vars
  BY <1>3 DEF Dispatch, DispatchFault, vars
<1>4. ASSUME NEW w \in Worker, Deliver(w) \/ SkipDelivered(w) \/ Finish(w)
      PROVE  UNCHANGED vars
  BY <1>4 DEF Deliver, SkipDelivered, Finish, vars
<1>5. ASSUME NEW w \in Worker, ClaimDelivered(w) PROVE Next
  <2>1. Claim(w, slot[w].event.run)
    BY <1>5 DEF ClaimDelivered
  <2>2. slot[w].event.run \in Run
    BY <2>1, ClaimedIsRun DEF Claim
  <2>3. QED
    BY <2>1, <2>2 DEF Next, Work
<1>6. ASSUME NEW w \in Worker, ClaimThrows(w) PROVE [Next]_vars
  <2>1. CASE UNCHANGED vars
    BY <2>1
  <2>2. CASE ClaimRun(slot[w].event.run) /\ UNCHANGED worker
    <3>1. Claim(w, slot[w].event.run)
      BY <1>6, <2>2 DEF ClaimThrows, Delivered, Claim
    <3>2. slot[w].event.run \in Run
      BY <2>2, ClaimedIsRun
    <3>3. QED
      BY <3>1, <3>2 DEF Next, Work
  <2>3. QED
    BY <1>6, <2>1, <2>2 DEF ClaimThrows
<1>7. ASSUME NEW w \in Worker, Process(w) PROVE Next
  BY <1>7 DEF Process, Next, Work
<1>8. ASSUME NEW w \in Worker, FailThrows(w) PROVE Next
  BY <1>8 DEF FailThrows, Next
<1>9. ASSUME NEW d \in Dispatcher, NEW calls \in SUBSET Worker, ProcessDies(d, calls)
      PROVE  [Next]_vars
  BY <1>9 DEF ProcessDies, Next
<1>10. ASSUME NEW k \in Keys, Reclaim(k) \/ ReclaimHeld(k) \/ Forget(k)
       PROVE  UNCHANGED vars
  BY <1>10 DEF Reclaim, ReclaimHeld, Forget, vars
<1>11. CASE UNCHANGED pipeline
  BY <1>11 DEF pipeline
<1>12. QED
  BY <1>1, <1>2, <1>3, <1>4, <1>5, <1>6, <1>7, <1>8, <1>9, <1>10, <1>11
     DEF PipelineNext, WorkerStep, WorkerFault

\* However the queue delivers, redelivers and gives up its jobs, the tables and
\* workers behave as ConversationRuns says.
THEOREM PipelineImplements == PipelineSpec => Spec
<1>1. PipelineInit => Init /\ TypeOK
  BY InitTyped DEF PipelineInit
<1>2. TypeOK /\ [PipelineNext]_pipeline => TypeOK' /\ [Next]_vars
  BY PipelineStep, TypeKept
<1>3. QED
  BY <1>1, <1>2, PTL DEF PipelineSpec, Spec

\* Duplicate deliveries included, a run has one responder, one reply, one answer,
\* a true log and one settled end, and the user sees the promised lifecycle.
THEOREM PipelineSafe ==
  PipelineSpec => /\ []OneActiveRun
                  /\ []SoleResponder
                  /\ []RepliedOnce
                  /\ []ClarificationAgrees
                  /\ []LogTellsHistory
                  /\ []DeletedStaysEmpty
                  /\ SettledRunsStay
                  /\ ImplementsLifecycle
BY PipelineImplements, OneActive, SoleResponding, Replied, QuestionAgreed, LogTold, Deleted,
   Settled, Refinement, PTL

-----------------------------------------------------------------------------
(* The jobs and the calls *)

\* What the types of the queue need: an added row is of the batch, and a job
\* that may still be tried has attempts left.
QueueInv ==
  /\ Queue!QueueTypeOK
  /\ \A d \in Dispatcher : added[d] # NoEvent => added[d] \in batch[d]
  /\ \A k \in Keys : job[k].state \in {"waiting", "active"} =>
       job[k].attempts < MaxAttempts

LEMMA KeysOfRows ==
  /\ KeyOfRow \in [OutboxRow -> Keys]
  /\ \A e \in OutboxRow : KeyOfRow[e] \in Keys
BY DEF KeyOfRow, Keys

LEMMA OutboxGrows ==
  ASSUME TypeOK, [Next]_vars
  PROVE  outbox \subseteq outbox'
<1>1. ASSUME NEW r \in Run, Submit(r) PROVE outbox \subseteq outbox'
  BY <1>1 DEF Submit, LookUpReplay, Refuse, Collide, ResolveCollision, Accept, tables
<1>2. ASSUME NEW w \in Worker, Work(w) PROVE outbox \subseteq outbox'
  BY <1>2 DEF Work, Claim, ClaimRun, LoadCheckpoint, EnterNode, LeaveNode, GraphError,
              Pause, Complete, Fail, tables
<1>3. CASE UserStep \/ \E threads \in SUBSET Worker : Crash(threads)
  BY <1>3 DEF UserStep, Cancel, Resume, SetArchived, Delete, PrivacySchedule, Crash,
              tables
<1>4. CASE UNCHANGED vars
  BY <1>4 DEF vars
<1>5. QED
  BY <1>1, <1>2, <1>3, <1>4 DEF Next

\* A step that leaves the dispatchers and the jobs alone.
LEMMA CallsMove ==
  ASSUME QueueInv, outbox \subseteq outbox',
         UNCHANGED <<published, batch, added, job, exhausted>>,
         slot' \in [Worker -> Queue!Call]
  PROVE  QueueInv'
BY DEF QueueInv, Queue!QueueTypeOK

\* A step of the jobs, in their types, that leaves the dispatchers alone.
LEMMA JobsMove ==
  ASSUME QueueInv, NEW k \in Keys, NEW j \in Queue!Job,
         j.state \in {"waiting", "active"} => j.attempts < MaxAttempts,
         job' = [job EXCEPT ![k] = j],
         UNCHANGED <<outbox, published, batch, added>>,
         exhausted' \in SUBSET Keys,
         slot' \in [Worker -> Queue!Call]
  PROVE  QueueInv'
<1>1. job' \in [Keys -> Queue!Job]
  BY DEF QueueInv, Queue!QueueTypeOK
<1>2. \A l \in Keys : job'[l] = IF l = k THEN j ELSE job[l]
  BY DEF QueueInv, Queue!QueueTypeOK
<1>3. QED
  BY <1>1, <1>2 DEF QueueInv, Queue!QueueTypeOK

LEMMA SettleTyped ==
  ASSUME QueueInv, NEW w \in Worker, NEW outcome \in {"resolved", "rejected"},
         Queue!Settle(w, outcome)
  PROVE  slot' \in [Worker -> Queue!Call]
BY DEF QueueInv, Queue!QueueTypeOK, Queue!Settle, Queue!Call

LEMMA NoCallTyped ==
  ASSUME QueueInv, NEW w \in Worker, slot' = [slot EXCEPT ![w] = Queue!NoCall]
  PROVE  slot' \in [Worker -> Queue!Call]
BY DEF QueueInv, Queue!QueueTypeOK, Queue!NoCall, Queue!Call

LEMMA GiveUpTyped ==
  ASSUME QueueInv, Queue!GiveUp
  PROVE  exhausted' \in SUBSET Keys
BY DEF QueueInv, Queue!QueueTypeOK, Queue!GiveUp

LEMMA NoJobTyped ==
  /\ Queue!NoJob \in Queue!Job
  /\ Queue!NoJob.state = "absent"
BY BoundsAssumption DEF Queue!NoJob, Queue!Job, Queue!JobState

LEMMA NewJobTyped ==
  ASSUME NEW e \in OutboxRow
  PROVE  /\ Queue!NewJob(e) \in Queue!Job
         /\ Queue!NewJob(e).attempts < MaxAttempts
BY BoundsAssumption DEF Queue!NewJob, Queue!Job, Queue!JobState

LEMMA DispatchKeeps ==
  ASSUME TypeOK, QueueInv, NEW d \in Dispatcher, Dispatch(d) \/ DispatchFault(d)
  PROVE  QueueInv'
<1> USE DEF QueueInv, Queue!QueueTypeOK
<1>1. CASE Queue!Select(d)
  BY <1>1 DEF Queue!Select
<1>2. ASSUME NEW e \in OutboxRow, Queue!Add(d, e) PROVE QueueInv'
  <2> DEFINE k == KeyOfRow[e]
  <2>1. k \in Keys
    BY KeysOfRows
  <2>2. PICK j \in Queue!Job : /\ job' = [job EXCEPT ![k] = j]
                               /\ j = Queue!NewJob(e) \/ j = job[k]
    BY <1>2, <2>1, NewJobTyped DEF Queue!Add
  <2>3. j.state \in {"waiting", "active"} => j.attempts < MaxAttempts
    BY <2>1, <2>2, NewJobTyped
  <2>4. /\ job' \in [Keys -> Queue!Job]
        /\ \A l \in Keys : job'[l] = IF l = k THEN j ELSE job[l]
    BY <2>1, <2>2
  <2>5. \A l \in Keys : job'[l].state \in {"waiting", "active"} =>
          job'[l].attempts < MaxAttempts
    BY <2>3, <2>4
  <2>6. /\ added' \in [Dispatcher -> OutboxRow \cup {NoEvent}]
        /\ \A c \in Dispatcher : added'[c] # NoEvent => added'[c] \in batch[c]
    BY <1>2 DEF Queue!Add
  <2>7. UNCHANGED <<outbox, published, batch, slot, exhausted>>
    BY <1>2 DEF Queue!Add
  <2>8. QED
    BY <2>4, <2>5, <2>6, <2>7
<1>3. CASE Queue!MarkPublished(d)
  <2>1. added[d] \in outbox
    BY <1>3 DEF Queue!MarkPublished
  <2>2. QED
    BY <1>3, <2>1 DEF Queue!MarkPublished
<1>4. ASSUME NEW e \in OutboxRow, Queue!RowFails(d, e) PROVE QueueInv'
  BY <1>4 DEF Queue!RowFails
<1>5. QED
  BY <1>1, <1>2, <1>3, <1>4 DEF Dispatch, DispatchFault, Queue!Dispatch

LEMMA DeliverKeeps ==
  ASSUME TypeOK, QueueInv, NEW w \in Worker, Deliver(w)
  PROVE  QueueInv'
<1>1. PICK k \in Keys : Queue!Deliver(w, k)
  BY DEF Deliver
<1>2. job[k] \in Queue!Job
  BY DEF QueueInv, Queue!QueueTypeOK
<1>3. PICK j \in Queue!Job : /\ job' = [job EXCEPT ![k] = j]
                             /\ j.attempts = job[k].attempts
  <2> DEFINE j == [job[k] EXCEPT !.state = "active", !.holder = w]
  <2>1. j \in Queue!Job /\ j.attempts = job[k].attempts
    BY <1>2 DEF Queue!Job, Queue!JobState
  <2>2. job' = [job EXCEPT ![k] = j]
    BY <1>1 DEF Queue!Deliver, QueueInv, Queue!QueueTypeOK
  <2>3. QED
    BY <2>1, <2>2
<1>4. j.attempts < MaxAttempts
  BY <1>1, <1>3 DEF Queue!Deliver, QueueInv
<1>5. slot' \in [Worker -> Queue!Call]
  <2>1. job[k].event \in OutboxRow \cup {NoEvent}
    BY <1>2 DEF Queue!Job
  <2>2. slot' = [slot EXCEPT ![w].event = job[k].event]
    BY <1>1 DEF Queue!Deliver
  <2>3. QED
    BY <2>1, <2>2 DEF QueueInv, Queue!QueueTypeOK, Queue!Call
<1>6. UNCHANGED <<outbox, published, batch, added>> /\ exhausted' \in SUBSET Keys
  BY <1>1 DEF Queue!Deliver, QueueInv, Queue!QueueTypeOK
<1>7. QED
  BY <1>3, <1>4, <1>5, <1>6, JobsMove

LEMMA FinishKeeps ==
  ASSUME TypeOK, QueueInv, NEW w \in Worker, Finish(w)
  PROVE  QueueInv'
<1> DEFINE k == KeyOfRow[slot[w].event]
<1>1. /\ slot' \in [Worker -> Queue!Call]
      /\ exhausted' \in SUBSET Keys
      /\ UNCHANGED <<outbox, published, batch, added>>
  BY NoCallTyped, GiveUpTyped DEF Finish, Queue!Finish
<1>2. CASE k \notin Keys \/ UNCHANGED job
  <2>1. UNCHANGED job
    BY <1>2 DEF Finish, Queue!Finish, QueueInv, Queue!QueueTypeOK
  <2>2. QED
    BY <1>1, <2>1 DEF QueueInv, Queue!QueueTypeOK
<1>3. CASE k \in Keys /\ job' # job
  <2>1. job[k] \in Queue!Job /\ Queue!Holds(w)
    BY <1>3 DEF Finish, Queue!Finish, QueueInv, Queue!QueueTypeOK
  <2>2. job[k].attempts < MaxAttempts
    BY <1>3, <2>1 DEF Queue!Holds, QueueInv
  <2>3. job[k].attempts + 1 \in 0 .. MaxAttempts
    BY <2>1, <2>2, BoundsAssumption DEF Queue!Job
  <2>4. /\ Queue!Tried(job[k]) \in Queue!Job
        /\ Queue!Tried(job[k]).state \in {"waiting", "active"} =>
             Queue!Tried(job[k]).attempts < MaxAttempts
    <3>1. CASE job[k].attempts + 1 >= MaxAttempts
      BY <2>1, <2>3, <3>1 DEF Queue!Tried, Queue!Job, Queue!JobState
    <3>2. CASE ~(job[k].attempts + 1 >= MaxAttempts)
      <4>1. job[k].attempts + 1 < MaxAttempts
        BY <2>3, <3>2, BoundsAssumption
      <4>2. Queue!Tried(job[k]) = [job[k] EXCEPT !.attempts = @ + 1,
                                     !.holder = Queue!NoSlot, !.state = "waiting"]
        BY <3>2 DEF Queue!Tried
      <4>3. QED
        BY <2>1, <2>3, <4>1, <4>2 DEF Queue!Job, Queue!JobState
    <3>3. QED
      BY <3>1, <3>2
  <2>5. \/ job' = [job EXCEPT ![k].state = "completed", ![k].holder = Queue!NoSlot]
        \/ job' = [job EXCEPT ![k] = Queue!Tried(job[k])]
    BY <1>3 DEF Finish, Queue!Finish
  <2>6. CASE job' = [job EXCEPT ![k] = Queue!Tried(job[k])]
    BY <1>1, <1>3, <2>4, <2>6, JobsMove
  <2>7. CASE job' = [job EXCEPT ![k].state = "completed", ![k].holder = Queue!NoSlot]
    <3> DEFINE j == [job[k] EXCEPT !.state = "completed", !.holder = Queue!NoSlot]
    <3>1. j \in Queue!Job /\ j.state = "completed"
      BY <2>1 DEF Queue!Job, Queue!JobState
    <3>2. job' = [job EXCEPT ![k] = j]
      BY <1>3, <2>7 DEF QueueInv, Queue!QueueTypeOK
    <3> HIDE DEF j
    <3>3. QED
      BY <1>1, <1>3, <3>1, <3>2, JobsMove
  <2>8. QED
    BY <2>5, <2>6, <2>7
<1>4. QED
  BY <1>2, <1>3

LEMMA StalledTyped ==
  ASSUME NEW j \in Queue!Job
  PROVE  /\ Queue!Stalled(j) \in Queue!Job
         /\ Queue!Stalled(j).attempts = j.attempts
<1>1. CASE j.stalls < MaxStalled
  <2>1. j.stalls + 1 \in 0 .. MaxStalled
    BY <1>1, BoundsAssumption DEF Queue!Job
  <2>2. QED
    BY <1>1, <2>1 DEF Queue!Stalled, Queue!Job, Queue!JobState
<1>2. CASE ~(j.stalls < MaxStalled)
  BY <1>2 DEF Queue!Stalled, Queue!Job, Queue!JobState
<1>3. QED
  BY <1>1, <1>2

LEMMA StallKeeps ==
  ASSUME TypeOK, QueueInv, NEW k \in Keys, Queue!Stall(k), UNCHANGED outbox
  PROVE  QueueInv'
<1>1. job[k] \in Queue!Job
  BY DEF QueueInv, Queue!QueueTypeOK
<1>2. exhausted' \in SUBSET Keys
  BY GiveUpTyped DEF Queue!Stall
<1>3. job[k].attempts < MaxAttempts
  BY DEF Queue!Stall, QueueInv
<1>4. QED
  BY <1>1, <1>2, <1>3, StalledTyped, JobsMove
     DEF Queue!Stall, QueueInv, Queue!QueueTypeOK

LEMMA QueueKept ==
  ASSUME TypeOK, QueueInv, [PipelineNext]_pipeline
  PROVE  QueueInv'
<1>1. outbox \subseteq outbox'
  BY PipelineStep, OutboxGrows
<1>2. slot \in [Worker -> Queue!Call]
  BY DEF QueueInv, Queue!QueueTypeOK
<1>3. ASSUME NEW r \in Run, Request(r) PROVE QueueInv'
  BY <1>1, <1>2, <1>3, CallsMove DEF Request, queue
<1>4. CASE User \/ UNCHANGED pipeline
  BY <1>1, <1>2, <1>4, CallsMove DEF User, queue, pipeline
<1>5. ASSUME NEW w \in Worker, ClaimDelivered(w) PROVE QueueInv'
  BY <1>1, <1>2, <1>5, CallsMove DEF ClaimDelivered, queue
<1>6. ASSUME NEW w \in Worker, SkipDelivered(w) \/ ClaimThrows(w) \/ FailThrows(w)
      PROVE  QueueInv'
  BY <1>1, <1>6, SettleTyped, CallsMove DEF SkipDelivered, ClaimThrows, FailThrows
<1>7. ASSUME NEW w \in Worker, Process(w) PROVE QueueInv'
  BY <1>1, <1>2, <1>7, SettleTyped, CallsMove DEF Process
<1>8. ASSUME NEW d \in Dispatcher, NEW calls \in SUBSET Worker, ProcessDies(d, calls)
      PROVE  QueueInv'
  <2>1. slot' \in [Worker -> Queue!Call]
    BY <1>2, <1>8 DEF ProcessDies, Queue!Vanish, Queue!NoCall, Queue!Call
  <2>2. /\ batch' \in [Dispatcher -> SUBSET outbox']
        /\ added' \in [Dispatcher -> OutboxRow \cup {NoEvent}]
        /\ \A c \in Dispatcher : added'[c] # NoEvent => added'[c] \in batch'[c]
    BY <1>1, <1>8 DEF ProcessDies, Queue!Vanish, QueueInv, Queue!QueueTypeOK
  <2>3. QED
    BY <1>1, <1>8, <2>1, <2>2 DEF ProcessDies, QueueInv, Queue!QueueTypeOK
<1>9. ASSUME NEW k \in Keys, Reclaim(k) \/ ReclaimHeld(k) PROVE QueueInv'
  BY <1>9, StallKeeps DEF Reclaim, ReclaimHeld, vars
<1>10. ASSUME NEW k \in Keys, Forget(k) PROVE QueueInv'
  BY <1>2, <1>10, NoJobTyped, JobsMove
     DEF Forget, Queue!Forget, QueueInv, Queue!QueueTypeOK
<1>11. QED
  BY <1>3, <1>4, <1>5, <1>6, <1>7, <1>8, <1>9, <1>10, DispatchKeeps, DeliverKeeps,
     FinishKeeps DEF PipelineNext, WorkerStep, WorkerFault

LEMMA FaultsCounted ==
  ASSUME faults \in 0 .. MaxFaults, [PipelineNext]_pipeline
  PROVE  faults' \in 0 .. MaxFaults
<1>1. UNCHANGED faults \/ Fault
  BY DEF PipelineNext, pipeline, Request, User, Dispatch, DispatchFault, Deliver,
         ClaimDelivered, SkipDelivered, ClaimThrows, Process, FailThrows, Finish,
         ProcessDies, Reclaim, ReclaimHeld, Forget, WorkerStep, WorkerFault
<1>2. QED
  BY <1>1, BoundsAssumption DEF Fault

\* The outbox, the dispatchers and the queue stay in their types, and their
\* attempts in their bounds.
THEOREM QueueInvariant == PipelineSpec => [](QueueInv /\ faults \in 0 .. MaxFaults)
<1> DEFINE Inv == QueueInv /\ faults \in 0 .. MaxFaults
<1>1. PipelineInit => Inv
  <2> SUFFICES ASSUME PipelineInit PROVE Inv
    OBVIOUS
  <2>1. outbox = {}
    BY DEF PipelineInit, Init
  <2>2. Queue!NoCall \in Queue!Call
    BY DEF Queue!NoCall, Queue!Call
  <2>3. QueueInv
    BY <2>1, <2>2, NoJobTyped
       DEF PipelineInit, Queue!QueueInit, QueueInv, Queue!QueueTypeOK
  <2>4. faults \in 0 .. MaxFaults
    BY BoundsAssumption DEF PipelineInit
  <2>5. QED
    BY <2>3, <2>4
<1>2. TypeOK /\ Inv /\ [PipelineNext]_pipeline => Inv'
  BY QueueKept, FaultsCounted
<1> HIDE DEF Inv
<1>3. PipelineSpec => []Inv
  BY <1>1, <1>2, PipelineImplements, TypeCorrect, PTL DEF PipelineSpec
<1>4. QED
  BY <1>3 DEF Inv

\* The tables and the queue together: attempts and stalls never pass their
\* bounds, and only committed rows are published.
THEOREM PipelineTyped == PipelineSpec => []PipelineTypeOK
<1>1. TypeOK /\ QueueInv /\ faults \in 0 .. MaxFaults => PipelineTypeOK
  BY DEF QueueInv, PipelineTypeOK
<1>2. QED
  BY <1>1, QueueInvariant, PipelineImplements, TypeCorrect, PTL

-----------------------------------------------------------------------------
(* The threads and the calls *)

Inside(w) == worker[w].phase # "idle" =>
               slot[w].outcome = "none" /\ slot[w].event.run = worker[w].run

\* A step of the thread w: the others keep their run and their call.
LEMMA ThreadStep ==
  ASSUME BusyInsideCall, NEW w \in Worker,
         \A v \in Worker : v # w => worker'[v] = worker[v] /\ slot'[v] = slot[v],
         Inside(w)'
  PROVE  BusyInsideCall'
BY DEF BusyInsideCall, Inside

LEMMA ThreadsStay ==
  ASSUME BusyInsideCall, UNCHANGED <<worker, slot>>
  PROVE  BusyInsideCall'
BY DEF BusyInsideCall

\* process keeps its run until its thread is idle again.
LEMMA ProcessMoves ==
  ASSUME TypeOK, NEW w \in Worker, Process(w)
  PROVE  /\ \A v \in Worker : v # w => worker'[v] = worker[v]
         /\ worker[w].phase # "idle"
         /\ worker'[w].phase # "idle" => worker'[w].run = worker[w].run
<1>1. \E thread : SetWorker(w, thread)
  BY DEF Process, LoadCheckpoint, EnterNode, LeaveNode, GraphError, Pause, Complete,
         Fail, Returns
<1>2. \A v \in Worker : v # w => worker'[v] = worker[v]
  BY <1>1 DEF SetWorker, TypeOK
<1>3. worker[w].phase # "idle"
  BY DEF Process, LoadCheckpoint, EnterNode, LeaveNode, GraphError, Pause, Complete, Fail
<1>4. \A thread : SetWorker(w, thread) => worker'[w] = thread
  BY DEF SetWorker, TypeOK
<1>5. worker'[w].phase # "idle" => worker'[w].run = worker[w].run
  <2>1. CASE LoadCheckpoint(w)
    BY <1>4, <2>1 DEF LoadCheckpoint
  <2>2. CASE EnterNode(w)
    BY <1>3, <1>4, <2>2, FailingTyped DEF EnterNode, TypeOK, Thread
  <2>3. CASE LeaveNode(w)
    <3>1. CASE SetWorker(w, Failing(w))
      BY <1>3, <1>4, <3>1, FailingTyped
    <3>2. CASE ~SetWorker(w, Failing(w))
      <4>1. PICK asked : SetWorker(w, [phase |-> "responding", run |-> worker[w].run,
                                       revision |-> worker[w].revision + 1,
                                       clarification |-> asked])
        BY <2>3, <3>2 DEF LeaveNode
      <4>2. QED
        BY <1>4, <4>1
    <3>3. QED
      BY <3>1, <3>2
  <2>4. CASE GraphError(w)
    BY <1>3, <1>4, <2>4, FailingTyped DEF GraphError
  <2>5. CASE Pause(w) \/ Complete(w)
    BY <1>3, <1>4, <2>5, FailingTyped, IdleTyped DEF Pause, Complete, Returns
  <2>6. CASE Fail(w)
    BY <1>4, <2>6, IdleTyped DEF Fail
  <2>7. QED
    BY <2>1, <2>2, <2>3, <2>4, <2>5, <2>6 DEF Process
<1>6. QED
  BY <1>2, <1>3, <1>5

LEMMA BusyKept ==
  ASSUME TypeOK, QueueInv, BusyInsideCall, [PipelineNext]_pipeline
  PROVE  BusyInsideCall'
<1>1. slot \in [Worker -> Queue!Call]
  BY DEF QueueInv, Queue!QueueTypeOK
<1>2. ASSUME NEW r \in Run, Request(r) PROVE BusyInsideCall'
  BY <1>2, ThreadsStay
     DEF Request, Submit, LookUpReplay, Refuse, Collide, ResolveCollision, Accept, queue
<1>3. CASE User
  BY <1>3, ThreadsStay
     DEF User, UserStep, Cancel, Resume, SetArchived, Delete, PrivacySchedule, queue
<1>4. ASSUME NEW d \in Dispatcher, Dispatch(d) \/ DispatchFault(d) PROVE BusyInsideCall'
  BY <1>4, ThreadsStay
     DEF Dispatch, DispatchFault, Queue!Dispatch, Queue!Select, Queue!Add,
         Queue!MarkPublished, Queue!RowFails, vars
<1>5. ASSUME NEW w \in Worker, Deliver(w) PROVE BusyInsideCall'
  <2>1. UNCHANGED worker /\ worker[w].phase = "idle"
    BY <1>5 DEF Deliver, vars
  <2>2. \A v \in Worker : v # w => slot'[v] = slot[v]
    BY <1>1, <1>5 DEF Deliver, Queue!Deliver
  <2>3. QED
    BY <2>1, <2>2, ThreadStep DEF Inside
<1>6. ASSUME NEW w \in Worker, ClaimDelivered(w) PROVE BusyInsideCall'
  <2>1. /\ Claim(w, slot[w].event.run)
        /\ slot[w].outcome = "none"
        /\ UNCHANGED slot
    BY <1>6 DEF ClaimDelivered, Delivered, queue
  <2>2. CASE UNCHANGED worker
    BY <2>1, <2>2, ThreadsStay
  <2>3. CASE SetWorker(w, [phase |-> "claimed", run |-> slot[w].event.run, revision |-> 0,
                           clarification |-> "none"])
    <3>1. /\ \A v \in Worker : v # w => worker'[v] = worker[v]
          /\ worker'[w].run = slot[w].event.run
      BY <2>3 DEF SetWorker, TypeOK
    <3>2. QED
      BY <2>1, <3>1, ThreadStep DEF Inside
  <2>4. QED
    BY <2>1, <2>2, <2>3 DEF Claim
<1>7. ASSUME NEW w \in Worker, SkipDelivered(w) \/ ClaimThrows(w) PROVE BusyInsideCall'
  <2>1. UNCHANGED worker /\ worker[w].phase = "idle"
    BY <1>7 DEF SkipDelivered, ClaimThrows, Delivered, vars
  <2>2. \A v \in Worker : v # w => slot'[v] = slot[v]
    BY <1>1, <1>7 DEF SkipDelivered, ClaimThrows, Queue!Settle
  <2>3. QED
    BY <2>1, <2>2, ThreadStep DEF Inside
<1>8. ASSUME NEW w \in Worker, Process(w) PROVE BusyInsideCall'
  <2>1. \A v \in Worker : v # w => worker'[v] = worker[v] /\ slot'[v] = slot[v]
    BY <1>1, <1>8, ProcessMoves DEF Process, Queue!Settle
  <2>2. Inside(w)'
    BY <1>8, ProcessMoves DEF Process, Inside, BusyInsideCall
  <2>3. QED
    BY <2>1, <2>2, ThreadStep
<1>9. ASSUME NEW w \in Worker, FailThrows(w) PROVE BusyInsideCall'
  <2>1. Crash({w}) /\ Queue!Settle(w, "rejected")
    BY <1>9 DEF FailThrows
  <2>2. /\ \A v \in Worker : v # w => worker'[v] = worker[v] /\ slot'[v] = slot[v]
        /\ worker'[w].phase = "idle"
    BY <1>1, <2>1 DEF Crash, Queue!Settle, Idle
  <2>3. QED
    BY <2>2, ThreadStep DEF Inside
<1>10. ASSUME NEW w \in Worker, Finish(w) PROVE BusyInsideCall'
  <2>1. UNCHANGED worker /\ worker[w].phase = "idle"
    BY <1>10 DEF Finish, Queue!Finish, vars, BusyInsideCall
  <2>2. \A v \in Worker : v # w => slot'[v] = slot[v]
    BY <1>1, <1>10 DEF Finish, Queue!Finish
  <2>3. QED
    BY <2>1, <2>2, ThreadStep DEF Inside
<1>11. ASSUME NEW d \in Dispatcher, NEW calls \in SUBSET Worker, ProcessDies(d, calls)
       PROVE  BusyInsideCall'
  <2>1. \A w \in Worker : worker'[w].phase # "idle" => worker'[w] = worker[w]
    BY <1>11 DEF ProcessDies, Crash, Idle, vars
  <2>2. \A w \in calls : worker'[w].phase = "idle"
    BY <1>11 DEF ProcessDies, Crash, Idle, vars
  <2>3. \A w \in Worker : w \notin calls => slot'[w] = slot[w]
    BY <1>11 DEF ProcessDies, Queue!Vanish
  <2>4. QED
    BY <2>1, <2>2, <2>3 DEF BusyInsideCall
<1>12. ASSUME NEW k \in Keys, Reclaim(k) \/ ReclaimHeld(k) \/ Forget(k)
       PROVE  BusyInsideCall'
  BY <1>12, ThreadsStay DEF Reclaim, ReclaimHeld, Forget, Queue!Stall, Queue!Forget, vars
<1>13. CASE UNCHANGED pipeline
  BY <1>13, ThreadsStay DEF pipeline, vars, queue
<1>14. QED
  BY <1>2, <1>3, <1>4, <1>5, <1>6, <1>7, <1>8, <1>9, <1>10, <1>11, <1>12, <1>13
     DEF PipelineNext, WorkerStep, WorkerFault

\* A thread works on a run only inside the processor call that was handed the
\* run's job and has not settled: process is awaited, and the job of a call that
\* settled is not worked on any more.
THEOREM BusyInside == PipelineSpec => []BusyInsideCall
<1> DEFINE Inv == TypeOK /\ QueueInv
<1>1. PipelineSpec => []Inv
  BY QueueInvariant, PipelineImplements, TypeCorrect, PTL
<1>2. PipelineInit => BusyInsideCall
  BY DEF PipelineInit, Init, BusyInsideCall, Idle
<1>3. Inv /\ BusyInsideCall /\ [PipelineNext]_pipeline => BusyInsideCall'
  BY BusyKept
<1> HIDE DEF Inv
<1>4. QED
  BY <1>1, <1>2, <1>3, PTL DEF PipelineSpec

-----------------------------------------------------------------------------
(* Queued runs and their rows *)

\* The row that announces the present queueing of its run.
Awaited(e) ==
  /\ run[e.run] = "queued"
  /\ e.kind = IF Answered(e.run) THEN "resume" ELSE "start"

\* A run is accepted with its first row, and no row comes before its cause.
RowsAnnounce ==
  /\ \A r \in Run : run[r] # "none" => [run |-> r, kind |-> "start"] \in outbox
  /\ \A e \in outbox :
       /\ run[e.run] # "none"
       /\ e.kind = "resume" => Answered(e.run) \/ run[e.run] = "erased"

\* Runs are queued by Accept and Resume.
LEMMA QueuedBy ==
  ASSUME TypeOK, [Next]_vars, NEW r \in Run, run'[r] = "queued"
  PROVE  \/ run[r] = "queued" /\ UNCHANGED <<clarification[r]>>
         \/ Accept(r)
         \/ \E answer \in Answer : Resume(r, answer)
<1> DEFINE Same == run[r] = "queued" /\ UNCHANGED <<clarification[r]>>
<1>1. ASSUME NEW s \in Run,
             LookUpReplay(s) \/ Refuse(s) \/ Collide(s) \/ ResolveCollision(s)
      PROVE  Same
  BY <1>1 DEF LookUpReplay, Refuse, Collide, ResolveCollision, tables
<1>2. ASSUME NEW s \in Run, s # r, Accept(s) \/ \E answer \in Answer : Resume(s, answer)
      PROVE  Same
  BY <1>2 DEF Accept, Resume, SetRun, TypeOK
<1>3. ASSUME NEW w \in Worker, NEW s \in Run, Claim(w, s) PROVE Same
  BY <1>3 DEF Claim, ClaimRun, SetRun, TypeOK
<1>4. ASSUME NEW w \in Worker,
             LoadCheckpoint(w) \/ EnterNode(w) \/ LeaveNode(w) \/ GraphError(w)
      PROVE  Same
  BY <1>4 DEF LoadCheckpoint, EnterNode, LeaveNode, GraphError, tables
<1>5. ASSUME NEW w \in Worker, Pause(w) PROVE Same
  <2>1. worker[w].run \in Run
    BY <1>5 DEF Pause, TypeOK
  <2>2. CASE worker[w].run = r
    BY <1>5, <2>2 DEF Pause, SetRun, TypeOK
  <2>3. CASE worker[w].run # r
    BY <1>5, <2>3 DEF Pause, SetRun, TypeOK
  <2>4. QED
    BY <2>2, <2>3
<1>6. ASSUME NEW w \in Worker, Complete(w) \/ Fail(w) PROVE Same
  BY <1>6 DEF Complete, Fail, SetRun, TypeOK
<1>7. ASSUME NEW s \in Run, Cancel(s) PROVE Same
  BY <1>7 DEF Cancel, SetRun, TypeOK
<1>8. ASSUME NEW c \in Conversation, NEW status \in {"active", "archived"},
             SetArchived(c, status)
      PROVE  Same
  BY <1>8 DEF SetArchived
<1>9. ASSUME NEW c \in Conversation, Delete(c) PROVE Same
  BY <1>9 DEF Delete, Exists, ActiveStatus
<1>10. ASSUME NEW reached \in SUBSET Conversation, PrivacySchedule(reached) PROVE Same
  BY <1>10 DEF PrivacySchedule
<1>11. ASSUME NEW threads \in SUBSET Worker, Crash(threads) PROVE Same
  BY <1>11 DEF Crash, tables
<1>12. CASE UNCHANGED vars
  BY <1>12 DEF vars
<1>13. QED
  BY <1>1, <1>2, <1>3, <1>4, <1>5, <1>6, <1>7, <1>8, <1>9, <1>10, <1>11, <1>12
     DEF Next, Submit, Work, UserStep

\* A row that is in the outbox is not awaited anew.
LEMMA AwaitedBefore ==
  ASSUME TypeOK, SubmissionsIdempotent, RowsAnnounce, [Next]_vars,
         NEW e \in outbox, Awaited(e)'
  PROVE  Awaited(e)
<1>1. e \in OutboxRow /\ e.run \in Run /\ e.kind \in {"start", "resume"}
  BY DEF TypeOK, OutboxRow
<1>2. run'[e.run] = "queued"
  BY DEF Awaited
<1>3. CASE Accept(e.run)
  BY <1>1, <1>3 DEF Accept, SubmissionsIdempotent, RowsAnnounce
<1>4. ASSUME NEW answer \in Answer, Resume(e.run, answer) PROVE FALSE
  <2>1. clarification' = [clarification EXCEPT ![e.run] =
                            [status |-> "answered", answer |-> answer]]
    BY <1>4 DEF Resume
  <2>2. e.kind = "resume"
    BY <1>1, <2>1 DEF Awaited, Answered, TypeOK
  <2>3. QED
    BY <1>4, <2>2 DEF Resume, RowsAnnounce, Answered
<1>5. CASE run[e.run] = "queued" /\ UNCHANGED <<clarification[e.run]>>
  BY <1>5 DEF Awaited, Answered
<1>6. QED
  BY <1>1, <1>2, <1>3, <1>4, <1>5, QueuedBy

\* An answer is only taken back with its run.
LEMMA AnswerStays ==
  ASSUME TypeOK, QuestionInv, [Next]_vars, NEW r \in Run, Answered(r)
  PROVE  Answered(r)' \/ run'[r] = "erased"
<1>1. ASSUME NEW s \in Run, Submit(s) PROVE Answered(r)'
  BY <1>1 DEF Submit, LookUpReplay, Refuse, Collide, ResolveCollision, Accept, tables,
              Answered
<1>2. ASSUME NEW w \in Worker, Work(w) PROVE Answered(r)'
  <2>1. CASE Pause(w)
    <3>1. worker[w].run \in Run
      BY <2>1 DEF Pause, TypeOK
    <3>2. \/ UNCHANGED clarification
          \/ clarification' = [clarification EXCEPT ![worker[w].run] =
               IF @.status = "none" THEN [status |-> "pending", answer |-> NoAnswer]
                                    ELSE @]
      BY <2>1 DEF Pause
    <3>3. QED
      BY <3>1, <3>2 DEF Answered, TypeOK
  <2>2. CASE ~Pause(w)
    BY <1>2, <2>2 DEF Work, Claim, ClaimRun, LoadCheckpoint, EnterNode, LeaveNode,
                      GraphError, Complete, Fail, tables, Answered
  <2>3. QED
    BY <2>1, <2>2
<1>3. ASSUME NEW s \in Run, NEW answer \in Answer, Resume(s, answer) PROVE Answered(r)'
  <2>1. clarification' = [clarification EXCEPT ![s] =
                            [status |-> "answered", answer |-> answer]]
    BY <1>3 DEF Resume
  <2>2. QED
    BY <2>1 DEF Answered, TypeOK
<1>4. ASSUME NEW c \in Conversation, Delete(c) PROVE Answered(r)' \/ run'[r] = "erased"
  <2>1. run[r] # "none" /\ run[r] \in RunStatus
    BY DEF QuestionInv, QuestionOpen, Answered, TypeOK
  <2>2. CASE r \in RunsOf(c)
    BY <1>4, <2>1, <2>2 DEF Delete, Exists, RunStatus
  <2>3. CASE r \notin RunsOf(c)
    BY <1>4, <2>3 DEF Delete, Answered
  <2>4. QED
    BY <2>2, <2>3
<1>5. CASE UserStep
  BY <1>3, <1>4, <1>5
     DEF UserStep, Cancel, SetArchived, PrivacySchedule, Answered
<1>6. ASSUME NEW threads \in SUBSET Worker, Crash(threads) PROVE Answered(r)'
  BY <1>6 DEF Crash, tables, Answered
<1>7. CASE UNCHANGED vars
  BY <1>7 DEF vars, Answered
<1>8. QED
  BY <1>1, <1>2, <1>5, <1>6, <1>7 DEF Next

\* Rows are committed by Accept and Resume.
LEMMA RowsBy ==
  ASSUME TypeOK, [Next]_vars, NEW e \in outbox', e \notin outbox
  PROVE  /\ e.run \in Run
         /\ \/ Accept(e.run) /\ e.kind = "start"
            \/ /\ \E answer \in Answer : Resume(e.run, answer)
               /\ e.kind = "resume"
<1>1. ASSUME NEW r \in Run, Submit(r) PROVE Accept(r) /\ e = [run |-> r, kind |-> "start"]
  BY <1>1 DEF Submit, LookUpReplay, Refuse, Collide, ResolveCollision, Accept, tables
<1>2. ASSUME NEW w \in Worker, Work(w) PROVE FALSE
  BY <1>2 DEF Work, Claim, ClaimRun, LoadCheckpoint, EnterNode, LeaveNode, GraphError,
              Pause, Complete, Fail, tables
<1>3. CASE UserStep
  <2>1. PICK r \in Run, answer \in Answer : Resume(r, answer)
    BY <1>3 DEF UserStep, Cancel, SetArchived, Delete, PrivacySchedule
  <2>2. e = [run |-> r, kind |-> "resume"]
    BY <2>1 DEF Resume
  <2>3. QED
    BY <2>1, <2>2
<1>4. ASSUME NEW threads \in SUBSET Worker, Crash(threads) PROVE FALSE
  BY <1>4 DEF Crash, tables
<1>5. CASE UNCHANGED vars
  BY <1>5 DEF vars
<1>6. QED
  BY <1>1, <1>2, <1>3, <1>4, <1>5 DEF Next

LEMMA RowsAnnounceKept ==
  ASSUME TypeOK, SubmissionsIdempotent, QuestionInv, RowsAnnounce, [Next]_vars
  PROVE  RowsAnnounce'
<1>1. TypeOK' /\ outbox \subseteq outbox'
  BY TypeKept, OutboxGrows
<1>2. ASSUME NEW r \in Run, Accept(r)
      PROVE  /\ run[r] = "none"
             /\ run'[r] = "queued"
             /\ [run |-> r, kind |-> "start"] \in outbox'
             /\ \A s \in Run : s # r => run'[s] = run[s]
  BY <1>2 DEF Accept, SetRun, SubmissionsIdempotent, TypeOK
<1>3. ASSUME NEW r \in Run, run'[r] # "none"
      PROVE  [run |-> r, kind |-> "start"] \in outbox'
  BY <1>1, <1>2, <1>3, OnlyAcceptAdds DEF NoNewRun, RowsAnnounce
<1>4. ASSUME NEW r \in Run, run[r] # "none"
      PROVE  run'[r] # "none" /\ (run[r] = "erased" => run'[r] = "erased")
  <2>1. CASE NoNewRun
    <3>1. run'[r] # "none" /\ (Exists(r)' => Exists(r))
      BY <1>4, <2>1 DEF NoNewRun
    <3>2. run'[r] \in RunStatus
      BY <1>1 DEF TypeOK
    <3>3. QED
      BY <3>1, <3>2 DEF Exists, RunStatus, ActiveStatus, TerminalStatus
  <2>2. CASE ~NoNewRun
    BY <1>2, <1>4, <2>2, OnlyAcceptAdds
  <2>3. QED
    BY <2>1, <2>2
<1>5. ASSUME NEW e \in outbox'
      PROVE  /\ run'[e.run] # "none"
             /\ e.kind = "resume" => Answered(e.run)' \/ run'[e.run] = "erased"
  <2>1. CASE e \in outbox
    <3>1. e.run \in Run
      BY <2>1 DEF TypeOK, OutboxRow
    <3>2. QED
      BY <1>4, <2>1, <3>1, AnswerStays DEF RowsAnnounce
  <2>2. CASE e \notin outbox
    <3>1. CASE Accept(e.run) /\ e.kind = "start" /\ e.run \in Run
      BY <1>2, <3>1
    <3>2. ASSUME NEW answer \in Answer, Resume(e.run, answer), e.run \in Run
          PROVE  run'[e.run] = "queued" /\ Answered(e.run)'
      BY <3>2 DEF Resume, SetRun, Answered, TypeOK
    <3>3. QED
      BY <2>2, <3>1, <3>2, RowsBy
  <2>3. QED
    BY <2>1, <2>2
<1>6. QED
  BY <1>3, <1>5 DEF RowsAnnounce

-----------------------------------------------------------------------------
(* Queued runs and their jobs *)

\* No client request id is submitted twice.  Without this the job of an erased
\* run may stand in for that of a later one.
KeysDiffer == \A r, s \in Run : Submission[r].key = Submission[s].key => r = s

LEMMA KeysTellRows ==
  ASSUME KeysDiffer, NEW e \in OutboxRow, NEW f \in OutboxRow,
         KeyOfRow[e] = KeyOfRow[f]
  PROVE  e = f
<1>1. IdempotencyKey(e) = IdempotencyKey(f)
  BY DEF KeyOfRow
<1>2. e.kind = f.kind /\ e.run = f.run
  BY <1>1 DEF IdempotencyKey, OutboxRow, KeysDiffer
<1>3. QED
  BY <1>2 DEF OutboxRow

\* The jobs and the calls of committed rows.
JobsCarryRows ==
  \A k \in Keys : job[k].state # "absent" =>
    job[k].event \in outbox /\ KeyOfRow[job[k].event] = k

CallsCarryRows ==
  \A w \in Worker :
    /\ slot[w].event \in outbox \cup {NoEvent}
    /\ worker[w].phase # "idle" \/ slot[w].outcome # "none" => slot[w].event # NoEvent

\* Of an awaited row the job is not done, and no call has done its work.
Unserved(e) ==
  /\ \/ KeyOfRow[e] \in exhausted
     \/ job[KeyOfRow[e]].state \in {"absent", "waiting", "active"}
  /\ e \in published \/ (\E d \in Dispatcher : added[d] = e) =>
       \/ KeyOfRow[e] \in exhausted
       \/ job[KeyOfRow[e]].state # "absent"
  /\ \A w \in Worker : slot[w].event = e => slot[w].outcome # "resolved"

AwaitedRowsUnserved == \A e \in outbox : Awaited(e) => Unserved(e)

DeliveryInv == RowsAnnounce /\ JobsCarryRows /\ CallsCarryRows /\ AwaitedRowsUnserved

\* What is proved above and in the modules this one extends.
TablesAndQueue ==
  /\ TypeOK /\ SubmissionsIdempotent /\ QuestionInv /\ AnswerRecorded
  /\ QueueInv /\ BusyInsideCall

LEMMA JobsCarryKept ==
  ASSUME TablesAndQueue, JobsCarryRows, [PipelineNext]_pipeline
  PROVE  JobsCarryRows'
<1> USE DEF TablesAndQueue
<1>1. outbox \subseteq outbox' /\ job \in [Keys -> Queue!Job]
  BY PipelineStep, OutboxGrows DEF QueueInv, Queue!QueueTypeOK
<1>2. CASE UNCHANGED job
  BY <1>1, <1>2 DEF JobsCarryRows
<1>3. ASSUME NEW k \in Keys, NEW j, job' = [job EXCEPT ![k] = j],
             \/ j.state = "absent"
             \/ j.event \in outbox /\ KeyOfRow[j.event] = k
      PROVE  JobsCarryRows'
  BY <1>1, <1>3 DEF JobsCarryRows
<1>4. ASSUME NEW d \in Dispatcher, Dispatch(d) PROVE JobsCarryRows'
  <2>1. CASE \E e \in OutboxRow : Queue!Add(d, e)
    <3>1. PICK e \in OutboxRow : Queue!Add(d, e)
      BY <2>1
    <3>2. KeyOfRow[e] \in Keys /\ e \in outbox
      BY <3>1, KeysOfRows DEF Queue!Add, QueueInv, Queue!QueueTypeOK
    <3>3. CASE job[KeyOfRow[e]].state = "absent"
      BY <1>3, <3>1, <3>2, <3>3 DEF Queue!Add, Queue!NewJob
    <3>4. CASE job[KeyOfRow[e]].state # "absent"
      <4>1. job' = [job EXCEPT ![KeyOfRow[e]] = job[KeyOfRow[e]]]
        BY <3>1, <3>4 DEF Queue!Add
      <4>2. QED
        BY <1>1, <1>2, <3>2, <4>1
    <3>5. QED
      BY <3>3, <3>4
  <2>2. CASE ~(\E e \in OutboxRow : Queue!Add(d, e))
    BY <1>2, <1>4, <2>2 DEF Dispatch, Queue!Dispatch, Queue!Select, Queue!MarkPublished
  <2>3. QED
    BY <2>1, <2>2
<1>5. ASSUME NEW w \in Worker, Deliver(w) PROVE JobsCarryRows'
  <2>1. PICK k \in Keys : Queue!Deliver(w, k)
    BY <1>5 DEF Deliver
  <2> DEFINE j == [job[k] EXCEPT !.state = "active", !.holder = w]
  <2>2. job' = [job EXCEPT ![k] = j]
    BY <1>1, <2>1 DEF Queue!Deliver
  <2>3. j.event = job[k].event
    BY <1>1 DEF Queue!Job
  <2>4. j.event \in outbox /\ KeyOfRow[j.event] = k
    BY <2>1, <2>3 DEF Queue!Deliver, JobsCarryRows
  <2> HIDE DEF j
  <2>5. QED
    BY <1>3, <2>2, <2>4
<1>6. ASSUME NEW w \in Worker, Finish(w) PROVE JobsCarryRows'
  <2> DEFINE k == KeyOfRow[slot[w].event]
  <2>1. CASE k \notin Keys \/ UNCHANGED job
    BY <1>1, <1>2, <1>6, <2>1 DEF Finish, Queue!Finish
  <2>2. CASE k \in Keys /\ job' # job
    <3>1. job[k] \in Queue!Job /\ Queue!Holds(w)
      BY <1>1, <1>6, <2>2 DEF Finish, Queue!Finish
    <3>2. job[k].event \in outbox /\ KeyOfRow[job[k].event] = k
      BY <2>2, <3>1 DEF Queue!Holds, JobsCarryRows
    <3>3. PICK j : job' = [job EXCEPT ![k] = j] /\ j.event = job[k].event
      <4> DEFINE done == [job[k] EXCEPT !.state = "completed", !.holder = Queue!NoSlot]
      <4>1. done.event = job[k].event /\ Queue!Tried(job[k]).event = job[k].event
        BY <3>1 DEF Queue!Job, Queue!Tried
      <4>2. \/ job' = [job EXCEPT ![k] = done]
            \/ job' = [job EXCEPT ![k] = Queue!Tried(job[k])]
        BY <1>1, <1>6, <2>2 DEF Finish, Queue!Finish
      <4> HIDE DEF done
      <4>3. QED
        BY <4>1, <4>2
    <3>4. QED
      BY <1>3, <2>2, <3>2, <3>3
  <2>3. QED
    BY <2>1, <2>2
<1>7. ASSUME NEW k \in Keys, Reclaim(k) \/ ReclaimHeld(k) PROVE JobsCarryRows'
  <2>1. Queue!Stall(k)
    BY <1>7 DEF Reclaim, ReclaimHeld
  <2>2. Queue!Stalled(job[k]).event = job[k].event
    BY <1>1 DEF Queue!Stalled, Queue!Job
  <2>3. job[k].event \in outbox /\ KeyOfRow[job[k].event] = k
    BY <2>1 DEF Queue!Stall, JobsCarryRows
  <2>4. job' = [job EXCEPT ![k] = Queue!Stalled(job[k])]
    BY <2>1 DEF Queue!Stall
  <2>5. QED
    BY <1>3, <2>2, <2>3, <2>4
<1>8. ASSUME NEW k \in Keys, Forget(k) PROVE JobsCarryRows'
  BY <1>3, <1>8 DEF Forget, Queue!Forget, Queue!NoJob
<1>9. CASE \/ \E r \in Run : Request(r)
           \/ User
           \/ \E d \in Dispatcher : DispatchFault(d)
           \/ UNCHANGED pipeline
  BY <1>2, <1>9 DEF Request, User, DispatchFault, Queue!RowFails, queue, pipeline
<1>10. ASSUME NEW w \in Worker,
              \/ ClaimDelivered(w) \/ SkipDelivered(w) \/ ClaimThrows(w) \/ Process(w)
              \/ FailThrows(w)
       PROVE  JobsCarryRows'
  BY <1>2, <1>10
     DEF ClaimDelivered, SkipDelivered, ClaimThrows, Process, FailThrows, queue
<1>11. ASSUME NEW d \in Dispatcher, NEW calls \in SUBSET Worker, ProcessDies(d, calls)
       PROVE  JobsCarryRows'
  BY <1>2, <1>11 DEF ProcessDies
<1>12. QED
  BY <1>4, <1>5, <1>6, <1>7, <1>8, <1>9, <1>10, <1>11
     DEF PipelineNext, WorkerStep, WorkerFault

LEMMA CallsCarryKept ==
  ASSUME TablesAndQueue, JobsCarryRows, CallsCarryRows, [PipelineNext]_pipeline
  PROVE  CallsCarryRows'
<1> USE DEF TablesAndQueue
<1>1. outbox \subseteq outbox' /\ slot \in [Worker -> Queue!Call]
  BY PipelineStep, OutboxGrows DEF QueueInv, Queue!QueueTypeOK
<1>2. CASE UNCHANGED <<worker, slot>>
  BY <1>1, <1>2 DEF CallsCarryRows
<1>3. ASSUME NEW w \in Worker,
             \A v \in Worker : v # w => worker'[v] = worker[v] /\ slot'[v] = slot[v],
             slot'[w].event \in outbox \cup {NoEvent},
             worker'[w].phase # "idle" \/ slot'[w].outcome # "none" =>
               slot'[w].event # NoEvent
      PROVE  CallsCarryRows'
  BY <1>1, <1>3 DEF CallsCarryRows
<1>4. ASSUME NEW r \in Run, Request(r) PROVE UNCHANGED <<worker, slot>>
  BY <1>4 DEF Request, Submit, LookUpReplay, Refuse, Collide, ResolveCollision, Accept,
              queue
<1>5. CASE User
  BY <1>2, <1>5
     DEF User, UserStep, Cancel, Resume, SetArchived, Delete, PrivacySchedule, queue
<1>6. ASSUME NEW d \in Dispatcher, Dispatch(d) \/ DispatchFault(d)
      PROVE  UNCHANGED <<worker, slot>>
  BY <1>6 DEF Dispatch, DispatchFault, Queue!Dispatch, Queue!Select, Queue!Add,
              Queue!MarkPublished, Queue!RowFails, vars
<1>7. ASSUME NEW w \in Worker, Deliver(w) PROVE CallsCarryRows'
  <2>1. PICK k \in Keys : Queue!Deliver(w, k)
    BY <1>7 DEF Deliver
  <2>2. job[k].event \in outbox
    BY <2>1 DEF Queue!Deliver, JobsCarryRows
  <2>3. job[k].event # NoEvent
    BY <2>2, NoEventAssumption DEF TypeOK
  <2>4. /\ \A v \in Worker : v # w => slot'[v] = slot[v]
        /\ slot'[w].event = job[k].event
    BY <1>1, <2>1 DEF Queue!Deliver, Queue!Call
  <2>5. UNCHANGED worker
    BY <1>7 DEF Deliver, vars
  <2>6. QED
    BY <1>3, <2>2, <2>3, <2>4, <2>5
<1>8. ASSUME NEW w \in Worker, NEW outcome \in {"resolved", "rejected"},
             Queue!Settle(w, outcome), slot[w].event # NoEvent,
             \A v \in Worker : v # w => worker'[v] = worker[v]
      PROVE  CallsCarryRows'
  <2>1. /\ \A v \in Worker : v # w => slot'[v] = slot[v]
        /\ slot'[w].event = slot[w].event
    BY <1>1, <1>8 DEF Queue!Settle, Queue!Call
  <2>2. QED
    BY <1>3, <1>8, <2>1 DEF CallsCarryRows
<1>9. ASSUME NEW w \in Worker, ClaimDelivered(w) PROVE CallsCarryRows'
  <2>1. slot[w].event # NoEvent /\ UNCHANGED slot
    BY <1>9 DEF ClaimDelivered, Delivered, queue
  <2>2. \A v \in Worker : v # w => worker'[v] = worker[v]
    BY <1>9 DEF ClaimDelivered, Claim, SetWorker, TypeOK
  <2>3. QED
    BY <1>3, <2>1, <2>2 DEF CallsCarryRows
<1>10. ASSUME NEW w \in Worker, SkipDelivered(w) \/ ClaimThrows(w) PROVE CallsCarryRows'
  BY <1>8, <1>10 DEF SkipDelivered, ClaimThrows, Delivered, vars
<1>11. ASSUME NEW w \in Worker, Process(w) PROVE CallsCarryRows'
  <2>1. /\ slot[w].event # NoEvent
        /\ \A v \in Worker : v # w => worker'[v] = worker[v]
    BY <1>11, ProcessMoves DEF CallsCarryRows
  <2>2. CASE Queue!Settle(w, "resolved")
    BY <1>8, <2>1, <2>2
  <2>3. CASE UNCHANGED slot
    BY <1>3, <2>1, <2>3 DEF CallsCarryRows
  <2>4. QED
    BY <1>11, <2>2, <2>3 DEF Process
<1>12. ASSUME NEW w \in Worker, FailThrows(w) PROVE CallsCarryRows'
  <2>1. slot[w].event # NoEvent
    BY <1>12 DEF FailThrows, CallsCarryRows
  <2>2. \A v \in Worker : v # w => worker'[v] = worker[v]
    BY <1>12 DEF FailThrows, Crash
  <2>3. QED
    BY <1>8, <1>12, <2>1, <2>2 DEF FailThrows
<1>13. ASSUME NEW w \in Worker, Finish(w) PROVE CallsCarryRows'
  <2>1. worker[w].phase = "idle" /\ UNCHANGED worker
    BY <1>13 DEF Finish, Queue!Finish, BusyInsideCall, vars
  <2>2. /\ \A v \in Worker : v # w => slot'[v] = slot[v]
        /\ slot'[w] = Queue!NoCall
    BY <1>1, <1>13 DEF Finish, Queue!Finish
  <2>3. QED
    BY <1>3, <2>1, <2>2 DEF Queue!NoCall
<1>14. ASSUME NEW d \in Dispatcher, NEW calls \in SUBSET Worker, ProcessDies(d, calls)
       PROVE  CallsCarryRows'
  <2>1. \A w \in Worker : worker'[w].phase # "idle" =>
          w \notin calls /\ worker'[w] = worker[w]
    BY <1>14 DEF ProcessDies, Crash, Idle, vars
  <2>2. \A w \in Worker : slot'[w] = IF w \in calls THEN Queue!NoCall ELSE slot[w]
    BY <1>14 DEF ProcessDies, Queue!Vanish
  <2>3. QED
    BY <1>1, <2>1, <2>2 DEF CallsCarryRows, Queue!NoCall
<1>15. ASSUME NEW k \in Keys, Reclaim(k) \/ ReclaimHeld(k) \/ Forget(k)
       PROVE  UNCHANGED <<worker, slot>>
  BY <1>15 DEF Reclaim, ReclaimHeld, Forget, Queue!Stall, Queue!Forget, vars
<1>16. CASE UNCHANGED pipeline
  BY <1>2, <1>16 DEF pipeline, vars, queue
<1>17. QED
  BY <1>2, <1>4, <1>5, <1>6, <1>7, <1>9, <1>10, <1>11, <1>12, <1>13, <1>14, <1>15, <1>16
     DEF PipelineNext, WorkerStep, WorkerFault

\* process resolves only when its run is not queued.
LEMMA ProcessEnds ==
  ASSUME TypeOK, QuestionInv, NEW w \in Worker, Process(w), worker'[w].phase = "idle"
  PROVE  run'[worker[w].run] # "queued"
<1>1. \A thread : SetWorker(w, thread) => worker'[w] = thread
  BY DEF SetWorker, TypeOK
<1>2. worker[w].phase # "idle" /\ worker[w].run \in Run
  BY ProcessMoves DEF TypeOK
<1>3. Responding(w) => run[worker[w].run] # "queued"
  BY DEF QuestionInv, RespondersRun
<1>4. CASE LoadCheckpoint(w) \/ EnterNode(w) \/ LeaveNode(w) \/ GraphError(w)
  <2>1. Responding(w) /\ UNCHANGED run
    BY <1>4 DEF LoadCheckpoint, EnterNode, LeaveNode, GraphError, Responding, tables
  <2>2. QED
    BY <1>3, <2>1
<1>5. CASE Pause(w) \/ Complete(w)
  <2>1. Responding(w)
    BY <1>5 DEF Pause, Complete, Responding
  <2>2. \/ UNCHANGED run
        \/ SetRun(worker[w].run, "waiting_for_user")
        \/ SetRun(worker[w].run, "completed")
    BY <1>5 DEF Pause, Complete
  <2>3. QED
    BY <1>2, <1>3, <2>1, <2>2 DEF SetRun, TypeOK
<1>6. CASE Fail(w)
  BY <1>2, <1>6 DEF Fail, Failable, ActiveStatus, SetRun, TypeOK
<1>7. QED
  BY <1>4, <1>5, <1>6 DEF Process

\* A row that is new in the outbox is still to be published.
LEMMA NewRowUnserved ==
  ASSUME TablesAndQueue, KeysDiffer, JobsCarryRows, CallsCarryRows, [PipelineNext]_pipeline,
         NEW e \in outbox', e \notin outbox
  PROVE  Unserved(e)'
<1> USE DEF TablesAndQueue
<1>1. e \in OutboxRow
  BY PipelineStep, TypeKept DEF TypeOK
<1>2. UNCHANGED queue
  <2>1. CASE \E r \in Run : Request(r)
    BY <2>1 DEF Request
  <2>2. CASE User
    BY <2>2 DEF User
  <2>3. ASSUME UNCHANGED outbox PROVE FALSE
    BY <2>3
  <2>4. ASSUME NEW w \in Worker, WorkerStep(w) \/ WorkerFault(w) PROVE UNCHANGED outbox
    BY <2>4 DEF WorkerStep, WorkerFault, Deliver, ClaimDelivered, SkipDelivered, Process,
                Finish, ClaimThrows, FailThrows, Claim, ClaimRun, LoadCheckpoint,
                EnterNode, LeaveNode, GraphError, Pause, Complete, Fail, Crash, vars,
                tables
  <2>5. ASSUME NEW d \in Dispatcher, Dispatch(d) \/ DispatchFault(d)
        PROVE  UNCHANGED outbox
    BY <2>5 DEF Dispatch, DispatchFault, vars
  <2>6. ASSUME NEW d \in Dispatcher, NEW calls \in SUBSET Worker, ProcessDies(d, calls)
        PROVE  UNCHANGED outbox
    BY <2>6 DEF ProcessDies, Crash, vars, tables
  <2>7. ASSUME NEW k \in Keys, Reclaim(k) \/ ReclaimHeld(k) \/ Forget(k)
        PROVE  UNCHANGED outbox
    BY <2>7 DEF Reclaim, ReclaimHeld, Forget, vars
  <2>8. CASE UNCHANGED pipeline
    BY <2>8 DEF pipeline
  <2>9. QED
    BY <2>1, <2>2, <2>3, <2>4, <2>5, <2>6, <2>7, <2>8 DEF PipelineNext
<1>3. job[KeyOfRow[e]].state = "absent"
  <2>1. KeyOfRow[e] \in Keys
    BY <1>1, KeysOfRows
  <2>2. \A f \in outbox : f \in OutboxRow
    BY DEF TypeOK
  <2>3. QED
    BY <1>1, <2>1, <2>2, KeysTellRows DEF JobsCarryRows
<1>4. /\ e \notin published
      /\ \A d \in Dispatcher : added[d] # e
  <2>1. e # NoEvent
    BY <1>1, NoEventAssumption
  <2>2. QED
    BY <2>1 DEF QueueInv, Queue!QueueTypeOK
<1>5. \A w \in Worker : slot[w].event # e
  BY <1>1, NoEventAssumption DEF CallsCarryRows
<1>6. QED
  BY <1>2, <1>3, <1>4, <1>5 DEF Unserved, queue

\* A step that does not touch the row's job, nor the calls of its run.
LEMMA UnservedStays ==
  ASSUME NEW e, Unserved(e), exhausted \subseteq exhausted',
         job'[KeyOfRow[e]] = job[KeyOfRow[e]],
         e \in published' => e \in published \/ \E d \in Dispatcher : added[d] = e,
         \A d \in Dispatcher : added'[d] = e => added[d] = e,
         \A w \in Worker : slot'[w].event = e /\ slot'[w].outcome = "resolved" =>
                             slot[w].event = e /\ slot[w].outcome = "resolved"
  PROVE  Unserved(e)'
BY DEF Unserved

\* A step that moves the row's job, but never to its completion.
LEMMA UnservedMoves ==
  ASSUME NEW e, Unserved(e), exhausted \subseteq exhausted',
         \/ KeyOfRow[e] \in exhausted'
         \/ job'[KeyOfRow[e]].state \in {"waiting", "active"},
         \A w \in Worker : slot'[w].event = e /\ slot'[w].outcome = "resolved" =>
                             slot[w].event = e /\ slot[w].outcome = "resolved"
  PROVE  Unserved(e)'
BY DEF Unserved

LEMMA UnservedKept ==
  ASSUME TablesAndQueue, KeysDiffer, JobsCarryRows, CallsCarryRows, [PipelineNext]_pipeline,
         NEW e \in outbox, Awaited(e), Awaited(e)', Unserved(e)
  PROVE  Unserved(e)'
<1> USE DEF TablesAndQueue
<1> DEFINE k == KeyOfRow[e]
<1>1. /\ e \in OutboxRow
      /\ k \in Keys
      /\ job \in [Keys -> Queue!Job]
      /\ slot \in [Worker -> Queue!Call]
      /\ added \in [Dispatcher -> OutboxRow \cup {NoEvent}]
      /\ e # NoEvent
  BY KeysOfRows, NoEventAssumption DEF TypeOK, QueueInv, Queue!QueueTypeOK
<1>2. \A f \in OutboxRow : KeyOfRow[f] = k => f = e
  BY <1>1, KeysTellRows
<1>3. CASE UNCHANGED queue
  BY <1>3, UnservedStays DEF queue
<1>4. ASSUME NEW d \in Dispatcher, Dispatch(d) PROVE Unserved(e)'
  <2>1. CASE Queue!Select(d)
    BY <2>1, UnservedStays DEF Queue!Select
  <2>2. ASSUME NEW f \in OutboxRow, Queue!Add(d, f) PROVE Unserved(e)'
    <3>1. UNCHANGED <<published, exhausted, slot>>
      BY <2>2 DEF Queue!Add
    <3>2. CASE f = e
      <4>1. \/ job'[k] = job[k] /\ job[k].state # "absent"
            \/ job'[k].state = "waiting"
        BY <1>1, <2>2, <3>2 DEF Queue!Add, Queue!NewJob
      <4>2. QED
        BY <3>1, <4>1 DEF Unserved
    <3>3. CASE f # e
      <4>1. job'[k] = job[k]
        BY <1>1, <1>2, <2>2, <3>3 DEF Queue!Add
      <4>2. \A c \in Dispatcher : added'[c] = e => added[c] = e
        BY <1>1, <2>2, <3>3 DEF Queue!Add
      <4>3. QED
        BY <3>1, <4>1, <4>2, UnservedStays
    <3>4. QED
      BY <3>2, <3>3
  <2>3. CASE Queue!MarkPublished(d)
    <3>1. /\ published' = published \cup {added[d]}
          /\ added' = [added EXCEPT ![d] = NoEvent]
          /\ UNCHANGED <<job, slot, exhausted>>
      BY <2>3 DEF Queue!MarkPublished
    <3>2. \A c \in Dispatcher : added'[c] = e => added[c] = e
      BY <1>1, <3>1
    <3>3. QED
      BY <3>1, <3>2, UnservedStays
  <2>4. QED
    BY <1>4, <2>1, <2>2, <2>3 DEF Dispatch, Queue!Dispatch
<1>5. ASSUME NEW d \in Dispatcher, DispatchFault(d) PROVE Unserved(e)'
  <2>1. PICK f \in OutboxRow : Queue!RowFails(d, f)
    BY <1>5 DEF DispatchFault
  <2>2. \A c \in Dispatcher : added'[c] = e => added[c] = e
    BY <1>1, <2>1 DEF Queue!RowFails
  <2>3. QED
    BY <2>1, <2>2, UnservedStays DEF Queue!RowFails
<1>6. ASSUME NEW w \in Worker, Deliver(w) PROVE Unserved(e)'
  <2>1. PICK l \in Keys : Queue!Deliver(w, l)
    BY <1>6 DEF Deliver
  <2>2. \A v \in Worker : slot'[v].event = e /\ slot'[v].outcome = "resolved" =>
                            slot[v].event = e /\ slot[v].outcome = "resolved"
    BY <1>1, <2>1 DEF Queue!Deliver, Queue!NoCall, Queue!Call
  <2>3. UNCHANGED <<published, added, exhausted>>
    BY <2>1 DEF Queue!Deliver
  <2>4. CASE l = k
    <3>1. job'[k].state = "active"
      BY <1>1, <2>1, <2>4 DEF Queue!Deliver, Queue!Job
    <3>2. QED
      BY <2>2, <2>3, <3>1, UnservedMoves
  <2>5. CASE l # k
    <3>1. job'[k] = job[k]
      BY <1>1, <2>1, <2>5 DEF Queue!Deliver
    <3>2. QED
      BY <2>2, <2>3, <3>1, UnservedStays
  <2>6. QED
    BY <2>4, <2>5
<1>7. ASSUME NEW w \in Worker, NEW outcome, Queue!Settle(w, outcome),
             UNCHANGED <<published, batch, added, job, exhausted>>,
             outcome # "resolved" \/ slot[w].event # e
      PROVE  Unserved(e)'
  <2>1. \A v \in Worker : slot'[v].event = e /\ slot'[v].outcome = "resolved" =>
                            slot[v].event = e /\ slot[v].outcome = "resolved"
    BY <1>1, <1>7 DEF Queue!Settle, Queue!Call
  <2>2. QED
    BY <1>7, <2>1, UnservedStays
<1>8. ASSUME NEW w \in Worker, SkipDelivered(w) PROVE Unserved(e)'
  <2>1. slot[w].event # e
    BY <1>8 DEF SkipDelivered, Claimable, Awaited
  <2>2. QED
    BY <1>7, <1>8, <2>1 DEF SkipDelivered
<1>9. ASSUME NEW w \in Worker, ClaimThrows(w) \/ FailThrows(w) PROVE Unserved(e)'
  BY <1>7, <1>9 DEF ClaimThrows, FailThrows
<1>10. ASSUME NEW w \in Worker, Process(w) PROVE Unserved(e)'
  <2>1. UNCHANGED <<published, batch, added, job, exhausted>>
    BY <1>10 DEF Process
  <2>2. CASE worker'[w].phase = "idle"
    <3>1. run'[worker[w].run] # "queued" /\ slot[w].event.run = worker[w].run
      BY <1>10, <2>2, ProcessEnds, ProcessMoves DEF BusyInsideCall
    <3>2. slot[w].event # e
      BY <3>1 DEF Awaited
    <3>3. QED
      BY <1>7, <1>10, <2>1, <2>2, <3>2 DEF Process
  <2>3. CASE worker'[w].phase # "idle"
    BY <1>3, <1>10, <2>1, <2>3 DEF Process, queue
  <2>4. QED
    BY <2>2, <2>3
<1>11. ASSUME NEW w \in Worker, Finish(w) PROVE Unserved(e)'
  <2> DEFINE f == slot[w].event
  <2>1. f \in OutboxRow /\ UNCHANGED <<published, added>>
    BY <1>11 DEF Finish, Queue!Finish, CallsCarryRows, TypeOK
  <2>2. exhausted' = exhausted \cup {l \in Keys : job'[l].state = "failed"}
    BY <1>11 DEF Finish, Queue!Finish, Queue!GiveUp
  <2>3. \A v \in Worker : slot'[v].event = e /\ slot'[v].outcome = "resolved" =>
                            slot[v].event = e /\ slot[v].outcome = "resolved"
    BY <1>1, <1>11 DEF Finish, Queue!Finish, Queue!NoCall
  <2>4. CASE job'[k] = job[k]
    BY <2>1, <2>2, <2>3, <2>4, UnservedStays
  <2>5. CASE job'[k] # job[k]
    <3>1. KeyOfRow[f] = k /\ Queue!Holds(w)
      BY <1>1, <1>11, <2>5 DEF Finish, Queue!Finish
    <3>2. slot[w].outcome # "resolved"
      BY <1>2, <2>1, <3>1 DEF Unserved
    <3>3. job'[k] = Queue!Tried(job[k])
      BY <1>1, <1>11, <3>1, <3>2 DEF Finish, Queue!Finish
    <3>4. job'[k].state \in {"waiting", "failed"}
      BY <1>1, <3>3 DEF Queue!Tried, Queue!Job
    <3>5. QED
      BY <1>1, <2>2, <2>3, <3>4, UnservedMoves
  <2>6. QED
    BY <2>4, <2>5
<1>12. ASSUME NEW l \in Keys, Reclaim(l) \/ ReclaimHeld(l) PROVE Unserved(e)'
  <2>1. Queue!Stall(l)
    BY <1>12 DEF Reclaim, ReclaimHeld
  <2>2. /\ exhausted' = exhausted \cup {h \in Keys : job'[h].state = "failed"}
        /\ UNCHANGED <<published, added, slot>>
    BY <2>1 DEF Queue!Stall, Queue!GiveUp
  <2>3. CASE l = k
    <3>1. job'[k].state \in {"waiting", "failed"}
      BY <1>1, <2>1, <2>3 DEF Queue!Stall, Queue!Stalled, Queue!Job
    <3>2. QED
      BY <1>1, <2>2, <3>1, UnservedMoves
  <2>4. CASE l # k
    BY <1>1, <2>1, <2>2, <2>4, UnservedStays DEF Queue!Stall
  <2>5. QED
    BY <2>3, <2>4
<1>13. ASSUME NEW l \in Keys, Forget(l) PROVE Unserved(e)'
  <2>1. /\ job[l].state \in {"completed", "failed"}
        /\ job' = [job EXCEPT ![l] = Queue!NoJob]
        /\ UNCHANGED <<published, added, slot, exhausted>>
    BY <1>13 DEF Forget, Queue!Forget
  <2>2. CASE l = k
    <3>1. k \in exhausted
      BY <2>1, <2>2 DEF Unserved
    <3>2. QED
      BY <2>1, <3>1, UnservedMoves
  <2>3. CASE l # k
    BY <1>1, <2>1, <2>3, UnservedStays
  <2>4. QED
    BY <2>2, <2>3
<1>14. ASSUME NEW d \in Dispatcher, NEW calls \in SUBSET Worker, ProcessDies(d, calls)
       PROVE  Unserved(e)'
  <2>1. \A c \in Dispatcher : added'[c] = e => added[c] = e
    BY <1>1, <1>14 DEF ProcessDies, Queue!Vanish
  <2>2. \A v \in Worker : slot'[v].event = e /\ slot'[v].outcome = "resolved" =>
                            slot[v].event = e /\ slot[v].outcome = "resolved"
    BY <1>1, <1>14 DEF ProcessDies, Queue!Vanish, Queue!NoCall
  <2>3. QED
    BY <1>14, <2>1, <2>2, UnservedStays DEF ProcessDies
<1>15. CASE \/ \E r \in Run : Request(r)
            \/ User
            \/ \E w \in Worker : ClaimDelivered(w)
            \/ UNCHANGED pipeline
  BY <1>3, <1>15 DEF Request, User, ClaimDelivered, pipeline
<1>16. QED
  BY <1>4, <1>5, <1>6, <1>8, <1>9, <1>10, <1>11, <1>12, <1>13, <1>14, <1>15
     DEF PipelineNext, WorkerStep, WorkerFault

LEMMA DeliveryKept ==
  ASSUME TablesAndQueue, KeysDiffer, DeliveryInv, [PipelineNext]_pipeline
  PROVE  DeliveryInv'
<1> USE DEF TablesAndQueue, DeliveryInv
<1>1. [Next]_vars
  BY PipelineStep
<1>2. RowsAnnounce'
  BY <1>1, RowsAnnounceKept
<1>3. JobsCarryRows' /\ CallsCarryRows'
  BY JobsCarryKept, CallsCarryKept
<1>4. ASSUME NEW e \in outbox', Awaited(e)' PROVE Unserved(e)'
  <2>1. CASE e \in outbox
    <3>1. Awaited(e)
      BY <1>1, <1>4, <2>1, AwaitedBefore
    <3>2. Unserved(e)
      BY <2>1, <3>1 DEF AwaitedRowsUnserved
    <3>3. QED
      BY <1>4, <2>1, <3>1, <3>2, UnservedKept
  <2>2. CASE e \notin outbox
    BY <2>2, NewRowUnserved
  <2>3. QED
    BY <2>1, <2>2
<1>5. QED
  BY <1>2, <1>3, <1>4 DEF AwaitedRowsUnserved

\* A queued run is never forgotten, for any number of processes, dispatchers and
\* faults: its row is unpublished, its job is pending, or its attempts are used
\* up.  A dispatcher marks a row only after the queue has its job, and a call
\* completes the job only when the run is not queued any more.
THEOREM QueuedDelivered ==
  ASSUME KeysDiffer
  PROVE  PipelineSpec => []QueuedRunHasDelivery
<1>1. PipelineSpec => []TablesAndQueue
  BY QueueInvariant, PipelineImplements, TypeCorrect, Idempotent, QuestionInvariant,
     AnswersRecorded, BusyInside, PTL DEF TablesAndQueue
<1>2. PipelineInit => DeliveryInv
  BY DEF PipelineInit, Init, Queue!QueueInit, Queue!NoCall, Queue!NoJob, Idle,
         DeliveryInv, RowsAnnounce, JobsCarryRows, CallsCarryRows, AwaitedRowsUnserved
<1>3. TablesAndQueue /\ DeliveryInv /\ [PipelineNext]_pipeline => DeliveryInv'
  BY DeliveryKept
<1>4. TablesAndQueue /\ DeliveryInv => QueuedRunHasDelivery
  <2> SUFFICES ASSUME TablesAndQueue, DeliveryInv, NEW r \in Run, run[r] = "queued"
               PROVE  \E e \in outbox : /\ e.run = r
                                        /\ \/ e \notin published
                                           \/ Queue!Pending(e)
                                           \/ IdempotencyKey(e) \in exhausted
    BY DEF QueuedRunHasDelivery
  <2> DEFINE e == [run |-> r, kind |-> IF Answered(r) THEN "resume" ELSE "start"]
  <2>1. e \in outbox
    BY DEF TablesAndQueue, AnswerRecorded, DeliveryInv, RowsAnnounce
  <2>2. e \in OutboxRow /\ e.run = r /\ Awaited(e)
    BY DEF OutboxRow, Awaited
  <2> HIDE DEF e
  <2>3. Unserved(e)
    BY <2>1, <2>2 DEF DeliveryInv, AwaitedRowsUnserved
  <2>4. KeyOfRow[e] = IdempotencyKey(e) /\ KeyOfRow[e] \in Keys
    BY <2>2, KeysOfRows DEF KeyOfRow
  <2>5. ASSUME job[KeyOfRow[e]].state \in {"waiting", "active"} PROVE Queue!Pending(e)
    <3>1. job[KeyOfRow[e]].event \in outbox
      BY <2>4, <2>5 DEF DeliveryInv, JobsCarryRows
    <3>2. KeyOfRow[job[KeyOfRow[e]].event] = KeyOfRow[e]
      BY <2>4, <2>5 DEF DeliveryInv, JobsCarryRows
    <3>3. job[KeyOfRow[e]].event = e
      BY <2>2, <3>1, <3>2, KeysTellRows DEF TablesAndQueue, TypeOK
    <3>4. QED
      BY <2>5, <3>3 DEF Queue!Pending
  <2>6. QED
    BY <2>1, <2>2, <2>3, <2>4, <2>5 DEF Unserved
<1> HIDE DEF TablesAndQueue, DeliveryInv
<1>5. QED
  BY <1>1, <1>2, <1>3, <1>4, PTL DEF PipelineSpec
================================================================================
