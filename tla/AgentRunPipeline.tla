--------------------------- MODULE AgentRunPipeline ---------------------------
(***************************************************************************)
(* ConversationRuns behind its queue: the outbox rows that enqueueMessage  *)
(* and resumeRun commit, the dispatcher that turns them into agent-run     *)
(* jobs, and the BullMQ calls of processAgentRunJob whose threads are the  *)
(* workers of ConversationRuns.  It answers what that module leaves open:  *)
(* does every accepted prompt reach a worker?                              *)
(*                                                                         *)
(* Faults are bounded by a budget, so that what the retries and the        *)
(* stalled-job check tolerate can be stated.                               *)
(***************************************************************************)
EXTENDS ConversationRuns

CONSTANTS NoEvent, Dispatcher, BatchLimit, MaxAttempts, MaxStalled,
          MaxFaults \* bound on faults of Redis, PostgreSQL and processes

ASSUME NoEventAssumption == NoEvent \notin OutboxRow

ASSUME BoundsAssumption ==
  /\ MaxAttempts \in Nat \ {0}
  /\ MaxStalled \in Nat
  /\ MaxFaults \in Nat

VARIABLES published, batch, added, job, slot, exhausted,
          faults \* faults so far

\* Seeded fault: a resumed run keeps the idempotency key of its first job.
IdempotencyKeyOfRun(e) == <<"clientRequestId", Submission[e.run].key>>

\* The key in a row's payload: clientRequestId, or the clarification's id.
IdempotencyKey(e) ==
  IF e.kind = "start" THEN <<"clientRequestId", Submission[e.run].key>>
                      ELSE <<"clarification", e.run>>

KeyOfRow == [e \in OutboxRow |-> IdempotencyKey(e)]
Keys == {IdempotencyKey(e) : e \in OutboxRow}

Queue == INSTANCE JobQueue WITH
  Event <- OutboxRow,
  Key <- Keys,
  KeyOf <- KeyOfRow,
  Slot <- Worker,
  committed <- outbox

queue == <<published, batch, added, job, slot, exhausted>>
pipeline == <<vars, queue, faults>>

-----------------------------------------------------------------------------

Fault == /\ faults < MaxFaults
         /\ faults' = faults + 1

PipelineInit == Init /\ Queue!QueueInit /\ faults = 0

\* Requests, and users, see nothing of the queue.
Request(r) == Submit(r) /\ UNCHANGED <<queue, faults>>
User == UserStep /\ UNCHANGED <<queue, faults>>

Dispatch(d) == Queue!Dispatch(d) /\ UNCHANGED <<vars, faults>>

\* Redis fails add, or PostgreSQL the mark, and the catch block notes it.
DispatchFault(d) ==
  /\ \E e \in OutboxRow : Queue!RowFails(d, e)
  /\ Fault
  /\ UNCHANGED vars

Deliver(w) ==
  /\ worker[w].phase = "idle"
  /\ \E k \in Keys : Queue!Deliver(w, k)
  /\ UNCHANGED <<vars, faults>>

\* A delivered call that has not settled and has not claimed its run.
Delivered(w) == /\ slot[w].event # NoEvent
                /\ slot[w].outcome = "none"
                /\ worker[w].phase = "idle"

\* claimRun finds a queued run and the worker has it ...
ClaimDelivered(w) ==
  /\ Delivered(w)
  /\ Claim(w, slot[w].event.run)
  /\ worker'[w].phase = "claimed"
  /\ UNCHANGED <<queue, faults>>

\* ... or finds it in another state, and process returns ...
SkipDelivered(w) ==
  /\ Delivered(w)
  /\ ~Claimable(slot[w].event.run)
  /\ Queue!Settle(w, "resolved")
  /\ UNCHANGED <<vars, published, batch, added, job, exhausted, faults>>

\* ... or the transaction fails, perhaps after its commit.  claimRun is outside
\* the try block of process, so its error rejects the job.
ClaimThrows(w) ==
  /\ Delivered(w)
  /\ \/ UNCHANGED vars
     \/ ClaimRun(slot[w].event.run) /\ UNCHANGED worker
  /\ Queue!Settle(w, "rejected")
  /\ Fault
  /\ UNCHANGED <<published, batch, added, job, exhausted>>

\* process works on its run and resolves when it is through with it.
Process(w) ==
  /\ \/ LoadCheckpoint(w) \/ EnterNode(w) \/ LeaveNode(w) \/ GraphError(w)
     \/ Pause(w) \/ Complete(w) \/ Fail(w)
  /\ IF worker'[w].phase = "idle" THEN Queue!Settle(w, "resolved")
                                  ELSE UNCHANGED slot
  /\ UNCHANGED <<published, batch, added, job, exhausted, faults>>

\* failRun throws out of the catch block.
FailThrows(w) ==
  /\ worker[w].phase = "failing"
  /\ Crash({w})
  /\ Queue!Settle(w, "rejected")
  /\ Fault
  /\ UNCHANGED <<published, batch, added, job, exhausted>>

Finish(w) == Queue!Finish(w) /\ UNCHANGED <<vars, faults>>

\* A process dies with its dispatcher and any calls.  It does so when PostgreSQL
\* fails dispatchBatch outside its try block: nothing catches that rejection.
ProcessDies(d, calls) ==
  /\ \A w \in calls : slot[w].event # NoEvent
  /\ calls # {} \/ batch[d] # {}
  /\ LET busy == {w \in calls : worker[w].phase # "idle"} IN
       IF busy = {} THEN UNCHANGED vars ELSE Crash(busy)
  /\ Queue!Vanish(d, calls)
  /\ Fault
  /\ UNCHANGED <<published, job, exhausted>>

\* The stalled check reclaims what a dead process held, and may reclaim what a
\* slow one still works on.
Reclaim(k) == Queue!Orphaned(k) /\ Queue!Stall(k) /\ UNCHANGED <<vars, faults>>
ReclaimHeld(k) == ~Queue!Orphaned(k) /\ Queue!Stall(k) /\ Fault /\ UNCHANGED vars

Forget(k) == Queue!Forget(k) /\ UNCHANGED <<vars, faults>>

\* What a worker thread does unless something fails.
WorkerStep(w) == \/ Deliver(w)
                 \/ ClaimDelivered(w)
                 \/ SkipDelivered(w)
                 \/ Process(w)
                 \/ Finish(w)

WorkerFault(w) == ClaimThrows(w) \/ FailThrows(w)

PipelineNext ==
  \/ \E r \in Run : Request(r)
  \/ User
  \/ \E d \in Dispatcher : Dispatch(d) \/ DispatchFault(d)
  \/ \E w \in Worker : WorkerStep(w) \/ WorkerFault(w)
  \/ \E d \in Dispatcher, calls \in SUBSET Worker : ProcessDies(d, calls)
  \/ \E k \in Keys : Reclaim(k) \/ ReclaimHeld(k) \/ Forget(k)

\* The dispatcher's timer, the workers and the stalled check keep running;
\* users, faults and retention owe nothing.
PipelineFairness ==
  /\ \A d \in Dispatcher : WF_pipeline(Dispatch(d))
  /\ \A w \in Worker : WF_pipeline(WorkerStep(w))
  /\ WF_pipeline(\E k \in Keys : Reclaim(k))

PipelineSpec == PipelineInit /\ [][PipelineNext]_pipeline /\ PipelineFairness

-----------------------------------------------------------------------------
(* Properties *)

PipelineTypeOK == TypeOK /\ Queue!QueueTypeOK /\ faults \in 0 .. MaxFaults

\* A queued run is never forgotten: unless the attempts of its own job are used
\* up, one of its rows is still to be published or its job to be handed to a
\* worker, whatever the crashes between the outbox and the queue.
QueuedRunHasDelivery ==
  \A r \in Run : run[r] = "queued" =>
    \E e \in outbox : /\ e.run = r
                      /\ \/ e \notin published
                         \/ Queue!Pending(e)
                         \/ IdempotencyKey(e) \in exhausted

\* A worker thread is busy only inside a processor call that carries its run and
\* has not settled, so at most one run is answered per call.
BusyInsideCall ==
  \A w \in Worker : worker[w].phase # "idle" =>
    slot[w].outcome = "none" /\ slot[w].event.run = worker[w].run

\* Every queued run is eventually started, or ended by its user, in spite of
\* crashes, errors and redeliveries, unless its job was given up.
QueuedRunStarts ==
  \A r \in Run : run[r] = "queued" ~> run[r] # "queued" \/ exhausted # {}

\* A started run is answered, put to its user or ended, unless something fails.
FaultlessRunSettles ==
  \A r \in Run : run[r] = "running" ~> run[r] # "running" \/ faults > 0
=============================================================================
