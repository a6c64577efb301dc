---------------------------- MODULE IngestionPipeline ----------------------------
(***************************************************************************)
(* Datasets behind its queue: the outbox rows that a completed upload      *)
(* commits, the dispatcher that turns them into dataset-ingestion jobs, and *)
(* the BullMQ calls of processDatasetIngestionJob whose threads are the    *)
(* workers of Datasets.  It answers what that module leaves open: is every *)
(* completed upload ingested, and when does a worker give it up?           *)
(***************************************************************************)
EXTENDS Datasets

CONSTANTS NoEvent, Dispatcher, BatchLimit, MaxAttempts, MaxStalled,
          MaxFaults \* bound on faults of Redis, S3, PostgreSQL and processes

ASSUME NoEventAssumption == NoEvent \notin OutboxRow

ASSUME BoundsAssumption ==
  /\ MaxAttempts \in Nat \ {0}
  /\ MaxStalled \in Nat
  /\ MaxFaults \in Nat

VARIABLES published, batch, added, job, slot, exhausted,
          attempt, \* job.attemptsMade when a call was made
          faults   \* faults so far

KeyOfRow == [e \in OutboxRow |-> e.key]

Queue == INSTANCE JobQueue WITH
  Event <- OutboxRow,
  KeyOf <- KeyOfRow,
  Slot <- Worker,
  committed <- outbox

queue == <<published, batch, added, job, slot, exhausted>>
pipeline == <<vars, queue, attempt, faults>>

-----------------------------------------------------------------------------

Fault == /\ faults < MaxFaults
         /\ faults' = faults + 1

PipelineInit == /\ Init
                /\ Queue!QueueInit
                /\ attempt = [w \in Worker |-> 0]
                /\ faults = 0

Uploads == User /\ UNCHANGED <<queue, attempt, faults>>

Dispatch(d) == Queue!Dispatch(d) /\ UNCHANGED <<vars, attempt, faults>>

\* Redis fails add, or PostgreSQL the mark, and the catch block notes it.
DispatchFault(d) ==
  /\ \E e \in OutboxRow : Queue!RowFails(d, e)
  /\ Fault
  /\ UNCHANGED <<vars, attempt>>

Deliver(w) ==
  /\ worker[w].phase = "idle"
  /\ \E k \in Key : /\ Queue!Deliver(w, k)
                    /\ attempt' = [attempt EXCEPT ![w] = job[k].attempts]
  /\ UNCHANGED <<vars, faults>>

\* A delivered call that has not settled and has not claimed its version.
Delivered(w) == /\ slot[w].event # NoEvent
                /\ slot[w].outcome = "none"
                /\ worker[w].phase = "idle"

ClaimDelivered(w) ==
  /\ Delivered(w)
  /\ Claim(w, slot[w].event)
  /\ UNCHANGED <<queue, attempt, faults>>

\* "terminal": process returns, and so does the processor.
SkipDelivered(w) ==
  /\ Delivered(w)
  /\ ~Claimable(slot[w].event.version, slot[w].event.key)
  /\ Queue!Settle(w, "resolved")
  /\ UNCHANGED <<vars, published, batch, added, job, exhausted, attempt, faults>>

ClaimFault(w) ==
  /\ Delivered(w)
  /\ ClaimThrows(w, slot[w].event)
  /\ Fault
  /\ UNCHANGED <<queue, attempt>>

\* process resolves when it is through.  A transaction that both commits and
\* throws is a fault, one that finds its claim lost is not.
Process(w) ==
  /\ Work(w)
  /\ IF worker'[w].phase = "idle" THEN Queue!Settle(w, "resolved") ELSE UNCHANGED slot
  /\ IF worker'[w].phase = "throwing" /\ rows' # rows THEN Fault ELSE UNCHANGED faults
  /\ UNCHANGED <<published, batch, added, job, exhausted, attempt>>

WorkFault(w) == Fails(w) /\ Fault /\ UNCHANGED <<queue, attempt>>

LastAttempt(w) == attempt[w] + 1 >= MaxAttempts

\* The processor's catch block gives up at the last attempt, and rethrows.
Rethrow(w) ==
  /\ IF LastAttempt(w) THEN GiveUp(w) ELSE LeaveForRetry(w)
  /\ Queue!Settle(w, "rejected")
  /\ UNCHANGED <<published, batch, added, job, exhausted, attempt, faults>>

\* The failure cannot be persisted, and that is only logged.
RethrowUnpersisted(w) ==
  /\ LastAttempt(w)
  /\ LeaveForRetry(w)
  /\ Queue!Settle(w, "rejected")
  /\ Fault
  /\ UNCHANGED <<published, batch, added, job, exhausted, attempt>>

Finish(w) == Queue!Finish(w) /\ UNCHANGED <<vars, attempt, faults>>

\* A process dies with its dispatcher and any calls.
ProcessDies(d, calls) ==
  /\ \A w \in calls : slot[w].event # NoEvent
  /\ calls # {} \/ batch[d] # {}
  /\ LET busy == {w \in calls : worker[w].phase # "idle"} IN
       IF busy = {} THEN UNCHANGED vars ELSE Crash(busy)
  /\ Queue!Vanish(d, calls)
  /\ Fault
  /\ UNCHANGED <<published, job, exhausted, attempt>>

\* The stalled check reclaims what a dead process held, and may reclaim what a
\* slow one still works on.
Reclaim(k) == Queue!Orphaned(k) /\ Queue!Stall(k) /\ UNCHANGED <<vars, attempt, faults>>
ReclaimHeld(k) ==
  ~Queue!Orphaned(k) /\ Queue!Stall(k) /\ Fault /\ UNCHANGED <<vars, attempt>>

Forget(k) == Queue!Forget(k) /\ UNCHANGED <<vars, attempt, faults>>

\* What a worker thread does unless something fails.
WorkerStep(w) == \/ Deliver(w)
                 \/ ClaimDelivered(w)
                 \/ SkipDelivered(w)
                 \/ Process(w)
                 \/ Rethrow(w)
                 \/ Finish(w)

WorkerFault(w) == ClaimFault(w) \/ WorkFault(w) \/ RethrowUnpersisted(w)

PipelineNext ==
  \/ Uploads
  \/ \E d \in Dispatcher : Dispatch(d) \/ DispatchFault(d)
  \/ \E w \in Worker : WorkerStep(w) \/ WorkerFault(w)
  \/ \E d \in Dispatcher, calls \in SUBSET Worker : ProcessDies(d, calls)
  \/ \E k \in Key : Reclaim(k) \/ ReclaimHeld(k) \/ Forget(k)

\* The dispatcher's timer, the workers and the stalled check keep running;
\* users, faults and retention owe nothing.
PipelineFairness ==
  /\ \A d \in Dispatcher : WF_pipeline(Dispatch(d))
  /\ \A w \in Worker : WF_pipeline(WorkerStep(w))
  /\ WF_pipeline(\E k \in Key : Reclaim(k))

PipelineSpec == PipelineInit /\ [][PipelineNext]_pipeline /\ PipelineFairness

-----------------------------------------------------------------------------
(* Properties *)

PipelineTypeOK == /\ TypeOK
                  /\ Queue!QueueTypeOK
                  /\ attempt \in [Worker -> 0 .. MaxAttempts]
                  /\ faults \in 0 .. MaxFaults

\* An upload that was accepted and is not settled is never forgotten: its row is
\* still to be published, or its job to be handed or held, until the attempts of
\* the job are used up.
UploadHasDelivery ==
  \A v \in Version : version[v] \in InFlight =>
    \E e \in outbox : /\ e.version = v
                      /\ \/ e \notin published
                         \/ Queue!Pending(e)
                         \/ e.key \in exhausted

\* An accepted upload becomes ready or failed, or is deleted, although one thing
\* fails on the way: its user can go on, or upload again.
UploadSettles ==
  \A v \in Version :
    version[v] \in InFlight ~> version[v] \notin InFlight \/ faults > 1
=============================================================================
