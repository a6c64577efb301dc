------------------------------- MODULE JobQueue -------------------------------
(***************************************************************************)
(* One BullMQ queue between the outbox of PostgreSQL and the processors of *)
(* the worker processes.  A dispatcher reads the unpublished outbox rows,  *)
(* adds a job for each and marks the row published, in two calls to two    *)
(* stores; a job is identified by the idempotency key of its row, so a key *)
(* the queue still holds is not added twice.  The queue itself (locks,     *)
(* stalled-job check, attempts, retention) is BullMQ's, as the worker      *)
(* configures it.                                                          *)
(*                                                                         *)
(* What the processors do, and when a transaction commits a row, is left   *)
(* to the module that composes this one.                                   *)
(***************************************************************************)
EXTENDS Naturals, FiniteSets

CONSTANTS
  Event,       \* outbox rows that may be committed
  NoEvent,     \* none of them
  Key,         \* idempotency keys
  KeyOf,       \* KeyOf[e] is the idempotency key in the payload of e
  Dispatcher,  \* worker processes: each runs one dispatchOutbox at a time
  Slot,        \* concurrent processor calls over all worker processes
  BatchLimit,  \* rows one dispatchBatch reads
  MaxAttempts, \* QUEUE_JOB_ATTEMPTS
  MaxStalled   \* BullMQ's maxStalledCount

VARIABLES
  committed,  \* rows of outbox_events
  published,  \* those with published_at
  batch,      \* rows a dispatcher has read and not handled
  added,      \* the row whose job a dispatcher has added, not yet marked
  job,        \* the queue's job of each key
  slot,       \* what each processor call works on
  exhausted   \* history: keys of jobs that were given up

queueVars == <<published, batch, added, job, slot, exhausted>>

NoSlot == "no slot"

\* A delayed retry is a waiting job whose time has not come.
JobState == {"absent", "waiting", "active", "completed", "failed"}
Job == [state : JobState, event : Event \cup {NoEvent}, attempts : 0 .. MaxAttempts,
        stalls : 0 .. MaxStalled, holder : Slot \cup {NoSlot}]
NoJob == [state |-> "absent", event |-> NoEvent, attempts |-> 0, stalls |-> 0,
          holder |-> NoSlot]

NewJob(e) == [state |-> "waiting", event |-> e, attempts |-> 0, stalls |-> 0,
              holder |-> NoSlot]

\* An outcome is that of the processor's promise.
Call == [event : Event \cup {NoEvent}, outcome : {"none", "resolved", "rejected"}]
NoCall == [event |-> NoEvent, outcome |-> "none"]

QueueTypeOK ==
  /\ published \in SUBSET committed
  /\ batch \in [Dispatcher -> SUBSET committed]
  /\ added \in [Dispatcher -> Event \cup {NoEvent}]
  /\ job \in [Key -> Job]
  /\ slot \in [Slot -> Call]
  /\ exhausted \in SUBSET Key

QueueInit ==
  /\ published = {}
  /\ batch = [d \in Dispatcher |-> {}]
  /\ added = [d \in Dispatcher |-> NoEvent]
  /\ job = [k \in Key |-> NoJob]
  /\ slot = [s \in Slot |-> NoCall]
  /\ exhausted = {}

-----------------------------------------------------------------------------
(* OutboxDispatcher.dispatchBatch, every five seconds in each process *)

\* The oldest unpublished rows; rows committed in one instant come in any order.
Select(d) ==
  LET pending == committed \ published IN
  /\ batch[d] = {}
  /\ \E rows \in SUBSET pending :
       /\ rows # {}
       /\ rows = pending \/ Cardinality(rows) = BatchLimit
       /\ Cardinality(rows) <= BatchLimit
       /\ batch' = [batch EXCEPT ![d] = rows]
  /\ UNCHANGED <<committed, published, added, job, slot, exhausted>>

\* A key the queue still holds, in whatever state, makes add do nothing.
Add(d, e) ==
  /\ e \in batch[d]
  /\ added[d] = NoEvent
  /\ added' = [added EXCEPT ![d] = e]
  /\ job' = [job EXCEPT ![KeyOf[e]] =
               IF @.state = "absent" THEN NewJob(e) ELSE @]
  /\ UNCHANGED <<committed, published, batch, slot, exhausted>>

\* Redis refuses the job, or PostgreSQL the mark: the row stays in the outbox
\* for a later batch.
RowFails(d, e) ==
  /\ e \in batch[d]
  /\ added[d] \in {NoEvent, e}
  /\ batch' = [batch EXCEPT ![d] = @ \ {e}]
  /\ added' = [added EXCEPT ![d] = NoEvent]
  /\ UNCHANGED <<committed, published, job, slot, exhausted>>

\* Seeded fault: the row is marked before its job is added.
MarkUnadded(d) ==
  \E e \in batch[d] :
    /\ published' = published \cup {e}
    /\ batch' = [batch EXCEPT ![d] = @ \ {e}]
    /\ added' = [added EXCEPT ![d] = NoEvent]
    /\ UNCHANGED <<committed, job, slot, exhausted>>

\* The row is marked only after add returned.
MarkPublished(d) ==
  /\ added[d] # NoEvent
  /\ published' = published \cup {added[d]}
  /\ batch' = [batch EXCEPT ![d] = @ \ {added[d]}]
  /\ added' = [added EXCEPT ![d] = NoEvent]
  /\ UNCHANGED <<committed, job, slot, exhausted>>

-----------------------------------------------------------------------------
(* BullMQ and the processor calls *)

Deliver(s, k) ==
  /\ slot[s] = NoCall
  /\ job[k].state = "waiting"
  /\ job' = [job EXCEPT ![k].state = "active", ![k].holder = s]
  /\ slot' = [slot EXCEPT ![s].event = job[k].event]
  /\ UNCHANGED <<committed, published, batch, added, exhausted>>

Settle(s, outcome) == slot' = [slot EXCEPT ![s].outcome = outcome]

Holds(s) == LET j == job[KeyOf[slot[s].event]] IN j.state = "active" /\ j.holder = s

\* Another failure either waits for its retry or was the last attempt.
Tried(j) ==
  [j EXCEPT !.attempts = @ + 1, !.holder = NoSlot,
            !.state = IF j.attempts + 1 >= MaxAttempts THEN "failed" ELSE "waiting"]

GiveUp == exhausted' = exhausted \cup {k \in Key : job'[k].state = "failed"}

\* The outcome of a call counts only while it holds the job's lock.
Finish(s) ==
  LET k == KeyOf[slot[s].event] IN
  /\ slot[s].outcome # "none"
  /\ slot' = [slot EXCEPT ![s] = NoCall]
  /\ IF ~Holds(s) THEN UNCHANGED job
     ELSE IF slot[s].outcome = "resolved"
     THEN job' = [job EXCEPT ![k].state = "completed", ![k].holder = NoSlot]
     ELSE job' = [job EXCEPT ![k] = Tried(@)]
  /\ GiveUp
  /\ UNCHANGED <<committed, published, batch, added>>

\* A process dies with its dispatcher and its calls: rows it has not marked stay
\* in the outbox, and its jobs stay active until the stalled check.
Vanish(d, calls) ==
  /\ batch' = [batch EXCEPT ![d] = {}]
  /\ added' = [added EXCEPT ![d] = NoEvent]
  /\ slot' = [s \in Slot |-> IF s \in calls THEN NoCall ELSE slot[s]]

\* No call is left that could renew the lock of the job.
Orphaned(k) ==
  /\ job[k].state = "active"
  /\ \A s \in Slot : slot[s].event # NoEvent => KeyOf[slot[s].event] # k \/ ~Holds(s)

Stalled(j) ==
  IF j.stalls < MaxStalled
  THEN [j EXCEPT !.state = "waiting", !.holder = NoSlot, !.stalls = @ + 1]
  ELSE [j EXCEPT !.state = "failed", !.holder = NoSlot]

\* The holder does not renew its lock, because it is gone or only too slow.
Stall(k) ==
  /\ job[k].state = "active"
  /\ job' = [job EXCEPT ![k] = Stalled(@)]
  /\ GiveUp
  /\ UNCHANGED <<committed, published, batch, added, slot>>

\* removeOnComplete and removeOnFail forget finished jobs after a while.
Forget(k) ==
  /\ job[k].state \in {"completed", "failed"}
  /\ job' = [job EXCEPT ![k] = NoJob]
  /\ UNCHANGED <<committed, published, batch, added, slot, exhausted>>

Dispatch(d) == \/ Select(d)
               \/ \E e \in Event : Add(d, e)
               \/ MarkPublished(d)

\* A job that will still be, or is being, handed to a processor with payload e.
Pending(e) == job[KeyOf[e]].event = e /\ job[KeyOf[e]].state \in {"waiting", "active"}
=============================================================================
