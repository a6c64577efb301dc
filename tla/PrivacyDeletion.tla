---------------------------- MODULE PrivacyDeletion ----------------------------
(***************************************************************************)
(* Deletion of a dataset or of the whole account: the request, committed   *)
(* with its job; the worker, which claims the deletion, purges Redis, the  *)
(* object storage and the vector store and then the database; and the      *)
(* uploads, index jobs and retrievals of the same user, which may be under *)
(* way meanwhile and write what they began to.                             *)
(*                                                                         *)
(* A transaction or a database function is one step.  The outbox and       *)
(* BullMQ, which other modules describe, are reduced to a delivery that    *)
(* may be repeated while its worker still runs.                            *)
(***************************************************************************)
EXTENDS Naturals, FiniteSets

CONSTANTS
  Dataset,       \* datasets the user has or may come to have
  Owned,         \* those that are there at first
  Writer,        \* uploads, index jobs and retrievals under way
  Worker,        \* processors of the privacy queue
  MaxDeletions,  \* bound on deletion requests
  Attempts,      \* QUEUE_JOB_ATTEMPTS
  MaxFaults,     \* bound on failing steps
  MaxLost,       \* bound on workers that die, failures not recorded and claims
                 \* committed by a call that failed
  None

ASSUME PrivacyAssumption ==
  Owned \subseteq Dataset /\ Attempts \in Nat \ {0} /\ MaxDeletions \in Nat

VARIABLES
  user,      \* users.status, "gone" when the row is deleted
  dataset,   \* datasets.status
  deletion,  \* rows of privacy_deletion_requests, in the order requested
  audits,    \* [deletions -> rows of privacy_deletion_audits]
  job,       \* the job of each deletion
  work,      \* what each worker's processor has reached
  writing,   \* what each writer is about to store
  stored,    \* what Redis, the object storage and the vector store hold
  late,      \* of these, what was written after its deletion was requested
  faults, lost

privacyVars ==
  <<user, dataset, deletion, audits, job, work, writing, stored, late, faults, lost>>

stores == <<writing, stored, late>>

Deletion == DOMAIN deletion

Store == {"cache", "object", "vector"}

Item == Store \X Dataset

ASSUME NoneAssumption == None \notin Item

Fault == /\ faults < MaxFaults
         /\ faults' = faults + 1
         /\ UNCHANGED lost

NoFault == UNCHANGED <<faults, lost>>

-----------------------------------------------------------------------------
(* Requests *)

\* The keys of the versions and of the upload intents, whether or not their
\* upload has been made.
Manifest(D) == {d \in D : dataset[d] \notin {"none", "deleted"}}

Pending(i) == deletion[i].status \in {"scheduled", "processing", "failed"}

\* A deletion that is under way is the answer to another request for it.
Fresh(scope, d) ==
  ~\E i \in Deletion : deletion[i].scope = scope /\ deletion[i].dataset = d /\ Pending(i)

Schedule(scope, d, D) ==
  LET i == Cardinality(Deletion) + 1 IN
  /\ i <= MaxDeletions
  /\ Fresh(scope, d)
  /\ deletion' = [n \in 1 .. i |->
                    IF n < i THEN deletion[n]
                    ELSE [scope |-> scope, dataset |-> d, status |-> "scheduled",
                          expired |-> FALSE, manifest |-> Manifest(D)]]
  /\ job' = [job EXCEPT ![i] = [state |-> "waiting", tries |-> 0]]
  /\ dataset' = [e \in Dataset |-> IF e \in Manifest(D) THEN "deleting" ELSE dataset[e]]
  /\ UNCHANGED <<audits, work, stores>> /\ NoFault

\* privacy_schedule_dataset; a failed deletion's dataset may be asked for again.
ScheduleDataset(d) ==
  /\ user = "active"
  /\ dataset[d] \in {"ready", "deleting"}
  /\ Schedule("dataset", d, {d})
  /\ UNCHANGED user

\* privacy_schedule_account: the sessions end with it.
ScheduleAccount ==
  /\ user # "gone"
  /\ Schedule("account", None, Dataset)
  /\ user' = "deleting"

-----------------------------------------------------------------------------
(* PrivacyDeletionProcessor *)

Idle(w) == work[w] = None

At(w, step) == ~Idle(w) /\ work[w].step = step

Go(w, step) == work' = [work EXCEPT ![w].step = step]

Row(w) == deletion[work[w].id]

\* The deletion's row goes with the user's.
Found == user # "gone"

JobEnds(i, state) == job' = [job EXCEPT ![i].state = state]

TakeJob(w, i) ==
  /\ Idle(w)
  /\ job[i].state = "waiting"
  /\ JobEnds(i, "active")
  /\ work' = [work EXCEPT ![w] = [id |-> i, step |-> "claim"]]
  /\ UNCHANGED <<user, dataset, deletion, audits, stores>> /\ NoFault

\* privacy_claim
Claimable(i) ==
  /\ Found
  /\ \/ deletion[i].status \in {"scheduled", "failed"}
     \/ deletion[i].status = "processing" /\ deletion[i].expired

Claimed(i) == [deletion EXCEPT ![i].status = "processing", ![i].expired = FALSE]

\* A deletion that another processor has claimed, or that is over, is not
\* processed, and its job is done.
Claim(w) ==
  LET i == work[w].id IN
  /\ At(w, "claim")
  /\ \/ /\ Claimable(i)
        /\ deletion' = Claimed(i)
        /\ Go(w, "cache")
        /\ UNCHANGED job
     \/ /\ ~Claimable(i)
        /\ work' = [work EXCEPT ![w] = None]
        /\ JobEnds(i, "done")
        /\ UNCHANGED deletion
  /\ UNCHANGED <<user, dataset, audits, stores>> /\ NoFault

\* The datasets a deletion covers in Redis and in the vector store.
Scope(i) == IF deletion[i].scope = "account" THEN Dataset ELSE {deletion[i].dataset}

Purge(store, D) ==
  /\ stored' = stored \ ({store} \X D)
  /\ late' = late \ ({store} \X D)

PurgeEphemeral(w) ==
  /\ At(w, "cache")
  /\ Purge("cache", Scope(work[w].id))
  /\ Go(w, "object")
  /\ UNCHANGED <<user, dataset, deletion, audits, job, writing>> /\ NoFault

\* What if an empty storage ended the work?
DeleteObjectsOnly(w) ==
  /\ At(w, "object")
  /\ Purge("object", Row(w).manifest)
  /\ Go(w, "complete")
  /\ UNCHANGED <<user, dataset, deletion, audits, job, writing>> /\ NoFault

DeleteObjects(w) ==
  /\ At(w, "object")
  /\ Purge("object", Row(w).manifest)
  /\ Go(w, "vector")
  /\ UNCHANGED <<user, dataset, deletion, audits, job, writing>> /\ NoFault

DeleteVectors(w) ==
  /\ At(w, "vector")
  /\ Purge("vector", Scope(work[w].id))
  /\ Go(w, "complete")
  /\ UNCHANGED <<user, dataset, deletion, audits, job, writing>> /\ NoFault

\* privacy_complete, for a deletion that is claimed: the account's row takes
\* all its rows with it, the dataset's leaves a tombstone.
Finish(i) ==
  /\ audits' = [audits EXCEPT ![i] = @ + 1]
  /\ IF deletion[i].scope = "account"
       THEN /\ user' = "gone"
            /\ dataset' = [d \in Dataset |-> IF dataset[d] = "none" THEN "none" ELSE "deleted"]
       ELSE /\ dataset' = [dataset EXCEPT ![deletion[i].dataset] = "deleted"]
            /\ UNCHANGED user
  /\ deletion' = [n \in Deletion |->
                    IF n = i \/ deletion[i].scope = "account"
                      THEN [deletion[n] EXCEPT !.status = "completed", !.expired = FALSE]
                      ELSE deletion[n]]

Over(i) == ~Found \/ deletion[i].status = "completed"

\* What if only an unfinished account were told apart?
CompleteAgain(w) ==
  LET i == work[w].id IN
  /\ At(w, "complete")
  /\ IF Found
       THEN Finish(i)
       ELSE UNCHANGED <<user, dataset, deletion, audits>>
  /\ work' = [work EXCEPT ![w] = None]
  /\ JobEnds(i, "done")
  /\ UNCHANGED stores /\ NoFault

\* One that is over is left alone; one that has failed meanwhile is an error.
Complete(w) ==
  LET i == work[w].id IN
  /\ At(w, "complete")
  /\ \/ /\ Over(i)
        /\ UNCHANGED <<user, dataset, deletion, audits>>
        /\ work' = [work EXCEPT ![w] = None]
        /\ JobEnds(i, "done")
     \/ /\ ~Over(i) /\ deletion[i].status = "processing"
        /\ Finish(i)
        /\ work' = [work EXCEPT ![w] = None]
        /\ JobEnds(i, "done")
     \/ /\ ~Over(i) /\ deletion[i].status # "processing"
        /\ Go(w, "record")
        /\ UNCHANGED <<user, dataset, deletion, audits, job>>
  /\ UNCHANGED stores /\ NoFault

StepFails(w) ==
  /\ ~Idle(w) /\ work[w].step \in {"cache", "object", "vector", "complete"}
  /\ Fault
  /\ Go(w, "record")
  /\ UNCHANGED <<user, dataset, deletion, audits, job, stores>>

\* The job is tried again until its attempts are used up.
Retry(i) ==
  job' = [job EXCEPT ![i] = [state |-> IF @.tries + 1 < Attempts THEN "waiting" ELSE "failed",
                             tries |-> @.tries + 1]]

\* What if a failure left the deletion claimed?
RecordNothing(w) ==
  /\ At(w, "record")
  /\ Retry(work[w].id)
  /\ work' = [work EXCEPT ![w] = None]
  /\ UNCHANGED <<user, dataset, deletion, audits, stores>> /\ NoFault

\* privacy_record_failure
RecordFailure(w) ==
  LET i == work[w].id IN
  /\ At(w, "record")
  /\ deletion' = IF Found /\ deletion[i].status = "processing"
                   THEN [deletion EXCEPT ![i].status = "failed", ![i].expired = FALSE]
                   ELSE deletion
  /\ Retry(i)
  /\ work' = [work EXCEPT ![w] = None]
  /\ UNCHANGED <<user, dataset, audits, stores>> /\ NoFault

-----------------------------------------------------------------------------
(* What goes wrong *)

Lose == /\ lost < MaxLost
        /\ lost' = lost + 1
        /\ UNCHANGED faults

\* The database that fails the work fails to record it as well.
RecordFails(w) ==
  /\ At(w, "record")
  /\ Lose
  /\ Retry(work[w].id)
  /\ work' = [work EXCEPT ![w] = None]
  /\ UNCHANGED <<user, dataset, deletion, audits, stores>>

\* The claim is made outside the try block: if its call fails nothing is recorded.
\* Should it have been committed nevertheless, the next attempt finds the deletion
\* claimed, and the job is done.
ClaimFails(w) ==
  LET i == work[w].id IN
  /\ At(w, "claim")
  /\ \/ /\ Fault
        /\ UNCHANGED deletion
     \/ /\ Claimable(i)
        /\ Lose
        /\ deletion' = Claimed(i)
  /\ Retry(i)
  /\ work' = [work EXCEPT ![w] = None]
  /\ UNCHANGED <<user, dataset, audits, stores>>

\* The worker dies, or only loses its lock, and the job is delivered again, which
\* BullMQ does once; the runs let no job stall twice.
Stalls(w) ==
  /\ ~Idle(w)
  /\ job[work[w].id].state = "active"
  /\ Lose
  /\ JobEnds(work[w].id, "waiting")
  /\ work' \in {work, [work EXCEPT ![w] = None]}
  /\ UNCHANGED <<user, dataset, deletion, audits, stores>>

\* Fifteen minutes after the claim.
ClaimExpires(i) ==
  /\ deletion[i].status = "processing"
  /\ ~deletion[i].expired
  /\ deletion' = [deletion EXCEPT ![i].expired = TRUE]
  /\ UNCHANGED <<user, dataset, audits, job, work, stores>> /\ NoFault

-----------------------------------------------------------------------------
(* Uploads, index jobs and retrievals *)

Live(d) == user = "active" /\ dataset[d] = "ready"

\* An upload has its URL, an index job its document, a retrieval its rows.
Begin(x, store, d) ==
  /\ writing[x] = None
  /\ dataset[d] \in {"ready", "deleting"}
  /\ writing' = [writing EXCEPT ![x] = <<store, d>>]
  /\ UNCHANGED <<user, dataset, deletion, audits, job, work, stored, late>> /\ NoFault

Write(x) ==
  LET item == writing[x] IN
  /\ item # None
  /\ stored' = stored \cup {item}
  /\ late' = IF Live(item[2]) THEN late \ {item} ELSE late \cup {item}
  /\ writing' = [writing EXCEPT ![x] = None]
  /\ UNCHANGED <<user, dataset, deletion, audits, job, work>> /\ NoFault

\* A request that was let in before the account was deleted adds a dataset.
CreateDataset(d) ==
  /\ user # "gone"
  /\ dataset[d] = "none"
  /\ dataset' = [dataset EXCEPT ![d] = "ready"]
  /\ UNCHANGED <<user, deletion, audits, job, work, stores>> /\ NoFault

-----------------------------------------------------------------------------

PrivacyInit ==
  /\ user = "active"
  /\ dataset = [d \in Dataset |-> IF d \in Owned THEN "ready" ELSE "none"]
  /\ deletion = [n \in {} |-> None]
  /\ audits = [n \in 1 .. MaxDeletions |-> 0]
  /\ job = [n \in 1 .. MaxDeletions |-> [state |-> "none", tries |-> 0]]
  /\ work = [w \in Worker |-> None]
  /\ writing = [x \in Writer |-> None]
  /\ stored = Store \X Owned
  /\ late = {}
  /\ faults = 0
  /\ lost = 0

Process(w) ==
  \/ \E i \in Deletion : TakeJob(w, i)
  \/ Claim(w) \/ PurgeEphemeral(w) \/ DeleteObjects(w) \/ DeleteVectors(w)
  \/ Complete(w) \/ RecordFailure(w)

PrivacyNext ==
  \/ \E d \in Dataset : ScheduleDataset(d) \/ CreateDataset(d)
  \/ ScheduleAccount
  \/ \E w \in Worker : Process(w) \/ StepFails(w) \/ ClaimFails(w) \/ RecordFails(w)
                      \/ Stalls(w)
  \/ \E i \in Deletion : ClaimExpires(i)
  \/ \E x \in Writer : Write(x) \/ \E item \in Item : Begin(x, item[1], item[2])

\* A worker takes jobs and goes on with its work.
PrivacySpec ==
  /\ PrivacyInit /\ [][PrivacyNext]_privacyVars
  /\ \A w \in Worker : WF_privacyVars(Process(w))

-----------------------------------------------------------------------------
(* Properties *)

\* Every row, job and worker has the type the schema and the queue give it.
PrivacyTypeOK ==
  /\ user \in {"active", "deleting", "gone"}
  /\ dataset \in [Dataset -> {"none", "ready", "deleting", "deleted"}]
  /\ \E n \in 0 .. MaxDeletions : deletion \in
       [1 .. n -> [scope : {"dataset", "account"}, dataset : Dataset \cup {None},
                   status : {"scheduled", "processing", "failed", "completed"},
                   expired : BOOLEAN, manifest : SUBSET Dataset]]
  /\ audits \in [1 .. MaxDeletions -> Nat]
  /\ job \in [1 .. MaxDeletions ->
               [state : {"none", "waiting", "active", "done", "failed"}, tries : Nat]]
  /\ work \in [Worker ->
                [id : Deletion,
                 step : {"claim", "cache", "object", "vector", "complete", "record"}]
                \cup {None}]
  /\ writing \in [Writer -> Item \cup {None}]
  /\ stored \subseteq Item /\ late \subseteq stored

\* Of a dataset that is deleted, no store holds anything but what a writer
\* stored after the deletion was requested: however often the work failed,
\* was delivered twice or overlapped the deletion of the account.
ErasedOnceDeleted ==
  \A item \in stored : dataset[item[2]] = "deleted" => item \in late

\* A deletion leaves one audit record when it is over and none before, though
\* two workers whose claims overlapped both reach the last step.
AuditedOnce ==
  \A i \in Deletion :
    /\ audits[i] <= 1
    /\ audits[i] = 1 => deletion[i].status = "completed"
    /\ deletion[i].status = "completed" => audits[i] = 1 \/ user = "gone"

Completed(i) == i \in Deletion /\ deletion[i].status = "completed"

\* Every attempt of the deletion's job has failed.
Exhausted(i) == job[i].state = "failed" /\ faults >= Attempts

\* A deletion that was requested is carried out, if no worker is lost and no
\* failure goes unrecorded: each failed attempt lets the next one claim it.  The
\* exception is the deletion whose job has failed Attempts times.
RetriesErase ==
  \A i \in 1 .. MaxDeletions :
    i \in Deletion ~> lost > 0 \/ Completed(i) \/ Exhausted(i)
===============================================================================
