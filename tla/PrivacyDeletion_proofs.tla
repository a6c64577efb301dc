-------------------------- MODULE PrivacyDeletion_proofs --------------------------
(***************************************************************************)
(* What PrivacyDeletion promises for any number of datasets, deletions,    *)
(* workers and writers: nothing of a deleted dataset is left but what came *)
(* late, and a deletion that is over was audited once.                     *)
(***************************************************************************)
EXTENDS PrivacyDeletion, FiniteSetTheorems, TLAPS

-----------------------------------------------------------------------------
(* The inductive invariant *)

\* What a store holds of a dataset, if anything, came late.
Clean(store, d) == <<store, d>> \in stored => <<store, d>> \in late

\* Writers no longer write to it in time.
Doomed(d) == user # "active" \/ dataset[d] \in {"deleting", "deleted"}

\* Of a dataset that was never created, nothing is stored or on its way.
Unborn ==
  \A d \in Dataset : dataset[d] = "none" =>
    \A s \in Store :
      <<s, d>> \notin stored /\ \A x \in Writer : writing[x] # <<s, d>>

\* What a deletion covers is doomed.  Of an account, what its manifest lacks
\* was gone when it was requested, or is younger.
Covered(i) ==
  /\ deletion[i].scope = "account" =>
       /\ user # "active"
       /\ \A d \in Dataset \ deletion[i].manifest : \A s \in Store : Clean(s, d)
  /\ deletion[i].scope = "dataset" =>
       /\ deletion[i].dataset \in Dataset
       /\ deletion[i].manifest = {deletion[i].dataset}
       /\ dataset[deletion[i].dataset] \in {"deleting", "deleted"}

\* What a worker has purged is still clean, whoever writes or works beside it.
Purged(w) == ~Idle(w) =>
  /\ work[w].step \in {"object", "vector", "complete"} =>
       \A d \in Scope(work[w].id) : Clean("cache", d)
  /\ work[w].step \in {"vector", "complete"} =>
       \A d \in deletion[work[w].id].manifest : Clean("object", d)
  /\ work[w].step = "complete" =>
       \A d \in Scope(work[w].id) : Clean("vector", d)

\* An audit record belongs to a deletion that is over, and is its only one.
Audited ==
  \A i \in 1 .. MaxDeletions : audits[i] # 0 =>
    audits[i] = 1 /\ i \in Deletion /\ deletion[i].status = "completed"

PrivacyInv ==
  /\ PrivacyTypeOK
  /\ Unborn
  /\ \A i \in Deletion : Covered(i)
  /\ \A w \in Worker : Purged(w)
  /\ Audited
  /\ ErasedOnceDeleted
  /\ AuditedOnce

-----------------------------------------------------------------------------
(* What every step leaves as it is *)

DeletionRow == [scope : {"dataset", "account"}, dataset : Dataset \cup {None},
         status : {"scheduled", "processing", "failed", "completed"},
         expired : BOOLEAN, manifest : SUBSET Dataset]

LEMMA DeletionRows ==
  ASSUME PrivacyTypeOK
  PROVE  \E n \in 0 .. MaxDeletions :
           Deletion = 1 .. n /\ Cardinality(Deletion) = n /\ deletion \in [Deletion -> DeletionRow]
<1>1. PICK n \in 0 .. MaxDeletions : deletion \in [1 .. n -> DeletionRow]
  BY DEF PrivacyTypeOK, DeletionRow
<1>2. Deletion = 1 .. n /\ n \in Nat /\ MaxDeletions \in Nat
  BY <1>1, PrivacyAssumption DEF Deletion
<1>3. Cardinality(1 .. n) = n
  BY <1>2, FS_Interval
<1>4. QED
  BY <1>1, <1>2, <1>3

\* The rows stay, with what they cover, and one that is completed stays so.
RowsKept ==
  /\ Deletion' = Deletion
  /\ deletion' \in [Deletion -> DeletionRow]
  /\ \A i \in Deletion :
       /\ deletion'[i].scope = deletion[i].scope
       /\ deletion'[i].dataset = deletion[i].dataset
       /\ deletion'[i].manifest = deletion[i].manifest
       /\ deletion[i].status = "completed" => deletion'[i].status = "completed"

\* What is doomed and clean stays both.
DoomKept ==
  /\ user # "active" => user' # "active"
  /\ \A d \in Dataset :
       dataset[d] \in {"deleting", "deleted"} => dataset'[d] \in {"deleting", "deleted"}
  /\ \A d \in Dataset, s \in Store : Doomed(d) /\ Clean(s, d) => Clean(s, d)'

LEMMA CoveredDoomed ==
  ASSUME PrivacyInv, NEW i \in Deletion
  PROVE  /\ \A d \in Scope(i) : d \in Dataset /\ Doomed(d)
         /\ \A d \in deletion[i].manifest : d \in Dataset /\ Doomed(d)
<1>1. Covered(i)
  BY DEF PrivacyInv
<1>2. deletion[i] \in DeletionRow
  BY DeletionRows DEF PrivacyInv
<1>3. CASE deletion[i].scope = "account"
  BY <1>1, <1>2, <1>3 DEF Covered, Scope, Doomed, DeletionRow
<1>4. CASE deletion[i].scope = "dataset"
  BY <1>1, <1>2, <1>4 DEF Covered, Scope, Doomed, DeletionRow
<1>5. QED
  BY <1>2, <1>3, <1>4 DEF DeletionRow

LEMMA CoveredKept ==
  ASSUME PrivacyInv, DoomKept, NEW i \in Deletion,
         deletion'[i].scope = deletion[i].scope,
         deletion'[i].dataset = deletion[i].dataset,
         deletion'[i].manifest = deletion[i].manifest
  PROVE  Covered(i)'
<1>1. Covered(i)
  BY DEF PrivacyInv
<1>2. QED
  BY <1>1 DEF Covered, DoomKept, Doomed

LEMMA PurgedKept ==
  ASSUME PrivacyInv, DoomKept, NEW w \in Worker, work'[w] = work[w],
         \A i \in Deletion :
           /\ deletion'[i].scope = deletion[i].scope
           /\ deletion'[i].dataset = deletion[i].dataset
           /\ deletion'[i].manifest = deletion[i].manifest
  PROVE  Purged(w)'
<1>1. Purged(w) /\ Idle(w)' = Idle(w)
  BY DEF PrivacyInv, Idle
<1>2. SUFFICES ASSUME ~Idle(w) PROVE Purged(w)'
  BY <1>1 DEF Purged
<1> DEFINE i == work[w].id
<1>3. i \in Deletion
  BY <1>2 DEF PrivacyInv, PrivacyTypeOK, Idle
<1>4. Scope(i)' = Scope(i) /\ deletion'[i].manifest = deletion[i].manifest
  BY <1>3 DEF Scope
<1>5. /\ \A d \in Scope(i) : d \in Dataset /\ Doomed(d)
      /\ \A d \in deletion[i].manifest : d \in Dataset /\ Doomed(d)
  BY <1>3, CoveredDoomed
<1>6. \A d \in Scope(i) : /\ Clean("cache", d) => Clean("cache", d)'
                          /\ Clean("vector", d) => Clean("vector", d)'
  BY <1>5 DEF DoomKept, Store
<1>7. \A d \in deletion[i].manifest : Clean("object", d) => Clean("object", d)'
  BY <1>5 DEF DoomKept, Store
<1>8. /\ Scope(work[w].id)' = Scope(i)
      /\ deletion'[work'[w].id].manifest = deletion[i].manifest
      /\ work'[w].step = work[w].step
  BY <1>3 DEF Scope
<1> HIDE DEF i
<1>9. QED
  <2>1. Purged(w) => (Purged(w)')
    BY <1>2, <1>6, <1>7, <1>8 DEF Purged, i
  <2>2. QED
    BY <1>1, <2>1

\* A step that leaves datasets and audits, and completes nothing.
LEMMA WorkSteps ==
  ASSUME PrivacyInv, PrivacyTypeOK', RowsKept, DoomKept,
         UNCHANGED <<user, dataset, audits>>,
         \A i \in Deletion : deletion'[i].status = "completed" => deletion[i].status = "completed",
         \A w \in Worker : work'[w] = work[w] \/ Purged(w)',
         stored' \subseteq stored, stored' \ late' \subseteq stored \ late,
         UNCHANGED writing
  PROVE  PrivacyInv'
<1>1. \A i \in Deletion' : Covered(i)'
  BY CoveredKept DEF RowsKept
<1>2. \A w \in Worker : Purged(w)'
  BY PurgedKept DEF RowsKept
<1>3. Unborn'
  BY DEF PrivacyInv, Unborn
<1>4. Audited'
  BY DEF PrivacyInv, Audited, RowsKept
<1>5. ErasedOnceDeleted'
  BY DEF PrivacyInv, ErasedOnceDeleted
<1>6. AuditedOnce'
  BY DEF PrivacyInv, AuditedOnce, RowsKept
<1>7. QED
  BY <1>1, <1>2, <1>3, <1>4, <1>5, <1>6 DEF PrivacyInv

-----------------------------------------------------------------------------
(* The steps of a worker, one by one *)

LEMMA WorkRow ==
  ASSUME PrivacyTypeOK, NEW w \in Worker, ~Idle(w)
  PROVE  /\ work[w].id \in Deletion
         /\ work[w].step \in {"claim", "cache", "object", "vector", "complete", "record"}
BY DEF PrivacyTypeOK, Idle

\* A worker goes on, or lays its work down.
LEMMA Going ==
  ASSUME PrivacyTypeOK, NEW w \in Worker, ~Idle(w),
         NEW step \in {"claim", "cache", "object", "vector", "complete", "record"},
         Go(w, step), Deletion' = Deletion
  PROVE  /\ work' \in [Worker -> [id : Deletion', step : {"claim", "cache", "object",
                                   "vector", "complete", "record"}] \cup {None}]
         /\ \A u \in Worker : u # w => work'[u] = work[u]
         /\ work'[w].id = work[w].id /\ work'[w].step = step
BY DEF PrivacyTypeOK, Idle, Go

LEMMA Resting ==
  ASSUME PrivacyTypeOK, NEW w \in Worker, work' = [work EXCEPT ![w] = None],
         Deletion' = Deletion
  PROVE  /\ work' \in [Worker -> [id : Deletion', step : {"claim", "cache", "object",
                                   "vector", "complete", "record"}] \cup {None}]
         /\ \A u \in Worker : u # w => work'[u] = work[u]
         /\ Purged(w)'
BY DEF PrivacyTypeOK, Purged, Idle

LEMMA JobKept ==
  ASSUME PrivacyTypeOK, NEW i \in Deletion,
         \/ \E s \in {"waiting", "active", "done", "failed"} : JobEnds(i, s)
         \/ Retry(i)
         \/ UNCHANGED job
  PROVE  job' \in [1 .. MaxDeletions ->
               [state : {"none", "waiting", "active", "done", "failed"}, tries : Nat]]
<1>1. i \in 1 .. MaxDeletions
  BY DeletionRows, PrivacyAssumption
<1>2. job[i].tries + 1 \in Nat
  BY <1>1 DEF PrivacyTypeOK
<1>3. CASE Retry(i)
  BY <1>1, <1>2, <1>3 DEF PrivacyTypeOK, Retry
<1>4. ASSUME NEW s \in {"waiting", "active", "done", "failed"}, JobEnds(i, s)
      PROVE  job' \in [1 .. MaxDeletions ->
               [state : {"none", "waiting", "active", "done", "failed"}, tries : Nat]]
  BY <1>1, <1>4 DEF PrivacyTypeOK, JobEnds
<1>5. QED
  BY <1>3, <1>4 DEF PrivacyTypeOK

LEMMA RowsStay ==
  ASSUME PrivacyTypeOK, UNCHANGED deletion
  PROVE  RowsKept
BY DeletionRows DEF RowsKept, Deletion

\* privacy_claim, privacy_record_failure and the expiry of a claim.
LEMMA RowChanges ==
  ASSUME PrivacyTypeOK, NEW i \in Deletion,
         NEW s \in {"scheduled", "processing", "failed"}, NEW e \in BOOLEAN,
         deletion[i].status # "completed",
         deletion' = [deletion EXCEPT ![i].status = s, ![i].expired = e]
  PROVE  /\ RowsKept
         /\ \A j \in Deletion :
              deletion'[j].status = "completed" => deletion[j].status = "completed"
<1>1. deletion \in [Deletion -> DeletionRow]
  BY DeletionRows
<1>2. deletion[i] \in DeletionRow
  BY <1>1
<1>3. /\ deletion'[i] = [deletion[i] EXCEPT !.status = s, !.expired = e]
      /\ \A j \in Deletion : j # i => deletion'[j] = deletion[j]
      /\ Deletion' = Deletion
      /\ deletion' = [j \in Deletion |-> deletion'[j]]
  BY <1>1 DEF Deletion
<1>4. /\ deletion'[i] \in DeletionRow
      /\ deletion'[i].scope = deletion[i].scope
      /\ deletion'[i].dataset = deletion[i].dataset
      /\ deletion'[i].manifest = deletion[i].manifest
      /\ deletion'[i].status = s
  BY <1>2, <1>3 DEF DeletionRow
<1>5. QED
  BY <1>1, <1>3, <1>4 DEF RowsKept

\* The types, when a worker's step changes rows, job and work as above.
LEMMA WorkTyped ==
  ASSUME PrivacyTypeOK, RowsKept, UNCHANGED <<user, dataset, audits, writing>>,
         stored' \subseteq stored, late' \subseteq stored',
         work' \in [Worker -> [id : Deletion', step : {"claim", "cache", "object",
                                   "vector", "complete", "record"}] \cup {None}],
         job' \in [1 .. MaxDeletions ->
               [state : {"none", "waiting", "active", "done", "failed"}, tries : Nat]]
  PROVE  PrivacyTypeOK'
<1>1. PICK n \in 0 .. MaxDeletions : Deletion = 1 .. n
  BY DeletionRows
<1>2. \E m \in 0 .. MaxDeletions : deletion' \in [1 .. m -> DeletionRow]
  BY <1>1 DEF RowsKept
<1>3. QED
  BY <1>2 DEF PrivacyTypeOK, DeletionRow

LEMMA DoomStays ==
  ASSUME UNCHANGED <<user, dataset>>, stored' \ late' \subseteq stored \ late
  PROVE  DoomKept
BY DEF DoomKept, Doomed, Clean

LEMMA TakeJobHolds ==
  ASSUME PrivacyInv, NEW w \in Worker, NEW i \in Deletion, TakeJob(w, i)
  PROVE  PrivacyInv'
<1>1. PrivacyTypeOK /\ RowsKept /\ DoomKept
  BY RowsStay, DoomStays DEF PrivacyInv, TakeJob, stores
<1>2. /\ work' = [work EXCEPT ![w] = [id |-> i, step |-> "claim"]]
      /\ JobEnds(i, "active")
      /\ UNCHANGED <<user, dataset, deletion, audits, writing, stored, late>>
  BY DEF TakeJob, stores
<1>3. work' \in [Worker -> [id : Deletion', step : {"claim", "cache", "object",
                                   "vector", "complete", "record"}] \cup {None}]
  BY <1>1, <1>2 DEF PrivacyTypeOK, RowsKept
<1>4. PrivacyTypeOK'
  BY <1>1, <1>2, <1>3, JobKept, WorkTyped DEF PrivacyTypeOK
<1>5. \A u \in Worker : work'[u] = work[u] \/ Purged(u)'
  BY <1>1, <1>2 DEF PrivacyTypeOK, Purged
<1>6. QED
  BY <1>1, <1>2, <1>4, <1>5, WorkSteps

\* A step that changes only work, job and the status of a row.
LEMMA WorkOnly ==
  ASSUME PrivacyInv, NEW w \in Worker, RowsKept,
         \A j \in Deletion :
           deletion'[j].status = "completed" => deletion[j].status = "completed",
         UNCHANGED <<user, dataset, audits, writing, stored, late>>,
         job' \in [1 .. MaxDeletions ->
               [state : {"none", "waiting", "active", "done", "failed"}, tries : Nat]],
         \/ work' = [work EXCEPT ![w] = None]
         \/ ~Idle(w) /\ \E step \in {"cache", "record"} : Go(w, step)
         \/ UNCHANGED work
  PROVE  PrivacyInv'
<1>1. PrivacyTypeOK /\ DoomKept /\ Deletion' = Deletion
  BY DoomStays DEF PrivacyInv, RowsKept
<1>2. /\ work' \in [Worker -> [id : Deletion', step : {"claim", "cache", "object",
                                   "vector", "complete", "record"}] \cup {None}]
      /\ \A u \in Worker : work'[u] = work[u] \/ Purged(u)'
  <2>1. CASE work' = [work EXCEPT ![w] = None]
    BY <1>1, <2>1, Resting
  <2>2. ASSUME NEW step \in {"cache", "record"}, ~Idle(w), Go(w, step)
        PROVE  /\ work' \in [Worker -> [id : Deletion', step : {"claim", "cache", "object",
                                   "vector", "complete", "record"}] \cup {None}]
               /\ \A u \in Worker : work'[u] = work[u] \/ Purged(u)'
    BY <1>1, <2>2, Going DEF Purged
  <2>3. CASE UNCHANGED work
    BY <1>1, <2>3 DEF PrivacyTypeOK
  <2>4. QED
    BY <2>1, <2>2, <2>3
<1>3. PrivacyTypeOK'
  BY <1>1, <1>2, WorkTyped DEF PrivacyTypeOK
<1>4. QED
  BY <1>1, <1>2, <1>3, WorkSteps

LEMMA ClaimHolds ==
  ASSUME PrivacyInv, NEW w \in Worker, Claim(w)
  PROVE  PrivacyInv'
<1> DEFINE i == work[w].id
<1>1. PrivacyTypeOK /\ ~Idle(w) /\ i \in Deletion
      /\ UNCHANGED <<user, dataset, audits, writing, stored, late>>
  BY WorkRow DEF PrivacyInv, Claim, At, stores
<1>2. CASE /\ Claimable(i)
           /\ deletion' = Claimed(i)
           /\ Go(w, "cache")
           /\ UNCHANGED job
  <2>1. deletion[i].status # "completed"
    BY <1>2 DEF Claimable
  <2>2. RowsKept /\ \A j \in Deletion :
          deletion'[j].status = "completed" => deletion[j].status = "completed"
    BY <1>1, <1>2, <2>1, RowChanges DEF Claimed
  <2>3. QED
    BY <1>1, <1>2, <2>2, JobKept, WorkOnly
<1>3. CASE work' = [work EXCEPT ![w] = None] /\ JobEnds(i, "done") /\ UNCHANGED deletion
  BY <1>1, <1>3, RowsStay, JobKept, WorkOnly
<1>4. QED
  BY <1>2, <1>3 DEF Claim

\* The claim is committed or not, and its job tried again.
LEMMA ClaimFailsHolds ==
  ASSUME PrivacyInv, NEW w \in Worker, ClaimFails(w)
  PROVE  PrivacyInv'
<1> DEFINE i == work[w].id
<1>1. /\ PrivacyTypeOK /\ ~Idle(w) /\ i \in Deletion
      /\ UNCHANGED <<user, dataset, audits, writing, stored, late>>
      /\ Retry(i) /\ work' = [work EXCEPT ![w] = None]
  BY WorkRow DEF PrivacyInv, ClaimFails, At, stores
<1>2. CASE UNCHANGED deletion
  BY <1>1, <1>2, RowsStay, JobKept, WorkOnly
<1>3. CASE Claimable(i) /\ deletion' = Claimed(i)
  <2>1. deletion[i].status # "completed"
    BY <1>3 DEF Claimable
  <2>2. RowsKept /\ \A j \in Deletion :
          deletion'[j].status = "completed" => deletion[j].status = "completed"
    BY <1>1, <1>3, <2>1, RowChanges DEF Claimed
  <2>3. QED
    BY <1>1, <2>2, JobKept, WorkOnly
<1>4. QED
  BY <1>2, <1>3 DEF ClaimFails

LEMMA RecordHolds ==
  ASSUME PrivacyInv, NEW w \in Worker, RecordFailure(w) \/ RecordFails(w)
  PROVE  PrivacyInv'
<1> DEFINE i == work[w].id
<1>1. /\ PrivacyTypeOK /\ ~Idle(w) /\ i \in Deletion
      /\ UNCHANGED <<user, dataset, audits, writing, stored, late>>
      /\ Retry(i) /\ work' = [work EXCEPT ![w] = None]
  BY WorkRow DEF PrivacyInv, RecordFailure, RecordFails, At, stores
<1>2. CASE UNCHANGED deletion
  BY <1>1, <1>2, RowsStay, JobKept, WorkOnly
<1>3. CASE /\ deletion[i].status = "processing"
           /\ deletion' = [deletion EXCEPT ![i].status = "failed", ![i].expired = FALSE]
  <2>1. RowsKept /\ \A j \in Deletion :
          deletion'[j].status = "completed" => deletion[j].status = "completed"
    BY <1>1, <1>3, RowChanges
  <2>2. QED
    BY <1>1, <2>1, JobKept, WorkOnly
<1>4. QED
  BY <1>2, <1>3 DEF RecordFailure, RecordFails

\* A step fails, a worker stalls, a claim expires.
LEMMA FaultHolds ==
  ASSUME PrivacyInv, NEW w \in Worker, StepFails(w) \/ Stalls(w)
  PROVE  PrivacyInv'
<1>1. /\ PrivacyTypeOK /\ ~Idle(w) /\ work[w].id \in Deletion
      /\ UNCHANGED <<user, dataset, deletion, audits, writing, stored, late>>
      /\ JobEnds(work[w].id, "waiting") \/ UNCHANGED job
      /\ \/ work' = [work EXCEPT ![w] = None]
         \/ Go(w, "record")
         \/ UNCHANGED work
  BY WorkRow DEF PrivacyInv, StepFails, Stalls, stores
<1>2. job' \in [1 .. MaxDeletions ->
               [state : {"none", "waiting", "active", "done", "failed"}, tries : Nat]]
  BY <1>1, JobKept
<1>3. QED
  BY <1>1, <1>2, RowsStay, WorkOnly

LEMMA ExpireHolds ==
  ASSUME PrivacyInv, NEW i \in Deletion, ClaimExpires(i)
  PROVE  PrivacyInv'
<1>1. /\ PrivacyTypeOK /\ deletion[i].status = "processing"
      /\ deletion' = [deletion EXCEPT ![i].expired = TRUE]
      /\ UNCHANGED <<user, dataset, audits, job, work, writing, stored, late>>
  BY DEF PrivacyInv, ClaimExpires, stores
<1>2. deletion \in [Deletion -> DeletionRow]
  BY <1>1, DeletionRows
<1>3. deletion' = [deletion EXCEPT ![i].status = "processing", ![i].expired = TRUE]
  BY <1>1, <1>2 DEF DeletionRow
<1>4. RowsKept /\ \A j \in Deletion :
        deletion'[j].status = "completed" => deletion[j].status = "completed"
  BY <1>1, <1>3, RowChanges
<1>5. DoomKept
  BY <1>1, DoomStays
<1>6. PrivacyTypeOK'
  BY <1>1, <1>4, WorkTyped DEF PrivacyTypeOK, RowsKept
<1>7. QED
  BY <1>1, <1>4, <1>5, <1>6, WorkSteps

\* A store is purged of the datasets of a deletion.
LEMMA PurgeSteps ==
  ASSUME PrivacyInv, NEW w \in Worker, NEW store \in Store, NEW D,
         NEW next \in {"object", "vector", "complete"},
         At(w, IF store = "cache" THEN "cache" ELSE IF store = "object" THEN "object" ELSE "vector"),
         next = IF store = "cache" THEN "object" ELSE IF store = "object" THEN "vector" ELSE "complete",
         D = IF store = "object" THEN deletion[work[w].id].manifest ELSE Scope(work[w].id),
         Purge(store, D), Go(w, next),
         UNCHANGED <<user, dataset, deletion, audits, job, writing>>
  PROVE  PrivacyInv'
<1> DEFINE i == work[w].id
<1>1. /\ PrivacyTypeOK /\ ~Idle(w) /\ i \in Deletion /\ Purged(w)
      /\ work[w].step = IF store = "cache" THEN "cache"
                        ELSE IF store = "object" THEN "object" ELSE "vector"
  BY WorkRow DEF PrivacyInv, At
<1>2. /\ stored' = stored \ ({store} \X D)
      /\ late' = late \ ({store} \X D)
  BY DEF Purge
<1>3. /\ stored' \subseteq stored /\ late' \subseteq stored'
      /\ stored' \ late' \subseteq stored \ late
  BY <1>1, <1>2 DEF PrivacyTypeOK
<1>4. RowsKept /\ DoomKept /\ Deletion' = Deletion
  BY <1>1, <1>3, RowsStay, DoomStays DEF Deletion
<1>5. /\ work' \in [Worker -> [id : Deletion', step : {"claim", "cache", "object",
                                   "vector", "complete", "record"}] \cup {None}]
      /\ \A u \in Worker : u # w => work'[u] = work[u]
      /\ work'[w].id = i /\ work'[w].step = next
  BY <1>1, <1>4, Going
<1>6. PrivacyTypeOK'
  BY <1>1, <1>3, <1>4, <1>5, WorkTyped DEF PrivacyTypeOK
<1>7. \A s \in Store, d \in Dataset : Clean(s, d) => Clean(s, d)'
  BY <1>3 DEF Clean
<1>8. \A d \in D : Clean(store, d)'
  BY <1>2 DEF Clean
<1>9. Scope(i)' = Scope(i) /\ Scope(i) \subseteq Dataset /\ deletion[i].manifest \subseteq Dataset
  BY <1>1, <1>5, CoveredDoomed DEF Scope
<1>10. Purged(w)'
  <2>1. Scope(work[w].id)' = Scope(i)
    BY <1>9
  <2>2. CASE store = "cache"
    BY <1>5, <1>8, <2>1, <2>2 DEF Purged
  <2>3. CASE store = "object"
    <3>1. \A d \in Scope(i) : Clean("cache", d)'
      BY <1>1, <1>7, <1>9, <2>3 DEF Purged, Store
    <3>2. QED
      BY <1>5, <1>8, <2>1, <2>3, <3>1 DEF Purged
  <2>4. CASE store = "vector"
    <3>1. \A d \in Scope(i) : Clean("cache", d)'
      BY <1>1, <1>7, <1>9, <2>4 DEF Purged, Store
    <3>2. \A d \in deletion[i].manifest : Clean("object", d)'
      BY <1>1, <1>7, <1>9, <2>4 DEF Purged, Store
    <3>3. QED
      BY <1>5, <1>8, <2>1, <2>4, <3>1, <3>2 DEF Purged
  <2>5. QED
    BY <2>2, <2>3, <2>4 DEF Store
<1>11. QED
  BY <1>3, <1>4, <1>5, <1>6, <1>10, WorkSteps

LEMMA PurgeHolds ==
  ASSUME PrivacyInv, NEW w \in Worker,
         PurgeEphemeral(w) \/ DeleteObjects(w) \/ DeleteVectors(w)
  PROVE  PrivacyInv'
<1>1. CASE PurgeEphemeral(w)
  BY <1>1, PurgeSteps DEF PurgeEphemeral, Store
<1>2. CASE DeleteObjects(w)
  BY <1>2, PurgeSteps DEF DeleteObjects, Store, Row
<1>3. CASE DeleteVectors(w)
  BY <1>3, PurgeSteps DEF DeleteVectors, Store
<1>4. QED
  BY <1>1, <1>2, <1>3

\* privacy_complete: every store is clean of what the deletion covers.
LEMMA FinishSteps ==
  ASSUME PrivacyInv, NEW w \in Worker, At(w, "complete"), ~Over(work[w].id),
         deletion[work[w].id].status = "processing", Finish(work[w].id),
         work' = [work EXCEPT ![w] = None], JobEnds(work[w].id, "done"),
         UNCHANGED <<writing, stored, late>>
  PROVE  PrivacyInv'
<1> DEFINE i == work[w].id
<1>1. /\ PrivacyTypeOK /\ ~Idle(w) /\ i \in Deletion /\ Purged(w) /\ Covered(i)
      /\ work[w].step = "complete" /\ Unborn /\ Audited /\ ErasedOnceDeleted /\ AuditedOnce
  BY WorkRow DEF PrivacyInv, At
<1>2. PICK n \in 0 .. MaxDeletions : Deletion = 1 .. n /\ deletion \in [Deletion -> DeletionRow]
  BY <1>1, DeletionRows
<1>3. /\ \A d \in Scope(i) : Clean("cache", d) /\ Clean("vector", d)
      /\ \A d \in deletion[i].manifest : Clean("object", d)
  BY <1>1 DEF Purged
<1>4. i \in 1 .. MaxDeletions /\ audits[i] = 0 /\ audits' = [audits EXCEPT ![i] = @ + 1]
  <2>1. i \in 1 .. MaxDeletions
    BY <1>1, <1>2, PrivacyAssumption
  <2>2. audits[i] # 0 => deletion[i].status = "completed"
    BY <1>1, <2>1 DEF Audited
  <2>3. QED
    BY <2>1, <2>2 DEF Finish
<1>5. /\ audits' \in [1 .. MaxDeletions -> Nat] /\ audits'[i] = 1
      /\ \A j \in 1 .. MaxDeletions : j # i => audits'[j] = audits[j]
  BY <1>1, <1>4 DEF PrivacyTypeOK
<1>6. ASSUME NEW j \in Deletion
      PROVE  /\ deletion'[j] \in DeletionRow
             /\ deletion'[j].scope = deletion[j].scope
             /\ deletion'[j].dataset = deletion[j].dataset
             /\ deletion'[j].manifest = deletion[j].manifest
             /\ deletion[j].status = "completed" => deletion'[j].status = "completed"
             /\ deletion'[j].status = "completed" =>
                  \/ deletion[j].status = "completed"
                  \/ j = i \/ deletion[i].scope = "account"
             /\ j = i => deletion'[j].status = "completed"
  <2>1. deletion[j] \in DeletionRow
    BY <1>2
  <2>2. \/ deletion'[j] = deletion[j] /\ j # i
        \/ /\ deletion'[j] = [deletion[j] EXCEPT !.status = "completed", !.expired = FALSE]
           /\ j = i \/ deletion[i].scope = "account"
    BY DEF Finish
  <2>3. QED
    BY <2>1, <2>2 DEF DeletionRow
<1>7. Deletion' = Deletion /\ deletion' \in [Deletion -> DeletionRow] /\ RowsKept
  <2>1. deletion' = [j \in Deletion |-> deletion'[j]]
    BY DEF Finish
  <2>2. QED
    BY <1>6, <2>1 DEF RowsKept, Deletion
<1>8. /\ work' \in [Worker -> [id : Deletion', step : {"claim", "cache", "object",
                                   "vector", "complete", "record"}] \cup {None}]
      /\ \A u \in Worker : work'[u] = work[u] \/ Purged(u)'
  BY <1>1, <1>7, Resting
<1>9. job' \in [1 .. MaxDeletions ->
               [state : {"none", "waiting", "active", "done", "failed"}, tries : Nat]]
  BY <1>1, JobKept
<1>10. /\ user' \in {"active", "deleting", "gone"}
       /\ dataset' \in [Dataset -> {"none", "ready", "deleting", "deleted"}]
       /\ user # "active" => user' # "active"
       /\ \A d \in Dataset :
            /\ dataset[d] = "deleted" => dataset'[d] = "deleted"
            /\ dataset[d] = "deleting" => dataset'[d] \in {"deleting", "deleted"}
            /\ dataset'[d] = "none" => dataset[d] = "none"
            /\ dataset'[d] = "deleted" =>
                 dataset[d] = "deleted" \/ \A s \in Store : Clean(s, d)
       /\ deletion[i].scope = "account" => user' = "gone"
  <2>1. CASE deletion[i].scope = "account"
    <3>1. /\ user' = "gone"
          /\ dataset' = [d \in Dataset |-> IF dataset[d] = "none" THEN "none" ELSE "deleted"]
      BY <2>1 DEF Finish
    <3>2. \A d \in Dataset : \A s \in Store : Clean(s, d)
      BY <1>1, <1>3, <2>1 DEF Scope, Covered, Store
    <3>3. QED
      BY <1>1, <3>1, <3>2 DEF PrivacyTypeOK
  <2>2. CASE deletion[i].scope = "dataset"
    <3>1. /\ UNCHANGED user
          /\ dataset' = [dataset EXCEPT ![deletion[i].dataset] = "deleted"]
      BY <2>2 DEF Finish
    <3>2. \A s \in Store : Clean(s, deletion[i].dataset)
      BY <1>1, <1>3, <2>2 DEF Scope, Covered, Store
    <3>3. QED
      BY <1>1, <2>2, <3>1, <3>2 DEF PrivacyTypeOK, Covered
  <2>3. QED
    BY <1>1, <1>2, <2>1, <2>2 DEF DeletionRow
<1>11. DoomKept
  BY <1>1, <1>10 DEF DoomKept, Clean, PrivacyTypeOK
<1>12. PrivacyTypeOK'
  BY <1>1, <1>2, <1>5, <1>7, <1>8, <1>9, <1>10 DEF PrivacyTypeOK, DeletionRow
<1>13. \A j \in Deletion' : Covered(j)'
  BY <1>6, <1>7, <1>11, CoveredKept
<1>14. \A u \in Worker : Purged(u)'
  BY <1>6, <1>8, <1>11, PurgedKept
<1>15. Unborn'
  BY <1>1, <1>10 DEF Unborn
<1>16. ErasedOnceDeleted'
  <2>1. SUFFICES ASSUME NEW item \in stored, dataset'[item[2]] = "deleted"
                 PROVE  item \in late
    BY DEF ErasedOnceDeleted
  <2>2. item = <<item[1], item[2]>> /\ item[1] \in Store /\ item[2] \in Dataset
    BY <1>1 DEF PrivacyTypeOK, Item
  <2>3. QED
    BY <1>1, <1>10, <2>1, <2>2 DEF ErasedOnceDeleted, Clean
<1>17. Audited'
  BY <1>1, <1>5, <1>6, <1>7 DEF Audited
<1>18. AuditedOnce'
  <2>1. SUFFICES ASSUME NEW j \in Deletion
                 PROVE  /\ audits'[j] <= 1
                        /\ audits'[j] = 1 => deletion'[j].status = "completed"
                        /\ deletion'[j].status = "completed" =>
                             audits'[j] = 1 \/ user' = "gone"
    BY <1>7 DEF AuditedOnce
  <2>2. j \in 1 .. MaxDeletions
    BY <1>2, PrivacyAssumption
  <2>3. CASE j = i
    BY <1>5, <1>6, <2>3
  <2>4. CASE j # i
    <3>1. user = "gone" => user' = "gone"
      BY DEF Finish
    <3>2. QED
      BY <1>1, <1>5, <1>6, <1>10, <2>2, <2>4, <3>1 DEF AuditedOnce
  <2>5. QED
    BY <2>3, <2>4
<1>19. QED
  BY <1>12, <1>13, <1>14, <1>15, <1>16, <1>17, <1>18 DEF PrivacyInv

LEMMA CompleteHolds ==
  ASSUME PrivacyInv, NEW w \in Worker, Complete(w)
  PROVE  PrivacyInv'
<1> DEFINE i == work[w].id
<1>1. /\ PrivacyTypeOK /\ ~Idle(w) /\ i \in Deletion /\ At(w, "complete")
      /\ UNCHANGED <<writing, stored, late>>
  BY WorkRow DEF PrivacyInv, Complete, At, stores
<1>2. CASE /\ UNCHANGED <<user, dataset, deletion, audits>>
           /\ work' = [work EXCEPT ![w] = None]
           /\ JobEnds(i, "done")
  BY <1>1, <1>2, RowsStay, JobKept, WorkOnly
<1>3. CASE /\ ~Over(i) /\ deletion[i].status = "processing" /\ Finish(i)
           /\ work' = [work EXCEPT ![w] = None]
           /\ JobEnds(i, "done")
  BY <1>1, <1>3, FinishSteps
<1>4. CASE Go(w, "record") /\ UNCHANGED <<user, dataset, deletion, audits, job>>
  BY <1>1, <1>4, RowsStay, JobKept, WorkOnly
<1>5. QED
  BY <1>2, <1>3, <1>4 DEF Complete

-----------------------------------------------------------------------------
(* Requests and writers *)

\* privacy_schedule: the manifest is what was ever created and is not deleted.
LEMMA ScheduleSteps ==
  ASSUME PrivacyInv, NEW scope \in {"dataset", "account"}, NEW d \in Dataset \cup {None},
         NEW D \in SUBSET Dataset, Schedule(scope, d, D),
         \/ /\ scope = "dataset" /\ d \in Dataset /\ D = {d}
            /\ dataset[d] \in {"ready", "deleting"} /\ UNCHANGED user
         \/ scope = "account" /\ D = Dataset /\ user # "gone" /\ user' = "deleting"
  PROVE  PrivacyInv'
<1> DEFINE row == [scope |-> scope, dataset |-> d, status |-> "scheduled",
                   expired |-> FALSE, manifest |-> Manifest(D)]
<1>1. PrivacyTypeOK /\ Unborn /\ Audited /\ ErasedOnceDeleted /\ AuditedOnce
  BY DEF PrivacyInv
<1>2. PICK n \in 0 .. MaxDeletions :
        Deletion = 1 .. n /\ Cardinality(Deletion) = n /\ deletion \in [Deletion -> DeletionRow]
  BY <1>1, DeletionRows
<1>3. PICK i \in 1 .. MaxDeletions : i = n + 1
  BY <1>2, PrivacyAssumption DEF Schedule
<1>4. row \in DeletionRow /\ Manifest(D) \subseteq Dataset
  BY DEF DeletionRow, Manifest
<1>5. /\ deletion' = [j \in 1 .. i |-> IF j < i THEN deletion[j] ELSE row]
      /\ job' = [job EXCEPT ![i] = [state |-> "waiting", tries |-> 0]]
      /\ dataset' = [e \in Dataset |-> IF e \in Manifest(D) THEN "deleting" ELSE dataset[e]]
      /\ UNCHANGED <<audits, work, writing, stored, late>>
  BY <1>2, <1>3 DEF Schedule, stores
<1> HIDE DEF row
<1>6. /\ Deletion' = 1 .. i /\ deletion' \in [1 .. i -> DeletionRow]
      /\ deletion'[i] = row
      /\ \A j \in Deletion : j \in Deletion' /\ deletion'[j] = deletion[j]
      /\ \A j \in Deletion' : j \in Deletion \/ j = i
  BY <1>2, <1>3, <1>4, <1>5 DEF Deletion
<1>7. PrivacyTypeOK'
  <2>1. i \in 0 .. MaxDeletions
    BY <1>3
  <2>2. \E m \in 0 .. MaxDeletions : deletion' \in [1 .. m -> DeletionRow]
    BY <1>6, <2>1
  <2>3. job' \in [1 .. MaxDeletions ->
               [state : {"none", "waiting", "active", "done", "failed"}, tries : Nat]]
    BY <1>1, <1>3, <1>5 DEF PrivacyTypeOK
  <2>4. work' \in [Worker ->
                [id : Deletion',
                 step : {"claim", "cache", "object", "vector", "complete", "record"}]
                \cup {None}]
    BY <1>1, <1>5, <1>6 DEF PrivacyTypeOK
  <2>5. /\ dataset' \in [Dataset -> {"none", "ready", "deleting", "deleted"}]
        /\ user' \in {"active", "deleting", "gone"}
    BY <1>1, <1>5 DEF PrivacyTypeOK
  <2>6. QED
    BY <1>1, <1>5, <2>2, <2>3, <2>4, <2>5 DEF PrivacyTypeOK, DeletionRow
<1>8. /\ \A e \in Dataset :
           /\ dataset[e] \in {"deleting", "deleted"} => dataset'[e] \in {"deleting", "deleted"}
           /\ dataset'[e] = "deleted" => dataset[e] = "deleted"
           /\ dataset'[e] = "none" => dataset[e] = "none"
      /\ user # "active" => user' # "active"
  BY <1>5
<1>9. DoomKept
  BY <1>5, <1>8 DEF DoomKept, Clean
<1>10. Covered(i)'
  <2>1. CASE scope = "account"
    <3>1. user' # "active" /\ D = Dataset
      BY <2>1
    <3>2. \A e \in Dataset \ Manifest(Dataset) : \A s \in Store : Clean(s, e)
      BY <1>1 DEF Manifest, Unborn, ErasedOnceDeleted, Clean
    <3>3. \A e \in Dataset \ Manifest(Dataset) : \A s \in Store : Clean(s, e)'
      BY <1>5, <3>2 DEF Clean
    <3>4. deletion'[i].scope = "account" /\ deletion'[i].manifest = Manifest(Dataset)
      BY <1>6, <2>1, <3>1 DEF row
    <3>5. QED
      BY <3>1, <3>3, <3>4 DEF Covered
  <2>2. CASE scope = "dataset"
    <3>1. d \in Dataset /\ D = {d} /\ dataset[d] \in {"ready", "deleting"}
      BY <2>2
    <3>2. Manifest(D) = {d} /\ dataset'[d] = "deleting"
      BY <1>5, <3>1 DEF Manifest
    <3>3. /\ deletion'[i].scope = "dataset" /\ deletion'[i].dataset = d
          /\ deletion'[i].manifest = {d}
      BY <1>6, <2>2, <3>2 DEF row
    <3>4. QED
      BY <3>1, <3>2, <3>3 DEF Covered
  <2>3. QED
    BY <2>1, <2>2
<1>11. \A j \in Deletion' : Covered(j)'
  BY <1>6, <1>9, <1>10, CoveredKept
<1>12. \A w \in Worker : Purged(w)'
  BY <1>5, <1>6, <1>9, PurgedKept
<1>13. Unborn' /\ ErasedOnceDeleted'
  <2>1. ErasedOnceDeleted'
    <3>1. \A item \in stored : item[2] \in Dataset
      BY <1>1 DEF PrivacyTypeOK, Item
    <3>2. QED
      BY <1>1, <1>5, <1>8, <3>1 DEF ErasedOnceDeleted
  <2>2. Unborn'
    BY <1>1, <1>5, <1>8 DEF Unborn
  <2>3. QED
    BY <2>1, <2>2
<1>14. Audited'
  BY <1>1, <1>5, <1>6 DEF Audited
<1>15. AuditedOnce'
  <2>1. audits[i] = 0
    BY <1>1, <1>2, <1>3 DEF Audited
  <2>2. deletion'[i].status = "scheduled"
    BY <1>6 DEF row
  <2>3. user = "gone" => user' = "gone"
    OBVIOUS
  <2>4. QED
    BY <1>1, <1>5, <1>6, <2>1, <2>2, <2>3 DEF AuditedOnce
<1>16. QED
  BY <1>7, <1>11, <1>12, <1>13, <1>14, <1>15 DEF PrivacyInv

LEMMA ScheduleHolds ==
  ASSUME PrivacyInv, ScheduleAccount \/ \E d \in Dataset : ScheduleDataset(d)
  PROVE  PrivacyInv'
<1>1. CASE ScheduleAccount
  BY <1>1, ScheduleSteps DEF ScheduleAccount
<1>2. ASSUME NEW d \in Dataset, ScheduleDataset(d)
      PROVE  PrivacyInv'
  BY <1>2, ScheduleSteps DEF ScheduleDataset
<1>3. QED
  BY <1>1, <1>2

\* A step of a writer, or of the request that adds a dataset.
LEMMA OutsideSteps ==
  ASSUME PrivacyInv, PrivacyTypeOK', DoomKept, Unborn',
         UNCHANGED <<user, deletion, audits, job, work>>,
         \A d \in Dataset : dataset'[d] = "deleted" => dataset[d] = "deleted",
         \A item \in stored' : item \in stored \/ item \in late' \/ dataset[item[2]] # "deleted",
         \A item \in late : item \in late' \/ dataset[item[2]] # "deleted"
  PROVE  PrivacyInv'
<1>1. Deletion' = Deletion
  BY DEF Deletion
<1>2. (\A i \in Deletion' : Covered(i)') /\ (\A w \in Worker : Purged(w)')
  BY <1>1, CoveredKept, PurgedKept
<1>3. Audited' /\ AuditedOnce'
  BY <1>1 DEF PrivacyInv, Audited, AuditedOnce
<1>4. ErasedOnceDeleted'
  <2>1. \A item \in stored' : item[2] \in Dataset
    BY DEF PrivacyTypeOK, Item
  <2>2. QED
    BY <2>1 DEF ErasedOnceDeleted, PrivacyInv
<1>5. QED
  BY <1>2, <1>3, <1>4 DEF PrivacyInv

LEMMA CreateHolds ==
  ASSUME PrivacyInv, NEW d \in Dataset, CreateDataset(d)
  PROVE  PrivacyInv'
<1>1. /\ PrivacyTypeOK /\ Unborn /\ dataset[d] = "none"
      /\ dataset' = [dataset EXCEPT ![d] = "ready"]
      /\ UNCHANGED <<user, deletion, audits, job, work, writing, stored, late>>
  BY DEF PrivacyInv, CreateDataset, stores
<1>2. Deletion' = Deletion
  BY <1>1 DEF Deletion
<1>3. PrivacyTypeOK'
  BY <1>1, <1>2 DEF PrivacyTypeOK
<1>4. DoomKept /\ Unborn'
  BY <1>1 DEF PrivacyTypeOK, DoomKept, Doomed, Clean, Unborn
<1>5. QED
  BY <1>1, <1>3, <1>4, OutsideSteps DEF PrivacyTypeOK

LEMMA BeginHolds ==
  ASSUME PrivacyInv, NEW x \in Writer, NEW s \in Store, NEW d \in Dataset, Begin(x, s, d)
  PROVE  PrivacyInv'
<1>1. /\ PrivacyTypeOK /\ Unborn /\ dataset[d] \in {"ready", "deleting"}
      /\ writing' = [writing EXCEPT ![x] = <<s, d>>]
      /\ UNCHANGED <<user, dataset, deletion, audits, job, work, stored, late>>
  BY DEF PrivacyInv, Begin
<1>2. Deletion' = Deletion /\ <<s, d>> \in Item
  BY <1>1 DEF Deletion, Item
<1>3. PrivacyTypeOK'
  BY <1>1, <1>2 DEF PrivacyTypeOK
<1>4. DoomKept
  BY <1>1, DoomStays
<1>5. Unborn'
  BY <1>1 DEF Unborn, PrivacyTypeOK
<1>6. QED
  BY <1>1, <1>3, <1>4, <1>5, OutsideSteps

LEMMA WriteHolds ==
  ASSUME PrivacyInv, NEW x \in Writer, Write(x)
  PROVE  PrivacyInv'
<1>1. /\ PrivacyTypeOK /\ Unborn
      /\ writing[x] # None /\ stored' = stored \cup {writing[x]}
      /\ late' = IF Live(writing[x][2]) THEN late \ {writing[x]} ELSE late \cup {writing[x]}
      /\ writing' = [writing EXCEPT ![x] = None]
      /\ UNCHANGED <<user, dataset, deletion, audits, job, work>>
  BY DEF PrivacyInv, Write
<1>2. PICK s \in Store, d \in Dataset : writing[x] = <<s, d>>
  BY <1>1 DEF PrivacyTypeOK, Item
<1>3. Deletion' = Deletion /\ <<s, d>> \in Item /\ dataset[d] # "none"
  BY <1>1, <1>2 DEF Deletion, Item, Unborn
<1>4. PrivacyTypeOK'
  BY <1>1, <1>2, <1>3 DEF PrivacyTypeOK
<1>5. Doomed(d) => ~Live(d)
  BY DEF Doomed, Live
<1>6. DoomKept
  BY <1>1, <1>2, <1>5 DEF DoomKept, Clean
<1>7. Unborn'
  <2>1. \A u \in Writer : writing'[u] = writing[u] \/ writing'[u] = None
    BY <1>1 DEF PrivacyTypeOK
  <2>2. \A e \in Dataset, r \in Store : dataset[e] = "none" => <<r, e>> \notin stored'
    BY <1>1, <1>2, <1>3 DEF Unborn
  <2>3. ASSUME NEW e \in Dataset, NEW r \in Store, dataset[e] = "none", NEW u \in Writer
        PROVE  writing'[u] # <<r, e>>
    <3>1. None # <<r, e>>
      BY NoneAssumption DEF Item
    <3>2. QED
      BY <1>1, <2>1, <2>3, <3>1 DEF Unborn
  <2>4. QED
    BY <1>1, <2>2, <2>3 DEF Unborn
<1>8. dataset[d] = "deleted" => ~Live(d)
  BY DEF Live
<1>9. QED
  BY <1>1, <1>2, <1>4, <1>6, <1>7, <1>8, OutsideSteps

-----------------------------------------------------------------------------
(* Theorems *)

LEMMA InitHolds == PrivacyInit => PrivacyInv
<1> SUFFICES ASSUME PrivacyInit PROVE PrivacyInv
  OBVIOUS
<1>1. /\ user = "active"
      /\ dataset = [d \in Dataset |-> IF d \in Owned THEN "ready" ELSE "none"]
      /\ deletion = [n \in {} |-> None]
      /\ audits = [n \in 1 .. MaxDeletions |-> 0]
      /\ job = [n \in 1 .. MaxDeletions |-> [state |-> "none", tries |-> 0]]
      /\ work = [w \in Worker |-> None]
      /\ writing = [x \in Writer |-> None]
      /\ stored = Store \X Owned /\ late = {}
  BY DEF PrivacyInit
<1>2. Deletion = {} /\ 0 \in 0 .. MaxDeletions
  BY <1>1, PrivacyAssumption DEF Deletion
<1>3. deletion \in [1 .. 0 -> DeletionRow]
  BY <1>1
<1>4. PrivacyTypeOK
  BY <1>1, <1>2, <1>3, PrivacyAssumption DEF PrivacyTypeOK, DeletionRow, Item
<1>5. \A w \in Worker : Purged(w)
  BY <1>1 DEF Purged, Idle
<1>6. Unborn
  <2>1. \A s \in Store, d \in Dataset : None # <<s, d>>
    BY NoneAssumption DEF Item
  <2>2. QED
    BY <1>1, <2>1 DEF Unborn
<1>7. Audited /\ AuditedOnce
  BY <1>1, <1>2 DEF Audited, AuditedOnce
<1>8. ErasedOnceDeleted
  BY <1>1, PrivacyAssumption DEF ErasedOnceDeleted
<1>9. QED
  BY <1>2, <1>4, <1>5, <1>6, <1>7, <1>8 DEF PrivacyInv

LEMMA NextHolds == PrivacyInv /\ [PrivacyNext]_privacyVars => PrivacyInv'
<1> SUFFICES ASSUME PrivacyInv, [PrivacyNext]_privacyVars PROVE PrivacyInv'
  OBVIOUS
<1>1. CASE UNCHANGED privacyVars
  <2>1. /\ UNCHANGED <<user, dataset, deletion, audits, job, work, writing, stored, late>>
        /\ Deletion' = Deletion
    BY <1>1 DEF privacyVars, Deletion
  <2>2. PrivacyTypeOK' /\ Unborn' /\ DoomKept
    BY <2>1, DoomStays DEF PrivacyInv, PrivacyTypeOK, Unborn
  <2>3. QED
    BY <2>1, <2>2, OutsideSteps
<1>2. ASSUME NEW w \in Worker, Process(w)
      PROVE  PrivacyInv'
  BY <1>2, TakeJobHolds, ClaimHolds, PurgeHolds, CompleteHolds, RecordHolds DEF Process
<1>3. ASSUME NEW x \in Writer, NEW item \in Item, Begin(x, item[1], item[2])
      PROVE  PrivacyInv'
  BY <1>3, BeginHolds DEF Item
<1>4. QED
  BY <1>1, <1>2, <1>3, ScheduleHolds, CreateHolds, ClaimFailsHolds, RecordHolds, FaultHolds, ExpireHolds,
     WriteHolds DEF PrivacyNext

\* The rows, stores and workers of a deletion stay consistent, whatever fails,
\* stalls or is delivered twice (privacy-deletion-processor.ts).
THEOREM PrivacyInvariant == PrivacySpec => []PrivacyInv
BY InitHolds, NextHolds, PTL DEF PrivacySpec

\* Of a deleted dataset no store holds anything but what a writer stored after
\* the deletion was requested (purge and privacy_complete).
THEOREM ErasedWhenDeleted == PrivacySpec => []ErasedOnceDeleted
<1>1. PrivacyInv => ErasedOnceDeleted
  BY DEF PrivacyInv
<1>2. QED
  BY <1>1, PrivacyInvariant, PTL

\* A deletion leaves one audit record when it is over and none before, though
\* claims may overlap (privacy_complete).
THEOREM AuditedExactlyOnce == PrivacySpec => []AuditedOnce
<1>1. PrivacyInv => AuditedOnce
  BY DEF PrivacyInv
<1>2. QED
  BY <1>1, PrivacyInvariant, PTL
=============================================================================
