-------------------------------- MODULE Datasets --------------------------------
(***************************************************************************)
(* Uploading a CSV file and profiling it: the rows of datasets,            *)
(* dataset_versions, dataset_upload_intents, idempotency_records,          *)
(* dataset_profiles and the outbox rows of ingestion jobs, the objects in  *)
(* S3, the HTTP requests that start and complete an upload, and the worker *)
(* threads that ingest what was uploaded.  One user's tenant is modelled.  *)
(*                                                                         *)
(* A step is one database transaction or one call of S3; a request keeps   *)
(* nothing locked between two of them.  BullMQ delivers a job any number   *)
(* of times and at any moment after its outbox row exists, so nothing here *)
(* depends on the queue.                                                   *)
(***************************************************************************)
EXTENDS Naturals, FiniteSets

CONSTANTS
  Dataset,    \* dataset ids
  Version,    \* one POST .../upload each; it carries fresh version and intent ids
  DatasetOf,  \* DatasetOf[v] is the dataset the upload of v names
  Completion, \* one POST .../upload/complete each
  Attempt,    \* Attempt[c] = [key |-> Idempotency-Key, version |-> that of the intent]
  Worker,     \* slots of the dataset-ingestion BullMQ workers
  NoVersion,
  NoKey

Key == {Attempt[c].key : c \in Completion}

ASSUME DatasetOfAssumption == DatasetOf \in [Version -> Dataset]

ASSUME AttemptAssumption ==
  /\ \A c \in Completion : Attempt[c].version \in Version
  /\ NoVersion \notin Version
  /\ NoKey \notin Key

VARIABLES
  dataset,     \* datasets.status
  active,      \* datasets.active_version_id
  version,     \* dataset_versions.status; its intent is the row beside it
  failure,     \* dataset_versions.failure_code
  claim,       \* dataset_versions.ingestion_claim_id
  completed,   \* versions whose upload intent has completed_at
  expired,     \* versions whose upload intent and signed URL are past expires_at
  object,      \* the object under the version's key
  profile,     \* the content the stored profile of a version describes
  idempotency, \* the version in the stored response of a completion key
  outbox,      \* outbox rows that make ingestion jobs
  initiation,  \* where the request that starts an upload stands
  completion,  \* where the request that completes an upload stands
  worker       \* what a worker thread holds between transactions

rows == <<dataset, active, version, failure, claim, completed, expired, profile,
          idempotency, outbox>>
vars == <<dataset, active, version, failure, claim, completed, expired, object,
          profile, idempotency, outbox, initiation, completion, worker>>

-----------------------------------------------------------------------------

DatasetStatus == {"pending_upload", "uploaded", "profiling", "ready", "failed",
                  "deleting"}
ProcessingStatus == {"validating", "profiling", "indexing"}
VersionStatus == {"pending_upload", "queued", "ready", "failed", "deleting"}
                   \cup ProcessingStatus
InFlight == {"queued"} \cup ProcessingStatus

\* What an object, or a profile made from it, holds: the bytes whose size, type
\* and checksum the upload declared, or other bytes.
Content == {"declared", "other"}

\* The codes of DatasetFileValidationError and of a metadata mismatch say that
\* the file is bad, DATASET_PROCESSING_FAILED that the attempts are used up.
FailureCode == {"none", "invalid file", "processing failed"}

\* The idempotency key of a completion is that of the job.
OutboxRow == [version : Version, key : Key]

InitiationState == {"new", "presigned", "granted", "refused"}
CompletionState == {"new", "checked", "intent_read", "inspected", "accepted",
                    "replayed", "reused", "refused"}

WorkerPhase == {"idle", "claimed", "inspected", "reading", "profiled", "indexing",
                "invalid", "throwing"}
Idle == [phase |-> "idle", version |-> NoVersion, key |-> NoKey, content |-> "none"]
Thread == {Idle} \cup [phase : WorkerPhase \ {"idle"}, version : Version, key : Key,
                       content : Content \cup {"none"}]

VersionsOf(d) == {v \in Version : DatasetOf[v] = d}
Exists(v) == version[v] # "none"

\* assertUploadCanStart
UploadCanStart(d) == dataset[d] \in {"pending_upload", "failed"}

\* assertObjectMatchesIntent, and the same test in process.
ObjectMatches(v) == object[v] = "declared"

\* The intent's own flag, and the domain rules Dataset.markUploaded and
\* DatasetVersion.markUploaded.
Completable(v) == /\ v \notin completed
                  /\ dataset[DatasetOf[v]] = "pending_upload"
                  /\ version[v] = "pending_upload"

\* claim: a queued version, or one whose claim carries the same job id.  Each
\* version has one job, so no delivery finds the claim of another ("busy").
Claimable(v, k) == \/ version[v] = "queued"
                   \/ version[v] \in ProcessingStatus /\ claim[v] = k

\* Seeded fault: the claim is tested, the status is not.
HoldsByClaimOnly(w, statuses) == claim[worker[w].version] = worker[w].key

\* requireClaim, for the version and job of a worker.
Holds(w, statuses) == /\ claim[worker[w].version] = worker[w].key
                      /\ version[worker[w].version] \in statuses

-----------------------------------------------------------------------------

SetDataset(d, status) == dataset' = [dataset EXCEPT ![d] = status]
SetVersion(v, status) == version' = [version EXCEPT ![v] = status]
SetInitiation(v, state) == initiation' = [initiation EXCEPT ![v] = state]
SetCompletion(c, state) == completion' = [completion EXCEPT ![c] = state]

\* CreateDatasetCommandHandler
CreateDataset(d) ==
  /\ dataset[d] = "none"
  /\ SetDataset(d, "pending_upload")
  /\ UNCHANGED <<active, version, failure, claim, completed, expired, object,
                 profile, idempotency, outbox, initiation, completion, worker>>

-----------------------------------------------------------------------------
(* Starting an upload: InitiateDatasetUploadHandler                        *)

\* The status is read without a lock, and the URL signed.
Presign(v) ==
  /\ initiation[v] = "new"
  /\ dataset[DatasetOf[v]] # "none"
  /\ SetInitiation(v, IF UploadCanStart(DatasetOf[v]) THEN "presigned" ELSE "refused")
  /\ UNCHANGED <<rows, object, completion, worker>>

\* Seeded fault: the upload is recorded without a second look at the dataset.
GrantUnchecked(v) ==
  LET d == DatasetOf[v] IN
  /\ initiation[v] = "presigned"
  /\ SetDataset(d, "pending_upload")
  /\ active' = [active EXCEPT ![d] = v]
  /\ SetVersion(v, "pending_upload")
  /\ SetInitiation(v, "granted")
  /\ UNCHANGED <<failure, claim, completed, expired, object, profile, idempotency,
                 outbox, completion, worker>>

\* Under the dataset's lock the status is tested again.  A failed dataset goes
\* back to pending_upload, and the new version becomes the active one.
Grant(v) ==
  LET d == DatasetOf[v] IN
  /\ initiation[v] = "presigned"
  /\ UploadCanStart(d)
  /\ SetDataset(d, "pending_upload")
  /\ active' = [active EXCEPT ![d] = v]
  /\ SetVersion(v, "pending_upload")
  /\ SetInitiation(v, "granted")
  /\ UNCHANGED <<failure, claim, completed, expired, object, profile, idempotency,
                 outbox, completion, worker>>

RefuseUpload(v) ==
  /\ initiation[v] = "presigned"
  /\ ~UploadCanStart(DatasetOf[v])
  /\ SetInitiation(v, "refused")
  /\ UNCHANGED <<rows, object, completion, worker>>

\* The browser puts a file under the signed URL as often as it likes.  Only the
\* type is signed, so the file need not be the declared one.
Put(v, content) ==
  /\ initiation[v] = "granted"
  /\ v \notin expired
  /\ object[v] # content
  /\ object' = [object EXCEPT ![v] = content]
  /\ UNCHANGED <<rows, initiation, completion, worker>>

Expire(v) ==
  /\ initiation[v] = "granted"
  /\ v \notin expired
  /\ expired' = expired \cup {v}
  /\ UNCHANGED <<dataset, active, version, failure, claim, completed, object,
                 profile, idempotency, outbox, initiation, completion, worker>>

-----------------------------------------------------------------------------
(* Completing an upload: CompleteDatasetUploadHandler                      *)

\* resolveExistingIdempotency.  The record and its response are committed
\* together, so a visible record is complete; its hash covers the intent.
Existing(c) == idempotency[Attempt[c].key]
Replay(c) ==
  SetCompletion(c, IF Existing(c) = Attempt[c].version THEN "replayed" ELSE "reused")

LookUpKey(c) ==
  /\ completion[c] = "new"
  /\ IF Existing(c) # NoVersion THEN Replay(c) ELSE SetCompletion(c, "checked")
  /\ UNCHANGED <<rows, object, initiation, worker>>

ReadIntent(c) ==
  LET v == Attempt[c].version IN
  /\ completion[c] = "checked"
  /\ SetCompletion(c, IF Exists(v) /\ v \notin expired THEN "intent_read" ELSE "refused")
  /\ UNCHANGED <<rows, object, initiation, worker>>

InspectUpload(c) ==
  /\ completion[c] = "intent_read"
  /\ SetCompletion(c, IF ObjectMatches(Attempt[c].version) THEN "inspected" ELSE "refused")
  /\ UNCHANGED <<rows, object, initiation, worker>>

\* The last transaction finds the key taken meanwhile ...
ReplayLate(c) ==
  /\ completion[c] = "inspected"
  /\ Existing(c) # NoVersion
  /\ Replay(c)
  /\ UNCHANGED <<rows, object, initiation, worker>>

\* ... or the upload no longer open, which takes the reservation back ...
RefuseCompletion(c) ==
  /\ completion[c] = "inspected"
  /\ Existing(c) = NoVersion
  /\ ~Completable(Attempt[c].version)
  /\ SetCompletion(c, "refused")
  /\ UNCHANGED <<rows, object, initiation, worker>>

\* Seeded fault: the response is not stored under its key.
AcceptUnrecorded(c) ==
  LET v == Attempt[c].version IN
  /\ completion[c] = "inspected"
  /\ Existing(c) = NoVersion
  /\ Completable(v)
  /\ SetDataset(DatasetOf[v], "uploaded")
  /\ active' = [active EXCEPT ![DatasetOf[v]] = v]
  /\ SetVersion(v, "queued")
  /\ completed' = completed \cup {v}
  /\ outbox' = outbox \cup {[version |-> v, key |-> Attempt[c].key]}
  /\ SetCompletion(c, "accepted")
  /\ UNCHANGED <<failure, claim, expired, object, profile, idempotency, initiation,
                 worker>>

\* ... or queues the version, with its job and the response under the key.
Accept(c) ==
  LET v == Attempt[c].version IN
  /\ completion[c] = "inspected"
  /\ Existing(c) = NoVersion
  /\ Completable(v)
  /\ SetDataset(DatasetOf[v], "uploaded")
  /\ active' = [active EXCEPT ![DatasetOf[v]] = v]
  /\ SetVersion(v, "queued")
  /\ completed' = completed \cup {v}
  /\ outbox' = outbox \cup {[version |-> v, key |-> Attempt[c].key]}
  /\ idempotency' = [idempotency EXCEPT ![Attempt[c].key] = v]
  /\ SetCompletion(c, "accepted")
  /\ UNCHANGED <<failure, claim, expired, object, profile, initiation, worker>>

-----------------------------------------------------------------------------
(* Ingestion: DatasetIngestionService.process in a worker thread           *)

Goes(w, phase) == worker' = [worker EXCEPT ![w].phase = phase]
Throws(w) == Goes(w, "throwing")

Rests(w) == worker' = [worker EXCEPT ![w] = Idle]

\* A first delivery starts the validation, a redelivery starts it over, also
\* while a slow holder of the same claim is still at work.
ClaimVersion(v, k) ==
  /\ Claimable(v, k)
  /\ SetVersion(v, "validating")
  /\ claim' = [claim EXCEPT ![v] = k]
  /\ failure' = [failure EXCEPT ![v] = "none"]
  /\ UNCHANGED <<dataset, active, completed, expired, object, profile,
                 idempotency, outbox, initiation, completion>>

Takes(w, row, phase) ==
  worker' = [worker EXCEPT ![w] = [phase |-> phase, version |-> row.version,
                                   key |-> row.key, content |-> "none"]]

Claim(w, row) ==
  /\ worker[w].phase = "idle"
  /\ row \in outbox
  /\ ClaimVersion(row.version, row.key)
  /\ Takes(w, row, "claimed")

\* The claim throws, before its commit or after it.  The processor's catch
\* block handles that as it handles an error of later work.
ClaimThrows(w, row) ==
  /\ worker[w].phase = "idle"
  /\ row \in outbox
  /\ \/ ClaimVersion(row.version, row.key)
     \/ UNCHANGED <<rows, object, initiation, completion>>
  /\ Takes(w, row, "throwing")

InspectObject(w) ==
  /\ worker[w].phase = "claimed"
  /\ Goes(w, IF ObjectMatches(worker[w].version) THEN "inspected" ELSE "invalid")
  /\ UNCHANGED <<rows, object, initiation, completion>>

\* A transaction of the worker needs its claim and an expected status.  A commit
\* may be followed by an error all the same.
Proceeds(w, phase) == Goes(w, phase) \/ Throws(w)
ClaimLost(w, statuses) ==
  /\ ~Holds(w, statuses)
  /\ Throws(w)
  /\ UNCHANGED <<rows, object, initiation, completion>>

MarkProfiling(w) ==
  LET v == worker[w].version IN
  /\ worker[w].phase = "inspected"
  /\ \/ /\ Holds(w, {"validating"})
        /\ SetVersion(v, "profiling")
        /\ SetDataset(DatasetOf[v], "profiling")
        /\ Proceeds(w, "reading")
        /\ UNCHANGED <<active, failure, claim, completed, expired, object, profile,
                       idempotency, outbox, initiation, completion>>
     \/ ClaimLost(w, {"validating"})

\* Seeded fault: the profiler does not compare the checksum of what it reads.
ProfileUnchecked(w) ==
  /\ worker[w].phase = "reading"
  /\ worker' = [worker EXCEPT ![w].phase = "profiled",
                              ![w].content = object[worker[w].version]]
  /\ UNCHANGED <<rows, object, initiation, completion>>

\* The object is read anew.  Other content, and content that is not a
\* reasonable CSV file, is a DatasetFileValidationError.
Profile(w) ==
  /\ worker[w].phase = "reading"
  /\ \/ /\ ObjectMatches(worker[w].version)
        /\ worker' = [worker EXCEPT ![w].phase = "profiled",
                                    ![w].content = object[worker[w].version]]
     \/ Goes(w, "invalid")
  /\ UNCHANGED <<rows, object, initiation, completion>>

MarkIndexing(w) ==
  /\ worker[w].phase = "profiled"
  /\ \/ /\ Holds(w, {"profiling"})
        /\ SetVersion(worker[w].version, "indexing")
        /\ Proceeds(w, "indexing")
        /\ UNCHANGED <<dataset, active, failure, claim, completed, expired, object,
                       profile, idempotency, outbox, initiation, completion>>
     \/ ClaimLost(w, {"profiling"})

\* complete: profile, version and dataset become ready in one transaction.
Complete(w) ==
  LET v == worker[w].version IN
  /\ worker[w].phase = "indexing"
  /\ \/ /\ Holds(w, {"indexing"})
        /\ profile' = [profile EXCEPT ![v] = worker[w].content]
        /\ SetVersion(v, "ready")
        /\ failure' = [failure EXCEPT ![v] = "none"]
        /\ claim' = [claim EXCEPT ![v] = NoKey]
        /\ SetDataset(DatasetOf[v], "ready")
        /\ active' = [active EXCEPT ![DatasetOf[v]] = v]
        /\ Rests(w) \/ Throws(w)
        /\ UNCHANGED <<completed, expired, object, idempotency, outbox, initiation,
                       completion>>
     \/ ClaimLost(w, {"indexing"})

\* fail, with the code of the caller.  The active version is left as it is.
FailVersion(w, code) ==
  LET v == worker[w].version IN
  /\ Holds(w, ProcessingStatus)
  /\ SetVersion(v, "failed")
  /\ failure' = [failure EXCEPT ![v] = code]
  /\ claim' = [claim EXCEPT ![v] = NoKey]
  /\ SetDataset(DatasetOf[v], "failed")
  /\ UNCHANGED <<active, completed, expired, object, profile, idempotency, outbox,
                 initiation, completion>>

\* Seeded fault: an invalid file ends the job but not its version.
RejectSilently(w) ==
  /\ worker[w].phase = "invalid"
  /\ Rests(w)
  /\ UNCHANGED <<rows, object, initiation, completion>>

\* An invalid file fails its version, and the job is not tried again.
Reject(w) ==
  /\ worker[w].phase = "invalid"
  /\ \/ FailVersion(w, "invalid file") /\ (Rests(w) \/ Throws(w))
     \/ ClaimLost(w, ProcessingStatus)

\* S3 or the database fails; a read that stops half-way is one more case.
Fails(w) ==
  /\ worker[w].phase \notin {"idle", "throwing"}
  /\ Throws(w)
  /\ UNCHANGED <<rows, object, initiation, completion>>

\* failAfterRetries when the last attempt throws; its own error is swallowed.
GiveUp(w) ==
  /\ worker[w].phase = "throwing"
  /\ \/ FailVersion(w, "processing failed")
     \/ /\ ~Holds(w, ProcessingStatus)
        /\ UNCHANGED <<rows, object, initiation, completion>>
  /\ Rests(w)

\* An attempt is left, or the failure could not be persisted.
LeaveForRetry(w) ==
  /\ worker[w].phase = "throwing"
  /\ Rests(w)
  /\ UNCHANGED <<rows, object, initiation, completion>>

\* A worker process dies with its threads.
Crash(threads) ==
  /\ threads # {}
  /\ \A w \in threads : worker[w].phase # "idle"
  /\ worker' = [w \in Worker |-> IF w \in threads THEN Idle ELSE worker[w]]
  /\ UNCHANGED <<rows, object, initiation, completion>>

-----------------------------------------------------------------------------

\* privacy_schedule_dataset and privacy_schedule_account.  The claims stay.
PrivacySchedule(reached) ==
  /\ \E d \in reached : dataset[d] \notin {"none", "deleting"}
  /\ dataset' = [d \in Dataset |-> IF d \in reached /\ dataset[d] # "none"
                                   THEN "deleting" ELSE dataset[d]]
  /\ active' = [d \in Dataset |-> IF d \in reached THEN NoVersion ELSE active[d]]
  /\ version' = [v \in Version |-> IF DatasetOf[v] \in reached /\ Exists(v)
                                   THEN "deleting" ELSE version[v]]
  /\ UNCHANGED <<failure, claim, completed, expired, object, profile, idempotency,
                 outbox, initiation, completion, worker>>

-----------------------------------------------------------------------------

Init ==
  /\ dataset = [d \in Dataset |-> "none"]
  /\ active = [d \in Dataset |-> NoVersion]
  /\ version = [v \in Version |-> "none"]
  /\ failure = [v \in Version |-> "none"]
  /\ claim = [v \in Version |-> NoKey]
  /\ completed = {}
  /\ expired = {}
  /\ object = [v \in Version |-> "absent"]
  /\ profile = [v \in Version |-> "none"]
  /\ idempotency = [k \in Key |-> NoVersion]
  /\ outbox = {}
  /\ initiation = [v \in Version |-> "new"]
  /\ completion = [c \in Completion |-> "new"]
  /\ worker = [w \in Worker |-> Idle]

Initiate(v) == Presign(v) \/ Grant(v) \/ RefuseUpload(v)

CompleteUpload(c) == \/ LookUpKey(c)
                     \/ ReadIntent(c)
                     \/ InspectUpload(c)
                     \/ ReplayLate(c)
                     \/ RefuseCompletion(c)
                     \/ Accept(c)

\* process between its claim and its return
Work(w) == \/ InspectObject(w)
           \/ MarkProfiling(w)
           \/ Profile(w)
           \/ MarkIndexing(w)
           \/ Complete(w)
           \/ Reject(w)

User == \/ \E d \in Dataset : CreateDataset(d)
        \/ \E v \in Version : Initiate(v) \/ Expire(v)
        \/ \E v \in Version, content \in Content : Put(v, content)
        \/ \E c \in Completion : CompleteUpload(c)
        \/ \E reached \in SUBSET Dataset : PrivacySchedule(reached)

Next ==
  \/ User
  \/ \E w \in Worker, row \in OutboxRow : Claim(w, row) \/ ClaimThrows(w, row)
  \/ \E w \in Worker : Work(w) \/ Fails(w) \/ GiveUp(w) \/ LeaveForRetry(w)
  \/ \E threads \in SUBSET Worker : Crash(threads)

Spec == Init /\ [][Next]_vars

-----------------------------------------------------------------------------
(* Properties *)

TypeOK ==
  /\ dataset \in [Dataset -> DatasetStatus \cup {"none"}]
  /\ active \in [Dataset -> Version \cup {NoVersion}]
  /\ version \in [Version -> VersionStatus \cup {"none"}]
  /\ failure \in [Version -> FailureCode]
  /\ claim \in [Version -> Key \cup {NoKey}]
  /\ completed \in SUBSET Version
  /\ expired \in SUBSET Version
  /\ object \in [Version -> Content \cup {"absent"}]
  /\ profile \in [Version -> Content \cup {"none"}]
  /\ idempotency \in [Key -> Version \cup {NoVersion}]
  /\ outbox \in SUBSET OutboxRow
  /\ initiation \in [Version -> InitiationState]
  /\ completion \in [Completion -> CompletionState]
  /\ worker \in [Worker -> Thread]

\* The statuses of a dataset and of its active version that go together.
Shows(status, versionStatus) ==
  \/ status \in {"pending_upload", "ready", "failed"} /\ versionStatus = status
  \/ status = "uploaded" /\ versionStatus \in {"queued", "validating"}
  \/ status = "profiling" /\ versionStatus \in ProcessingStatus

\* What a user sees of a dataset is what its active version is at, and no other
\* version of it is being ingested or ready: uploads of one dataset that
\* overlap, and late workers, never leave the two tables apart.
DatasetAgrees ==
  \A d \in Dataset :
    /\ active[d] # NoVersion =>
         DatasetOf[active[d]] = d /\ Shows(dataset[d], version[active[d]])
    /\ \A v \in VersionsOf(d) :
         version[v] \in InFlight \cup {"ready"} => active[d] = v

\* A version is ingested by one job, a key belongs to one upload, and whoever
\* was told that an upload is complete was told of the version that key queued.
IngestedOnce ==
  /\ \A x, y \in outbox : x.version = y.version \/ x.key = y.key => x = y
  /\ \A c \in Completion : completion[c] \in {"accepted", "replayed"} =>
       [version |-> Attempt[c].version, key |-> Attempt[c].key] \in outbox

\* A ready version was profiled from the declared file, although the object may
\* be put anew between every two looks at it.
ProfileTrusted ==
  \A v \in Version : version[v] = "ready" => profile[v] = "declared"

\* A version that became ready or failed changes only to be deleted, one that is
\* being deleted never again, and its profile stays, whatever late deliveries
\* and slow workers do.
SettledVersions ==
  [][\A v \in Version :
       /\ version[v] \in {"ready", "failed", "deleting"} =>
            version'[v] \in {version[v], "deleting"}
       /\ version[v] = "ready" => profile'[v] = profile[v]]_vars
=============================================================================
