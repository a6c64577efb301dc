----------------------------- MODULE Datasets_proofs -----------------------------
(***************************************************************************)
(* What Datasets promises for every set of datasets, uploads, completions  *)
(* and workers, proved with TLAPS, and what IngestionPipeline adds to it:  *)
(* no accepted upload is forgotten on its way through the queue.           *)
(***************************************************************************)
EXTENDS IngestionPipeline, TLAPS

-----------------------------------------------------------------------------
(* Type correctness *)

LEMMA KeyTyped == \A c \in Completion : Attempt[c].key \in Key
BY DEF Key

LEMMA BusyTyped ==
  ASSUME TypeOK, NEW w \in Worker, worker[w].phase # "idle"
  PROVE  /\ worker[w].version \in Version
         /\ worker[w].key \in Key
         /\ worker[w].content \in Content \cup {"none"}
         /\ worker[w] \in [phase : WorkerPhase \ {"idle"}, version : Version,
                           key : Key, content : Content \cup {"none"}]
BY DEF TypeOK, Thread, Idle

LEMMA GoesTyped ==
  ASSUME TypeOK, NEW w \in Worker, worker[w].phase # "idle",
         NEW phase \in WorkerPhase \ {"idle"}, Goes(w, phase)
  PROVE  worker' \in [Worker -> Thread]
<1> DEFINE Busy == [phase : WorkerPhase \ {"idle"}, version : Version, key : Key,
                    content : Content \cup {"none"}]
<1>1. worker[w] \in Busy
  BY BusyTyped
<1>2. [worker[w] EXCEPT !.phase = phase] \in Busy
  BY <1>1
<1>3. [worker[w] EXCEPT !.phase = phase] \in Thread
  BY <1>2 DEF Thread
<1>4. worker' = [worker EXCEPT ![w] = [worker[w] EXCEPT !.phase = phase]]
  BY DEF Goes, TypeOK
<1> HIDE DEF Busy
<1>5. QED
  BY <1>3, <1>4 DEF TypeOK

LEMMA PhasesTyped ==
  /\ {"inspected", "invalid", "throwing", "reading", "indexing", "profiled", "claimed"}
       \subseteq WorkerPhase \ {"idle"}
BY DEF WorkerPhase

LEMMA ThrowsTyped ==
  ASSUME TypeOK, NEW w \in Worker, worker[w].phase # "idle", Throws(w)
  PROVE  worker' \in [Worker -> Thread]
BY GoesTyped, PhasesTyped DEF Throws

LEMMA RestsTyped ==
  ASSUME TypeOK, NEW w \in Worker, Rests(w)
  PROVE  worker' \in [Worker -> Thread]
BY DEF TypeOK, Rests, Thread

LEMMA TakesTyped ==
  ASSUME TypeOK, NEW w \in Worker, NEW row \in OutboxRow,
         NEW phase \in WorkerPhase \ {"idle"}, Takes(w, row, phase)
  PROVE  worker' \in [Worker -> Thread]
<1>1. [phase |-> phase, version |-> row.version, key |-> row.key, content |-> "none"]
        \in Thread
  BY DEF Thread, OutboxRow
<1>2. QED
  BY <1>1 DEF Takes, TypeOK

LEMMA InitTyped == Init => TypeOK
BY DEF Init, TypeOK, FailureCode, InitiationState, CompletionState, Thread, Content

\* The tables and requests, by themselves.
RowsTyped ==
  /\ dataset \in [Dataset -> DatasetStatus \cup {"none"}]
  /\ active \in [Dataset -> Version \cup {NoVersion}]
  /\ version \in [Version -> VersionStatus \cup {"none"}]
  /\ failure \in [Version -> FailureCode]
  /\ claim \in [Version -> Key \cup {NoKey}]
  /\ completed \in SUBSET Version
  /\ expired \in SUBSET Version
  /\ object \in [Version -> Content \cup {"absent"}]
  /\ profile \in [Version -> Content \cup {"none"}]
  /\ idempotency \in [Key -> Version \cup {NoVersion}]
  /\ outbox \in SUBSET OutboxRow
  /\ initiation \in [Version -> InitiationState]
  /\ completion \in [Completion -> CompletionState]

LEMMA TypeParts ==
  ASSUME RowsTyped', worker' \in [Worker -> Thread]
  PROVE  TypeOK'
BY DEF TypeOK, RowsTyped

LEMMA ClaimVersionTyped ==
  ASSUME TypeOK, NEW v \in Version, NEW k \in Key, ClaimVersion(v, k)
  PROVE  RowsTyped'
BY DEF TypeOK, RowsTyped, ClaimVersion, SetVersion, VersionStatus, ProcessingStatus,
   FailureCode

LEMMA FailVersionTyped ==
  ASSUME TypeOK, NEW w \in Worker, worker[w].phase # "idle",
         NEW code \in FailureCode, FailVersion(w, code)
  PROVE  RowsTyped'
BY BusyTyped, DatasetOfAssumption
   DEF TypeOK, RowsTyped, FailVersion, SetVersion, SetDataset, VersionStatus,
       DatasetStatus

LEMMA NothingTyped ==
  ASSUME TypeOK, UNCHANGED <<rows, object, initiation, completion>>
  PROVE  RowsTyped'
BY DEF TypeOK, RowsTyped, rows

LEMMA UserTyped ==
  ASSUME TypeOK, User
  PROVE  RowsTyped' /\ UNCHANGED worker
<1> USE DatasetOfAssumption, AttemptAssumption, KeyTyped
      DEF TypeOK, RowsTyped, rows, SetDataset, SetVersion, SetInitiation, SetCompletion,
      DatasetStatus, VersionStatus, InitiationState, CompletionState
<1>1. ASSUME NEW d \in Dataset, CreateDataset(d) PROVE RowsTyped' /\ UNCHANGED worker
  BY <1>1 DEF CreateDataset
<1>2. ASSUME NEW v \in Version, Initiate(v) PROVE RowsTyped' /\ UNCHANGED worker
  <2>1. CASE Presign(v)
    BY <2>1 DEF Presign
  <2>2. CASE Grant(v)
    BY <2>2 DEF Grant
  <2>3. CASE RefuseUpload(v)
    BY <2>3 DEF RefuseUpload
  <2>4. QED
    BY <1>2, <2>1, <2>2, <2>3 DEF Initiate
<1>3. ASSUME NEW v \in Version, Expire(v) PROVE RowsTyped' /\ UNCHANGED worker
  BY <1>3 DEF Expire
<1>4. ASSUME NEW v \in Version, NEW content \in Content, Put(v, content)
      PROVE RowsTyped' /\ UNCHANGED worker
  BY <1>4 DEF Put
<1>5. ASSUME NEW c \in Completion, CompleteUpload(c)
      PROVE RowsTyped' /\ UNCHANGED worker
  <2>1. CASE LookUpKey(c)
    BY <2>1 DEF LookUpKey, Replay
  <2>2. CASE ReadIntent(c)
    BY <2>2 DEF ReadIntent
  <2>3. CASE InspectUpload(c)
    BY <2>3 DEF InspectUpload
  <2>4. CASE ReplayLate(c)
    BY <2>4 DEF ReplayLate, Replay
  <2>5. CASE RefuseCompletion(c)
    BY <2>5 DEF RefuseCompletion
  <2>6. CASE Accept(c)
    BY <2>6 DEF Accept, OutboxRow
  <2>7. QED
    BY <1>5, <2>1, <2>2, <2>3, <2>4, <2>5, <2>6 DEF CompleteUpload
<1>6. ASSUME NEW reached \in SUBSET Dataset, PrivacySchedule(reached)
      PROVE RowsTyped' /\ UNCHANGED worker
  BY <1>6 DEF PrivacySchedule
<1>7. QED
  BY <1>1, <1>2, <1>3, <1>4, <1>5, <1>6 DEF User

LEMMA WorkTyped ==
  ASSUME TypeOK, NEW w \in Worker, Work(w)
  PROVE  TypeOK'
<1>1. worker[w].phase # "idle"
  BY DEF Work, InspectObject, MarkProfiling, Profile, MarkIndexing, Complete, Reject
<1>2. worker[w].version \in Version
  BY <1>1, BusyTyped
<1>3. CASE InspectObject(w)
  BY <1>1, <1>3, GoesTyped, PhasesTyped, NothingTyped, TypeParts DEF InspectObject
<1>4. ASSUME NEW statuses, ClaimLost(w, statuses) PROVE TypeOK'
  BY <1>1, <1>4, ThrowsTyped, NothingTyped, TypeParts DEF ClaimLost
<1>5. CASE MarkProfiling(w)
  <2>1. ASSUME Holds(w, {"validating"}), ~ClaimLost(w, {"validating"}) PROVE TypeOK'
    <3>1. worker' \in [Worker -> Thread]
      BY <1>1, <1>5, <2>1, GoesTyped, ThrowsTyped, PhasesTyped DEF MarkProfiling, Proceeds
    <3>2. RowsTyped'
      BY <1>2, <1>5, <2>1, DatasetOfAssumption DEF MarkProfiling, TypeOK, RowsTyped,
         SetVersion, SetDataset, VersionStatus, ProcessingStatus, DatasetStatus
    <3>3. QED
      BY <3>1, <3>2, TypeParts
  <2>2. QED
    BY <1>4, <1>5, <2>1 DEF MarkProfiling
<1>6. CASE Profile(w)
  <2>1. RowsTyped'
    BY <1>6, NothingTyped DEF Profile
  <2>2. ASSUME ObjectMatches(worker[w].version),
               worker' = [worker EXCEPT ![w].phase = "profiled",
                                        ![w].content = object[worker[w].version]]
        PROVE  worker' \in [Worker -> Thread]
    <3> DEFINE Busy == [phase : WorkerPhase \ {"idle"}, version : Version, key : Key,
                        content : Content \cup {"none"}]
               profiled == [[worker[w] EXCEPT !.phase = "profiled"]
                              EXCEPT !.content = object[worker[w].version]]
    <3>1. worker[w] \in Busy
      BY <1>1, BusyTyped
    <3>2. profiled \in Busy
      BY <2>2, <3>1, PhasesTyped DEF ObjectMatches, Content
    <3>3. profiled \in Thread
      BY <3>2 DEF Thread
    <3>4. worker' = [worker EXCEPT ![w] = profiled]
      BY <2>2 DEF TypeOK
    <3> HIDE DEF Busy, profiled
    <3>5. QED
      BY <3>3, <3>4 DEF TypeOK
  <2>3. worker' \in [Worker -> Thread]
    BY <1>1, <1>6, <2>2, GoesTyped, PhasesTyped DEF Profile
  <2>4. QED
    BY <2>1, <2>3, TypeParts
<1>7. CASE MarkIndexing(w)
  <2>1. ASSUME Holds(w, {"profiling"}), ~ClaimLost(w, {"profiling"}) PROVE TypeOK'
    <3>1. worker' \in [Worker -> Thread]
      BY <1>1, <1>7, <2>1, GoesTyped, ThrowsTyped, PhasesTyped DEF MarkIndexing, Proceeds
    <3>2. RowsTyped'
      BY <1>2, <1>7, <2>1 DEF MarkIndexing, TypeOK, RowsTyped, SetVersion,
         VersionStatus, ProcessingStatus
    <3>3. QED
      BY <3>1, <3>2, TypeParts
  <2>2. QED
    BY <1>4, <1>7, <2>1 DEF MarkIndexing
<1>8. CASE Complete(w)
  <2>1. ASSUME Holds(w, {"indexing"}), ~ClaimLost(w, {"indexing"}) PROVE TypeOK'
    <3>1. worker' \in [Worker -> Thread]
      BY <1>1, <1>8, <2>1, RestsTyped, ThrowsTyped DEF Complete
    <3>2. RowsTyped'
      <4>1. worker[w].content \in Content \cup {"none"}
        BY <1>1, BusyTyped
      <4>2. DatasetOf[worker[w].version] \in Dataset
        BY <1>2, DatasetOfAssumption
      <4>3. QED
        BY <1>2, <1>8, <2>1, <4>1, <4>2, ZenonT(30) DEF Complete, TypeOK, RowsTyped,
           SetVersion, SetDataset, VersionStatus, DatasetStatus, FailureCode
    <3>3. QED
      BY <3>1, <3>2, TypeParts
  <2>2. QED
    BY <1>4, <1>8, <2>1 DEF Complete
<1>9. CASE Reject(w)
  <2>1. "invalid file" \in FailureCode
    BY DEF FailureCode
  <2>2. QED
    BY <1>1, <1>4, <1>9, <2>1, FailVersionTyped, RestsTyped, ThrowsTyped, TypeParts
       DEF Reject
<1>10. QED
  BY <1>3, <1>5, <1>6, <1>7, <1>8, <1>9 DEF Work

LEMMA TypeKept ==
  ASSUME TypeOK, [Next]_vars
  PROVE  TypeOK'
<1>1. CASE User
  <2>1. RowsTyped' /\ worker' = worker
    BY <1>1, UserTyped
  <2>2. QED
    BY <2>1, TypeParts DEF TypeOK
<1>2. ASSUME NEW w \in Worker, NEW row \in OutboxRow, Claim(w, row) PROVE TypeOK'
  BY <1>2, ClaimVersionTyped, TakesTyped, PhasesTyped, TypeParts DEF Claim, OutboxRow
<1>3. ASSUME NEW w \in Worker, NEW row \in OutboxRow, ClaimThrows(w, row) PROVE TypeOK'
  BY <1>3, ClaimVersionTyped, NothingTyped, TakesTyped, PhasesTyped, TypeParts
     DEF ClaimThrows, OutboxRow
<1>4. ASSUME NEW w \in Worker, Work(w) PROVE TypeOK'
  BY <1>4, WorkTyped
<1>5. ASSUME NEW w \in Worker, Fails(w) PROVE TypeOK'
  BY <1>5, NothingTyped, ThrowsTyped, TypeParts DEF Fails
<1>6. ASSUME NEW w \in Worker, GiveUp(w) PROVE TypeOK'
  <2>1. "processing failed" \in FailureCode
    BY DEF FailureCode
  <2>2. QED
    BY <1>6, <2>1, FailVersionTyped, NothingTyped, RestsTyped, TypeParts DEF GiveUp
<1>7. ASSUME NEW w \in Worker, LeaveForRetry(w) PROVE TypeOK'
  BY <1>7, NothingTyped, RestsTyped, TypeParts DEF LeaveForRetry
<1>8. ASSUME NEW threads \in SUBSET Worker, Crash(threads) PROVE TypeOK'
  <2>1. worker' \in [Worker -> Thread]
    BY <1>8 DEF Crash, TypeOK, Thread
  <2>2. QED
    BY <1>8, <2>1, NothingTyped, TypeParts DEF Crash
<1>9. CASE UNCHANGED vars
  BY <1>9 DEF vars, TypeOK
<1>10. QED
  BY <1>1, <1>2, <1>3, <1>4, <1>5, <1>6, <1>7, <1>8, <1>9 DEF Next

\* Every variable keeps its type; an idle thread holds nothing of a version.
THEOREM DatasetsTyped == Spec => []TypeOK
<1>1. QED
  BY InitTyped, TypeKept, PTL DEF Spec

-----------------------------------------------------------------------------
(* The two tables of a dataset agree *)

LEMMA DatasetOfTyped == \A v \in Version : DatasetOf[v] \in Dataset
BY DatasetOfAssumption

\* A version of which the dataset may speak becomes, or stays, its active one.
LEMMA AgreesMoved ==
  ASSUME TypeOK, DatasetAgrees, NEW v \in Version, NEW status, NEW versionStatus,
         \A u \in VersionsOf(DatasetOf[v]) \ {v} : version[u] \notin InFlight \cup {"ready"},
         Shows(status, versionStatus),
         dataset' = [dataset EXCEPT ![DatasetOf[v]] = status],
         active' = [active EXCEPT ![DatasetOf[v]] = v],
         version' = [version EXCEPT ![v] = versionStatus]
  PROVE  DatasetAgrees'
<1> SUFFICES ASSUME NEW d \in Dataset
             PROVE  /\ active'[d] # NoVersion =>
                         DatasetOf[active'[d]] = d /\ Shows(dataset'[d], version'[active'[d]])
                    /\ \A u \in VersionsOf(d) :
                         version'[u] \in InFlight \cup {"ready"} => active'[d] = u
  BY DEF DatasetAgrees, VersionsOf
<1>1. DatasetOf[v] \in Dataset
  BY DatasetOfTyped
<1>2. CASE d = DatasetOf[v]
  BY <1>1, <1>2 DEF TypeOK, VersionsOf
<1>3. CASE d # DatasetOf[v]
  <2>1. dataset'[d] = dataset[d] /\ active'[d] = active[d]
    BY <1>1, <1>3 DEF TypeOK
  <2>2. \A u \in VersionsOf(d) : u # v /\ version'[u] = version[u]
    BY <1>3 DEF TypeOK, VersionsOf
  <2>3. active[d] # NoVersion => active[d] \in VersionsOf(d)
    BY DEF DatasetAgrees, VersionsOf, TypeOK
  <2>4. QED
    BY <2>1, <2>2, <2>3 DEF DatasetAgrees
<1>4. QED
  BY <1>2, <1>3

\* What is in flight is active, and alone.
LEMMA InFlightActive ==
  ASSUME TypeOK, DatasetAgrees, NEW v \in Version, version[v] \in InFlight
  PROVE  /\ active[DatasetOf[v]] = v
         /\ active = [active EXCEPT ![DatasetOf[v]] = v]
         /\ Shows(dataset[DatasetOf[v]], version[v])
         /\ \A u \in VersionsOf(DatasetOf[v]) \ {v} :
              version[u] \notin InFlight \cup {"ready"}
<1>1. DatasetOf[v] \in Dataset /\ v \in VersionsOf(DatasetOf[v])
  BY DatasetOfTyped DEF VersionsOf
<1>2. active[DatasetOf[v]] = v
  BY <1>1 DEF DatasetAgrees
<1>3. v # NoVersion
  BY AttemptAssumption
<1>4. QED
  BY <1>1, <1>2, <1>3 DEF DatasetAgrees, TypeOK

\* While an upload may start or be completed, nothing is in flight or ready.
LEMMA OpenQuiet ==
  ASSUME TypeOK, DatasetAgrees, NEW d \in Dataset, UploadCanStart(d)
  PROVE  \A u \in VersionsOf(d) : version[u] \notin InFlight \cup {"ready"}
BY AttemptAssumption DEF DatasetAgrees, UploadCanStart, VersionsOf, Shows, InFlight,
   ProcessingStatus

LEMMA AgreesUnchanged ==
  ASSUME DatasetAgrees, UNCHANGED <<dataset, active, version>>
  PROVE  DatasetAgrees'
BY DEF DatasetAgrees

LEMMA ClaimVersionAgrees ==
  ASSUME TypeOK, DatasetAgrees, NEW v \in Version, NEW k \in Key, ClaimVersion(v, k)
  PROVE  DatasetAgrees'
<1>1. version[v] \in InFlight
  BY DEF ClaimVersion, Claimable, InFlight
<1>2. dataset' = [dataset EXCEPT ![DatasetOf[v]] = dataset[DatasetOf[v]]]
  BY DatasetOfTyped DEF ClaimVersion, TypeOK
<1>3. Shows(dataset[DatasetOf[v]], "validating")
  BY <1>1, InFlightActive DEF Shows, InFlight, ProcessingStatus
<1>4. active' = [active EXCEPT ![DatasetOf[v]] = v]
  BY <1>1, InFlightActive DEF ClaimVersion
<1>5. version' = [version EXCEPT ![v] = "validating"]
  BY DEF ClaimVersion, SetVersion
<1>6. QED
  BY <1>1, <1>2, <1>3, <1>4, <1>5, InFlightActive, AgreesMoved

LEMMA FailVersionAgrees ==
  ASSUME TypeOK, DatasetAgrees, NEW w \in Worker, worker[w].phase # "idle",
         NEW code, FailVersion(w, code)
  PROVE  DatasetAgrees'
<1> DEFINE v == worker[w].version
<1>1. v \in Version
  BY BusyTyped
<1>2. version[v] \in InFlight
  BY DEF FailVersion, Holds, InFlight
<1>3. Shows("failed", "failed")
  BY DEF Shows
<1>4. /\ dataset' = [dataset EXCEPT ![DatasetOf[v]] = "failed"]
      /\ version' = [version EXCEPT ![v] = "failed"]
      /\ active' = active
  BY DEF FailVersion, SetDataset, SetVersion
<1>5. QED
  BY <1>1, <1>2, <1>3, <1>4, InFlightActive, AgreesMoved

LEMMA UserAgrees ==
  ASSUME TypeOK, DatasetAgrees, User
  PROVE  DatasetAgrees'
<1>1. ASSUME NEW d \in Dataset, CreateDataset(d) PROVE DatasetAgrees'
  <2>1. active[d] = NoVersion
    BY <1>1 DEF CreateDataset, DatasetAgrees, Shows
  <2>2. QED
    BY <1>1, <2>1 DEF CreateDataset, SetDataset, DatasetAgrees, TypeOK, VersionsOf
<1>2. ASSUME NEW v \in Version, Grant(v) PROVE DatasetAgrees'
  <2>1. \A u \in VersionsOf(DatasetOf[v]) : version[u] \notin InFlight \cup {"ready"}
    BY <1>2, OpenQuiet, DatasetOfTyped DEF Grant
  <2>2. Shows("pending_upload", "pending_upload")
    BY DEF Shows
  <2>3. QED
    BY <1>2, <2>1, <2>2, AgreesMoved DEF Grant, SetDataset, SetVersion
<1>3. ASSUME NEW c \in Completion, Accept(c) PROVE DatasetAgrees'
  <2> DEFINE v == Attempt[c].version
  <2>1. v \in Version
    BY AttemptAssumption
  <2>2. UploadCanStart(DatasetOf[v])
    BY <1>3 DEF Accept, Completable, UploadCanStart
  <2>3. \A u \in VersionsOf(DatasetOf[v]) : version[u] \notin InFlight \cup {"ready"}
    BY <2>1, <2>2, OpenQuiet, DatasetOfTyped
  <2>4. Shows("uploaded", "queued")
    BY DEF Shows
  <2>5. QED
    BY <1>3, <2>1, <2>3, <2>4, AgreesMoved DEF Accept, SetDataset, SetVersion
<1>4. ASSUME NEW reached \in SUBSET Dataset, PrivacySchedule(reached)
      PROVE DatasetAgrees'
  <2> SUFFICES ASSUME NEW d \in Dataset
               PROVE  /\ active'[d] # NoVersion =>
                           DatasetOf[active'[d]] = d /\ Shows(dataset'[d], version'[active'[d]])
                      /\ \A u \in VersionsOf(d) :
                           version'[u] \in InFlight \cup {"ready"} => active'[d] = u
    BY DEF DatasetAgrees, VersionsOf
  <2>1. CASE d \in reached
    BY <1>4, <2>1 DEF PrivacySchedule, VersionsOf, Exists, InFlight, ProcessingStatus
  <2>2. CASE d \notin reached
    <3>1. dataset'[d] = dataset[d] /\ active'[d] = active[d]
      BY <1>4, <2>2 DEF PrivacySchedule
    <3>2. \A u \in VersionsOf(d) : version'[u] = version[u]
      BY <1>4, <2>2 DEF PrivacySchedule, VersionsOf
    <3>3. active[d] # NoVersion => active[d] \in VersionsOf(d)
      BY DEF DatasetAgrees, VersionsOf, TypeOK
    <3>4. QED
      BY <3>1, <3>2, <3>3 DEF DatasetAgrees
  <2>3. QED
    BY <2>1, <2>2
<1>5. ASSUME UNCHANGED <<dataset, active, version>> PROVE DatasetAgrees'
  BY <1>5, AgreesUnchanged
<1>6. QED
  BY <1>1, <1>2, <1>3, <1>4, <1>5 DEF User, Initiate, CompleteUpload, Presign,
     RefuseUpload, Expire, Put, LookUpKey, ReadIntent, InspectUpload, ReplayLate,
     RefuseCompletion, rows

LEMMA WorkAgrees ==
  ASSUME TypeOK, DatasetAgrees, NEW w \in Worker, Work(w)
  PROVE  DatasetAgrees'
<1> DEFINE v == worker[w].version
<1>1. worker[w].phase # "idle"
  BY DEF Work, InspectObject, MarkProfiling, Profile, MarkIndexing, Complete, Reject
<1>2. v \in Version
  BY <1>1, BusyTyped
<1>3. ASSUME NEW statuses, ClaimLost(w, statuses) PROVE DatasetAgrees'
  BY <1>3, AgreesUnchanged DEF ClaimLost, rows
<1>4. CASE InspectObject(w) \/ Profile(w)
  BY <1>4, AgreesUnchanged DEF InspectObject, Profile, rows
<1>5. CASE MarkProfiling(w)
  <2>1. ASSUME Holds(w, {"validating"}), ~ClaimLost(w, {"validating"})
        PROVE  DatasetAgrees'
    <3>1. version[v] \in InFlight
      BY <2>1 DEF Holds, InFlight, ProcessingStatus
    <3>2. Shows("profiling", "profiling")
      BY DEF Shows, ProcessingStatus
    <3>3. /\ dataset' = [dataset EXCEPT ![DatasetOf[v]] = "profiling"]
          /\ version' = [version EXCEPT ![v] = "profiling"]
          /\ active' = active
      BY <1>5, <2>1 DEF MarkProfiling, SetDataset, SetVersion
    <3>4. QED
      BY <1>2, <3>1, <3>2, <3>3, InFlightActive, AgreesMoved
  <2>2. QED
    BY <1>3, <1>5, <2>1 DEF MarkProfiling
<1>6. CASE MarkIndexing(w)
  <2>1. ASSUME Holds(w, {"profiling"}), ~ClaimLost(w, {"profiling"})
        PROVE  DatasetAgrees'
    <3>1. version[v] \in InFlight /\ version[v] = "profiling"
      BY <2>1 DEF Holds, InFlight, ProcessingStatus
    <3>2. dataset[DatasetOf[v]] = "profiling"
      BY <1>2, <3>1, InFlightActive DEF Shows
    <3>3. Shows("profiling", "indexing")
      BY DEF Shows, ProcessingStatus
    <3>4. /\ dataset' = [dataset EXCEPT ![DatasetOf[v]] = "profiling"]
          /\ version' = [version EXCEPT ![v] = "indexing"]
          /\ active' = active
      BY <1>2, <1>6, <2>1, <3>2, DatasetOfTyped DEF MarkIndexing, SetVersion, TypeOK
    <3>5. QED
      BY <1>2, <3>1, <3>3, <3>4, InFlightActive, AgreesMoved
  <2>2. QED
    BY <1>3, <1>6, <2>1 DEF MarkIndexing
<1>7. CASE Complete(w)
  <2>1. ASSUME Holds(w, {"indexing"}), ~ClaimLost(w, {"indexing"})
        PROVE  DatasetAgrees'
    <3>1. version[v] \in InFlight
      BY <2>1 DEF Holds, InFlight, ProcessingStatus
    <3>2. Shows("ready", "ready")
      BY DEF Shows
    <3>3. /\ dataset' = [dataset EXCEPT ![DatasetOf[v]] = "ready"]
          /\ version' = [version EXCEPT ![v] = "ready"]
          /\ active' = [active EXCEPT ![DatasetOf[v]] = v]
      BY <1>7, <2>1 DEF Complete, SetDataset, SetVersion
    <3>4. QED
      BY <1>2, <3>1, <3>2, <3>3, InFlightActive, AgreesMoved
  <2>2. QED
    BY <1>3, <1>7, <2>1 DEF Complete
<1>8. CASE Reject(w)
  BY <1>1, <1>3, <1>8, FailVersionAgrees DEF Reject
<1>9. QED
  BY <1>4, <1>5, <1>6, <1>7, <1>8 DEF Work

LEMMA AgreesKept ==
  ASSUME TypeOK, DatasetAgrees, [Next]_vars
  PROVE  DatasetAgrees'
<1>1. CASE User
  BY <1>1, UserAgrees
<1>2. ASSUME UNCHANGED <<dataset, active, version>> PROVE DatasetAgrees'
  BY <1>2, AgreesUnchanged
<1>3. ASSUME NEW w \in Worker, NEW row \in OutboxRow,
             Claim(w, row) \/ ClaimThrows(w, row)
      PROVE  DatasetAgrees'
  BY <1>2, <1>3, ClaimVersionAgrees DEF Claim, ClaimThrows, OutboxRow, rows
<1>4. ASSUME NEW w \in Worker, Work(w) PROVE DatasetAgrees'
  BY <1>4, WorkAgrees
<1>5. ASSUME NEW w \in Worker, GiveUp(w) PROVE DatasetAgrees'
  BY <1>2, <1>5, FailVersionAgrees DEF GiveUp, rows
<1>6. QED
  BY <1>1, <1>2, <1>3, <1>4, <1>5 DEF Next, Fails, LeaveForRetry, Crash, rows, vars

\* Overlapping uploads and late workers never leave a dataset and its versions
\* apart: at most one version is in flight or ready, and it is the active one.
THEOREM DatasetsAgree == Spec => []DatasetAgrees
<1>1. Init => DatasetAgrees
  BY DEF Init, DatasetAgrees, InFlight, ProcessingStatus, VersionsOf
<1>2. QED
  BY <1>1, InitTyped, TypeKept, AgreesKept, PTL DEF Spec

-----------------------------------------------------------------------------
(* One job for an upload, one upload for a key *)

\* What the completions, their records and the outbox know of each other.
Recorded ==
  /\ \A row \in outbox :
       row.version \in completed /\ idempotency[row.key] = row.version
  /\ \A x, y \in outbox : x.version = y.version => x = y
  /\ \A k \in Key : idempotency[k] # NoVersion =>
       [version |-> idempotency[k], key |-> k] \in outbox
  /\ \A c \in Completion : completion[c] \in {"accepted", "replayed"} =>
       idempotency[Attempt[c].key] = Attempt[c].version

LEMMA RecordedUnchanged ==
  ASSUME Recorded, UNCHANGED <<completed, idempotency, outbox, completion>>
  PROVE  Recorded'
BY DEF Recorded

\* A completion that is not answered from a record leaves the records alone.
LEMMA RecordedAside ==
  ASSUME TypeOK, Recorded, NEW c \in Completion,
         NEW state \in CompletionState \ {"accepted", "replayed"},
         SetCompletion(c, state), UNCHANGED <<completed, idempotency, outbox>>
  PROVE  Recorded'
BY DEF Recorded, SetCompletion, TypeOK

LEMMA ReplayRecorded ==
  ASSUME TypeOK, Recorded, NEW c \in Completion, Replay(c),
         UNCHANGED <<completed, idempotency, outbox>>
  PROVE  Recorded'
<1>1. CASE Existing(c) = Attempt[c].version
  BY <1>1 DEF Recorded, Replay, SetCompletion, Existing, TypeOK
<1>2. CASE Existing(c) # Attempt[c].version
  <2>1. SetCompletion(c, "reused")
    BY <1>2 DEF Replay
  <2>2. QED
    BY <2>1, RecordedAside DEF CompletionState
<1>3. QED
  BY <1>1, <1>2

LEMMA AcceptRecorded ==
  ASSUME TypeOK, Recorded, NEW c \in Completion, Accept(c)
  PROVE  Recorded'
<1> DEFINE v == Attempt[c].version
           k == Attempt[c].key
           new == [version |-> v, key |-> k]
<1>1. v \in Version /\ k \in Key /\ v # NoVersion
  BY AttemptAssumption, KeyTyped
<1>2. /\ completed' = completed \cup {v}
      /\ outbox' = outbox \cup {new}
      /\ idempotency' = [idempotency EXCEPT ![k] = v]
      /\ completion' = [completion EXCEPT ![c] = "accepted"]
      /\ v \notin completed
      /\ idempotency[k] = NoVersion
  BY DEF Accept, Completable, Existing, SetCompletion
<1>3. \A row \in outbox : row.version # v /\ row.key # k /\ row.key \in Key
  <2> TAKE row \in outbox
  <2>1. row.version \in Version /\ row.key \in Key
    BY DEF TypeOK, OutboxRow
  <2>2. row.version \in completed /\ idempotency[row.key] = row.version
    BY DEF Recorded
  <2> HIDE DEF v, k, new
  <2>3. QED
    BY <1>2, <2>1, <2>2, AttemptAssumption
<1>4. \A row \in outbox' :
        row.version \in completed' /\ idempotency'[row.key] = row.version
  BY <1>1, <1>2, <1>3 DEF Recorded, TypeOK
<1>5. \A x, y \in outbox' : x.version = y.version => x = y
  BY <1>2, <1>3 DEF Recorded
<1>6. \A l \in Key : idempotency'[l] # NoVersion =>
        [version |-> idempotency'[l], key |-> l] \in outbox'
  BY <1>1, <1>2 DEF Recorded, TypeOK
<1>7. \A b \in Completion : completion'[b] \in {"accepted", "replayed"} =>
        idempotency'[Attempt[b].key] = Attempt[b].version
  <2> TAKE b \in Completion
  <2>1. CASE b = c
    BY <1>1, <1>2, <2>1 DEF TypeOK
  <2>2. CASE b # c
    <3>1. completion'[b] = completion[b]
      BY <1>2, <2>2 DEF TypeOK
    <3>2. Attempt[b].version \in Version /\ Attempt[b].key \in Key
      BY AttemptAssumption, KeyTyped
    <3>3. QED
      BY <1>1, <1>2, <3>1, <3>2, AttemptAssumption DEF Recorded, TypeOK
  <2>3. QED
    BY <2>1, <2>2
<1> HIDE DEF v, k, new
<1>8. QED
  BY <1>4, <1>5, <1>6, <1>7 DEF Recorded

LEMMA RecordedKept ==
  ASSUME TypeOK, Recorded, [Next]_vars
  PROVE  Recorded'
<1>1. ASSUME NEW c \in Completion, CompleteUpload(c) PROVE Recorded'
  <2> USE DEF CompletionState, rows
  <2>1. CASE LookUpKey(c)
    BY <2>1, ReplayRecorded, RecordedAside DEF LookUpKey
  <2>2. CASE ReadIntent(c)
    BY <2>2, RecordedAside DEF ReadIntent
  <2>3. CASE InspectUpload(c)
    BY <2>3, RecordedAside DEF InspectUpload
  <2>4. CASE ReplayLate(c)
    BY <2>4, ReplayRecorded DEF ReplayLate
  <2>5. CASE RefuseCompletion(c)
    BY <2>5, RecordedAside DEF RefuseCompletion
  <2>6. CASE Accept(c)
    BY <2>6, AcceptRecorded
  <2>7. QED
    BY <1>1, <2>1, <2>2, <2>3, <2>4, <2>5, <2>6 DEF CompleteUpload
<1>2. CASE UNCHANGED <<completed, idempotency, outbox, completion>>
  BY <1>2, RecordedUnchanged
<1>3. CASE User
  BY <1>1, <1>2, <1>3 DEF User, CreateDataset, Initiate, Presign, Grant, RefuseUpload,
     Expire, Put, PrivacySchedule, rows
<1>4. ASSUME NEW w \in Worker, Work(w) PROVE Recorded'
  BY <1>2, <1>4 DEF Work, InspectObject, MarkProfiling, Profile, MarkIndexing, Complete,
     Reject, FailVersion, ClaimLost, rows
<1>5. QED
  BY <1>2, <1>3, <1>4 DEF Next, Claim, ClaimThrows, ClaimVersion, Fails, GiveUp,
     FailVersion, LeaveForRetry, Crash, rows, vars

\* An upload gets one ingestion job however often and under however many keys
\* its completion is sent, and equal keys are told of equal versions.
THEOREM UploadIngestedOnce == Spec => []IngestedOnce
<1>1. Init => Recorded
  BY DEF Init, Recorded
<1>2. TypeOK /\ Recorded => IngestedOnce
  <2> SUFFICES ASSUME TypeOK, Recorded PROVE IngestedOnce
    OBVIOUS
  <2>1. \A x, y \in outbox : x.version = y.version \/ x.key = y.key => x = y
    BY DEF Recorded
  <2>2. \A c \in Completion : completion[c] \in {"accepted", "replayed"} =>
          [version |-> Attempt[c].version, key |-> Attempt[c].key] \in outbox
    BY AttemptAssumption, KeyTyped DEF Recorded
  <2>3. QED
    BY <2>1, <2>2 DEF IngestedOnce
<1>3. QED
  BY <1>1, <1>2, InitTyped, TypeKept, RecordedKept, PTL DEF Spec

-----------------------------------------------------------------------------
(* Profiles, and versions that are settled *)

\* A worker that holds a profile made it from the declared content.
Profiled ==
  /\ \A w \in Worker :
       worker[w].phase \in {"profiled", "indexing"} => worker[w].content = "declared"
  /\ ProfileTrusted

\* The version a worker's transaction may change is neither settled nor deleted.
Unsettled(v) == version[v] \notin {"ready", "failed", "deleting"}

\* A version exists from the moment its upload was granted.
Granted == \A v \in Version : version[v] # "none" => initiation[v] = "granted"

\* What a step may do to a version, and to the profile stored for it.
VersionStep ==
  \A v \in Version :
    /\ version'[v] # version[v] =>
         Unsettled(v) \/ (version[v] # "none" /\ version'[v] = "deleting")
    /\ version'[v] # version[v] /\ version'[v] = "ready" => profile'[v] = "declared"
    /\ profile'[v] # profile[v] => Unsettled(v) /\ version'[v] = "ready"

LEMMA SetVersionStep ==
  ASSUME TypeOK, NEW v \in Version, NEW status \in VersionStatus \ {"ready"},
         Unsettled(v), SetVersion(v, status), UNCHANGED profile
  PROVE  VersionStep
<1>1. version' = [version EXCEPT ![v] = status] /\ version \in [Version -> VersionStatus \cup {"none"}]
  BY DEF SetVersion, TypeOK
<1>2. \A u \in Version : version'[u] # version[u] => u = v /\ version'[u] = status
  BY <1>1
<1>3. QED
  BY <1>2 DEF VersionStep

LEMMA QuietStep ==
  ASSUME UNCHANGED <<version, profile>>
  PROVE  VersionStep
BY DEF VersionStep

LEMMA FailVersionStep ==
  ASSUME TypeOK, NEW w \in Worker, worker[w].phase # "idle", NEW code, FailVersion(w, code)
  PROVE  VersionStep
<1>1. worker[w].version \in Version
  BY BusyTyped
<1>2. Unsettled(worker[w].version)
  BY DEF FailVersion, Holds, ProcessingStatus, Unsettled
<1>3. "failed" \in VersionStatus \ {"ready"}
  BY DEF VersionStatus
<1>4. QED
  BY <1>1, <1>2, <1>3, SetVersionStep DEF FailVersion

LEMMA WorkStep ==
  ASSUME TypeOK, Profiled, NEW w \in Worker, Work(w)
  PROVE  VersionStep
<1> DEFINE v == worker[w].version
<1>1. worker[w].phase # "idle"
  BY DEF Work, InspectObject, MarkProfiling, Profile, MarkIndexing, Complete, Reject
<1>2. v \in Version
  BY <1>1, BusyTyped
<1>3. ASSUME NEW statuses, ClaimLost(w, statuses) PROVE VersionStep
  BY <1>3, QuietStep DEF ClaimLost, rows
<1>4. {"profiling", "indexing"} \subseteq VersionStatus \ {"ready"}
  BY DEF VersionStatus, ProcessingStatus
<1>5. CASE MarkProfiling(w)
  BY <1>2, <1>3, <1>4, <1>5, SetVersionStep DEF MarkProfiling, Holds, Unsettled
<1>6. CASE MarkIndexing(w)
  BY <1>2, <1>3, <1>4, <1>6, SetVersionStep DEF MarkIndexing, Holds, Unsettled
<1>7. CASE Complete(w)
  <2>1. ASSUME Holds(w, {"indexing"}), ~ClaimLost(w, {"indexing"}) PROVE VersionStep
    <3>1. worker[w].content = "declared"
      BY <1>7 DEF Complete, Profiled
    <3>2. /\ version' = [version EXCEPT ![v] = "ready"]
          /\ profile' = [profile EXCEPT ![v] = "declared"]
      BY <1>7, <2>1, <3>1 DEF Complete, SetVersion
    <3>3. Unsettled(v)
      BY <2>1 DEF Holds, Unsettled
    <3>4. /\ version \in [Version -> VersionStatus \cup {"none"}]
          /\ profile \in [Version -> Content \cup {"none"}]
      BY DEF TypeOK
    <3> HIDE DEF v
    <3>5. \A u \in Version : /\ u # v => version'[u] = version[u] /\ profile'[u] = profile[u]
                             /\ u = v => version'[u] = "ready" /\ profile'[u] = "declared"
      BY <3>2, <3>4
    <3>6. QED
      BY <3>3, <3>5 DEF VersionStep
  <2>2. QED
    BY <1>3, <1>7, <2>1 DEF Complete
<1>8. CASE Reject(w)
  BY <1>1, <1>3, <1>8, FailVersionStep DEF Reject
<1>9. CASE InspectObject(w) \/ Profile(w)
  BY <1>9, QuietStep DEF InspectObject, Profile, rows
<1>10. QED
  BY <1>5, <1>6, <1>7, <1>8, <1>9 DEF Work

LEMMA ClaimVersionStep ==
  ASSUME TypeOK, NEW v \in Version, NEW k, ClaimVersion(v, k)
  PROVE  VersionStep
<1>1. Unsettled(v)
  BY DEF ClaimVersion, Claimable, ProcessingStatus, Unsettled
<1>2. "validating" \in VersionStatus \ {"ready"}
  BY DEF VersionStatus, ProcessingStatus
<1>3. QED
  BY <1>1, <1>2, SetVersionStep DEF ClaimVersion

LEMMA UserStepVersions ==
  ASSUME TypeOK, Granted, User
  PROVE  VersionStep
<1>1. {"pending_upload", "queued"} \subseteq VersionStatus \ {"ready"}
  BY DEF VersionStatus
<1>2. ASSUME NEW v \in Version, Grant(v) PROVE VersionStep
  <2>1. version[v] = "none"
    BY <1>2 DEF Grant, Granted
  <2>2. QED
    BY <1>1, <1>2, <2>1, SetVersionStep DEF Grant, Unsettled
<1>3. ASSUME NEW c \in Completion, Accept(c) PROVE VersionStep
  BY <1>1, <1>3, SetVersionStep, AttemptAssumption DEF Accept, Completable, Unsettled
<1>4. ASSUME NEW reached \in SUBSET Dataset, PrivacySchedule(reached) PROVE VersionStep
  BY <1>4 DEF PrivacySchedule, VersionStep, Exists, Unsettled
<1>5. ASSUME UNCHANGED <<version, profile>> PROVE VersionStep
  BY <1>5, QuietStep
<1>6. QED
  BY <1>2, <1>3, <1>4, <1>5 DEF User, CreateDataset, Initiate, Presign, RefuseUpload,
     Expire, Put, CompleteUpload, LookUpKey, ReadIntent, InspectUpload, ReplayLate,
     RefuseCompletion, rows

LEMMA StepVersions ==
  ASSUME TypeOK, Granted, Profiled, [Next]_vars
  PROVE  VersionStep
<1>1. CASE User
  BY <1>1, UserStepVersions
<1>2. ASSUME UNCHANGED <<version, profile>> PROVE VersionStep
  BY <1>2, QuietStep
<1>3. ASSUME NEW w \in Worker, NEW row \in OutboxRow,
             Claim(w, row) \/ ClaimThrows(w, row)
      PROVE  VersionStep
  BY <1>2, <1>3, ClaimVersionStep DEF Claim, ClaimThrows, OutboxRow, rows
<1>4. ASSUME NEW w \in Worker, Work(w) PROVE VersionStep
  BY <1>4, WorkStep
<1>5. ASSUME NEW w \in Worker, GiveUp(w) PROVE VersionStep
  BY <1>2, <1>5, FailVersionStep DEF GiveUp, rows
<1>6. QED
  BY <1>1, <1>2, <1>3, <1>4, <1>5 DEF Next, Fails, LeaveForRetry, Crash, rows, vars

\* One thread's content and phase change together, or the phase goes elsewhere.
LEMMA ProfiledKept ==
  ASSUME TypeOK, Granted, Profiled, [Next]_vars
  PROVE  Profiled'
<1>1. ASSUME NEW w \in Worker
      PROVE  worker'[w].phase \in {"profiled", "indexing"} => worker'[w].content = "declared"
  <2>1. CASE worker'[w] = worker[w]
    BY <2>1 DEF Profiled
  <2>2. ASSUME NEW u \in Worker, NEW phase, Goes(u, phase),
               phase \notin {"profiled", "indexing"} \/
                 worker[u].phase \in {"profiled", "indexing"}
        PROVE  worker'[w].phase \in {"profiled", "indexing"} =>
                 worker'[w].content = "declared"
    BY <2>2 DEF Goes, Profiled, TypeOK
  <2>3. ASSUME NEW u \in Worker, Rests(u)
        PROVE  worker'[w].phase \in {"profiled", "indexing"} =>
                 worker'[w].content = "declared"
    BY <2>3 DEF Rests, Profiled, TypeOK, Idle
  <2>4. ASSUME NEW u \in Worker, NEW row, NEW phase, Takes(u, row, phase),
               phase \in {"claimed", "throwing"}
        PROVE  worker'[w].phase \in {"profiled", "indexing"} =>
                 worker'[w].content = "declared"
    BY <2>4 DEF Takes, Profiled, TypeOK
  <2>5. ASSUME NEW u \in Worker, Profile(u)
        PROVE  worker'[w].phase \in {"profiled", "indexing"} =>
                 worker'[w].content = "declared"
    <3>1. CASE Goes(u, "invalid")
      BY <2>2, <3>1
    <3>2. CASE /\ ObjectMatches(worker[u].version)
               /\ worker' = [worker EXCEPT ![u].phase = "profiled",
                                           ![u].content = object[worker[u].version]]
      BY <3>2 DEF ObjectMatches, Profiled, TypeOK
    <3>3. QED
      BY <2>5, <3>1, <3>2 DEF Profile
  <2>6. ASSUME NEW u \in Worker, Work(u) \/ Fails(u) \/ GiveUp(u) \/ LeaveForRetry(u)
        PROVE  worker'[w].phase \in {"profiled", "indexing"} =>
                 worker'[w].content = "declared"
    <3>1. CASE InspectObject(u) \/ MarkProfiling(u)
      BY <2>2, <3>1 DEF InspectObject, MarkProfiling, Proceeds, Throws, ClaimLost
    <3>2. CASE MarkIndexing(u) \/ Complete(u)
      BY <2>2, <2>3, <3>2 DEF MarkIndexing, Complete, Proceeds, Throws, ClaimLost
    <3>3. CASE Reject(u) \/ Fails(u) \/ GiveUp(u) \/ LeaveForRetry(u)
      BY <2>2, <2>3, <3>3 DEF Reject, Fails, GiveUp, LeaveForRetry, Throws, ClaimLost
    <3>4. QED
      BY <2>5, <2>6, <3>1, <3>2, <3>3 DEF Work
  <2>7. ASSUME NEW u \in Worker, NEW row \in OutboxRow, Claim(u, row) \/ ClaimThrows(u, row)
        PROVE  worker'[w].phase \in {"profiled", "indexing"} =>
                 worker'[w].content = "declared"
    BY <2>4, <2>7 DEF Claim, ClaimThrows
  <2>8. ASSUME NEW threads \in SUBSET Worker, Crash(threads)
        PROVE  worker'[w].phase \in {"profiled", "indexing"} =>
                 worker'[w].content = "declared"
    BY <2>8 DEF Crash, Profiled, Idle
  <2>9. CASE User
    BY <2>1, <2>9, UserTyped
  <2>10. CASE UNCHANGED vars
    BY <2>1, <2>10 DEF vars
  <2>11. QED
    BY <2>6, <2>7, <2>8, <2>9, <2>10 DEF Next
<1>2. ProfileTrusted'
  BY StepVersions DEF VersionStep, ProfileTrusted, Profiled, Unsettled
<1>3. QED
  BY <1>1, <1>2 DEF Profiled

LEMMA GrantedKept ==
  ASSUME TypeOK, Granted, [Next]_vars
  PROVE  Granted'
<1>1. ASSUME NEW v \in Version, NEW status, version[v] # "none", SetVersion(v, status),
             UNCHANGED initiation
      PROVE  Granted'
  BY <1>1 DEF SetVersion, Granted, TypeOK
<1>2. CASE UNCHANGED <<version, initiation>>
  BY <1>2 DEF Granted
<1>3. ASSUME NEW v \in Version, Initiate(v) PROVE Granted'
  BY <1>3 DEF Initiate, Presign, Grant, RefuseUpload, SetVersion, SetInitiation, Granted,
     TypeOK, rows
<1>4. ASSUME NEW c \in Completion, Accept(c) PROVE Granted'
  BY <1>1, <1>4, AttemptAssumption DEF Accept, Completable
<1>5. ASSUME NEW reached \in SUBSET Dataset, PrivacySchedule(reached) PROVE Granted'
  BY <1>5 DEF PrivacySchedule, Exists, Granted
<1>6. CASE User
  BY <1>2, <1>3, <1>4, <1>5, <1>6 DEF User, CreateDataset, Expire, Put, CompleteUpload,
     LookUpKey, ReadIntent, InspectUpload, ReplayLate, RefuseCompletion, rows
<1>7. ASSUME NEW v \in Version, NEW k, ClaimVersion(v, k) PROVE Granted'
  BY <1>1, <1>7 DEF ClaimVersion, Claimable, ProcessingStatus
<1>8. ASSUME NEW w \in Worker, worker[w].phase # "idle", NEW code, FailVersion(w, code)
      PROVE  Granted'
  BY <1>1, <1>8, BusyTyped DEF FailVersion, Holds, ProcessingStatus
<1>9. ASSUME NEW w \in Worker, Work(w) PROVE Granted'
  <2>1. worker[w].phase # "idle"
    BY <1>9 DEF Work, InspectObject, MarkProfiling, Profile, MarkIndexing, Complete, Reject
  <2>2. worker[w].version \in Version
    BY <2>1, BusyTyped
  <2>3. CASE MarkProfiling(w) \/ MarkIndexing(w) \/ Complete(w)
    BY <1>1, <1>2, <2>2, <2>3 DEF MarkProfiling, MarkIndexing, Complete, Holds, ClaimLost,
       rows
  <2>4. CASE InspectObject(w) \/ Profile(w)
    BY <1>2, <2>4 DEF InspectObject, Profile, rows
  <2>5. CASE Reject(w)
    BY <1>2, <1>8, <2>1, <2>5 DEF Reject, ClaimLost, rows
  <2>6. QED
    BY <1>9, <2>3, <2>4, <2>5 DEF Work
<1>10. ASSUME NEW w \in Worker, NEW row \in OutboxRow, Claim(w, row) \/ ClaimThrows(w, row)
       PROVE  Granted'
  BY <1>2, <1>7, <1>10 DEF Claim, ClaimThrows, OutboxRow, rows
<1>11. ASSUME NEW w \in Worker, GiveUp(w) PROVE Granted'
  BY <1>2, <1>8, <1>11 DEF GiveUp, rows
<1>12. QED
  BY <1>2, <1>6, <1>9, <1>10, <1>11 DEF Next, Fails, LeaveForRetry, Crash, rows, vars

IngestionInv == TypeOK /\ Granted /\ Profiled

LEMMA InitIngestion == Init => IngestionInv
<1> SUFFICES ASSUME Init PROVE IngestionInv
  OBVIOUS
<1>1. TypeOK
  BY InitTyped
<1>2. Granted
  BY DEF Init, Granted
<1>3. Profiled
  BY DEF Init, Profiled, ProfileTrusted, Idle
<1>4. QED
  BY <1>1, <1>2, <1>3 DEF IngestionInv

LEMMA IngestionKept ==
  ASSUME IngestionInv, [Next]_vars
  PROVE  IngestionInv'
BY TypeKept, GrantedKept, ProfiledKept DEF IngestionInv

\* The checksum that the profiler compares closes the window between the
\* inspection of an object and its reading: what a ready version shows was
\* computed from the declared bytes.
THEOREM ProfilesTrusted == Spec => []ProfileTrusted
<1>1. IngestionInv => ProfileTrusted
  BY DEF IngestionInv, Profiled
<1>2. QED
  BY <1>1, InitIngestion, IngestionKept, PTL DEF Spec

\* Ready, failed and deleting are final against every late delivery, slow worker
\* and late request; only a deletion moves a ready or failed version on.
THEOREM VersionsSettle == Spec => SettledVersions
<1>1. ASSUME IngestionInv, [Next]_vars
      PROVE  [\A v \in Version :
                /\ version[v] \in {"ready", "failed", "deleting"} =>
                     version'[v] \in {version[v], "deleting"}
                /\ version[v] = "ready" => profile'[v] = profile[v]]_vars
  <2>1. VersionStep
    BY <1>1, StepVersions DEF IngestionInv
  <2>2. QED
    BY <2>1 DEF VersionStep, Unsettled
<1>2. QED
  BY <1>1, InitIngestion, IngestionKept, PTL DEF Spec, SettledVersions

-----------------------------------------------------------------------------
(* The queue of the uploads: IngestionPipeline *)

\* Every step with the queue is a step without it, or changes no table and no
\* worker.
LEMMA PipelineStep ==
  ASSUME TypeOK, [PipelineNext]_pipeline
  PROVE  [Next]_vars
<1>1. CASE Uploads
  BY <1>1 DEF Uploads, Next
<1>2. ASSUME NEW d \in Dispatcher, Dispatch(d) \/ DispatchFault(d) PROVE UNCHANGED vars
  BY <1>2 DEF Dispatch, DispatchFault
<1>3. ASSUME NEW w \in Worker, Deliver(w) \/ SkipDelivered(w) \/ Finish(w)
      PROVE  UNCHANGED vars
  BY <1>3 DEF Deliver, SkipDelivered, Finish
<1>4. ASSUME NEW w \in Worker, ClaimDelivered(w) \/ ClaimFault(w) PROVE Next
  <2> DEFINE e == slot[w].event
  <2>1. e \in OutboxRow
    BY <1>4 DEF ClaimDelivered, ClaimFault, Claim, ClaimThrows, TypeOK
  <2>2. Claim(w, e) \/ ClaimThrows(w, e)
    BY <1>4 DEF ClaimDelivered, ClaimFault
  <2> HIDE DEF e
  <2>3. QED
    BY <2>1, <2>2 DEF Next
<1>5. ASSUME NEW w \in Worker,
             Process(w) \/ WorkFault(w) \/ Rethrow(w) \/ RethrowUnpersisted(w)
      PROVE  Next
  BY <1>5 DEF Process, WorkFault, Rethrow, RethrowUnpersisted, Next
<1>6. ASSUME NEW d \in Dispatcher, NEW calls \in SUBSET Worker, ProcessDies(d, calls)
      PROVE  [Next]_vars
  BY <1>6 DEF ProcessDies, Next
<1>7. ASSUME NEW k \in Key, Reclaim(k) \/ ReclaimHeld(k) \/ Forget(k)
      PROVE  UNCHANGED vars
  BY <1>7 DEF Reclaim, ReclaimHeld, Forget
<1>8. CASE UNCHANGED pipeline
  BY <1>8 DEF pipeline
<1>9. QED
  BY <1>1, <1>2, <1>3, <1>4, <1>5, <1>6, <1>7, <1>8
     DEF PipelineNext, WorkerStep, WorkerFault

\* However the queue delivers, redelivers and gives up its jobs, the tables and
\* workers behave as Datasets says.
THEOREM PipelineImplements == PipelineSpec => Spec
<1>1. PipelineInit => Init /\ TypeOK
  BY InitTyped DEF PipelineInit
<1>2. TypeOK /\ [PipelineNext]_pipeline => TypeOK' /\ [Next]_vars
  BY PipelineStep, TypeKept
<1>3. QED
  BY <1>1, <1>2, PTL DEF PipelineSpec, Spec

\* Behind the queue, with its duplicate deliveries, retries and dead processes,
\* an upload is ingested once, its profile is that of the declared file, and what
\* is settled stays so.
THEOREM PipelineSafe ==
  PipelineSpec => /\ []DatasetAgrees
                  /\ []IngestedOnce
                  /\ []ProfileTrusted
                  /\ SettledVersions
BY PipelineImplements, DatasetsAgree, UploadIngestedOnce, ProfilesTrusted, VersionsSettle,
   PTL

-----------------------------------------------------------------------------
(* The jobs and the calls *)

\* What the types of the queue need: an added row is of the batch, and a job
\* that may still be tried has attempts left.
QueueInv ==
  /\ Queue!QueueTypeOK
  /\ \A d \in Dispatcher : added[d] # NoEvent => added[d] \in batch[d]
  /\ \A k \in Key : job[k].state \in {"waiting", "active"} =>
       job[k].attempts < MaxAttempts

LEMMA KeysOfRows ==
  /\ KeyOfRow \in [OutboxRow -> Key]
  /\ \A e \in OutboxRow : KeyOfRow[e] = e.key /\ KeyOfRow[e] \in Key
BY DEF KeyOfRow, OutboxRow

LEMMA OutboxGrows ==
  ASSUME [Next]_vars
  PROVE  outbox \subseteq outbox'
<1>1. CASE User
  BY <1>1 DEF User, CreateDataset, Initiate, Presign, Grant, RefuseUpload, Expire, Put,
     CompleteUpload, LookUpKey, ReadIntent, InspectUpload, ReplayLate, RefuseCompletion,
     Accept, PrivacySchedule, rows
<1>2. ASSUME NEW w \in Worker, Work(w) PROVE outbox \subseteq outbox'
  BY <1>2 DEF Work, InspectObject, MarkProfiling, Profile, MarkIndexing, Complete, Reject,
     FailVersion, ClaimLost, rows
<1>3. QED
  BY <1>1, <1>2 DEF Next, Claim, ClaimThrows, ClaimVersion, Fails, GiveUp, FailVersion,
     LeaveForRetry, Crash, rows, vars

\* A step that leaves the dispatchers and the jobs alone.
LEMMA CallsMove ==
  ASSUME QueueInv, outbox \subseteq outbox',
         UNCHANGED <<published, batch, added, job, exhausted>>,
         slot' \in [Worker -> Queue!Call]
  PROVE  QueueInv'
BY DEF QueueInv, Queue!QueueTypeOK

\* A step of the jobs, in their types, that leaves the dispatchers alone.
LEMMA JobsMove ==
  ASSUME QueueInv, NEW k \in Key, NEW j \in Queue!Job,
         j.state \in {"waiting", "active"} => j.attempts < MaxAttempts,
         job' = [job EXCEPT ![k] = j],
         UNCHANGED <<outbox, published, batch, added>>,
         exhausted' \in SUBSET Key,
         slot' \in [Worker -> Queue!Call]
  PROVE  QueueInv'
<1>1. job' \in [Key -> Queue!Job]
  BY DEF QueueInv, Queue!QueueTypeOK
<1>2. \A l \in Key : job'[l] = IF l = k THEN j ELSE job[l]
  BY DEF QueueInv, Queue!QueueTypeOK
<1>3. QED
  BY <1>1, <1>2 DEF QueueInv, Queue!QueueTypeOK

LEMMA SettleTyped ==
  ASSUME QueueInv, NEW w \in Worker, NEW outcome \in {"resolved", "rejected"},
         Queue!Settle(w, outcome)
  PROVE  slot' \in [Worker -> Queue!Call]
BY DEF QueueInv, Queue!QueueTypeOK, Queue!Settle, Queue!Call

LEMMA NoCallTyped ==
  ASSUME QueueInv, NEW w \in Worker, slot' = [slot EXCEPT ![w] = Queue!NoCall]
  PROVE  slot' \in [Worker -> Queue!Call]
BY DEF QueueInv, Queue!QueueTypeOK, Queue!NoCall, Queue!Call

LEMMA GiveUpTyped ==
  ASSUME QueueInv, Queue!GiveUp
  PROVE  exhausted' \in SUBSET Key
BY DEF QueueInv, Queue!QueueTypeOK, Queue!GiveUp

LEMMA NoJobTyped ==
  /\ Queue!NoJob \in Queue!Job
  /\ Queue!NoJob.state = "absent"
BY BoundsAssumption DEF Queue!NoJob, Queue!Job, Queue!JobState

LEMMA NewJobTyped ==
  ASSUME NEW e \in OutboxRow
  PROVE  /\ Queue!NewJob(e) \in Queue!Job
         /\ Queue!NewJob(e).attempts < MaxAttempts
BY BoundsAssumption DEF Queue!NewJob, Queue!Job, Queue!JobState

LEMMA DispatchKeeps ==
  ASSUME TypeOK, QueueInv, NEW d \in Dispatcher, Dispatch(d) \/ DispatchFault(d)
  PROVE  QueueInv'
<1> USE DEF QueueInv, Queue!QueueTypeOK
<1>1. CASE Queue!Select(d)
  BY <1>1 DEF Queue!Select
<1>2. ASSUME NEW e \in OutboxRow, Queue!Add(d, e) PROVE QueueInv'
  <2> DEFINE k == KeyOfRow[e]
  <2>1. k \in Key
    BY KeysOfRows
  <2>2. PICK j \in Queue!Job : /\ job' = [job EXCEPT ![k] = j]
                               /\ j = Queue!NewJob(e) \/ j = job[k]
    BY <1>2, <2>1, NewJobTyped DEF Queue!Add
  <2>3. j.state \in {"waiting", "active"} => j.attempts < MaxAttempts
    BY <2>1, <2>2, NewJobTyped
  <2>4. /\ job' \in [Key -> Queue!Job]
        /\ \A l \in Key : job'[l] = IF l = k THEN j ELSE job[l]
    BY <2>1, <2>2
  <2>5. \A l \in Key : job'[l].state \in {"waiting", "active"} =>
          job'[l].attempts < MaxAttempts
    BY <2>3, <2>4
  <2>6. /\ added' \in [Dispatcher -> OutboxRow \cup {NoEvent}]
        /\ \A c \in Dispatcher : added'[c] # NoEvent => added'[c] \in batch[c]
    BY <1>2 DEF Queue!Add
  <2>7. UNCHANGED <<outbox, published, batch, slot, exhausted>>
    BY <1>2 DEF Queue!Add
  <2>8. QED
    BY <2>4, <2>5, <2>6, <2>7
<1>3. CASE Queue!MarkPublished(d)
  <2>1. added[d] \in outbox
    BY <1>3 DEF Queue!MarkPublished
  <2>2. QED
    BY <1>3, <2>1 DEF Queue!MarkPublished
<1>4. ASSUME NEW e \in OutboxRow, Queue!RowFails(d, e) PROVE QueueInv'
  BY <1>4 DEF Queue!RowFails
<1>5. QED
  BY <1>1, <1>2, <1>3, <1>4 DEF Dispatch, DispatchFault, Queue!Dispatch

LEMMA DeliverKeeps ==
  ASSUME TypeOK, QueueInv, NEW w \in Worker, Deliver(w)
  PROVE  QueueInv'
<1>1. PICK k \in Key : Queue!Deliver(w, k)
  BY DEF Deliver
<1>2. job[k] \in Queue!Job
  BY DEF QueueInv, Queue!QueueTypeOK
<1>3. PICK j \in Queue!Job : /\ job' = [job EXCEPT ![k] = j]
                             /\ j.attempts = job[k].attempts
  <2> DEFINE j == [job[k] EXCEPT !.state = "active", !.holder = w]
  <2>1. j \in Queue!Job /\ j.attempts = job[k].attempts
    BY <1>2 DEF Queue!Job, Queue!JobState
  <2>2. job' = [job EXCEPT ![k] = j]
    BY <1>1 DEF Queue!Deliver, QueueInv, Queue!QueueTypeOK
  <2>3. QED
    BY <2>1, <2>2
<1>4. j.attempts < MaxAttempts
  BY <1>1, <1>3 DEF Queue!Deliver, QueueInv
<1>5. slot' \in [Worker -> Queue!Call]
  <2>1. job[k].event \in OutboxRow \cup {NoEvent}
    BY <1>2 DEF Queue!Job
  <2>2. slot' = [slot EXCEPT ![w].event = job[k].event]
    BY <1>1 DEF Queue!Deliver
  <2>3. QED
    BY <2>1, <2>2 DEF QueueInv, Queue!QueueTypeOK, Queue!Call
<1>6. UNCHANGED <<outbox, published, batch, added>> /\ exhausted' \in SUBSET Key
  BY <1>1 DEF Queue!Deliver, QueueInv, Queue!QueueTypeOK
<1>7. QED
  BY <1>3, <1>4, <1>5, <1>6, JobsMove

LEMMA FinishKeeps ==
  ASSUME TypeOK, QueueInv, NEW w \in Worker, Finish(w)
  PROVE  QueueInv'
<1> DEFINE k == KeyOfRow[slot[w].event]
<1>1. /\ slot' \in [Worker -> Queue!Call]
      /\ exhausted' \in SUBSET Key
      /\ UNCHANGED <<outbox, published, batch, added>>
  BY NoCallTyped, GiveUpTyped DEF Finish, Queue!Finish
<1>2. CASE k \notin Key \/ UNCHANGED job
  <2>1. UNCHANGED job
    BY <1>2 DEF Finish, Queue!Finish, QueueInv, Queue!QueueTypeOK
  <2>2. QED
    BY <1>1, <2>1 DEF QueueInv, Queue!QueueTypeOK
<1>3. CASE k \in Key /\ job' # job
  <2>1. job[k] \in Queue!Job /\ Queue!Holds(w)
    BY <1>3 DEF Finish, Queue!Finish, QueueInv, Queue!QueueTypeOK
  <2>2. job[k].attempts < MaxAttempts
    BY <1>3, <2>1 DEF Queue!Holds, QueueInv
  <2>3. job[k].attempts + 1 \in 0 .. MaxAttempts
    BY <2>1, <2>2, BoundsAssumption DEF Queue!Job
  <2>4. /\ Queue!Tried(job[k]) \in Queue!Job
        /\ Queue!Tried(job[k]).state \in {"waiting", "active"} =>
             Queue!Tried(job[k]).attempts < MaxAttempts
    <3>1. CASE job[k].attempts + 1 >= MaxAttempts
      BY <2>1, <2>3, <3>1 DEF Queue!Tried, Queue!Job, Queue!JobState
    <3>2. CASE ~(job[k].attempts + 1 >= MaxAttempts)
      <4>1. job[k].attempts + 1 < MaxAttempts
        BY <2>3, <3>2, BoundsAssumption
      <4>2. Queue!Tried(job[k]) = [job[k] EXCEPT !.attempts = @ + 1,
                                     !.holder = Queue!NoSlot, !.state = "waiting"]
        BY <3>2 DEF Queue!Tried
      <4>3. QED
        BY <2>1, <2>3, <4>1, <4>2 DEF Queue!Job, Queue!JobState
    <3>3. QED
      BY <3>1, <3>2
  <2>5. \/ job' = [job EXCEPT ![k].state = "completed", ![k].holder = Queue!NoSlot]
        \/ job' = [job EXCEPT ![k] = Queue!Tried(job[k])]
    BY <1>3 DEF Finish, Queue!Finish
  <2>6. CASE job' = [job EXCEPT ![k] = Queue!Tried(job[k])]
    BY <1>1, <1>3, <2>4, <2>6, JobsMove
  <2>7. CASE job' = [job EXCEPT ![k].state = "completed", ![k].holder = Queue!NoSlot]
    <3> DEFINE j == [job[k] EXCEPT !.state = "completed", !.holder = Queue!NoSlot]
    <3>1. j \in Queue!Job /\ j.state = "completed"
      BY <2>1 DEF Queue!Job, Queue!JobState
    <3>2. job' = [job EXCEPT ![k] = j]
      BY <1>3, <2>7 DEF QueueInv, Queue!QueueTypeOK
    <3> HIDE DEF j
    <3>3. QED
      BY <1>1, <1>3, <3>1, <3>2, JobsMove
  <2>8. QED
    BY <2>5, <2>6, <2>7
<1>4. QED
  BY <1>2, <1>3

LEMMA StalledTyped ==
  ASSUME NEW j \in Queue!Job
  PROVE  /\ Queue!Stalled(j) \in Queue!Job
         /\ Queue!Stalled(j).attempts = j.attempts
<1>1. CASE j.stalls < MaxStalled
  <2>1. j.stalls + 1 \in 0 .. MaxStalled
    BY <1>1, BoundsAssumption DEF Queue!Job
  <2>2. QED
    BY <1>1, <2>1 DEF Queue!Stalled, Queue!Job, Queue!JobState
<1>2. CASE ~(j.stalls < MaxStalled)
  BY <1>2 DEF Queue!Stalled, Queue!Job, Queue!JobState
<1>3. QED
  BY <1>1, <1>2

LEMMA StallKeeps ==
  ASSUME TypeOK, QueueInv, NEW k \in Key, Queue!Stall(k), UNCHANGED outbox
  PROVE  QueueInv'
<1>1. job[k] \in Queue!Job
  BY DEF QueueInv, Queue!QueueTypeOK
<1>2. exhausted' \in SUBSET Key
  BY GiveUpTyped DEF Queue!Stall
<1>3. job[k].attempts < MaxAttempts
  BY DEF Queue!Stall, QueueInv
<1>4. QED
  BY <1>1, <1>2, <1>3, StalledTyped, JobsMove
     DEF Queue!Stall, QueueInv, Queue!QueueTypeOK

LEMMA QueueKept ==
  ASSUME TypeOK, QueueInv, [PipelineNext]_pipeline
  PROVE  QueueInv'
<1>1. outbox \subseteq outbox'
  BY PipelineStep, OutboxGrows
<1>2. slot \in [Worker -> Queue!Call]
  BY DEF QueueInv, Queue!QueueTypeOK
<1>3. CASE UNCHANGED queue
  BY <1>1, <1>2, <1>3, CallsMove DEF queue
<1>4. ASSUME NEW w \in Worker, SkipDelivered(w) \/ Rethrow(w) \/ RethrowUnpersisted(w)
      PROVE  QueueInv'
  BY <1>1, <1>4, SettleTyped, CallsMove DEF SkipDelivered, Rethrow, RethrowUnpersisted
<1>5. ASSUME NEW w \in Worker, Process(w) PROVE QueueInv'
  BY <1>1, <1>2, <1>5, SettleTyped, CallsMove DEF Process
<1>6. ASSUME NEW d \in Dispatcher, NEW calls \in SUBSET Worker, ProcessDies(d, calls)
      PROVE  QueueInv'
  <2>1. slot' \in [Worker -> Queue!Call]
    BY <1>2, <1>6 DEF ProcessDies, Queue!Vanish, Queue!NoCall, Queue!Call
  <2>2. /\ batch' \in [Dispatcher -> SUBSET outbox']
        /\ added' \in [Dispatcher -> OutboxRow \cup {NoEvent}]
        /\ \A c \in Dispatcher : added'[c] # NoEvent => added'[c] \in batch'[c]
    BY <1>1, <1>6 DEF ProcessDies, Queue!Vanish, QueueInv, Queue!QueueTypeOK
  <2>3. QED
    BY <1>1, <1>6, <2>1, <2>2 DEF ProcessDies, QueueInv, Queue!QueueTypeOK
<1>7. ASSUME NEW k \in Key, Reclaim(k) \/ ReclaimHeld(k) PROVE QueueInv'
  BY <1>7, StallKeeps DEF Reclaim, ReclaimHeld, vars
<1>8. ASSUME NEW k \in Key, Forget(k) PROVE QueueInv'
  BY <1>2, <1>8, NoJobTyped, JobsMove
     DEF Forget, Queue!Forget, QueueInv, Queue!QueueTypeOK
<1>9. CASE Uploads \/ \E w \in Worker : ClaimDelivered(w) \/ ClaimFault(w) \/ WorkFault(w)
  BY <1>3, <1>9 DEF Uploads, ClaimDelivered, ClaimFault, WorkFault
<1>10. CASE UNCHANGED pipeline
  BY <1>3, <1>10 DEF pipeline
<1>11. QED
  BY <1>4, <1>5, <1>6, <1>7, <1>8, <1>9, <1>10, DispatchKeeps, DeliverKeeps,
     FinishKeeps DEF PipelineNext, WorkerStep, WorkerFault

LEMMA FaultsCounted ==
  ASSUME faults \in 0 .. MaxFaults, [PipelineNext]_pipeline
  PROVE  faults' \in 0 .. MaxFaults
<1>1. UNCHANGED faults \/ Fault
  BY DEF PipelineNext, pipeline, Uploads, Dispatch, DispatchFault, Deliver,
         ClaimDelivered, SkipDelivered, ClaimFault, Process, WorkFault, Rethrow,
         RethrowUnpersisted, Finish, ProcessDies, Reclaim, ReclaimHeld, Forget,
         WorkerStep, WorkerFault
<1>2. QED
  BY <1>1, BoundsAssumption DEF Fault

\* A call knows how often its job was tried before.
LEMMA AttemptsCounted ==
  ASSUME QueueInv, attempt \in [Worker -> 0 .. MaxAttempts], [PipelineNext]_pipeline
  PROVE  attempt' \in [Worker -> 0 .. MaxAttempts]
<1>1. ASSUME NEW w \in Worker, Deliver(w) PROVE attempt' \in [Worker -> 0 .. MaxAttempts]
  <2>1. PICK k \in Key : attempt' = [attempt EXCEPT ![w] = job[k].attempts]
    BY <1>1 DEF Deliver
  <2>2. job[k].attempts \in 0 .. MaxAttempts
    BY DEF QueueInv, Queue!QueueTypeOK, Queue!Job
  <2>3. QED
    BY <2>1, <2>2
<1>2. UNCHANGED attempt \/ \E w \in Worker : Deliver(w)
  BY DEF PipelineNext, pipeline, Uploads, Dispatch, DispatchFault,
         ClaimDelivered, SkipDelivered, ClaimFault, Process, WorkFault, Rethrow,
         RethrowUnpersisted, Finish, ProcessDies, Reclaim, ReclaimHeld, Forget,
         WorkerStep, WorkerFault
<1>3. QED
  BY <1>1, <1>2

QueueAndCounts ==
  /\ QueueInv
  /\ attempt \in [Worker -> 0 .. MaxAttempts]
  /\ faults \in 0 .. MaxFaults

\* The outbox, the dispatchers and the queue stay in their types, and their
\* attempts in their bounds.
THEOREM QueueInvariant == PipelineSpec => []QueueAndCounts
<1>1. PipelineInit => QueueAndCounts
  <2> SUFFICES ASSUME PipelineInit PROVE QueueAndCounts
    OBVIOUS
  <2>1. outbox = {}
    BY DEF PipelineInit, Init
  <2>2. Queue!NoCall \in Queue!Call
    BY DEF Queue!NoCall, Queue!Call
  <2>3. QueueInv
    BY <2>1, <2>2, NoJobTyped
       DEF PipelineInit, Queue!QueueInit, QueueInv, Queue!QueueTypeOK
  <2>4. faults \in 0 .. MaxFaults /\ attempt \in [Worker -> 0 .. MaxAttempts]
    BY BoundsAssumption DEF PipelineInit
  <2>5. QED
    BY <2>3, <2>4 DEF QueueAndCounts
<1>2. TypeOK /\ QueueAndCounts /\ [PipelineNext]_pipeline => QueueAndCounts'
  BY QueueKept, FaultsCounted, AttemptsCounted DEF QueueAndCounts
<1>3. QED
  BY <1>1, <1>2, PipelineImplements, DatasetsTyped, PTL DEF PipelineSpec

\* The tables and the queue together: attempts and stalls never pass their
\* bounds, and only committed rows are published.
THEOREM PipelineTyped == PipelineSpec => []PipelineTypeOK
<1>1. TypeOK /\ QueueAndCounts => PipelineTypeOK
  BY DEF QueueAndCounts, QueueInv, PipelineTypeOK
<1>2. QED
  BY <1>1, QueueInvariant, PipelineImplements, DatasetsTyped, PTL

-----------------------------------------------------------------------------
(* The threads and the calls *)

\* A thread works on a version only inside the processor call that was handed the
\* version's job and has not settled: process is awaited.
Inside(w) == worker[w].phase # "idle" =>
               slot[w].outcome = "none" /\ slot[w].event.version = worker[w].version

BusyInsideCalls == \A w \in Worker : Inside(w)

\* A step of the thread w: the others keep their version and their call.
LEMMA ThreadStep ==
  ASSUME BusyInsideCalls, NEW w \in Worker,
         \A v \in Worker : v # w => worker'[v] = worker[v] /\ slot'[v] = slot[v],
         Inside(w)'
  PROVE  BusyInsideCalls'
BY DEF BusyInsideCalls, Inside

LEMMA ThreadsStay ==
  ASSUME BusyInsideCalls, UNCHANGED <<worker, slot>>
  PROVE  BusyInsideCalls'
BY DEF BusyInsideCalls, Inside

\* What the steps of a thread do to it.
LEMMA ThreadMoves ==
  ASSUME TypeOK, NEW w \in Worker
  PROVE  /\ \A phase : Goes(w, phase) =>
              /\ \A u \in Worker : u # w => worker'[u] = worker[u]
              /\ worker[w].phase # "idle" => worker'[w].version = worker[w].version
              /\ worker[w].phase # "idle" => worker'[w].phase = phase
         /\ Rests(w) => /\ \A u \in Worker : u # w => worker'[u] = worker[u]
                        /\ worker'[w].phase = "idle"
         /\ \A e, phase : Takes(w, e, phase) =>
              /\ \A u \in Worker : u # w => worker'[u] = worker[u]
              /\ worker'[w].version = e.version
<1>1. worker \in [Worker -> Thread]
  BY DEF TypeOK
<1>2. ASSUME NEW phase, Goes(w, phase)
      PROVE  /\ \A u \in Worker : u # w => worker'[u] = worker[u]
             /\ worker[w].phase # "idle" => worker'[w].version = worker[w].version
             /\ worker[w].phase # "idle" => worker'[w].phase = phase
  <2>1. worker' = [worker EXCEPT ![w] = [worker[w] EXCEPT !.phase = phase]]
    BY <1>1, <1>2 DEF Goes
  <2>2. ASSUME worker[w].phase # "idle"
        PROVE  worker'[w].version = worker[w].version /\ worker'[w].phase = phase
    BY <1>1, <2>1, <2>2, BusyTyped
  <2>3. QED
    BY <1>1, <2>1, <2>2
<1>3. ASSUME Rests(w)
      PROVE  /\ \A u \in Worker : u # w => worker'[u] = worker[u]
             /\ worker'[w].phase = "idle"
  BY <1>1, <1>3 DEF Rests, Idle
<1>4. ASSUME NEW e, NEW phase, Takes(w, e, phase)
      PROVE  /\ \A u \in Worker : u # w => worker'[u] = worker[u]
             /\ worker'[w].version = e.version
  BY <1>1, <1>4 DEF Takes
<1>5. QED
  BY <1>2, <1>3, <1>4

\* process keeps its version until its thread is idle again.
LEMMA ProcessMoves ==
  ASSUME TypeOK, NEW w \in Worker, Work(w) \/ Fails(w) \/ GiveUp(w) \/ LeaveForRetry(w)
  PROVE  /\ \A u \in Worker : u # w => worker'[u] = worker[u]
         /\ worker[w].phase # "idle"
         /\ worker'[w].phase # "idle" => worker'[w].version = worker[w].version
<1>1. worker[w].phase # "idle"
  BY DEF Work, InspectObject, MarkProfiling, Profile, MarkIndexing, Complete, Reject,
     Fails, GiveUp, LeaveForRetry
<1>2. \/ \E phase : Goes(w, phase)
      \/ Rests(w)
      \/ worker' = [worker EXCEPT ![w].phase = "profiled",
                                  ![w].content = object[worker[w].version]]
  BY DEF Work, InspectObject, MarkProfiling, Profile, MarkIndexing, Complete, Reject,
     Fails, GiveUp, LeaveForRetry, ClaimLost, Proceeds, Throws
<1>3. ASSUME worker' = [worker EXCEPT ![w].phase = "profiled",
                                      ![w].content = object[worker[w].version]]
      PROVE  /\ \A u \in Worker : u # w => worker'[u] = worker[u]
             /\ worker'[w].version = worker[w].version
  <2>1. worker \in [Worker -> Thread]
    BY DEF TypeOK
  <2>2. QED
    BY <1>1, <1>3, <2>1, BusyTyped
<1>4. QED
  BY <1>1, <1>2, <1>3, ThreadMoves

\* A step of a thread that a call carries on with.
ProcessStep(w) == Process(w) \/ WorkFault(w) \/ Rethrow(w) \/ RethrowUnpersisted(w)

LEMMA ProcessSteps ==
  ASSUME TypeOK, QueueInv, NEW w \in Worker, ProcessStep(w)
  PROVE  /\ \A u \in Worker : u # w => worker'[u] = worker[u] /\ slot'[u] = slot[u]
         /\ worker[w].phase # "idle"
         /\ slot'[w].event = slot[w].event
         /\ worker'[w].phase # "idle" =>
              worker'[w].version = worker[w].version /\ slot'[w] = slot[w]
         /\ \/ UNCHANGED slot
            \/ Queue!Settle(w, "rejected")
            \/ Queue!Settle(w, "resolved") /\ Work(w) /\ worker'[w].phase = "idle"
<1>1. slot \in [Worker -> Queue!Call]
  BY DEF QueueInv, Queue!QueueTypeOK
<1>2. Work(w) \/ Fails(w) \/ GiveUp(w) \/ LeaveForRetry(w)
  BY DEF ProcessStep, Process, WorkFault, Rethrow, RethrowUnpersisted
<1>3. \/ UNCHANGED slot
      \/ Queue!Settle(w, "rejected") /\ Rests(w)
      \/ Queue!Settle(w, "resolved") /\ Work(w) /\ worker'[w].phase = "idle"
  BY DEF ProcessStep, Process, WorkFault, Rethrow, RethrowUnpersisted, GiveUp,
     LeaveForRetry, queue
<1>4. ASSUME NEW outcome, Queue!Settle(w, outcome)
      PROVE  /\ \A u \in Worker : u # w => slot'[u] = slot[u]
             /\ slot'[w].event = slot[w].event
  BY <1>1, <1>4 DEF Queue!Settle, Queue!Call
<1>5. Rests(w) => worker'[w].phase = "idle"
  BY ThreadMoves
<1>6. QED
  BY <1>2, <1>3, <1>4, <1>5, ProcessMoves

\* The other steps leave the threads and the calls alone.
Rest == \/ Uploads
        \/ \E d \in Dispatcher : Dispatch(d) \/ DispatchFault(d)
        \/ \E k \in Key : Reclaim(k) \/ ReclaimHeld(k) \/ Forget(k)
        \/ UNCHANGED pipeline

LEMMA RestStays ==
  ASSUME Rest
  PROVE  UNCHANGED <<worker, slot>>
<1>1. CASE Uploads
  BY <1>1 DEF Uploads, User, CreateDataset, Initiate, Presign, Grant, RefuseUpload,
     Expire, Put, CompleteUpload, LookUpKey, ReadIntent, InspectUpload, ReplayLate,
     RefuseCompletion, Accept, PrivacySchedule, rows, queue
<1>2. ASSUME NEW d \in Dispatcher, Dispatch(d) \/ DispatchFault(d)
      PROVE  UNCHANGED <<worker, slot>>
  BY <1>2 DEF Dispatch, DispatchFault, Queue!Dispatch, Queue!Select, Queue!Add,
     Queue!MarkPublished, Queue!RowFails, vars
<1>3. ASSUME NEW k \in Key, Reclaim(k) \/ ReclaimHeld(k) \/ Forget(k)
      PROVE  UNCHANGED <<worker, slot>>
  BY <1>3 DEF Reclaim, ReclaimHeld, Forget, Queue!Stall, Queue!Forget, vars
<1>4. CASE UNCHANGED pipeline
  BY <1>4 DEF pipeline, vars, queue
<1>5. QED
  BY <1>1, <1>2, <1>3, <1>4 DEF Rest

LEMMA BusyKept ==
  ASSUME TypeOK, QueueInv, BusyInsideCalls, [PipelineNext]_pipeline
  PROVE  BusyInsideCalls'
<1>1. slot \in [Worker -> Queue!Call]
  BY DEF QueueInv, Queue!QueueTypeOK
<1>2. CASE UNCHANGED <<worker, slot>>
  BY <1>2, ThreadsStay
<1>3. ASSUME NEW w \in Worker, Deliver(w) PROVE BusyInsideCalls'
  <2>1. UNCHANGED worker /\ worker[w].phase = "idle"
    BY <1>3 DEF Deliver, vars
  <2>2. \A u \in Worker : u # w => slot'[u] = slot[u]
    BY <1>1, <1>3 DEF Deliver, Queue!Deliver
  <2>3. QED
    BY <2>1, <2>2, ThreadStep DEF Inside
<1>4. ASSUME NEW w \in Worker, ClaimDelivered(w) \/ ClaimFault(w) PROVE BusyInsideCalls'
  <2>1. slot[w].outcome = "none" /\ UNCHANGED slot
    BY <1>4 DEF ClaimDelivered, ClaimFault, Delivered, queue
  <2>2. \E phase : Takes(w, slot[w].event, phase)
    BY <1>4 DEF ClaimDelivered, ClaimFault, Claim, ClaimThrows
  <2>3. /\ \A u \in Worker : u # w => worker'[u] = worker[u]
        /\ worker'[w].version = slot[w].event.version
    BY <2>2, ThreadMoves
  <2>4. QED
    BY <2>1, <2>3, ThreadStep DEF Inside
<1>5. ASSUME NEW w \in Worker, SkipDelivered(w) PROVE BusyInsideCalls'
  <2>1. UNCHANGED worker /\ worker[w].phase = "idle"
    BY <1>5 DEF SkipDelivered, Delivered, vars
  <2>2. \A u \in Worker : u # w => slot'[u] = slot[u]
    BY <1>1, <1>5 DEF SkipDelivered, Queue!Settle
  <2>3. QED
    BY <2>1, <2>2, ThreadStep DEF Inside
<1>6. ASSUME NEW w \in Worker, ProcessStep(w) PROVE BusyInsideCalls'
  <2>1. Inside(w)'
    BY <1>6, ProcessSteps DEF Inside, BusyInsideCalls
  <2>2. QED
    BY <1>6, <2>1, ProcessSteps, ThreadStep
<1>7. ASSUME NEW w \in Worker, Finish(w) PROVE BusyInsideCalls'
  <2>1. UNCHANGED worker /\ worker[w].phase = "idle"
    BY <1>7 DEF Finish, Queue!Finish, vars, BusyInsideCalls, Inside
  <2>2. \A u \in Worker : u # w => slot'[u] = slot[u]
    BY <1>1, <1>7 DEF Finish, Queue!Finish
  <2>3. QED
    BY <2>1, <2>2, ThreadStep DEF Inside
<1>8. ASSUME NEW d \in Dispatcher, NEW calls \in SUBSET Worker, ProcessDies(d, calls)
      PROVE  BusyInsideCalls'
  <2>1. \A w \in Worker : worker'[w].phase # "idle" => worker'[w] = worker[w]
    BY <1>8 DEF ProcessDies, Crash, Idle, vars
  <2>2. \A w \in calls : worker'[w].phase = "idle"
    BY <1>8 DEF ProcessDies, Crash, Idle, vars
  <2>3. \A w \in Worker : w \notin calls => slot'[w] = slot[w]
    BY <1>8 DEF ProcessDies, Queue!Vanish
  <2>4. QED
    BY <2>1, <2>2, <2>3 DEF BusyInsideCalls, Inside
<1>9. CASE Rest
  BY <1>2, <1>9, RestStays
<1>10. QED
  BY <1>3, <1>4, <1>5, <1>6, <1>7, <1>8, <1>9
     DEF PipelineNext, WorkerStep, WorkerFault, ProcessStep, Rest

THEOREM BusyInside == PipelineSpec => []BusyInsideCalls
<1> DEFINE Inv == TypeOK /\ QueueInv
<1>1. PipelineSpec => []Inv
  BY QueueInvariant, PipelineImplements, DatasetsTyped, PTL DEF QueueAndCounts
<1>2. PipelineInit => BusyInsideCalls
  BY DEF PipelineInit, Init, BusyInsideCalls, Inside, Idle
<1>3. Inv /\ BusyInsideCalls /\ [PipelineNext]_pipeline => BusyInsideCalls'
  BY BusyKept
<1> HIDE DEF Inv
<1>4. QED
  BY <1>1, <1>2, <1>3, PTL DEF PipelineSpec

-----------------------------------------------------------------------------
(* Uploads in flight and their rows *)

\* A version that is queued or processed has its row, and a claimed one is
\* claimed by its row's job.
RowsAnnounce ==
  /\ \A v \in Version : version[v] \in InFlight => \E e \in outbox : e.version = v
  /\ \A e \in outbox : version[e.version] \in ProcessingStatus => claim[e.version] = e.key

\* The job of the row is still to do its work.
Awaited(e) == version[e.version] \in InFlight

\* What a step may do to a version while it is in flight: it is queued by its
\* completion, claimed by a job, or stays with the claim it has.
FlightStep ==
  \A v \in Version : version'[v] \in InFlight =>
    \/ \E c \in Completion : Accept(c) /\ Attempt[c].version = v
    \/ \E e \in outbox : /\ e.version = v
                         /\ version[v] \in InFlight
                         /\ claim'[v] = e.key
    \/ /\ claim'[v] = claim[v]
       /\ version'[v] = version[v] \/ {version[v], version'[v]} \subseteq ProcessingStatus

LEMMA SetVersionFlight ==
  ASSUME TypeOK, NEW v \in Version, NEW status, SetVersion(v, status), UNCHANGED claim,
         \/ status \notin InFlight
         \/ status \in ProcessingStatus /\ version[v] \in ProcessingStatus
  PROVE  FlightStep
<1>1. /\ version' = [version EXCEPT ![v] = status]
      /\ version \in [Version -> VersionStatus \cup {"none"}]
  BY DEF SetVersion, TypeOK
<1>2. \A u \in Version : version'[u] = IF u = v THEN status ELSE version[u]
  BY <1>1
<1>3. QED
  BY <1>2 DEF FlightStep

LEMMA SettleFlight ==
  ASSUME TypeOK, NEW v \in Version, NEW status \in {"ready", "failed"},
         SetVersion(v, status), claim' = [claim EXCEPT ![v] = NoKey]
  PROVE  FlightStep
<1>1. /\ version' = [version EXCEPT ![v] = status]
      /\ version \in [Version -> VersionStatus \cup {"none"}]
      /\ claim \in [Version -> Key \cup {NoKey}]
  BY DEF SetVersion, TypeOK
<1>2. \A u \in Version : /\ version'[u] = IF u = v THEN status ELSE version[u]
                         /\ u # v => claim'[u] = claim[u]
  BY <1>1
<1>3. status \notin InFlight
  BY DEF InFlight, ProcessingStatus
<1>4. QED
  BY <1>2, <1>3 DEF FlightStep

LEMMA QuietFlight ==
  ASSUME UNCHANGED <<version, claim>>
  PROVE  FlightStep
BY DEF FlightStep

LEMMA ClaimFlight ==
  ASSUME TypeOK, NEW e \in outbox, ClaimVersion(e.version, e.key)
  PROVE  FlightStep
<1>1. e.version \in Version /\ e.key \in Key
  BY DEF TypeOK, OutboxRow
<1>2. /\ \A u \in Version : u # e.version => version'[u] = version[u] /\ claim'[u] = claim[u]
      /\ claim'[e.version] = e.key
  BY <1>1 DEF ClaimVersion, SetVersion, TypeOK
<1>3. version[e.version] \in InFlight
  BY DEF ClaimVersion, Claimable, InFlight
<1>4. QED
  BY <1>2, <1>3 DEF FlightStep

LEMMA UserFlight ==
  ASSUME TypeOK, User
  PROVE  FlightStep
<1>1. ASSUME NEW v \in Version, Grant(v) PROVE FlightStep
  BY <1>1, SetVersionFlight DEF Grant, InFlight, ProcessingStatus
<1>2. ASSUME NEW c \in Completion, Accept(c) PROVE FlightStep
  <2>1. \A v \in Version : v # Attempt[c].version => version'[v] = version[v]
    BY <1>2 DEF Accept, SetVersion, TypeOK
  <2>2. UNCHANGED claim
    BY <1>2 DEF Accept
  <2>3. QED
    BY <1>2, <2>1, <2>2 DEF FlightStep
<1>3. ASSUME NEW reached \in SUBSET Dataset, PrivacySchedule(reached) PROVE FlightStep
  <2>1. \A v \in Version : version'[v] = version[v] \/ version'[v] = "deleting"
    BY <1>3 DEF PrivacySchedule
  <2>2. UNCHANGED claim
    BY <1>3 DEF PrivacySchedule
  <2>3. "deleting" \notin InFlight
    BY DEF InFlight, ProcessingStatus
  <2>4. QED
    BY <2>1, <2>2, <2>3 DEF FlightStep
<1>4. QED
  BY <1>1, <1>2, <1>3, QuietFlight DEF User, CreateDataset, Initiate, Presign,
     RefuseUpload, Expire, Put, CompleteUpload, LookUpKey, ReadIntent, InspectUpload,
     ReplayLate, RefuseCompletion, rows

LEMMA WorkFlight ==
  ASSUME TypeOK, NEW w \in Worker, Work(w)
  PROVE  FlightStep
<1>1. worker[w].phase # "idle" /\ worker[w].version \in Version
  BY ProcessMoves, BusyTyped
<1>2. ASSUME NEW statuses, ClaimLost(w, statuses) PROVE FlightStep
  BY <1>2, QuietFlight DEF ClaimLost, rows
<1>3. CASE MarkProfiling(w)
  BY <1>1, <1>2, <1>3, SetVersionFlight DEF MarkProfiling, Holds, ProcessingStatus
<1>4. CASE MarkIndexing(w)
  BY <1>1, <1>2, <1>4, SetVersionFlight DEF MarkIndexing, Holds, ProcessingStatus
<1>5. CASE Complete(w)
  BY <1>1, <1>2, <1>5, SettleFlight DEF Complete
<1>6. CASE Reject(w)
  BY <1>1, <1>2, <1>6, SettleFlight DEF Reject, FailVersion
<1>7. CASE InspectObject(w) \/ Profile(w)
  BY <1>7, QuietFlight DEF InspectObject, Profile, rows
<1>8. QED
  BY <1>3, <1>4, <1>5, <1>6, <1>7 DEF Work

LEMMA StepFlight ==
  ASSUME TypeOK, [Next]_vars
  PROVE  FlightStep
<1>1. CASE User
  BY <1>1, UserFlight
<1>2. ASSUME NEW w \in Worker, NEW row \in OutboxRow, Claim(w, row) \/ ClaimThrows(w, row)
      PROVE  FlightStep
  BY <1>2, ClaimFlight, QuietFlight DEF Claim, ClaimThrows, rows
<1>3. ASSUME NEW w \in Worker, Work(w) PROVE FlightStep
  BY <1>3, WorkFlight
<1>4. ASSUME NEW w \in Worker, GiveUp(w) PROVE FlightStep
  <2>1. worker[w].version \in Version
    BY <1>4, BusyTyped DEF GiveUp
  <2>2. QED
    BY <1>4, <2>1, SettleFlight, QuietFlight DEF GiveUp, FailVersion, rows
<1>5. ASSUME UNCHANGED <<version, claim>> PROVE FlightStep
  BY <1>5, QuietFlight
<1>6. QED
  BY <1>1, <1>2, <1>3, <1>4, <1>5 DEF Next, Fails, LeaveForRetry, Crash, rows, vars

\* Rows are committed by Accept.
LEMMA RowsBy ==
  ASSUME [Next]_vars, NEW e \in outbox', e \notin outbox
  PROVE  \E c \in Completion :
           /\ Accept(c)
           /\ e = [version |-> Attempt[c].version, key |-> Attempt[c].key]
<1>1. CASE User
  BY <1>1 DEF User, CreateDataset, Initiate, Presign, Grant, RefuseUpload, Expire, Put,
     CompleteUpload, LookUpKey, ReadIntent, InspectUpload, ReplayLate, RefuseCompletion,
     Accept, PrivacySchedule, rows
<1>2. ASSUME NEW w \in Worker, Work(w) PROVE FALSE
  BY <1>2 DEF Work, InspectObject, MarkProfiling, Profile, MarkIndexing, Complete, Reject,
     FailVersion, ClaimLost, rows
<1>3. QED
  BY <1>1, <1>2 DEF Next, Claim, ClaimThrows, ClaimVersion, Fails, GiveUp, FailVersion,
     LeaveForRetry, Crash, rows, vars

\* A version whose upload is recorded is not queued a second time.
LEMMA NotQueuedAgain ==
  ASSUME Recorded, NEW c \in Completion, Accept(c), NEW e \in outbox
  PROVE  e.version # Attempt[c].version
BY DEF Recorded, Accept, Completable

LEMMA RowsAnnounceKept ==
  ASSUME TypeOK, Recorded, RowsAnnounce, [Next]_vars
  PROVE  RowsAnnounce'
<1>1. FlightStep /\ outbox \subseteq outbox' /\ Recorded' /\ TypeOK'
  BY StepFlight, OutboxGrows, RecordedKept, TypeKept
<1>2. ASSUME NEW c \in Completion, Accept(c)
      PROVE  /\ [version |-> Attempt[c].version, key |-> Attempt[c].key] \in outbox'
             /\ version'[Attempt[c].version] = "queued"
  BY <1>2, AttemptAssumption DEF Accept, SetVersion, TypeOK
<1>3. ASSUME NEW v \in Version, version'[v] \in InFlight
      PROVE  \E e \in outbox' : e.version = v
  <2>1. CASE \E c \in Completion : Accept(c) /\ Attempt[c].version = v
    BY <1>2, <2>1
  <2>2. CASE \E e \in outbox : e.version = v
    BY <1>1, <2>2
  <2>3. CASE version[v] \in InFlight
    BY <1>1, <2>3 DEF RowsAnnounce
  <2>4. QED
    BY <1>1, <1>3, <2>1, <2>2, <2>3 DEF FlightStep, InFlight
<1>4. ASSUME NEW e \in outbox', version'[e.version] \in ProcessingStatus
      PROVE  claim'[e.version] = e.key
  <2>1. e.version \in Version /\ version'[e.version] \in InFlight
    BY <1>1, <1>4 DEF TypeOK, OutboxRow, InFlight
  <2>2. "queued" \notin ProcessingStatus
    BY DEF ProcessingStatus
  <2>3. e \in outbox
    <3>1. ASSUME e \notin outbox PROVE FALSE
      <4>1. PICK c \in Completion : Accept(c) /\ e.version = Attempt[c].version
        BY <3>1, RowsBy
      <4>2. QED
        BY <1>2, <1>4, <2>2, <4>1
    <3>2. QED
      BY <3>1
  <2>4. \A c \in Completion : Accept(c) => Attempt[c].version # e.version
    BY <2>3, NotQueuedAgain
  <2>5. CASE \E f \in outbox : f.version = e.version /\ claim'[e.version] = f.key
    BY <2>3, <2>5 DEF Recorded
  <2>6. CASE claim'[e.version] = claim[e.version] /\ version[e.version] \in ProcessingStatus
    BY <2>3, <2>6 DEF RowsAnnounce
  <2>7. QED
    BY <1>1, <1>4, <2>1, <2>4, <2>5, <2>6 DEF FlightStep
<1>5. QED
  BY <1>3, <1>4 DEF RowsAnnounce

\* A row that is in the outbox is not awaited anew.
LEMMA AwaitedBefore ==
  ASSUME TypeOK, Recorded, [Next]_vars, NEW e \in outbox, Awaited(e)'
  PROVE  Awaited(e)
<1>1. FlightStep /\ e.version \in Version
  BY StepFlight DEF TypeOK, OutboxRow
<1>2. \A c \in Completion : Accept(c) => Attempt[c].version # e.version
  BY NotQueuedAgain
<1>3. QED
  BY <1>1, <1>2 DEF FlightStep, Awaited, InFlight

-----------------------------------------------------------------------------
(* Uploads in flight and their jobs *)

\* The jobs and the calls of committed rows.
JobsCarryRows ==
  \A k \in Key : job[k].state # "absent" =>
    job[k].event \in outbox /\ KeyOfRow[job[k].event] = k

CallsCarryRows ==
  \A w \in Worker :
    /\ slot[w].event \in outbox \cup {NoEvent}
    /\ worker[w].phase # "idle" \/ slot[w].outcome # "none" => slot[w].event # NoEvent

\* Of an awaited row the job is not done, and no call has done its work.
Unserved(e) ==
  /\ \/ KeyOfRow[e] \in exhausted
     \/ job[KeyOfRow[e]].state \in {"absent", "waiting", "active"}
  /\ e \in published \/ (\E d \in Dispatcher : added[d] = e) =>
       \/ KeyOfRow[e] \in exhausted
       \/ job[KeyOfRow[e]].state # "absent"
  /\ \A w \in Worker : slot[w].event = e => slot[w].outcome # "resolved"

AwaitedRowsUnserved == \A e \in outbox : Awaited(e) => Unserved(e)

DeliveryInv == RowsAnnounce /\ JobsCarryRows /\ CallsCarryRows /\ AwaitedRowsUnserved

\* What is proved above.
UploadsAndQueue == TypeOK /\ Recorded /\ QueueInv /\ BusyInsideCalls

LEMMA KeysTellRows ==
  ASSUME TypeOK, Recorded, NEW e \in outbox, NEW f \in outbox, KeyOfRow[e] = KeyOfRow[f]
  PROVE  e = f
<1>1. e \in OutboxRow /\ f \in OutboxRow
  BY DEF TypeOK
<1>2. e.key = f.key
  BY <1>1, KeysOfRows
<1>3. e.version = f.version
  BY <1>2 DEF Recorded
<1>4. QED
  BY <1>3 DEF Recorded

LEMMA JobsCarryKept ==
  ASSUME UploadsAndQueue, JobsCarryRows, [PipelineNext]_pipeline
  PROVE  JobsCarryRows'
<1> USE DEF UploadsAndQueue
<1>1. outbox \subseteq outbox' /\ job \in [Key -> Queue!Job]
  BY PipelineStep, OutboxGrows DEF QueueInv, Queue!QueueTypeOK
<1>2. CASE UNCHANGED job
  BY <1>1, <1>2 DEF JobsCarryRows
<1>3. ASSUME NEW k \in Key, NEW j, job' = [job EXCEPT ![k] = j],
             \/ j.state = "absent"
             \/ j.event \in outbox /\ KeyOfRow[j.event] = k
      PROVE  JobsCarryRows'
  BY <1>1, <1>3 DEF JobsCarryRows
<1>4. ASSUME NEW d \in Dispatcher, Dispatch(d) PROVE JobsCarryRows'
  <2>1. CASE \E e \in OutboxRow : Queue!Add(d, e)
    <3>1. PICK e \in OutboxRow : Queue!Add(d, e)
      BY <2>1
    <3>2. KeyOfRow[e] \in Key /\ e \in outbox
      BY <3>1, KeysOfRows DEF Queue!Add, QueueInv, Queue!QueueTypeOK
    <3>3. CASE job[KeyOfRow[e]].state = "absent"
      BY <1>3, <3>1, <3>2, <3>3 DEF Queue!Add, Queue!NewJob
    <3>4. CASE job[KeyOfRow[e]].state # "absent"
      <4>1. job' = [job EXCEPT ![KeyOfRow[e]] = job[KeyOfRow[e]]]
        BY <3>1, <3>4 DEF Queue!Add
      <4>2. QED
        BY <1>1, <1>2, <3>2, <4>1
    <3>5. QED
      BY <3>3, <3>4
  <2>2. CASE ~(\E e \in OutboxRow : Queue!Add(d, e))
    BY <1>2, <1>4, <2>2 DEF Dispatch, Queue!Dispatch, Queue!Select, Queue!MarkPublished
  <2>3. QED
    BY <2>1, <2>2
<1>5. ASSUME NEW w \in Worker, Deliver(w) PROVE JobsCarryRows'
  <2>1. PICK k \in Key : Queue!Deliver(w, k)
    BY <1>5 DEF Deliver
  <2> DEFINE j == [job[k] EXCEPT !.state = "active", !.holder = w]
  <2>2. job' = [job EXCEPT ![k] = j]
    BY <1>1, <2>1 DEF Queue!Deliver
  <2>3. j.event = job[k].event
    BY <1>1 DEF Queue!Job
  <2>4. j.event \in outbox /\ KeyOfRow[j.event] = k
    BY <2>1, <2>3 DEF Queue!Deliver, JobsCarryRows
  <2> HIDE DEF j
  <2>5. QED
    BY <1>3, <2>2, <2>4
<1>6. ASSUME NEW w \in Worker, Finish(w) PROVE JobsCarryRows'
  <2> DEFINE k == KeyOfRow[slot[w].event]
  <2>1. CASE k \notin Key \/ UNCHANGED job
    BY <1>1, <1>2, <1>6, <2>1 DEF Finish, Queue!Finish
  <2>2. CASE k \in Key /\ job' # job
    <3>1. job[k] \in Queue!Job /\ Queue!Holds(w)
      BY <1>1, <1>6, <2>2 DEF Finish, Queue!Finish
    <3>2. job[k].event \in outbox /\ KeyOfRow[job[k].event] = k
      BY <2>2, <3>1 DEF Queue!Holds, JobsCarryRows
    <3>3. PICK j : job' = [job EXCEPT ![k] = j] /\ j.event = job[k].event
      <4> DEFINE done == [job[k] EXCEPT !.state = "completed", !.holder = Queue!NoSlot]
      <4>1. done.event = job[k].event /\ Queue!Tried(job[k]).event = job[k].event
        BY <3>1 DEF Queue!Job, Queue!Tried
      <4>2. \/ job' = [job EXCEPT ![k] = done]
            \/ job' = [job EXCEPT ![k] = Queue!Tried(job[k])]
        BY <1>1, <1>6, <2>2 DEF Finish, Queue!Finish
      <4> HIDE DEF done
      <4>3. QED
        BY <4>1, <4>2
    <3>4. QED
      BY <1>3, <2>2, <3>2, <3>3
  <2>3. QED
    BY <2>1, <2>2
<1>7. ASSUME NEW k \in Key, Reclaim(k) \/ ReclaimHeld(k) PROVE JobsCarryRows'
  <2>1. Queue!Stall(k)
    BY <1>7 DEF Reclaim, ReclaimHeld
  <2>2. Queue!Stalled(job[k]).event = job[k].event
    BY <1>1 DEF Queue!Stalled, Queue!Job
  <2>3. job[k].event \in outbox /\ KeyOfRow[job[k].event] = k
    BY <2>1 DEF Queue!Stall, JobsCarryRows
  <2>4. job' = [job EXCEPT ![k] = Queue!Stalled(job[k])]
    BY <2>1 DEF Queue!Stall
  <2>5. QED
    BY <1>3, <2>2, <2>3, <2>4
<1>8. ASSUME NEW k \in Key, Forget(k) PROVE JobsCarryRows'
  BY <1>3, <1>8 DEF Forget, Queue!Forget, Queue!NoJob
<1>9. CASE Uploads \/ (\E d \in Dispatcher : DispatchFault(d)) \/ UNCHANGED pipeline
  BY <1>2, <1>9 DEF Uploads, DispatchFault, Queue!RowFails, queue, pipeline
<1>10. ASSUME NEW w \in Worker,
              ClaimDelivered(w) \/ ClaimFault(w) \/ SkipDelivered(w) \/ ProcessStep(w)
       PROVE  JobsCarryRows'
  BY <1>2, <1>10
     DEF ClaimDelivered, ClaimFault, SkipDelivered, ProcessStep, Process, WorkFault,
         Rethrow, RethrowUnpersisted, queue
<1>11. ASSUME NEW d \in Dispatcher, NEW calls \in SUBSET Worker, ProcessDies(d, calls)
       PROVE  JobsCarryRows'
  BY <1>2, <1>11 DEF ProcessDies
<1>12. QED
  BY <1>4, <1>5, <1>6, <1>7, <1>8, <1>9, <1>10, <1>11
     DEF PipelineNext, WorkerStep, WorkerFault, ProcessStep

LEMMA CallsCarryKept ==
  ASSUME UploadsAndQueue, JobsCarryRows, CallsCarryRows, [PipelineNext]_pipeline
  PROVE  CallsCarryRows'
<1> USE DEF UploadsAndQueue
<1>1. outbox \subseteq outbox' /\ slot \in [Worker -> Queue!Call]
  BY PipelineStep, OutboxGrows DEF QueueInv, Queue!QueueTypeOK
<1>2. CASE UNCHANGED <<worker, slot>>
  BY <1>1, <1>2 DEF CallsCarryRows
<1>3. ASSUME NEW w \in Worker,
             \A v \in Worker : v # w => worker'[v] = worker[v] /\ slot'[v] = slot[v],
             slot'[w].event \in outbox \cup {NoEvent},
             worker'[w].phase # "idle" \/ slot'[w].outcome # "none" =>
               slot'[w].event # NoEvent
      PROVE  CallsCarryRows'
  BY <1>1, <1>3 DEF CallsCarryRows
<1>4. ASSUME NEW w \in Worker, Deliver(w) PROVE CallsCarryRows'
  <2>1. PICK k \in Key : Queue!Deliver(w, k)
    BY <1>4 DEF Deliver
  <2>2. job[k].event \in outbox
    BY <2>1 DEF Queue!Deliver, JobsCarryRows
  <2>3. job[k].event # NoEvent
    BY <2>2, NoEventAssumption DEF TypeOK
  <2>4. /\ \A v \in Worker : v # w => slot'[v] = slot[v]
        /\ slot'[w].event = job[k].event
    BY <1>1, <2>1 DEF Queue!Deliver, Queue!Call
  <2>5. UNCHANGED worker
    BY <1>4 DEF Deliver, vars
  <2>6. QED
    BY <1>3, <2>2, <2>3, <2>4, <2>5
<1>5. ASSUME NEW w \in Worker, NEW outcome \in {"resolved", "rejected"},
             Queue!Settle(w, outcome), slot[w].event # NoEvent,
             \A v \in Worker : v # w => worker'[v] = worker[v]
      PROVE  CallsCarryRows'
  <2>1. /\ \A v \in Worker : v # w => slot'[v] = slot[v]
        /\ slot'[w].event = slot[w].event
    BY <1>1, <1>5 DEF Queue!Settle, Queue!Call
  <2>2. QED
    BY <1>3, <1>5, <2>1 DEF CallsCarryRows
<1>6. ASSUME NEW w \in Worker, ClaimDelivered(w) \/ ClaimFault(w) PROVE CallsCarryRows'
  <2>1. slot[w].event # NoEvent /\ UNCHANGED slot
    BY <1>6 DEF ClaimDelivered, ClaimFault, Delivered, queue
  <2>2. \A v \in Worker : v # w => worker'[v] = worker[v]
    BY <1>6, ThreadMoves DEF ClaimDelivered, ClaimFault, Claim, ClaimThrows
  <2>3. QED
    BY <1>3, <2>1, <2>2 DEF CallsCarryRows
<1>7. ASSUME NEW w \in Worker, SkipDelivered(w) PROVE CallsCarryRows'
  BY <1>5, <1>7 DEF SkipDelivered, Delivered, vars
<1>8. ASSUME NEW w \in Worker, ProcessStep(w) PROVE CallsCarryRows'
  BY <1>3, <1>8, ProcessSteps DEF CallsCarryRows
<1>9. ASSUME NEW w \in Worker, Finish(w) PROVE CallsCarryRows'
  <2>1. worker[w].phase = "idle" /\ UNCHANGED worker
    BY <1>9 DEF Finish, Queue!Finish, BusyInsideCalls, Inside, vars
  <2>2. /\ \A v \in Worker : v # w => slot'[v] = slot[v]
        /\ slot'[w] = Queue!NoCall
    BY <1>1, <1>9 DEF Finish, Queue!Finish
  <2>3. QED
    BY <1>3, <2>1, <2>2 DEF Queue!NoCall
<1>10. ASSUME NEW d \in Dispatcher, NEW calls \in SUBSET Worker, ProcessDies(d, calls)
       PROVE  CallsCarryRows'
  <2>1. \A w \in Worker : worker'[w].phase # "idle" =>
          w \notin calls /\ worker'[w] = worker[w]
    BY <1>10 DEF ProcessDies, Crash, Idle, vars
  <2>2. \A w \in Worker : slot'[w] = IF w \in calls THEN Queue!NoCall ELSE slot[w]
    BY <1>10 DEF ProcessDies, Queue!Vanish
  <2>3. QED
    BY <1>1, <2>1, <2>2 DEF CallsCarryRows, Queue!NoCall
<1>11. CASE Rest
  BY <1>2, <1>11, RestStays
<1>12. QED
  BY <1>4, <1>6, <1>7, <1>8, <1>9, <1>10, <1>11
     DEF PipelineNext, WorkerStep, WorkerFault, ProcessStep, Rest

\* process resolves only when its version is not in flight any more.
LEMMA ProcessEnds ==
  ASSUME TypeOK, NEW w \in Worker, Work(w), worker'[w].phase = "idle"
  PROVE  version'[worker[w].version] \notin InFlight
<1>1. worker[w].phase # "idle" /\ worker[w].version \in Version
  BY ProcessMoves, BusyTyped
<1>2. \A phase : Goes(w, phase) => phase = "idle"
  BY <1>1, ThreadMoves
<1>3. ASSUME NEW statuses PROVE ~ClaimLost(w, statuses)
  BY <1>2 DEF ClaimLost, Throws
<1>4. CASE InspectObject(w) \/ MarkProfiling(w) \/ MarkIndexing(w)
  BY <1>2, <1>3, <1>4 DEF InspectObject, MarkProfiling, MarkIndexing, Proceeds, Throws
<1>5. CASE Profile(w)
  <2>1. worker'[w].phase = "profiled"
    BY <1>1, <1>2, <1>5, BusyTyped DEF Profile, TypeOK
  <2>2. QED
    BY <2>1
<1>6. CASE Complete(w)
  <2>1. SetVersion(worker[w].version, "ready")
    BY <1>3, <1>6 DEF Complete
  <2>2. QED
    BY <1>1, <2>1 DEF SetVersion, TypeOK, InFlight, ProcessingStatus
<1>7. CASE Reject(w)
  <2>1. SetVersion(worker[w].version, "failed")
    BY <1>3, <1>7 DEF Reject, FailVersion
  <2>2. QED
    BY <1>1, <2>1 DEF SetVersion, TypeOK, InFlight, ProcessingStatus
<1>8. QED
  BY <1>4, <1>5, <1>6, <1>7 DEF Work

\* A row that is new in the outbox is still to be published.
LEMMA NewRowUnserved ==
  ASSUME UploadsAndQueue, JobsCarryRows, CallsCarryRows, [PipelineNext]_pipeline,
         NEW e \in outbox', e \notin outbox
  PROVE  Unserved(e)'
<1> USE DEF UploadsAndQueue
<1>1. [Next]_vars /\ TypeOK' /\ Recorded'
  BY PipelineStep, TypeKept, RecordedKept
<1>2. e \in OutboxRow /\ outbox \subseteq outbox'
  BY <1>1, OutboxGrows DEF TypeOK
<1>3. UNCHANGED queue
  <2>1. CASE Uploads
    BY <2>1 DEF Uploads
  <2>2. ASSUME UNCHANGED outbox PROVE FALSE
    BY <2>2
  <2>3. ASSUME NEW w \in Worker, WorkerStep(w) \/ WorkerFault(w) PROVE UNCHANGED outbox
    <3>1. ASSUME Work(w) PROVE UNCHANGED outbox
      BY <3>1 DEF Work, InspectObject, MarkProfiling, Profile, MarkIndexing, Complete,
         Reject, FailVersion, ClaimLost, rows
    <3>2. QED
      BY <2>3, <3>1 DEF WorkerStep, WorkerFault, Deliver, ClaimDelivered, SkipDelivered,
         Process, Finish, ClaimFault, WorkFault, Rethrow, RethrowUnpersisted, Claim,
         ClaimThrows, ClaimVersion, Fails, GiveUp, FailVersion, LeaveForRetry, vars, rows
  <2>4. ASSUME NEW d \in Dispatcher, Dispatch(d) \/ DispatchFault(d)
        PROVE  UNCHANGED outbox
    BY <2>4 DEF Dispatch, DispatchFault, vars
  <2>5. ASSUME NEW d \in Dispatcher, NEW calls \in SUBSET Worker, ProcessDies(d, calls)
        PROVE  UNCHANGED outbox
    BY <2>5 DEF ProcessDies, Crash, vars, rows
  <2>6. ASSUME NEW k \in Key, Reclaim(k) \/ ReclaimHeld(k) \/ Forget(k)
        PROVE  UNCHANGED outbox
    BY <2>6 DEF Reclaim, ReclaimHeld, Forget, vars
  <2>7. CASE UNCHANGED pipeline
    BY <2>7 DEF pipeline
  <2>8. QED
    BY <2>1, <2>2, <2>3, <2>4, <2>5, <2>6, <2>7 DEF PipelineNext
<1>4. job[KeyOfRow[e]].state = "absent"
  <2>1. KeyOfRow[e] \in Key
    BY <1>2, KeysOfRows
  <2>2. ASSUME NEW f \in outbox, KeyOfRow[f] = KeyOfRow[e] PROVE FALSE
    <3>1. f \in outbox' /\ f \in OutboxRow
      BY <1>2 DEF TypeOK
    <3>2. f.key = e.key
      BY <1>2, <2>2, <3>1, KeysOfRows
    <3>3. QED
      BY <1>1, <3>1, <3>2 DEF Recorded
  <2>3. QED
    BY <2>1, <2>2 DEF JobsCarryRows
<1>5. /\ e \notin published
      /\ \A d \in Dispatcher : added[d] # e
  <2>1. e # NoEvent
    BY <1>2, NoEventAssumption
  <2>2. QED
    BY <2>1 DEF QueueInv, Queue!QueueTypeOK
<1>6. \A w \in Worker : slot[w].event # e
  BY <1>2, NoEventAssumption DEF CallsCarryRows
<1>7. QED
  BY <1>3, <1>4, <1>5, <1>6 DEF Unserved, queue

\* A step that does not touch the row's job, nor the calls of its version.
LEMMA UnservedStays ==
  ASSUME NEW e, Unserved(e), exhausted \subseteq exhausted',
         job'[KeyOfRow[e]] = job[KeyOfRow[e]],
         e \in published' => e \in published \/ \E d \in Dispatcher : added[d] = e,
         \A d \in Dispatcher : added'[d] = e => added[d] = e,
         \A w \in Worker : slot'[w].event = e /\ slot'[w].outcome = "resolved" =>
                             slot[w].event = e /\ slot[w].outcome = "resolved"
  PROVE  Unserved(e)'
BY DEF Unserved

\* A step that moves the row's job, but never to its completion.
LEMMA UnservedMoves ==
  ASSUME NEW e, Unserved(e), exhausted \subseteq exhausted',
         \/ KeyOfRow[e] \in exhausted'
         \/ job'[KeyOfRow[e]].state \in {"waiting", "active"},
         \A w \in Worker : slot'[w].event = e /\ slot'[w].outcome = "resolved" =>
                             slot[w].event = e /\ slot[w].outcome = "resolved"
  PROVE  Unserved(e)'
BY DEF Unserved

LEMMA UnservedKept ==
  ASSUME UploadsAndQueue, RowsAnnounce, JobsCarryRows, CallsCarryRows,
         [PipelineNext]_pipeline,
         NEW e \in outbox, Awaited(e), Awaited(e)', Unserved(e)
  PROVE  Unserved(e)'
<1> USE DEF UploadsAndQueue
<1> DEFINE k == KeyOfRow[e]
<1>1. /\ e \in OutboxRow
      /\ k \in Key
      /\ job \in [Key -> Queue!Job]
      /\ slot \in [Worker -> Queue!Call]
      /\ added \in [Dispatcher -> OutboxRow \cup {NoEvent}]
      /\ e # NoEvent
  BY KeysOfRows, NoEventAssumption DEF TypeOK, QueueInv, Queue!QueueTypeOK
<1>2. \A f \in outbox : KeyOfRow[f] = k => f = e
  BY <1>1, KeysTellRows
<1>3. CASE UNCHANGED queue
  BY <1>3, UnservedStays DEF queue
<1>4. ASSUME NEW d \in Dispatcher, Dispatch(d) PROVE Unserved(e)'
  <2>1. CASE Queue!Select(d)
    BY <2>1, UnservedStays DEF Queue!Select
  <2>2. ASSUME NEW f \in OutboxRow, Queue!Add(d, f) PROVE Unserved(e)'
    <3>1. UNCHANGED <<published, exhausted, slot>> /\ f \in outbox
      BY <2>2 DEF Queue!Add, QueueInv, Queue!QueueTypeOK
    <3>2. CASE f = e
      <4>1. \/ job'[k] = job[k] /\ job[k].state # "absent"
            \/ job'[k].state = "waiting"
        BY <1>1, <2>2, <3>2 DEF Queue!Add, Queue!NewJob
      <4>2. QED
        BY <3>1, <4>1 DEF Unserved
    <3>3. CASE f # e
      <4>1. job'[k] = job[k]
        BY <1>1, <1>2, <2>2, <3>1, <3>3 DEF Queue!Add
      <4>2. \A c \in Dispatcher : added'[c] = e => added[c] = e
        BY <1>1, <2>2, <3>3 DEF Queue!Add
      <4>3. QED
        BY <3>1, <4>1, <4>2, UnservedStays
    <3>4. QED
      BY <3>2, <3>3
  <2>3. CASE Queue!MarkPublished(d)
    <3>1. /\ published' = published \cup {added[d]}
          /\ added' = [added EXCEPT ![d] = NoEvent]
          /\ UNCHANGED <<job, slot, exhausted>>
      BY <2>3 DEF Queue!MarkPublished
    <3>2. \A c \in Dispatcher : added'[c] = e => added[c] = e
      BY <1>1, <3>1
    <3>3. QED
      BY <3>1, <3>2, UnservedStays
  <2>4. QED
    BY <1>4, <2>1, <2>2, <2>3 DEF Dispatch, Queue!Dispatch
<1>5. ASSUME NEW d \in Dispatcher, DispatchFault(d) PROVE Unserved(e)'
  <2>1. PICK f \in OutboxRow : Queue!RowFails(d, f)
    BY <1>5 DEF DispatchFault
  <2>2. \A c \in Dispatcher : added'[c] = e => added[c] = e
    BY <1>1, <2>1 DEF Queue!RowFails
  <2>3. QED
    BY <2>1, <2>2, UnservedStays DEF Queue!RowFails
<1>6. ASSUME NEW w \in Worker, Deliver(w) PROVE Unserved(e)'
  <2>1. PICK l \in Key : Queue!Deliver(w, l)
    BY <1>6 DEF Deliver
  <2>2. \A v \in Worker : slot'[v].event = e /\ slot'[v].outcome = "resolved" =>
                            slot[v].event = e /\ slot[v].outcome = "resolved"
    BY <1>1, <2>1 DEF Queue!Deliver, Queue!NoCall, Queue!Call
  <2>3. UNCHANGED <<published, added, exhausted>>
    BY <2>1 DEF Queue!Deliver
  <2>4. CASE l = k
    <3>1. job'[k].state = "active"
      BY <1>1, <2>1, <2>4 DEF Queue!Deliver, Queue!Job
    <3>2. QED
      BY <2>2, <2>3, <3>1, UnservedMoves
  <2>5. CASE l # k
    <3>1. job'[k] = job[k]
      BY <1>1, <2>1, <2>5 DEF Queue!Deliver
    <3>2. QED
      BY <2>2, <2>3, <3>1, UnservedStays
  <2>6. QED
    BY <2>4, <2>5
<1>7. ASSUME NEW w \in Worker, NEW outcome, Queue!Settle(w, outcome),
             UNCHANGED <<published, batch, added, job, exhausted>>,
             outcome # "resolved" \/ slot[w].event # e
      PROVE  Unserved(e)'
  <2>1. \A v \in Worker : slot'[v].event = e /\ slot'[v].outcome = "resolved" =>
                            slot[v].event = e /\ slot[v].outcome = "resolved"
    BY <1>1, <1>7 DEF Queue!Settle, Queue!Call
  <2>2. QED
    BY <1>7, <2>1, UnservedStays
<1>8. ASSUME NEW w \in Worker, SkipDelivered(w) PROVE Unserved(e)'
  <2>1. ASSUME slot[w].event = e PROVE FALSE
    <3>1. ~Claimable(e.version, e.key)
      BY <1>8, <2>1 DEF SkipDelivered
    <3>2. version[e.version] \in ProcessingStatus => claim[e.version] = e.key
      BY DEF RowsAnnounce
    <3>3. QED
      BY <3>1, <3>2 DEF Claimable, Awaited, InFlight
  <2>2. QED
    BY <1>7, <1>8, <2>1 DEF SkipDelivered
<1>9. ASSUME NEW w \in Worker, ProcessStep(w) PROVE Unserved(e)'
  <2>1. UNCHANGED <<published, batch, added, job, exhausted>>
    BY <1>9 DEF ProcessStep, Process, WorkFault, Rethrow, RethrowUnpersisted, queue
  <2>2. CASE UNCHANGED slot
    BY <1>3, <2>1, <2>2 DEF queue
  <2>3. CASE Queue!Settle(w, "rejected")
    BY <1>7, <2>1, <2>3
  <2>4. CASE Queue!Settle(w, "resolved") /\ Work(w) /\ worker'[w].phase = "idle"
    <3>1. version'[worker[w].version] \notin InFlight
      BY <2>4, ProcessEnds
    <3>2. slot[w].event.version = worker[w].version
      BY <1>9, ProcessSteps DEF BusyInsideCalls, Inside
    <3>3. slot[w].event # e
      BY <3>1, <3>2 DEF Awaited
    <3>4. QED
      BY <1>7, <2>1, <2>4, <3>3
  <2>5. QED
    BY <1>9, <2>2, <2>3, <2>4, ProcessSteps
<1>10. ASSUME NEW w \in Worker, Finish(w) PROVE Unserved(e)'
  <2> DEFINE f == slot[w].event
  <2>1. f \in outbox /\ UNCHANGED <<published, added>>
    BY <1>10 DEF Finish, Queue!Finish, CallsCarryRows, TypeOK
  <2>2. exhausted' = exhausted \cup {l \in Key : job'[l].state = "failed"}
    BY <1>10 DEF Finish, Queue!Finish, Queue!GiveUp
  <2>3. \A v \in Worker : slot'[v].event = e /\ slot'[v].outcome = "resolved" =>
                            slot[v].event = e /\ slot[v].outcome = "resolved"
    BY <1>1, <1>10 DEF Finish, Queue!Finish, Queue!NoCall
  <2>4. CASE job'[k] = job[k]
    BY <2>1, <2>2, <2>3, <2>4, UnservedStays
  <2>5. CASE job'[k] # job[k]
    <3>1. KeyOfRow[f] = k /\ Queue!Holds(w)
      BY <1>1, <1>10, <2>5 DEF Finish, Queue!Finish
    <3>2. slot[w].outcome # "resolved"
      BY <1>2, <2>1, <3>1 DEF Unserved
    <3>3. job'[k] = Queue!Tried(job[k])
      BY <1>1, <1>10, <3>1, <3>2 DEF Finish, Queue!Finish
    <3>4. job'[k].state \in {"waiting", "failed"}
      BY <1>1, <3>3 DEF Queue!Tried, Queue!Job
    <3>5. QED
      BY <1>1, <2>2, <2>3, <3>4, UnservedMoves
  <2>6. QED
    BY <2>4, <2>5
<1>11. ASSUME NEW l \in Key, Reclaim(l) \/ ReclaimHeld(l) PROVE Unserved(e)'
  <2>1. Queue!Stall(l)
    BY <1>11 DEF Reclaim, ReclaimHeld
  <2>2. /\ exhausted' = exhausted \cup {h \in Key : job'[h].state = "failed"}
        /\ UNCHANGED <<published, added, slot>>
    BY <2>1 DEF Queue!Stall, Queue!GiveUp
  <2>3. CASE l = k
    <3>1. job'[k].state \in {"waiting", "failed"}
      BY <1>1, <2>1, <2>3 DEF Queue!Stall, Queue!Stalled, Queue!Job
    <3>2. QED
      BY <1>1, <2>2, <3>1, UnservedMoves
  <2>4. CASE l # k
    BY <1>1, <2>1, <2>2, <2>4, UnservedStays DEF Queue!Stall
  <2>5. QED
    BY <2>3, <2>4
<1>12. ASSUME NEW l \in Key, Forget(l) PROVE Unserved(e)'
  <2>1. /\ job[l].state \in {"completed", "failed"}
        /\ job' = [job EXCEPT ![l] = Queue!NoJob]
        /\ UNCHANGED <<published, added, slot, exhausted>>
    BY <1>12 DEF Forget, Queue!Forget
  <2>2. CASE l = k
    <3>1. k \in exhausted
      BY <2>1, <2>2 DEF Unserved
    <3>2. QED
      BY <2>1, <3>1, UnservedMoves
  <2>3. CASE l # k
    BY <1>1, <2>1, <2>3, UnservedStays
  <2>4. QED
    BY <2>2, <2>3
<1>13. ASSUME NEW d \in Dispatcher, NEW calls \in SUBSET Worker, ProcessDies(d, calls)
       PROVE  Unserved(e)'
  <2>1. \A c \in Dispatcher : added'[c] = e => added[c] = e
    BY <1>1, <1>13 DEF ProcessDies, Queue!Vanish
  <2>2. \A v \in Worker : slot'[v].event = e /\ slot'[v].outcome = "resolved" =>
                            slot[v].event = e /\ slot[v].outcome = "resolved"
    BY <1>1, <1>13 DEF ProcessDies, Queue!Vanish, Queue!NoCall
  <2>3. QED
    BY <1>13, <2>1, <2>2, UnservedStays DEF ProcessDies
<1>14. CASE \/ Uploads
            \/ \E w \in Worker : ClaimDelivered(w) \/ ClaimFault(w)
            \/ UNCHANGED pipeline
  BY <1>3, <1>14 DEF Uploads, ClaimDelivered, ClaimFault, pipeline
<1>15. QED
  BY <1>4, <1>5, <1>6, <1>8, <1>9, <1>10, <1>11, <1>12, <1>13, <1>14
     DEF PipelineNext, WorkerStep, WorkerFault, ProcessStep

LEMMA DeliveryKept ==
  ASSUME UploadsAndQueue, DeliveryInv, [PipelineNext]_pipeline
  PROVE  DeliveryInv'
<1> USE DEF UploadsAndQueue, DeliveryInv
<1>1. [Next]_vars
  BY PipelineStep
<1>2. RowsAnnounce'
  BY <1>1, RowsAnnounceKept
<1>3. JobsCarryRows' /\ CallsCarryRows'
  BY JobsCarryKept, CallsCarryKept
<1>4. ASSUME NEW e \in outbox', Awaited(e)' PROVE Unserved(e)'
  <2>1. CASE e \in outbox
    <3>1. Awaited(e)
      BY <1>1, <1>4, <2>1, AwaitedBefore
    <3>2. Unserved(e)
      BY <2>1, <3>1 DEF AwaitedRowsUnserved
    <3>3. QED
      BY <1>4, <2>1, <3>1, <3>2, UnservedKept
  <2>2. CASE e \notin outbox
    BY <2>2, NewRowUnserved
  <2>3. QED
    BY <2>1, <2>2
<1>5. QED
  BY <1>2, <1>3, <1>4 DEF AwaitedRowsUnserved

\* An accepted upload is never forgotten, for any number of processes, calls,
\* dispatchers and faults: its row is unpublished, its job is pending, or its
\* attempts are used up.  A dispatcher marks a row only after the queue has its
\* job, a call that finds the version claimed finds it claimed by its own job, and
\* a call completes the job only when the version is settled.
THEOREM UploadsDelivered == PipelineSpec => []UploadHasDelivery
<1>1. Spec => []Recorded
  <2>1. Init => TypeOK /\ Recorded
    BY InitTyped DEF Init, Recorded
  <2>2. TypeOK /\ Recorded /\ [Next]_vars => TypeOK' /\ Recorded'
    BY TypeKept, RecordedKept
  <2>3. QED
    BY <2>1, <2>2, PTL DEF Spec
<1>2. PipelineSpec => []UploadsAndQueue
  BY <1>1, QueueInvariant, PipelineImplements, DatasetsTyped, BusyInside, PTL
     DEF UploadsAndQueue, QueueAndCounts
<1>3. PipelineInit => DeliveryInv
  <2> SUFFICES ASSUME PipelineInit PROVE DeliveryInv
    OBVIOUS
  <2>1. RowsAnnounce /\ AwaitedRowsUnserved
    BY DEF PipelineInit, Init, RowsAnnounce, AwaitedRowsUnserved, InFlight,
       ProcessingStatus
  <2>2. JobsCarryRows /\ CallsCarryRows
    BY DEF PipelineInit, Init, Queue!QueueInit, Queue!NoCall, Queue!NoJob, Idle,
       JobsCarryRows, CallsCarryRows
  <2>3. QED
    BY <2>1, <2>2 DEF DeliveryInv
<1>4. UploadsAndQueue /\ DeliveryInv /\ [PipelineNext]_pipeline => DeliveryInv'
  BY DeliveryKept
<1>5. UploadsAndQueue /\ DeliveryInv => UploadHasDelivery
  <2> SUFFICES ASSUME UploadsAndQueue, DeliveryInv,
                      NEW v \in Version, version[v] \in InFlight
               PROVE  \E e \in outbox : /\ e.version = v
                                        /\ \/ e \notin published
                                           \/ Queue!Pending(e)
                                           \/ e.key \in exhausted
    BY DEF UploadHasDelivery
  <2>1. PICK e \in outbox : e.version = v
    BY DEF DeliveryInv, RowsAnnounce
  <2>2. e \in OutboxRow /\ KeyOfRow[e] = e.key /\ KeyOfRow[e] \in Key
    BY KeysOfRows DEF UploadsAndQueue, TypeOK
  <2>3. Unserved(e)
    BY <2>1 DEF DeliveryInv, AwaitedRowsUnserved, Awaited
  <2>4. ASSUME job[KeyOfRow[e]].state \in {"waiting", "active"} PROVE Queue!Pending(e)
    <3>1. job[KeyOfRow[e]].event \in outbox
      BY <2>2, <2>4 DEF DeliveryInv, JobsCarryRows
    <3>2. KeyOfRow[job[KeyOfRow[e]].event] = KeyOfRow[e]
      BY <2>2, <2>4 DEF DeliveryInv, JobsCarryRows
    <3>3. job[KeyOfRow[e]].event = e
      BY <3>1, <3>2, KeysTellRows DEF UploadsAndQueue
    <3>4. QED
      BY <2>4, <3>3 DEF Queue!Pending
  <2>5. QED
    BY <2>1, <2>2, <2>3, <2>4 DEF Unserved
<1> HIDE DEF UploadsAndQueue, DeliveryInv
<1>6. QED
  BY <1>2, <1>3, <1>4, <1>5, PTL DEF PipelineSpec
=============================================================================
