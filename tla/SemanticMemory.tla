---------------------------- MODULE SemanticMemory ----------------------------
(***************************************************************************)
(* The semantic memory of one user about one dataset version: the rows of  *)
(* PostgreSQL (the confirmed definition of "revenue" and the documents the *)
(* ingestion wrote), the vector points of Qdrant, the retrieval results    *)
(* that Redis caches under a revision, the jobs that index and delete, and *)
(* the retrievals of the agent graph.                                      *)
(*                                                                         *)
(* The job queue is what JobQueue shows of it: a row is dispatched unless  *)
(* the queue still holds its key, a job is tried MaxAttempts times, and    *)
(* one whose process died is delivered again MaxStalled times.             *)
(***************************************************************************)
EXTENDS Naturals, Sequences, FiniteSets

CONSTANTS
  Conversation,    \* conversations that may confirm a definition
  NoConversation,  \* the owner of a document of the dataset
  Column,          \* columns that may be confirmed as the meaning of "revenue"
  Profile,         \* the content of a document of the dataset
  DatasetDocument, \* ids of the semantic documents of the version
  None,            \* no row, no point, no cached result
  Worker,          \* concurrent calls of the indexing processor
  Reader,          \* concurrent retrievals
  TopK,            \* MemoryRetrievalPolicy.topK
  MaxAttempts,     \* QUEUE_JOB_ATTEMPTS
  MaxStalled,      \* BullMQ's maxStalledCount
  Answers,         \* bound: the columns the user confirms, in this order
  MaxDeletions,    \* bound: conversations the user deletes
  MaxCredentials,  \* bound: how often a credential becomes valid
  MaxRevision,     \* bound on the revision
  MaxFaults        \* bound on faults of the stores, the provider and processes

VARIABLES
  conversations,   \* rows of conversations
  document,        \* rows of memory_records and semantic_documents
  revision,        \* memory_context_heads.revision, 0 without a row
  point,           \* points of the Qdrant collection
  readiness,       \* the memoised promise of ensureReady
  cache,           \* the result in Redis under the key of the present revision
  credential,      \* status of the provider credential
  reindexes,       \* credentials that became valid: their correlation ids
  job,             \* outbox rows and jobs of knowledge-indexing and -deletion
  worker,          \* calls of MemoryIndexingService.process
  reader,          \* calls of MemoryRetrievalService.retrieve
  saves,           \* answers confirmed so far
  faults

memoryVars == <<conversations, document, revision, point, readiness, cache, credential,
                reindexes, job, worker, reader, saves, faults>>

stores == <<conversations, document, revision, point, readiness, cache, credential>>
queues == <<reindexes, job>>

-----------------------------------------------------------------------------
(* Rows, points, jobs *)

\* Each answer comes with an id for the record it may create.
MemoryId == 1 .. Len(Answers)

Document == MemoryId \cup DatasetDocument

IndexStatus == {"pending", "indexing", "indexed", "failed"}

\* One definition of an alias per version; its clarification and its message are
\* of its conversation, and deleting that deletes the row.
MemoryRecord == [content : Column, conversation : Conversation, status : IndexStatus]

SemanticDocument ==
  [content : {Profile}, conversation : {NoConversation}, status : IndexStatus]

Row == MemoryRecord \cup SemanticDocument

Point == [content : Column \cup {Profile}, conversation : Conversation \cup {NoConversation}]

\* knowledge.index.v1 by the key of its payload: an answer's definition, the
\* documents of the ingested version, and either of them after a new credential.
IndexKey ==
       [source : {"confirmed-definition"}, memory : MemoryId, content : Column]
  \cup [source : {"dataset-schema"}, correlation : 0 .. MaxCredentials]
  \cup [source : {"credential-reindex"}, memory : MemoryId, correlation : 1 .. MaxCredentials]

\* knowledge.delete.v1 of a deleted conversation.
DeleteKey == [source : {"conversation"}, conversation : Conversation]

JobKey == IndexKey \cup DeleteKey

Job == [state : {"absent", "waiting", "active", "completed", "failed"},
        attempts : 0 .. MaxAttempts, stalls : 0 .. MaxStalled]

ASSUME MemoryAssumption ==
  /\ Answers \in Seq(Column)
  /\ DatasetDocument \cap MemoryId = {}
  /\ None \notin Row \cup Point
  /\ {TopK, MaxAttempts} \subseteq Nat \ {0}
  /\ {MaxStalled, MaxCredentials, MaxRevision, MaxFaults} \subseteq Nat

NoJob == [state |-> "absent", attempts |-> 0, stalls |-> 0]
NewJob == [state |-> "waiting", attempts |-> 0, stalls |-> 0]

\* The outbox rows of these keys become jobs, but for the keys the queue holds:
\* finished jobs are kept for an hour and more.
Enqueued(keys) == job' = [k \in JobKey |-> IF k \in keys /\ job[k] = NoJob
                                          THEN NewJob ELSE job[k]]

Live(rows) == {d \in rows : document[d] # None}

\* The confirmed definition of "revenue", if there is one.
Definition == Live(MemoryId)

\* Contents by the id of their document.
Context == UNION {[ids -> Column \cup {Profile}] : ids \in SUBSET Document}

NoCall == [phase |-> "idle", key |-> None, loaded |-> <<>>]

Call == {NoCall} \cup
  [phase : {"loaded", "marked", "prepared", "embedded", "stored", "failing"},
   key : IndexKey, loaded : UNION {[batch -> Point] : batch \in SUBSET Document}]

NoRetrieval == [phase |-> "idle", revision |-> 0, definitions |-> <<>>]

MemoryInit ==
  /\ conversations = Conversation
  /\ document = [d \in Document |->
       IF d \in DatasetDocument
       THEN [content |-> Profile, conversation |-> NoConversation, status |-> "pending"]
       ELSE None]
  /\ revision = 0
  /\ point = [d \in Document |-> None]
  /\ readiness = "none"
  /\ cache = None
  /\ credential = "valid"
  /\ reindexes = 0
  /\ job = [k \in JobKey |->
       IF DatasetDocument # {} /\ k = [source |-> "dataset-schema", correlation |-> 0]
       THEN NewJob ELSE NoJob]
  /\ worker = [w \in Worker |-> NoCall]
  /\ reader = [r \in Reader |-> NoRetrieval]
  /\ saves = 0
  /\ faults = 0

Fault == /\ faults < MaxFaults
         /\ faults' = faults + 1

-----------------------------------------------------------------------------
(* What the user does *)

\* Seeded fault: only a new definition changes the revision.
BumpWhenNew == IF Definition = {} THEN revision' = revision + 1 /\ cache' = None
                                  ELSE UNCHANGED <<revision, cache>>

\* insert ... on conflict do update set revision = revision + 1.  Results under
\* the keys of earlier revisions are left to expire.
Bump == revision' = revision + 1 /\ cache' = None

\* Seeded fault: the key of a definition's job does not tell its contents apart.
DefinitionKeyOfMemory(m, column) ==
  [source |-> "confirmed-definition", memory |-> m, content |-> Answers[1]]

\* confirmed-definition:<memory id>:<content hash>
DefinitionKey(m, column) ==
  [source |-> "confirmed-definition", memory |-> m, content |-> column]

\* An answered clarification is saved as the definition: the row of the alias is
\* overwritten whichever conversation it came from, or inserted with a new id.
SaveDefinition(c) ==
  /\ c \in conversations
  /\ saves < Len(Answers)
  /\ revision < MaxRevision
  /\ saves' = saves + 1
  /\ \E m \in IF Definition = {} THEN {saves'} ELSE Definition :
    LET column == Answers[saves'] IN
    /\ document' = [document EXCEPT ![m] =
         [content |-> column, conversation |-> c, status |-> "pending"]]
    /\ Enqueued({DefinitionKey(m, column)})
  /\ Bump
  /\ UNCHANGED <<conversations, point, readiness, credential, reindexes, worker, reader,
                 faults>>

\* The rows go with the conversation, in the transaction that asks for the
\* deletion of its points.
DeleteConversation(c) ==
  /\ c \in conversations
  /\ Cardinality(Conversation \ conversations) < MaxDeletions
  /\ conversations' = conversations \ {c}
  /\ document' = [d \in Document |->
       IF d \in Definition /\ document[d].conversation = c THEN None ELSE document[d]]
  /\ Enqueued({[source |-> "conversation", conversation |-> c]})
  /\ UNCHANGED <<revision, point, readiness, cache, credential, reindexes, worker,
                 reader, saves, faults>>

\* Whatever is pending or failed is asked for again, under the request's own id.
EnqueueRetryable(correlation) ==
  LET retryable == {d \in Live(Document) : document[d].status \in {"pending", "failed"}} IN
  Enqueued(
         {[source |-> "dataset-schema", correlation |-> correlation] :
            d \in retryable \cap DatasetDocument}
    \cup {[source |-> "credential-reindex", memory |-> d, correlation |-> correlation] :
            d \in retryable \cap MemoryId})

\* A credential that is saved, or found valid again (ProviderSettings).
CredentialValidated ==
  /\ reindexes < MaxCredentials
  /\ credential' = "valid"
  /\ reindexes' = reindexes + 1
  /\ EnqueueRetryable(reindexes + 1)
  /\ UNCHANGED <<conversations, document, revision, point, readiness, cache, worker,
                 reader, saves, faults>>

\* A credential that is rejected or deleted (ProviderSettings).
CredentialLost ==
  /\ credential = "valid"
  /\ credential' = "invalid"
  /\ UNCHANGED <<conversations, document, revision, point, readiness, cache, queues, worker,
                 reader, saves, faults>>

-----------------------------------------------------------------------------
(* The queues *)

\* Another failure either waits for its retry or was the last attempt.
Retried(j) ==
  [j EXCEPT !.state = IF j.attempts + 1 >= MaxAttempts THEN "failed" ELSE "waiting",
            !.attempts = j.attempts + 1]

\* The stalled check finds the job without its process.
Stalled(j) ==
  IF j.stalls < MaxStalled THEN [j EXCEPT !.state = "waiting", !.stalls = j.stalls + 1]
                           ELSE [j EXCEPT !.state = "failed"]

-----------------------------------------------------------------------------
(* MemoryIndexingService.process *)

\* loadIndexDocuments: the one memory record, or every document of the version.
Loaded(k) ==
  Live(IF k.source = "dataset-schema" THEN DatasetDocument ELSE {k.memory})

\* Those that are indexed already are left out.
ToIndex(k) == {d \in Loaded(k) : document[d].status # "indexed"}

\* The load may fail, and leaves the rows as they are.
Deliver(w, k) ==
  /\ worker[w].phase = "idle"
  /\ job[k].state = "waiting"
  /\ \/ /\ ToIndex(k) = {}
        /\ job' = [job EXCEPT ![k].state = "completed"]
        /\ UNCHANGED <<worker, faults>>
     \/ /\ ToIndex(k) # {}
        /\ job' = [job EXCEPT ![k].state = "active"]
        /\ worker' = [worker EXCEPT ![w] =
             [phase |-> "loaded", key |-> k,
              loaded |-> [d \in ToIndex(k) |-> [content |-> document[d].content,
                                                conversation |-> document[d].conversation]]]]
        /\ UNCHANGED faults
     \/ /\ Fault
        /\ job' = [job EXCEPT ![k] = Retried(@)]
        /\ UNCHANGED worker
  /\ UNCHANGED <<stores, reindexes, reader, saves>>

Batch(w) == DOMAIN worker[w].loaded

\* Rows that were deleted meanwhile match no condition.
SetStatus(documents, status) ==
  document' = [d \in Document |-> IF d \in documents /\ document[d] # None
                                  THEN [document[d] EXCEPT !.status = status]
                                  ELSE document[d]]

Becomes(w, phase) == worker' = [worker EXCEPT ![w].phase = phase]

Done(w, j) ==
  /\ job' = [job EXCEPT ![worker[w].key] = IF @.state = "active" THEN j ELSE @]
  /\ worker' = [worker EXCEPT ![w] = NoCall]

\* Called before the try block: if it fails, with or without its effect, the call
\* fails, and the rows stay as they are then.
MarkIndexing(w) ==
  /\ worker[w].phase = "loaded"
  /\ \/ /\ SetStatus(Batch(w), "indexing")
        /\ Becomes(w, "marked")
        /\ UNCHANGED <<job, faults>>
     \/ /\ Fault
        /\ SetStatus(Batch(w), "indexing") \/ UNCHANGED document
        /\ Done(w, Retried(job[worker[w].key]))
  /\ UNCHANGED <<conversations, revision, point, readiness, cache, credential, reindexes,
                 reader, saves>>

\* The collection and its payload indexes exist, or are made; a failed promise is
\* forgotten, so that the next call tries again.
EnsureReady(w) ==
  /\ worker[w].phase = "marked"
  /\ \/ /\ Becomes(w, "prepared")
        /\ readiness' = "ready"
        /\ UNCHANGED faults
     \/ /\ readiness = "none"
        /\ Becomes(w, "failing")
        /\ Fault
        /\ UNCHANGED readiness
  /\ UNCHANGED <<conversations, document, revision, point, cache, credential, queues, reader,
                 saves>>

\* The provider is asked only with a valid credential, and may fail.
Embed(w) ==
  /\ worker[w].phase = "prepared"
  /\ \/ /\ credential = "valid"
        /\ Becomes(w, "embedded")
        /\ UNCHANGED faults
     \/ /\ credential # "valid"
        /\ Becomes(w, "failing")
        /\ UNCHANGED faults
     \/ /\ Fault
        /\ Becomes(w, "failing")
  /\ UNCHANGED <<stores, queues, reader, saves>>

\* The points of what was loaded: the content that was embedded, with the owner
\* it had then.  They may be stored although the call fails.
Upserted(w) ==
  [d \in Document |-> IF d \in Batch(w) THEN worker[w].loaded[d] ELSE point[d]]

Upsert(w) ==
  /\ worker[w].phase = "embedded"
  /\ \/ /\ point' = Upserted(w)
        /\ Becomes(w, "stored")
        /\ UNCHANGED faults
     \/ /\ Fault
        /\ point' \in {Upserted(w), point}
        /\ Becomes(w, "failing")
  /\ UNCHANGED <<conversations, document, revision, readiness, cache, credential, queues,
                 reader, saves>>

\* By id alone: whatever the row holds now counts as indexed.  A failure, with
\* or without the effect, goes to the catch block.
MarkIndexed(w) ==
  /\ worker[w].phase = "stored"
  /\ \/ /\ revision < MaxRevision
        /\ SetStatus(Batch(w), "indexed")
        /\ Bump
        /\ \/ /\ Done(w, [job[worker[w].key] EXCEPT !.state = "completed"])
              /\ UNCHANGED faults
           \/ /\ Fault
              /\ Becomes(w, "failing")
              /\ UNCHANGED job
     \/ /\ Fault
        /\ Becomes(w, "failing")
        /\ UNCHANGED <<document, revision, cache, job>>
  /\ UNCHANGED <<conversations, point, readiness, credential, reindexes, reader, saves>>

\* The catch block, which may fail as well; the call fails with either error.
MarkIndexFailed(w) ==
  /\ worker[w].phase = "failing"
  /\ \/ /\ SetStatus(Batch(w), "failed")
        /\ UNCHANGED faults
     \/ /\ Fault
        /\ UNCHANGED document
  /\ Done(w, Retried(job[worker[w].key]))
  /\ UNCHANGED <<conversations, revision, point, readiness, cache, credential, reindexes,
                 reader, saves>>

\* The process dies: its job stalls, and a new process has a promise of its own.
Crash(w) ==
  /\ worker[w].phase # "idle"
  /\ Fault
  /\ Done(w, Stalled(job[worker[w].key]))
  /\ readiness' = "none"
  /\ UNCHANGED <<conversations, document, revision, point, cache, credential, reindexes,
                 reader, saves>>

Index(w) == \/ \E k \in IndexKey : Deliver(w, k)
            \/ MarkIndexing(w)
            \/ EnsureReady(w)
            \/ Embed(w)
            \/ Upsert(w)
            \/ MarkIndexed(w)
            \/ MarkIndexFailed(w)

-----------------------------------------------------------------------------
(* MemoryDeletionService.process *)

\* A point belongs to the conversation in its payload.
PointsOf(c) == {d \in Document : point[d] # None /\ point[d].conversation = c}

\* The call may fail, or its process die, with or without the effect.
ProcessDelete(c) ==
  LET k == [source |-> "conversation", conversation |-> c]
      without == [d \in Document |-> IF d \in PointsOf(c) THEN None ELSE point[d]]
  IN
  /\ job[k].state = "waiting"
  /\ \/ /\ point' = without
        /\ job' = [job EXCEPT ![k].state = "completed"]
        /\ readiness' = "ready"
        /\ UNCHANGED faults
     \/ /\ Fault
        /\ point' \in {without, point}
        /\ \E j \in {Retried(job[k]), Stalled(job[k])} : job' = [job EXCEPT ![k] = j]
        /\ UNCHANGED readiness
  /\ UNCHANGED <<conversations, document, revision, cache, credential, reindexes,
                 worker, reader, saves>>

-----------------------------------------------------------------------------
(* MemoryRetrievalService.retrieve, for a question that names "revenue" *)

Retrieving(r, call) == reader' = [reader EXCEPT ![r] = call]

Retrieve(r) ==
  /\ reader[r].phase = "idle"
  /\ Retrieving(r, [phase |-> "revised", revision |-> revision, definitions |-> <<>>])
  /\ UNCHANGED <<stores, queues, worker, saves, faults>>

\* Redis may hold a result under the key of this revision.
CacheHit(v) == v = revision => cache # None

\* The retrieval of this process that will have the result under a revision.
InFlight(v) == {r \in Reader : reader[r].phase = "defined" /\ reader[r].revision = v}

\* A cached result is returned, and so is the result of a retrieval in flight.
Reuse(r) ==
  LET v == reader[r].revision IN
  /\ reader[r].phase = "revised"
  /\ CacheHit(v) \/ InFlight(v) # {}
  /\ Retrieving(r, NoRetrieval)
  /\ UNCHANGED <<stores, queues, worker, saves, faults>>

\* Every live definition whose alias the question contains.
FoundDefinitions == [d \in Definition |-> document[d].content]

\* Otherwise (or when Redis fails) the definitions are read.
FindDefinitions(r) ==
  /\ reader[r].phase = "revised"
  /\ InFlight(reader[r].revision) = {}
  /\ Retrieving(r, [reader[r] EXCEPT !.phase = "defined", !.definitions = FoundDefinitions])
  /\ UNCHANGED <<stores, queues, worker, saves, faults>>

\* Points near enough to the question, of the user, the dataset and the version.
Search == {hits \in SUBSET {d \in Document : point[d] # None} : Cardinality(hits) <= TopK}

\* The hits whose rows are live and indexed, with the content of the rows.
HydrateHits(hits) == [d \in {d \in Live(hits) : document[d].status = "indexed"} |->
                        document[d].content]

\* A source once and by its best score, at most TopK of them; a definition scores
\* 1, which no hit exceeds.
BoundContext(definitions, semantic) ==
  LET all == DOMAIN definitions \cup DOMAIN semantic IN
  {[d \in kept |-> IF d \in DOMAIN definitions THEN definitions[d] ELSE semantic[d]] :
     kept \in {s \in SUBSET all :
                 /\ Cardinality(s) <= TopK
                 /\ Cardinality(s) = TopK \/ s = all
                 /\ DOMAIN definitions \subseteq s \/ s \subseteq DOMAIN definitions}}

\* Seeded fault: the result is cached under the revision it finds at the end.
CacheAtEnd(v, result) == cache' = result

\* The key holds the revision that was read before the definitions.
CacheUnder(v, result) == cache' = IF v = revision THEN result ELSE cache

\* Without an embedding or without Qdrant the definitions are all there is, and
\* without Redis nothing is cached.
RetrieveUncached(r) ==
  /\ reader[r].phase = "defined"
  /\ \E hits \in (IF credential = "valid" THEN Search ELSE {}) \cup {{}} :
     \E result \in BoundContext(reader[r].definitions, HydrateHits(hits)) :
       CacheUnder(reader[r].revision, result) \/ UNCHANGED cache
  /\ Retrieving(r, NoRetrieval)
  /\ UNCHANGED <<conversations, document, revision, point, readiness, credential, queues,
                 worker, saves, faults>>

\* The time to live, or an eviction.
Expire ==
  /\ cache # None
  /\ cache' = None
  /\ UNCHANGED <<conversations, document, revision, point, readiness, credential, queues,
                 worker, reader, saves, faults>>

Retrieval(r) == Retrieve(r) \/ Reuse(r) \/ FindDefinitions(r) \/ RetrieveUncached(r)

-----------------------------------------------------------------------------

MemoryNext ==
  \/ \E c \in Conversation : SaveDefinition(c) \/ DeleteConversation(c) \/ ProcessDelete(c)
  \/ CredentialValidated
  \/ CredentialLost
  \/ \E w \in Worker : Index(w) \/ Crash(w)
  \/ \E r \in Reader : Retrieval(r)
  \/ Expire

\* The dispatcher's timer and the queues' workers go on.
MemoryFairness ==
  /\ \A c \in Conversation : WF_memoryVars(ProcessDelete(c))
  /\ \A w \in Worker : WF_memoryVars(Index(w))

MemorySpec == MemoryInit /\ [][MemoryNext]_memoryVars /\ MemoryFairness

\* Rows, points, jobs, calls and retrievals stay within what the stores, the queue
\* and the processes can hold.
MemoryTypeOK ==
  /\ conversations \in SUBSET Conversation
  /\ document \in [Document -> Row \cup {None}]
  /\ revision \in 0 .. MaxRevision
  /\ point \in [Document -> Point \cup {None}]
  /\ readiness \in {"none", "ready"}
  /\ credential \in {"valid", "invalid"}
  /\ reindexes \in 0 .. MaxCredentials
  /\ job \in [JobKey -> Job]
  /\ worker \in [Worker -> Call]
  /\ reader \in [Reader -> [phase : {"idle", "revised", "defined"},
                            revision : 0 .. MaxRevision, definitions : Context]]
  /\ saves \in 0 .. Len(Answers)
  /\ faults \in 0 .. MaxFaults

\* A retrieval that is served from Redis never tells the agent a meaning of
\* "revenue" that the user has since replaced, however the answer, the indexing
\* and another retrieval interleave.  (A deleted definition may still be served:
\* the deletion does not change the revision.)
CacheCurrent ==
  cache # None =>
    \A m \in Definition : m \in DOMAIN cache /\ cache[m] = document[m].content

\* A job that failed for good after a fault: the last failure could not be noted
\* in the row, or the job stalled once too often.  Nothing takes up such a row
\* that is left "indexing": a new credential asks for pending and failed ones.
GivenUp(m) ==
  /\ faults > 0
  /\ job[DefinitionKey(m, document[m].content)].state = "failed"

\* A confirmed definition does not stay pending or indexing, whatever was confirmed
\* before it, and through a credential that comes and goes: it is indexed, it is
\* failed, it goes with its conversation, or faults made its own job give up.
DefinitionSettles ==
  \A m \in MemoryId :
    (document[m] # None)
      ~> \/ document[m] = None
         \/ document[m].status \in {"indexed", "failed"}
         \/ GivenUp(m)
=============================================================================
