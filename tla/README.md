# A TLA+ model of Agentic CSV

Agentic CSV answers questions about uploaded CSV files. Prompts are stored in
PostgreSQL by a web process, travel through an outbox and BullMQ to worker
processes, are answered there by a checkpointed graph that may ask its user a
question, and the reply is streamed back from an event log. This directory
models that machinery: who may change which row when, what survives a crash, a
retry or a second delivery, and what a user may rely on.

Paths are relative to the repository. `REPO` stands for
`packages/infrastructure/src/conversations/postgres-conversation-repository.ts`.

## Inventory

| Component | State | Operations | Talks to |
|---|---|---|---|
| Conversation runs (`REPO`, `conversation-service.ts`, `conversation-run-service.ts`, `postgres-agent-checkpoint-repository.ts`) | conversations, messages, agent_runs, run_events, agent_clarifications, agent_checkpoints | submit, claim, progress, save checkpoint, pause, resume, complete, fail, cancel, archive, delete | outbox, agent graph, event stream |
| Outbox and job queues (`outbox-dispatcher.ts`, `queues.ts`, `apps/worker/src/index.ts`) | outbox_events, BullMQ jobs in Redis, processor calls | dispatchBatch, deliver, finish, retry, stalled check, forget | every producer of jobs, five processors |
| Conversation record (`conversation.ts`, `REPO` save and attachDatasetVersion; partly modelled) | title, archive flag, dataset, optimistic version | create, rename, archive, attach dataset, first title | datasets, submissions |
| Agent graph (`packages/agent/src/graph.ts`) | checkpoint snapshot: phase, limits, plan, question | authorize, retrieve context, plan, validate, repair, execute, verify, persist | checkpoints, memory, DuckDB, OpenAI |
| Dataset upload (`initiate-` and `complete-dataset-upload.ts`, `unit-of-work.ts`) | datasets, dataset_versions, upload intents, idempotency records, objects in S3 | initiate, put object, complete | ingestion |
| Dataset ingestion (`dataset-ingestion-service.ts`, `postgres-dataset-repository.ts`) | version status, claim id and time, profile, semantic documents | claim, validate, profile, index, complete, fail | storage, DuckDB, memory |
| Semantic memory (`memory-service.ts`, `postgres-memory-repository.ts`, `redis-memory-cache.ts`) | documents and index status, vectors in Qdrant, context revision, Redis cache | index, delete, retrieve | conversations, ingestion, privacy, credentials |
| Privacy deletion (`0014_phase9_privacy_deletion.sql`, `privacy-deletion-service.ts`) | deletion requests with attempts and claim time | schedule, claim, purge, record failure, complete | everything a user owns |
| Run event stream (`runs/[runId]/events/route.ts`, `lease-limiter.ts`) | cursor and page of a stream, leases in Redis | open, poll, resume after a sequence, close | run_events |
| Rate limiter (`rate-limiter.ts`) | sorted set of requests per key | check | every route |
| Identity (`identity-service.ts`, `identity-repository.ts`) | users, sessions, one-time tokens | register, confirm, log in, issue CSRF, change password or email, reset, revoke | every route, the rate limiter, mail |
| Provider settings (`provider-settings-service.ts`) | credential, validation status, preference | save, revalidate, choose model, delete | OpenAI, memory |
| Conversation page (`conversation-workspace.tsx`) | run and timeline shown, sequences handled, one EventSource | load, send, answer, stop, delete, handle event | the conversation API, the event stream |
| Analysis (`deterministic-analysis-planner.ts`, `duckdb-analysis-compiler.ts`, `analysis-service.ts`) and suggestions (`suggestion-service.ts`) | none: functions of a profile, a question and a plan | suggest, plan, compile, choose a chart | profiles, agent graph |

The execution of SQL by DuckDB, the adapters for S3, OpenAI, Qdrant and mail,
environment parsing, readiness and logging are not modelled as components: the
others see that a call to them succeeds or fails.

### What is hard here, and what has to be right

* **Conversation runs.** Every operation is a transaction of its own, so a
  caller acts on what an earlier transaction told it. Submissions race with
  each other and with their own retries; cancellation, deletion, archiving and
  privacy requests race with a worker that is inside a graph node; jobs come
  twice; a worker dies; a commit is not seen by its caller. One active run per
  conversation, one reply per run, one question per run, a timeline without
  gaps, an event log that tells what happened, nothing left after a deletion.
* **Outbox and queues.** Two stores without a common transaction: a row may be
  added twice, never lost. Attempts and the stalled check bound what is
  retried. Every accepted prompt is picked up.
* **Conversation record.** Optimistic saves against locked updates: no lost
  attachment of a dataset.
* **Agent graph.** Limits hold over the whole run although it is suspended and
  resumed; a resumed run works on the dataset it was asked about.
* **Datasets.** An upload is four transactions and two looks at an object that
  its user may replace at any time; a retry shares the claim of the call it
  replaces; only the last attempt records a failure. Dataset and version must
  agree, a version has one job, a ready one was made from the declared file,
  and every version becomes ready or failed.
* **Memory.** Three stores and a cache behind a revision: the cache never tells
  a meaning that was replaced, and a definition is indexed or fails for good
  while answers replace it and the credential goes and comes, unless faults
  make its job give up.
* **Privacy deletion.** Four stores are emptied one after the other by workers
  that fail, die and overlap while uploads, index jobs and retrievals are under
  way. What was written before the request is erased, a deletion is audited
  once, and each failure but the last lets the next attempt try again.
* **Streams.** Cursor without gap or repetition over pages, lifetimes, cuts and
  reconnections; no more connections than allowed; the end of a run is sent.
* **Conversation page.** Loads, events and the user's calls are answered in any
  order; when nothing is under way the page shows what is stored.
* **Sessions.** Several steps, two tabs and a clock: a new password ends every
  session there is, but a login that it overtakes still opens one; an address
  counts once its owner proved it; an error hides an effect only if a call was
  lost or another request had ended the session it goes by.
* **Credentials.** No verdict about a key that was replaced, no model that the
  stored key's account does not offer.
* **Plans.** What the profiler calls a column, what is suggested for it, what
  the planner makes of the suggestion, what the compiler accepts and what the
  chart draws are five pieces of code that have to agree on types.

`PROJECT.json` lists the single hazards at their lines, with the property that
guards each or the reason why none does.

## Modules

| Module | Models | Used by |
|---|---|---|
| `RunLifecycle` | The abstract promise: prompts of a conversation are taken one at a time, may be answered with one question, and end at most once | refined by `ConversationRuns` |
| `ConversationRuns` | The conversation tables, the requests and the workers | extended by `AgentRunPipeline` |
| `JobQueue` | Dispatcher and BullMQ for one queue, parameterised by its rows and keys | instantiated by the two pipelines |
| `AgentRunPipeline` | `ConversationRuns` behind `JobQueue`, with faults and fairness | |
| `Datasets` | Uploads, completions, the object store and the ingestion workers | extended by `IngestionPipeline` |
| `IngestionPipeline` | `Datasets` behind `JobQueue`, with faults and fairness | |
| `AgentGraph` | The thirteen nodes that answer a prompt, the planning model, and the user who meanwhile acts | |
| `AnalysisPlans` | Column types, suggestions, the deterministic planner, the plan contract, the compiler's checks, the choice of a chart, all as functions | |
| `GraphAndPlans` | `AgentGraph` beside the functions of `AnalysisPlans`: states what a run checks of these | extended by `MCAgentGraph` |
| `SemanticMemory` | Definitions and documents, vectors, the retrieval cache, the jobs that index and delete | |
| `ProviderSettings` | Credential and preference, the requests of the settings API, the provider, the settings page | |
| `Identity` | An account, its links and sessions, the login limit, and the tabs of a browser | |
| `PrivacyDeletion` | Deletion requests, their workers, the stores, and late writers | |
| `RunEventStream` | Event log, streams under leases, the browser's EventSource | extended by `ConversationWorkspace` |
| `ConversationWorkspace` | The conversation page over its event stream | |
| `MC...` | Small constants for TLC, one for each module that is run | runs |
| `MCPages` | `ProviderSettings` and `ConversationWorkspace` with their constants: a tab shows one page or the other | run `pages` |
| `ConversationRuns_proofs`, `Datasets_proofs` | Theorems of the tables and of the pipeline over them | extend `AgentRunPipeline`, `IngestionPipeline` |
| `ConversationWorkspace_proofs` | Theorems of the stream and of the page over it | extends `ConversationWorkspace` |
| `AgentGraph_proofs` | Theorems of the graph and of the functions of `AnalysisPlans` | extends `GraphAndPlans` |
| `SemanticMemory_proofs`, `ProviderSettings_proofs`, `Identity_proofs`, `PrivacyDeletion_proofs` | Theorems of the module they are named after | |

### ConversationRuns and the code

A step is a transaction. PostgreSQL runs them under READ COMMITTED, and each
locks the row of the run or of the conversation before it tests and writes, so
they can be taken as atomic. What is *not* atomic is kept apart:

* A submission looks for its replay (`LookUpReplay`) before the conversation is
  locked (`Refuse`, `Accept`, `Collide`), and a collision with the unique index
  is resolved in a second transaction (`ResolveCollision`). `request[r]` is
  where that HTTP request stands.
* A worker claims (`Claim`), loads the checkpoint (`LoadCheckpoint`), enters a
  graph node (`EnterNode`: progress event and cancellation check), leaves it
  with the checkpoint saved (`LeaveNode`), and then pauses, completes or fails.
  `worker[w]` is what the thread carries between them: its run, the revision it
  expects, and what its snapshot says of the question.
* `Returns` lets a committed transaction report an error, and `GraphError` lets
  any step of the graph throw; both lead to the catch block of `process`, whose
  `failRun` is `Fail`. `Crash` loses any set of threads.
* `Resume` is `resumeRun`: message, clarification, checkpoint, run, event and
  outbox row in one transaction. The memory row of a saved definition is
  written in `AgentGraph`; its index and retrieval are in `SemanticMemory`.
* `Delete` erases by the foreign keys' cascade; `PrivacySchedule` cancels runs
  as `privacy_schedule_dataset` and `privacy_schedule_account` do.

Data is reduced to what the properties tell apart: a message is its place, its
role and its run; an event is its type; a checkpoint is its revision and the
state of its question. One tenant is modelled, since row-level security
confines every query to one. Nothing in the module depends on the queue: any
worker may try to claim any run at any moment, which covers every duplicated,
delayed or reordered delivery. The graph's nodes, anonymous here, are the
subject of `AgentGraph`.

### JobQueue, AgentRunPipeline and the code

`Select`, `Add` and `MarkPublished` are `dispatchBatch`; `RowFails` is its
catch block. `Deliver`, `Finish`, `Stall` and `Forget` are BullMQ's behaviour
as the worker configures it: a job is identified by the hash of its idempotency
key, `add` of a known id does nothing, an attempt that rejects is retried until
`MaxAttempts`, a job whose lock lapses goes back to waiting `MaxStalled` times,
finished jobs are kept for a while.

In `AgentRunPipeline` the threads of `ConversationRuns` are the processor calls
of the queue. `ClaimThrows` is a `claimRun` that fails before or after its
commit, outside the try block of `process`; `FailThrows` is a `failRun` that
throws; `ProcessDies` takes a dispatcher with any calls, also when the
dispatcher itself is the cause: a rejection of `dispatchBatch` outside its try
block is handled by nobody. `ReclaimHeld` is the stalled check taking a job
from a holder that is only slow. All of these consume the budget `MaxFaults`.

### Datasets, IngestionPipeline and the code

A version and its upload intent are created together and share their life, so
they are one value of `Version`. The request that starts an upload is
`initiation[v]`: the dataset is read without a lock and a URL is signed
(`Presign`), then the dataset is locked and tested again (`Grant`,
`RefuseUpload`). The request that completes one is `completion[c]`: its key is
looked up, the intent read, the object inspected, each with nothing locked, and
the last transaction reserves the key and queues the version (`ReplayLate`,
`RefuseCompletion`, `Accept`). A refused transaction rolls its reservation
back, so an idempotency record that can be seen has its response, and the
branch `IDEMPOTENCY_REQUEST_IN_PROGRESS` is never taken.

`worker[w]` is a call of `process`, phase by phase: `claim`, the inspection,
`markProfiling`, the read and the profile, `markIndexing`, `complete`. Each
transaction of a call tests its claim and an expected status (`Holds`), may
commit and still report an error (`Proceeds`), or finds its claim lost
(`ClaimLost`). A claim id is the job id, that is the key of the completion. A
version has one job (`IngestedOnce`), so the code's answer "busy" and its
takeover of a claim older than its time to live are never reached, and time is
not modelled. An object is the declared bytes, other bytes, or absent; a file
with the declared bytes may still be no reasonable CSV, which `Profile` leaves
open. `complete` also stores columns, semantic documents and a memory job; of
these the model keeps which content the profile describes.

`IngestionPipeline` gives the calls to a queue as `AgentRunPipeline` does.
`Rethrow` is the processor's catch block, which marks the version failed when
the attempt is the last; `RethrowUnpersisted` is that marking failing.

### AgentGraph and the code

`AgentGraph` is `packages/agent/src/graph.ts` for one conversation, whose runs
follow one another. A node takes two steps, as in the code: `EnterNode` is
`assertActive`, the two limits and `recordRunProgress`, whose transaction tests
the run again, and a second step does the node's work and saves the checkpoint
(`Persist`). Between the two, and between any two nodes, the user may cancel
(`Cancel`), attach another version of a dataset (`Attach`) or, while the run
waits, answer and save the answer as a definition (`Resume`). `StopAtNode` is a
failed test, `WorkThrows` any error of a node; both end in `failRun` (`Fail`).
The seven nodes that change nothing a property tells apart are one action,
`PassThrough`, over the edges of the graph (`NodeAfter`).

`snapshot` is the responder's copy of the checkpoint, `checkpoint` the stored
row. The planning model returns any member of `ModelDecisions`: malformed, a
history or an unsupported reply, a question of its own, or a plan. A plan is
the set of columns it measures and the set it groups or filters by; a prompt is
what the graph tests of its text. `AmbiguousRevenue` is
`localMaterialAmbiguity`, `Chosen` is how an answer selects an option (equal to
its value, or containing its label: `Matches`; the first such option), `ValidPlan`
is `validatePlanColumns`. `RememberedFor` is the definition that retrieval
returns. Results of earlier turns and retrieved texts are left out: no test of
the graph depends on them.

Simplifications: that a run has one responder at a time is what
`ConversationRuns` shows, so it has one here, and the responder of a cancelled
run is waited for before the next prompt (the two work on rows of their own).
Workers do not crash here; `AgentRunPipeline` has them crash. The server's own
wording of the revenue question is taken never to be the model's. A version has
no more than the eight columns to which the code cuts the options.

Three things the model made plain and no document contradicts. The step limit
and the repair limit do not fit: a run with one question and two repairs needs
21 steps, the default is 20, so it fails at its last node; and the least step
limit that the environment may set, 8, is below the 11 steps of a plain
analysis. An answer that is saved as a definition is stored under the version
attached when it is given (`REPO:1091`), which need not be the one the question
was about; later prompts then fail validation until it is replaced. And a plan
that names no column, a count of rows, is computed on whichever version is
attached at that moment; the stored result names that version.

### AnalysisPlans and the code

No state: a dataset is the sequence of its column profiles, a question the set
of the planner's keywords it contains and the columns it names. `SemanticType`
is `inferSemanticType`; `InitialSuggestions` and `FollowUps` are the drafts of
`suggestion-service.ts`, `Prompt` what the planner finds in their wording;
`PlansFor` is `DeterministicAnalysisPlanner.plan`, as a set with one plan or
none, `Route` the order in which it tries its rules; `MeetsContract` is
`analysisPlanSchema`; `Compiles` and `ResultSchema` are what
`DuckDbAnalysisCompiler` refuses and returns; `Chart` is `selectChart`. The
order of rows, filters, limits, labels, aliases and SQL text are left out, and
no column's name is cut in a prompt, contains a keyword or contains another
column's name. The planner is reached through `AnalysisService.analyze`, which
the tests and `scripts/evaluate-phase9.ts` call; the graph has the model plan
and shares compiler, contract and chart through `executePlan`.
`Keep` is the `filter` of JavaScript, written as a recursive function rather than
with `SelectSeq` so that it can be reasoned about. What the functions promise
does not depend on a state of the graph: `GraphAndPlans` states it of the states
before the first prompt, so that a run evaluates it once.

### SemanticMemory and the code

`document` holds the rows of `memory_records` and `semantic_documents` that
have something to index, `point` the collection in Qdrant, `cache` the result
stored in Redis under the present revision (one under an older revision is
never read again). `SaveDefinition` is `saveConfirmedDefinition` with its
revision, outbox row and key; `Index` is `MemoryIndexingService.process` step
by step: load (`Deliver`), `MarkIndexing`, `EnsureReady`, `Embed`, `Upsert`,
`MarkIndexed` and, in the catch block, `MarkIndexFailed`. Each may fail, those
that write with or without their effect. A failure of load and `MarkIndexing`
leaves the row as it is then, since they precede the try block, and so does one
of `MarkIndexFailed`; `Retried` counts the attempt. `Crash` is a worker that
dies: its job is delivered again `MaxStalled` times, then given up (`Stalled`).
`CredentialValidated` and `CredentialLost` are the credential transactions that
queue the failed rows anew. `Retrieval` reads revision, cache, definitions and
vectors in the code's order; retrievals that read the same revision in one
process share one call (`InFlight`). Outbox and queue are reduced to what
`JobQueue` shows of them. A text is the column it names, and a similarity
search returns any `TopK` points.

### ProviderSettings and the code

Each of the five routes is a request that reads the credential
(`ReadCredential`), asks the provider (`AskProvider`, with the gateway's
retries) and writes (`ReplaceCredential`, `RecordValidation`,
`RecordRejection`, `SavePreference`, `DeleteCredential`), with anything in
between. `StillStored` is the credential id in the WHERE clause of
`updateValidation`. `Revoke` is the account's owner at OpenAI. A page keeps the
last settings, the models and the selection; `Show...` is what it does with an
answer, a failure included, and its buttons are guarded as they are disabled.
What another tab shows is not followed. The agent's own read of preference and
key (`agents/agent-provider-service.ts`) is left out: two reads, no write.

### Identity and the code

One account, its links and sessions, and a browser whose tabs share one cookie.
A request moves through the steps of its route: a mutation fetches a CSRF token
that replaces the one before (`IssueCsrf`, `Post`), a login opens its session
before the bucket is checked (`LimitLogin`, `ReplaceSession`), a change of
password commits and then opens the replacement (`ChangePassword`). A session is
opened by two calls: `CreateSession` inserts it, `AuthenticateNew` reads it back
and fails if another request has revoked it. A session remembers which password
its request had shown or set (`verified`), which was in force when the request
last looked at the account or revoked the session to be replaced (`checked`),
and which when it was inserted (`opened`): `identity_create_session` does not
look at the password, so the three may differ. `Consumable` and `Confirmed` are the database functions that
consume a link. `Tick` is the clock of server and database, `CallFails` any
lost call. A password is the number of its predecessors; hashes and tokens
cannot be guessed. The display name is left out.

### PrivacyDeletion and the code

`ScheduleDataset` and `ScheduleAccount` are the database functions of
migration 0014; `Claim`, `Complete` and `RecordFailure` those of the worker;
`Process` empties Redis, the object store and the vector store in the order of
`privacy-deletion-service.ts:57`. A claim may expire while its worker goes on
(`ClaimExpires`), a step may fail (`StepFails`), a worker may die or lose its
job (`Stalls`), a failure may not be recorded (`RecordFails`), and the claim,
which is made outside the try block, may fail with or without its commit
(`ClaimFails`). A writer is an
upload, an index job or a retrieval that began before and stores later;
`late` remembers what was stored after its deletion was requested.

### RunEventStream, ConversationWorkspace and the code

`run` and `log` are what the transactions of `ConversationRuns` leave in
`agent_runs` and `run_events`. A stream is opened under a lease (`Open`,
`Refuse`), reads and sends a page (`Send`), ends at a terminal run after the
last page or at its lifetime (`Close`), or is cut, with its server or without
(`Cut`). A stream is a connection: when the browser ends one, `cancel()` releases
the lease at once, while the loop of `start()` may finish a query or a delay of
0.3 seconds that nobody reads, which the model does not show. `source` is the
browser's EventSource: it reconnects after the last event it was given. Leases and streams age by `Tick`.

`ConversationWorkspace` adds the page. A load reads the timeline, then the run
(`ReadTimeline`, `ReadRun`: two statements of a transaction that is READ
COMMITTED), and replaces both at once (`Arrive`). `HandleEvent` drops what was
seen; `Follow` is the effect that opens and closes the source when the shown
run changes. The user has one call under way, which disables the controls.
There is one tab, and it is reloaded only when no call is under way.
`overtakes`, `torn` and `replayed` remember what `SettledPageIsTrue` excepts: a
load that overtook another, a run that ended between the two reads of a load,
and a question that closed the stream although its answer was given or under
way.

## Runs

| Run | Bounds | Shows |
|---|---|---|
| `prompts` | one conversation, three submissions of which one repeats another's key and text, two workers, one progress event per run | the safety properties of the tables, and that they implement `RunLifecycle` |
| `faults` | one prompt, two calls, two attempts, one forgiven stall, one fault | a queued run has a row or a job (`QueuedRunHasDelivery`), starts (`QueuedRunStarts`) and settles (`FaultlessRunSettles`) |
| `uploads` | one dataset, two uploads, three completions (a key used for both uploads, and another key), two workers | the invariants of the dataset tables and `SettledVersions` |
| `ingestion` | one upload, two calls, three attempts, one forgiven stall, two faults | `UploadHasDelivery` and `UploadSettles` |
| `analysis` | two prompts of three kinds, two versions with three columns in all, five plans, 20 steps, one repair, five tool calls; datasets of up to four (suggestions) or two (plans) columns of seven profiles | the limits, what a stored analysis may rely on, `RunComesToRest`; that plans execute, suggestions are answered and charts fit |
| `selection` | one prompt of `analysis` | violated: `SelectedColumnBound` |
| `memory` | one conversation, two answers, one indexing call, one retrieval, two attempts, one forgiven stall, two faults, which are never in a behaviour with a retrieval | `CacheCurrent`, `DefinitionSettles` |
| `pages` | a settings page and another tab, two accounts with different models, two saved credentials, two attempts, one fault; or a conversation of one run with a question, one connection, two loads, one failure, one reload | `PreferenceFits`, `InvalidForCause`, `SelectionOffered`; `SettledPageIsTrue`, `EventsOnceInOrder` |
| `accounts` | two tabs, two own addresses and a taken one, two sessions, links and passwords, a clock of three moments, one fault | `PasswordEndsSessions`, `AddressProven`, `EffectReported` |
| `privacy` | a dataset and its account, two deletions, two workers, one writer, two attempts, two failing steps (the second while nothing is written late), one lost worker, claim or record | `ErasedOnceDeleted`, `AuditedOnce`, `RetriesErase` |
| `streams` | one run, three connections of which two may be open, pages of two, one cut | `StreamsWithinLimit`, `EndsDrained`, `EveryEventTaken` |
| `reload` | the conversation of `pages`, opened while the run waits | violated: `RefreshResumesDelivery` |

Why the bounds are enough: properties of two runs need two runs, since runs
meet only pairwise through their conversation; the third submission of
`prompts` is a retry. A run has one question, so two claims and four
checkpoints; two workers give a live holder and a duplicate delivery, and the
invariant proved in `ConversationRuns_proofs` covers more. `MaxProgress` bounds
only `run.progress` events. One fault in `faults` is each of them once; what
two do to a job, giving it up, is met in `ingestion`, where two faults exhaust
a job by two stalls, or by a slow call and one more error. Answers are
interchangeable, so there is one. Uploads meet only at the dataset, pairwise,
and completions at a version or a key: three cover both with two uploads. Three
attempts of an ingestion are the configured number (`.env.example:45`), of
which the last is treated apart. In `analysis` two prompts are needed for a
definition that one saves and the other retrieves; the second repair of the
default limit repeats the first, and the proofs hold for any limit. A run makes
at most five tool calls, two before and three after an answer, so five is the
least limit that lets every run through. The first version has two columns that
mean revenue, the name of one within the name of the other; the option list of
the model has an option of each version and one that is no column. No function
of `AnalysisPlans` looks at more than two columns of a kind at a time, except
the cuts at four and eight, and four columns give a follow-up one of each kind;
the theorems are about datasets of any width.
In `memory` a stale cache needs one definition replaced while one retrieval is
under way; the version has no documents of its own, whose indexing takes the
steps of a definition's. Two faults use up a job's attempts, or its forgiven
stall and the next, so that giving up is met. They are not combined with
retrievals (`ApartSpec`): no call fails while one is under way or its result
cached, and none begins after a fault. Whether a definition settles does not
depend on retrievals, which write the cache only, and `CacheCurrent` is proved
for any mixture. In `pages` a tab shows one page at a time, and the two share
neither row, call nor stream, so a behaviour is one of either. A late answer of
the settings needs one request of another tab between two steps of one; a second
fault would use up the attempts of a call, which then ends like one that is
refused for its rate. The proofs cover more. In `accounts` two
passwords, sessions and links give an old and a new one of each, and the clock
passes every time to live but the absolute one, which only shortens a session.
In `privacy` a second deletion is that of the account, over the dataset's. Two
failing steps are as many as a job has attempts, so that its last failure is
met; the step that makes the last is not combined with a writer under way or
something written late (`ApartSpec`), which only the two proved properties are
about. One loss is the one stall that BullMQ forgives. In
`streams` three connections are one more than the limit, and four events are
two pages. Of the conversation page one run is what can be searched to the end;
the theorem about the page at rest covers more. Deadlock is not checked: when all that users
asked for is done nothing needs to happen. Symmetry is used where only safety is
checked.

**Fairness.** In the two pipelines: weak fairness of each dispatcher (its timer
runs every five seconds, `apps/worker/src/index.ts:470`), of each worker
(BullMQ polls, and graph, provider and database calls have time limits), and of
the stalled check. Users, faults and the removal of finished jobs owe nothing.
A process that dies is replaced: its dispatcher and its slots stay. In
`AgentGraph`: weak fairness of the responder as a whole (`FairSpec`), since a
queued run is delivered and the calls of a node return or time out. It promises
neither a certain outcome of a call nor anything of the user. In
`SemanticMemory`, of the indexing and deletion workers; in `PrivacyDeletion`, of
the workers that process; not of credentials, users or retries that an
administrator would have to make. In `RunEventStream`, of the route, the clock,
EventSource's reconnection and the page that takes what it was given; and strong
fairness of `Send`, because a stream is closed and opened again by its lifetime:
a stream of 25 seconds that polls every 0.3 seconds cannot be opened again and again
without reading a page. Workers and users of a run owe the stream nothing.
`ProviderSettings`, `Identity` and `ConversationWorkspace` are checked for
safety only.

### Disagreements with the documents

Two runs show one each:

* `reload`: the sequences of handled events live in the page's memory. After a
  reload while a run waits, the stream that the answer opens starts at 0; the
  old `run.clarification` it replays is taken as the run's end
  (`conversation-workspace.tsx:364`), the stream is closed, and the refresh
  finds the same run active and opens none. `docs/specs/005`, line 60, says
  that a refresh resumes event delivery.
* `selection`: `validatePlanColumns` (`packages/agent/src/graph.ts:771`) takes
  the first option that equals the answer or whose label is contained in it. If
  one column's name contains another's, choosing the longer may select the
  shorter, although `docs/specs/007-agent-workflow.md:131` binds the plan to the
  selected column. `AnswerHonoured` says what does hold: an answer that matches
  one option binds the plan to its column.

Four more were met on the way; no run shows them:

* A follow-up may ask a column for what its type does not allow: after an answer
  about missing values the total or correlation of a text column, after a trend
  the top values of a date (`suggestion-service.ts:155`). `docs/specs/022`, line
  17, excludes incompatible types. `EverySuggestionIsAnswered` speaks of the
  others.
* A plan without a sort is ordered by its first measure and its first dimension
  (`duckdb-analysis-compiler.ts:242`), so with two dimensions a limit leaves the
  engine a choice; a lookup has no order at all. `docs/implementation.md:31` lists
  deterministic tie-breakers, which explicit sorts do have. No model orders rows.
* An indexing call that loaded a definition may upsert its vector after the
  deletion job of its conversation (`memory-service.ts:155`); no later job removes
  it, although `docs/specs/009-memory-and-context.md:88` says deletion removes the
  points. It is never returned, as its row is gone.
* A deletion that failed as often as its job is tried stays failed. Nothing
  retries the job, and a new request is answered with the failed one (migration
  0014, line 95), although `docs/specs/022`, line 58, wants failed cleanup to
  remain retryable. `RetriesErase` names the exception (`Exhausted`), and
  `privacy` meets it.

Found while modelling, and no property contradicts them:

* A worker that dies after `claimRun` committed, or does not see the commit,
  leaves its run `running`. The job is delivered again, but only queued runs
  are claimed (`REPO:453`) and nothing else looks for them, although
  `docs/specs/000-constitution.md:47` wants a recoverable failure state.
  `FaultlessRunSettles` says what remains.
* A retry that overlaps its first submission is told that another run is active
  instead of being answered with the first one's ids (`REPO:307` before the
  lock at `REPO:311`; `docs/specs/013`, line 150).
* A version is failed only from the processor's catch block at the last attempt
  (`dataset-ingestion.processor.ts:26`). A job that the stalled check gives up
  never gets there, and a failure that cannot be stored is only logged; the
  version stays in flight and its dataset takes no further upload.
* A redelivery after a stall has the claim of the slow call it replaces
  (`postgres-dataset-repository.ts:234`). Each restarts or advances the status
  under the other, both throw, and the attempts of the job are used up: a good
  file fails after one stall. Safety is not at stake: `ProfileTrusted`,
  `DatasetAgrees` and `SettledVersions` hold, and are proved.
* A definition confirmed as a, as b and as a again keeps its first job's key
  (`REPO:1200`): within the hour that finished jobs are kept it stays pending.
  `markIndexed` goes by id (`postgres-memory-repository.ts:104`), so it may mark
  a newer definition indexed with the vector of the older.
* A row whose `markIndexFailed` fails in the last attempt, or whose job stalls
  once too often, stays `indexing`: a new credential queues pending and failed
  rows only (`provider-settings-repository.ts:316`). `DefinitionSettles` names
  this exception (`GivenUp`), and `memory` meets it.
* A login that verified the old password, and was overtaken by a change of it
  before its session was inserted, opens a session that is accepted
  (`identity-service.ts:79`; migration 0004, line 115). `docs/specs/003`, line 54,
  promises the end of the sessions there are. `PasswordEndsSessions` names the
  exception (`Overtaken`), and `accounts` meets it.
* A change of password whose new session another tab revokes before it is read
  back is answered with an error although the password is changed
  (`identity-service.ts:291`). `EffectReported` names the exception.
* The overview offers 20 rows and the planner's limit is 25; "top 10" does not
  limit.
* A run that a privacy deletion cancels gets no terminal event
  (migration 0014, line 122), so a page in another tab reconnects until it is
  reloaded. A question answered in another tab, or a load that overtakes the
  one after a run's end, leaves a page without a stream.
* A privacy deletion whose worker dies stays `processing` for fifteen minutes,
  longer than the retries of its job, and nothing starts it again; the same
  follows a claim that commits although its call fails. `RetriesErase` names both
  (`lost > 0`).
* A lease may be configured to 10 seconds (`env.ts:210`), less than the 25 a
  stream lives; `StreamAssumption` takes it to be longer.

## Proofs

Each theorem holds for every value of the constants: any sets of users' rows,
workers, connections, tabs and loads, any attempts, limits and fault budgets.
Sets need not be finite, but for the connections of a stream, which are counted
(`StreamAssumption`). Each property is derived from an inductive invariant; what
that adds to the property is what the argument needs.

* `ConversationRuns_proofs`, the tables. `TypeOK` by itself. `OneActiveRun` is
  inductive with it: `Accept` is the only step that makes a run active, and it
  tests for another. `SubmissionsIdempotent` and `TimelineSequenced` in the
  same way, the latter by a lemma for the steps that append and one for
  deletion. `SoleResponder` is not inductive, because a run may be queued a
  second time while its first worker has yet to leave: `QuestionInv` adds that a
  responder's run is not waiting, that the stored checkpoint is the one its
  responder holds, that an answered clarification is answered in the checkpoint,
  and that an open question belongs to a waiting or terminal run. So a worker
  that asks leaves before its user can answer, and one that finds the answer
  cannot ask again. `SettledRunsStay` follows from `TypeOK`,
  `SubmissionsIdempotent` and that messages lie in the conversation of their run
  (`MessagesPlaced`); `DeletedStaysEmpty` by cases over all steps, since every
  write needs a row that exists. `RepliedOnce` is inductive with the same three:
  `completeRun` finds a run that is not completed and hence has no reply.
  `ClarificationAgrees` is `QuestionInv` with `AnswerRecorded`, which ties the
  answered row to its one answer in the timeline and to its outbox row.
  `LogTellsHistory` needs `Told`, which says for each status how many starts,
  questions and resumptions the log may hold (a queued run has no start beyond
  its resumptions, a waiting run one question beyond them), and `QuestionInv` at
  `Pause`, where a second question would be logged. The refinement of
  `RunLifecycle` has one lemma per abstract step; `Ask` needs `QuestionInv`,
  without which a second question would be possible. Assumption: every
  submission names a conversation (`SubmissionAssumption`).
* `ConversationRuns_proofs`, the pipeline. Every step of it is a step of
  `ConversationRuns` or leaves its variables alone, so the theorems above hold
  of it; then the types of the queue, with the invariant `QueueInv` that an added
  row is in its batch and a pending job has attempts left; and `BusyInsideCall`.
  `QueuedRunHasDelivery` is proved from `DeliveryInv`: every row of the outbox
  has its cause (`RowsAnnounce`), jobs and calls carry committed rows, and the
  row that announces the present queueing of a run is unserved: its job is not
  done and no call that carries it has resolved. The theorem assumes that no
  client request id is submitted twice (`KeysDiffer`); without it the finished
  job of an erased run would stand in for that of a later one (see "Not
  modelled"). Assumptions: bounds are naturals and a job has at least one
  attempt (`BoundsAssumption`), `NoEvent` is no row.
* `Datasets_proofs`. `TypeOK` by itself. `DatasetAgrees` is inductive with it,
  since a version in flight is the active one of its dataset
  (`InFlightActive`), and what a step does to both is one lemma
  (`AgreesMoved`). `IngestedOnce` needs `Recorded`: a key's stored response,
  its outbox row and the completed version come and go together.
  `SettledVersions` needs `Granted`: an upload that is not yet granted has no
  version, so `Grant` cannot set back one that is settled. `ProfileTrusted`
  needs `Profiled`: what a call carries from its profile on is the declared
  content; the two and `TypeOK` are `IngestionInv`. Of the pipeline the same
  chain as above: it implements `Datasets`, its queue keeps `QueueInv`, and
  `UploadHasDelivery` follows from its `DeliveryInv`: every version in flight
  has its row, and the row's job is not done (`AwaitedRowsUnserved`). A
  dispatcher marks a row only after the queue has its job, a call that finds the
  version claimed finds it claimed by its own job, and a call completes the job
  only when the version is settled. Unlike that of the runs it needs no
  assumption on keys, since a version is completed under one key and not
  queued again (`NotQueuedAgain`). Assumptions: every version
  belongs to a dataset and every completion names a version
  (`DatasetOfAssumption`, `AttemptAssumption`).
* `AgentGraph_proofs`. `TypeOK` is inductive with `Located`: past the first
  node a version is known, and `validate_plan` has a decision to look at. The
  rest follows from `GraphInv`. For the limits: `Quiet` (nobody answers a run
  that waits), `Agree` (the checkpoint has the responder's clarification and
  repairs) and `Counted`, which bounds the planning requests node by node: one
  per pass through the graph and one per repair, and an answer allows for a
  second pass. `AskedOnce` follows from `Agree`, since a node asks only if its
  own copy is not answered. For the stored result: `Planned` (a validated plan
  follows answer and definition until it is executed), `Analysed` (so does the
  analysis, on the version it was computed on) and `Stored` (so does the
  result, with the checkpoint as it will stay). Assumptions: no two versions
  share a column, drafts and questions are of their types, limits are naturals,
  `None` is no value.
* `AgentGraph_proofs`, the functions of `AnalysisPlans`. All rest on what `Keep`
  does: it keeps the wanted elements, no others, in their order. That is
  induction over a sequence, for which the induction theorems of the library are
  of no use here (see below); the proofs take the least length at which a claim
  fails (`LeastNumber`, from the well-foundedness of the naturals) and refute it.
  `RulesPlanWhatExecutes`: the rules make plans of seven shapes (`RuleMade`), and
  each meets the contract and compiles over the columns its rule has filtered.
  `SuggestionsPlannedAsShown`: `Answerable` says what a prompt of each kind needs
  of the columns it shows. Suggestions have it although they are chosen by
  semantic types and planned by inferred ones, because the former follow from
  the latter (`SemanticsFollowTypes`); a prompt that has it takes the rule it
  should, with the columns in their places. `ChartFitsResult`: the fields of a
  result differ, since dimensions and measures are numbered, so the series of a
  chart never repeats its axis. The theorems hold of datasets of any width, of any keywords and
  named columns, and of any plan and any number of rows; the properties of the
  run are instances. Assumptions: profiles and aggregations are of their types
  (`ProfiledAssumption`, `AggregationAssumption`), the bounds are naturals
  (`WidthAssumption`).
* `SemanticMemory_proofs`. `CacheCurrent` rests on the revision: whatever gives
  a definition another content raises it, and a result stored under an older
  revision is out of reach. So `ReadersCurrent` says of a retrieval that still
  holds the present revision that it holds the present definition, and
  `OneDefinition` that there is never more than one, so that cutting the context
  to `TopK` sources does not lose it (definitions come first). Assumptions:
  `TopK` and the attempts are at least one (`env.ts:105`), documents of the
  dataset are no definitions, `None` is no row (`MemoryAssumption`).
* `ProviderSettings_proofs`. `SettingsInv` is the types, `RowsInv` and
  `PagesInv`. A request acts on a key it read some steps ago, so `RowsInv`
  says of every request under way that the key it carries is still the stored
  one as long as the stored id is the one it read (`Read`, `Informed`); ids are
  never given twice. A validated preference is then one the stored key's
  account offers, and a rejection is recorded only for the key it is about.
  `PagesInv` says that models and selection of a page fit. Assumptions: the
  gateway's rules name the efforts they allow, at least one for each model
  (`SettingsAssumption`); `Nothing` is no key, id or model
  (`NothingAssumption`).
* `Identity_proofs`. `IdentityInv` adds to the properties that links go to the
  address they are about and those of a pending account are about its own
  (`Addressed`), that nothing exists before an account does (`Rooted`), and of
  every request under way that the sessions and the link it names are there
  (`Names`) and that it has had no effect before the step that makes it, nor
  ended the session it goes by (`Unspent`), be it the one it was sent with or the
  one it opened: so an error after an effect lost a call or met another request.
  For the sessions it ties the password a request has shown to the account as long
  as no change overtakes it (`Shown`), and that of a session to the one it was
  inserted under (`SessionsShown`); a change or reset ends all sessions, so one
  that is accepted was inserted under the present password. Assumptions: an
  idle session expires no later than the session itself
  (`IdentityAssumption`): `env.ts:66` does not compare the two settings, and
  with them the wrong way round `sessions_expiry_order_check` refuses every
  new session. The type invariant leaves out the login bucket `hits`, on which
  no property depends.
* `PrivacyDeletion_proofs`. `PrivacyInv` follows a deletion from request to
  completion: what it covers takes no writes in time (`Covered`), what its
  worker has emptied so far stays clean but for late writes, whoever works
  beside it (`Purged`), and an audit row is its deletion's only one, however
  many claims on it have expired (`Audited`). An account's manifest is fixed at
  its request, so `Covered` also says that of what it lacks nothing in time is
  stored; it was gone by then, or is younger. Of a dataset never created nothing
  is stored or on its way (`Unborn`). Assumptions: a job has at least one
  attempt (`PrivacyAssumption`), `None` is no item of a store
  (`NoneAssumption`).
* `ConversationWorkspace_proofs`, the stream. `StreamsWithinLimit`: a lease
  outlasts what is left of its stream's lifetime (`Leased`), so every open
  stream has a lease, and leases are admitted up to the limit. `EndsDrained`
  and `EventsOnceInOrder` follow from `Consecutive`: the inbox of the source
  continues what was handled, and its connection continues the inbox;
  `Handled` ties the source's last event to the page's. All of it holds too of
  a page opened while its run waits (`ReopenedInvariant`).
* `ConversationWorkspace_proofs`, the page at rest. `SettledPageIsTrue` is far
  from inductive: while anything is under way the page is often wrong.
  `RestInv` says why it comes right. The newest load has the last word
  (`LastWord`): what it tells, or what the page shows when there is none,
  agrees with the tables, or the shown run's stream has still to bring its
  question or its outcome (`Behind`), upon which the page loads again. And if
  the stream of a run that goes on is closed (`DetachedForGood`), a load is
  under way that will not show that run as going on. Of the server it needs
  that one run is active and that a run whose log has an outcome is over
  (`ServerInv`). The attempt changed the model: with two runs TLC found a page
  that rests on "running" with no stream and lacks the reply, in 41 steps. Two
  loads overlap; the older tells that the run is running and arrives after the
  one that tells it waits, while the user's answer is in flight; the stream
  it opens again delivers the question, and closes. `replayed` now excepts
  a question that comes while its answer is under way, not only after it, and
  the theorem says that nothing else breaks the page, for any number of runs
  and loads. Assumption: `None` is nothing a page shows (`NothingShown`).

Proved but not the property of a run, since a run with less would not show
more: the type invariants of all proved modules, `TimelineSequenced` (messages
are numbered without gaps), `SettledRunsStay`, `DeletedStaysEmpty`,
`BusyInsideCall`, `ResultOnItsData` and `AskedOnce`.

Only model-checked: liveness (`QueuedRunStarts`, `FaultlessRunSettles`,
`UploadSettles`, `RunComesToRest`, `DefinitionSettles`, `RetriesErase`,
`EveryEventTaken`), which is beyond the prover: it reasons neither about fairness
nor about ENABLED. Every invariant and every action property that a passing run
checks is proved; the runs that show a disagreement check what does not hold. The induction
theorems of the library take an operator as a parameter, which no installed
prover can instantiate; where a recursive function had to be reasoned about, as
`Keep`, the least counterexample does instead.

## Not modelled

* The conversation's title, its listing and its optimistic version: rename,
  archive and the first prompt's title are single conditional updates.
* DuckDB's SQL, sandbox and statistics, and the parsing of CSV: computations
  over file contents. `Profile` of `Datasets` has their outcomes.
* The rate limits of other routes than the login: the same script, other keys.
* The order of row locks among `completeRun`, `resumeRun` and `delete`, which
  PostgreSQL may break by aborting one: an aborted transaction is a failed call.
* A client request id used again after its conversation was deleted, which the
  job kept in the queue would hide (`outbox-dispatcher.ts:64`).
* The sidebar, the dataset panel, the identity forms and other pages, which show
  what one request returned; several tabs of one conversation.
* Encryption, hashing, tokens, tenancy (row-level security confines a query to
  one user), configuration, readiness, logging and the I/O of the adapters.
