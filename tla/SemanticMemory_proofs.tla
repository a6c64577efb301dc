------------------------- MODULE SemanticMemory_proofs -------------------------
(***************************************************************************)
(* The semantic memory, proved for every number of conversations, answers, *)
(* documents, workers and readers: that a result served from Redis never   *)
(* tells the agent a meaning of "revenue" that the user has since replaced. *)
(*                                                                         *)
(* The argument is the revision's.  Whatever gives a definition another    *)
(* content also raises the revision and with it drops the cached result of *)
(* the one before; so a retrieval that still holds the present revision    *)
(* read the definitions as they are, but for those deleted since, and what *)
(* it caches under that revision holds them.  That nothing is lost on the  *)
(* way, when the context is cut to TopK sources, needs that there is never *)
(* more than one definition and that TopK is at least one.                 *)
(***************************************************************************)
EXTENDS SemanticMemory, FiniteSetTheorems, SequenceTheorems, TLAPS

\* A job that waits or is worked on has an attempt left.
AttemptsLeft ==
  \A k \in JobKey : job[k].state \in {"waiting", "active"} => job[k].attempts < MaxAttempts

\* The alias "revenue" of the version means one thing.
OneDefinition == \A m, n \in Definition : m = n

\* A retrieval found one definition at most, and if its revision is the present
\* one it holds the definition there is.
ReadersCurrent ==
  \A r \in Reader :
    /\ reader[r].revision <= revision
    /\ \A m, n \in DOMAIN reader[r].definitions : m = n
    /\ reader[r].phase = "defined" /\ reader[r].revision = revision =>
         \A m \in Definition : /\ m \in DOMAIN reader[r].definitions
                               /\ reader[r].definitions[m] = document[m].content

MemoryInv ==
  /\ MemoryTypeOK
  /\ AttemptsLeft
  /\ OneDefinition
  /\ ReadersCurrent
  /\ CacheCurrent

-----------------------------------------------------------------------------
(* What the constants and the type invariant say *)

\* The rows of the two kinds have a content and an owner, and None is no row.
LEMMA RowFields ==
  ASSUME NEW row \in Row
  PROVE  /\ row # None
         /\ row.content \in Column \cup {Profile}
         /\ row.conversation \in Conversation \cup {NoConversation}
         /\ row.status \in IndexStatus
  BY MemoryAssumption DEF Row, MemoryRecord, SemanticDocument

\* Another status makes a row another row, and leaves its content and its owner.
LEMMA RowWithStatus ==
  ASSUME NEW row \in Row, NEW status \in IndexStatus
  PROVE  /\ [row EXCEPT !.status = status] \in Row
         /\ [row EXCEPT !.status = status].content = row.content
         /\ [row EXCEPT !.status = status].conversation = row.conversation
  BY DEF Row, MemoryRecord, SemanticDocument

\* No context is a context of no documents.
LEMMA NoContext == /\ <<>> \in Context
                   /\ DOMAIN <<>> = {}
<1>1. /\ <<>> \in Seq(Column \cup {Profile})
      /\ Len(<<>>) = 0
  BY EmptySeq
<1>2. /\ DOMAIN <<>> = 1 .. 0
      /\ <<>> \in [1 .. 0 -> Column \cup {Profile}]
  BY <1>1, LenProperties
<1>3. 1 .. 0 = {}
  OBVIOUS
<1>4. {} \in SUBSET Document
  OBVIOUS
<1>. QED BY <1>2, <1>3, <1>4 DEF Context

\* The definitions there are and the keys of jobs, within the sets they are of.
LEMMA SmallFacts ==
  /\ Definition \subseteq Document
  /\ NoJob \in Job /\ NewJob \in Job
  /\ 0 < MaxAttempts /\ MaxAttempts \in Nat
  /\ NoJob.attempts = 0 /\ NewJob.attempts = 0
  BY MemoryAssumption DEF Definition, Live, Document, NoJob, NewJob, Job

\* Jobs made from outbox rows are jobs with every attempt left.
LEMMA EnqueuedJobs ==
  ASSUME job \in [JobKey -> Job], AttemptsLeft, NEW keys, Enqueued(keys)
  PROVE  job' \in [JobKey -> Job] /\ AttemptsLeft'
  BY SmallFacts DEF Enqueued, AttemptsLeft, NewJob

\* The parts of a job.
LEMMA JobParts ==
  ASSUME NEW j \in Job
  PROVE  /\ j.attempts \in Nat /\ j.attempts \in 0 .. MaxAttempts
         /\ j.stalls \in Nat /\ j.stalls \in 0 .. MaxStalled
  BY DEF Job

\* A job keeps its attempts, or uses one that it had.
LEMMA RetriedJobs ==
  ASSUME NEW j \in Job, j.attempts < MaxAttempts
  PROVE  /\ Retried(j) \in Job
         /\ Retried(j).state \in {"waiting", "active"} => Retried(j).attempts < MaxAttempts
<1>1. /\ j.attempts \in Nat /\ MaxAttempts \in Nat
      /\ j.attempts + 1 \in 0 .. MaxAttempts
  BY JobParts, SmallFacts
<1>2. CASE j.attempts + 1 >= MaxAttempts
  <2>1. Retried(j) = [j EXCEPT !.state = "failed", !.attempts = j.attempts + 1]
    BY <1>2 DEF Retried
  <2>2. /\ Retried(j) \in Job
        /\ Retried(j).state = "failed"
    BY <1>1, <2>1 DEF Job
  <2>. QED BY <2>2
<1>3. CASE ~ (j.attempts + 1 >= MaxAttempts)
  <2>1. Retried(j) = [j EXCEPT !.state = "waiting", !.attempts = j.attempts + 1]
    BY <1>3 DEF Retried
  <2>2. j.attempts + 1 < MaxAttempts
    BY <1>1, <1>3
  <2>3. /\ Retried(j) \in Job
        /\ Retried(j).attempts = j.attempts + 1
    BY <1>1, <2>1 DEF Job
  <2>. QED BY <2>2, <2>3
<1>. QED BY <1>2, <1>3

\* A stalled job keeps its attempts.
LEMMA StalledJobs ==
  ASSUME NEW j \in Job
  PROVE  /\ Stalled(j) \in Job
         /\ Stalled(j).attempts = j.attempts
<1>1. CASE j.stalls < MaxStalled
  <2>1. j.stalls + 1 \in 0 .. MaxStalled
    BY <1>1, JobParts, MemoryAssumption
  <2>2. Stalled(j) = [j EXCEPT !.state = "waiting", !.stalls = j.stalls + 1]
    BY <1>1 DEF Stalled
  <2>. QED BY <2>1, <2>2 DEF Job
<1>2. CASE ~ (j.stalls < MaxStalled)
  <2>1. Stalled(j) = [j EXCEPT !.state = "failed"]
    BY <1>2 DEF Stalled
  <2>. QED BY <2>1 DEF Job
<1>. QED BY <1>1, <1>2

\* A fault is counted up to its bound.
LEMMA FaultCounts ==
  ASSUME faults \in 0 .. MaxFaults, Fault \/ UNCHANGED faults
  PROVE  faults' \in 0 .. MaxFaults
  BY MemoryAssumption DEF Fault

\* The end of a call leaves the jobs well formed.
LEMMA DoneJobs ==
  ASSUME job \in [JobKey -> Job], AttemptsLeft, worker \in [Worker -> Call],
         NEW w \in Worker, worker[w] # NoCall,
         NEW j, Done(w, j),
         job[worker[w].key].state = "active" =>
           /\ j \in Job
           /\ j.state \in {"waiting", "active"} => j.attempts < MaxAttempts
  PROVE  /\ job' \in [JobKey -> Job]
         /\ AttemptsLeft'
         /\ worker' \in [Worker -> Call]
<1>1. worker[w].key \in JobKey
  BY DEF Call, JobKey
<1>2. job' \in [JobKey -> Job] /\ worker' \in [Worker -> Call]
  BY <1>1 DEF Done, Call
<1>3. ASSUME NEW k \in JobKey, job'[k].state \in {"waiting", "active"}
      PROVE  job'[k].attempts < MaxAttempts
  BY <1>1, <1>3 DEF Done, AttemptsLeft
<1>. QED BY <1>2, <1>3 DEF AttemptsLeft

\* A call that goes on to another phase is a call.
LEMMA BecomesCall ==
  ASSUME worker \in [Worker -> Call], NEW w \in Worker, worker[w].phase # "idle",
         NEW phase \in {"loaded", "marked", "prepared", "embedded", "stored", "failing"},
         Becomes(w, phase)
  PROVE  worker' \in [Worker -> Call]
  BY DEF Becomes, Call, NoCall

-----------------------------------------------------------------------------
(* The three ways a step treats the definitions *)

\* Definitions may go, and those that stay keep their content.
Kept == \A m \in Definition' : m \in Definition /\ document'[m].content = document[m].content

\* While definitions only go and the revision and the cached result stay, what
\* retrievals and the cache know of the definitions stays true.
LEMMA KeptCurrent ==
  ASSUME OneDefinition, ReadersCurrent, CacheCurrent, Kept,
         UNCHANGED <<revision, cache, reader>>
  PROVE  OneDefinition' /\ ReadersCurrent' /\ CacheCurrent'
<1>1. OneDefinition'
  BY DEF OneDefinition, Kept
<1>2. ReadersCurrent'
  BY DEF ReadersCurrent, Kept
<1>3. CacheCurrent'
  BY DEF CacheCurrent, Kept
<1>. QED BY <1>1, <1>2, <1>3

\* A higher revision leaves nothing in the cache and no retrieval with it.
LEMMA BumpedCurrent ==
  ASSUME MemoryTypeOK, ReadersCurrent, Bump, UNCHANGED reader
  PROVE  ReadersCurrent' /\ CacheCurrent'
<1>1. CacheCurrent'
  BY DEF CacheCurrent, Bump
<1>2. ASSUME NEW r \in Reader
      PROVE  /\ reader'[r].revision <= revision'
             /\ reader'[r].revision # revision'
             /\ \A m, n \in DOMAIN reader'[r].definitions : m = n
  <2>1. revision \in Nat /\ reader[r].revision \in Nat
    BY MemoryAssumption DEF MemoryTypeOK
  <2>. QED BY <2>1 DEF ReadersCurrent, Bump
<1>3. ReadersCurrent'
  BY <1>2 DEF ReadersCurrent
<1>. QED BY <1>1, <1>3

\* Rows that get another status keep their content, and none comes or goes.
LEMMA StatusKept ==
  ASSUME document \in [Document -> Row \cup {None}],
         NEW documents, NEW status \in IndexStatus, SetStatus(documents, status)
  PROVE  /\ document' \in [Document -> Row \cup {None}]
         /\ Definition' = Definition
         /\ Kept
<1>1. ASSUME NEW d \in Document
      PROVE  /\ document'[d] \in Row \cup {None}
             /\ document'[d] # None <=> document[d] # None
             /\ document[d] # None => document'[d].content = document[d].content
  <2>1. document'[d] = IF d \in documents /\ document[d] # None
                         THEN [document[d] EXCEPT !.status = status] ELSE document[d]
    BY DEF SetStatus
  <2>2. CASE document[d] = None
    BY <2>1, <2>2
  <2>3. CASE document[d] # None
    <3>1. document[d] \in Row
      BY <2>3
    <3>2. /\ [document[d] EXCEPT !.status = status] \in Row
          /\ [document[d] EXCEPT !.status = status].content = document[d].content
      BY <3>1, RowWithStatus
    <3>. QED BY <2>1, <2>3, <3>1, <3>2, RowFields
  <2>. QED BY <2>2, <2>3
<1>2. document' \in [Document -> Row \cup {None}]
  <2>1. document' = [d \in Document |-> document'[d]]
    BY DEF SetStatus
  <2>. QED BY <1>1, <2>1
<1>3. Definition' = Definition
  BY <1>1 DEF Definition, Live, Document
<1>4. Kept
  BY <1>1, <1>3, SmallFacts DEF Kept, Definition, Live, Document
<1>. QED BY <1>2, <1>3, <1>4

\* A context that was cut to TopK sources still holds the one definition that was
\* found: it scores highest, and there is room for one.
LEMMA BoundKeepsDefinition ==
  ASSUME NEW definitions, NEW semantic, NEW result \in BoundContext(definitions, semantic),
         \A m, n \in DOMAIN definitions : m = n,
         NEW m \in DOMAIN definitions
  PROVE  m \in DOMAIN result /\ result[m] = definitions[m]
<1>. DEFINE all == DOMAIN definitions \cup DOMAIN semantic
<1>1. PICK kept \in SUBSET all :
        /\ Cardinality(kept) = TopK \/ kept = all
        /\ DOMAIN definitions \subseteq kept \/ kept \subseteq DOMAIN definitions
        /\ result = [d \in kept |-> IF d \in DOMAIN definitions THEN definitions[d]
                                                               ELSE semantic[d]]
  BY DEF BoundContext
<1>2. m \in kept
  <2>1. CASE DOMAIN definitions \subseteq kept \/ kept = all
    BY <2>1
  <2>2. CASE Cardinality(kept) = TopK /\ kept \subseteq DOMAIN definitions
    <3>1. kept # {}
      BY <2>2, FS_EmptySet, MemoryAssumption
    <3>. QED BY <2>2, <3>1
  <2>. QED BY <1>1, <2>1, <2>2
<1>. QED BY <1>1, <1>2

-----------------------------------------------------------------------------
(* Init *)

LEMMA InitTyped == MemoryInit => MemoryTypeOK /\ AttemptsLeft
<1>. SUFFICES ASSUME MemoryInit PROVE MemoryTypeOK /\ AttemptsLeft
  OBVIOUS
<1>. USE DEF MemoryInit
<1>1. document \in [Document -> Row \cup {None}]
  BY DEF Row, SemanticDocument, IndexStatus
<1>2. job \in [JobKey -> Job] /\ AttemptsLeft
  <2>1. \A k \in JobKey : job[k] \in {NoJob, NewJob}
    OBVIOUS
  <2>2. job \in [JobKey -> {NoJob, NewJob}]
    OBVIOUS
  <2>. QED BY <2>1, <2>2, SmallFacts DEF AttemptsLeft
<1>3. worker \in [Worker -> Call]
  BY DEF Call
<1>4. /\ 0 \in 0 .. MaxRevision /\ 0 \in 0 .. MaxCredentials /\ 0 \in 0 .. MaxFaults
      /\ 0 \in 0 .. Len(Answers)
  BY MemoryAssumption, LenProperties
<1>5. reader \in [Reader -> [phase : {"idle", "revised", "defined"},
                             revision : 0 .. MaxRevision, definitions : Context]]
  BY <1>4, NoContext DEF NoRetrieval
<1>. QED BY <1>1, <1>2, <1>3, <1>4, <1>5 DEF MemoryTypeOK

LEMMA InitCurrent == MemoryInit => OneDefinition /\ ReadersCurrent /\ CacheCurrent
<1>. SUFFICES ASSUME MemoryInit PROVE OneDefinition /\ ReadersCurrent /\ CacheCurrent
  OBVIOUS
<1>1. Definition = {}
  BY MemoryAssumption DEF MemoryInit, Definition, Live, Document
<1>2. ReadersCurrent
  <2>1. \A r \in Reader : reader[r] = NoRetrieval
    BY DEF MemoryInit
  <2>. QED BY <2>1, NoContext DEF MemoryInit, ReadersCurrent, NoRetrieval
<1>. QED BY <1>1, <1>2 DEF OneDefinition, CacheCurrent, MemoryInit

-----------------------------------------------------------------------------
(* What the user does *)

LEMMA SaveDefinitionSafe ==
  ASSUME MemoryInv, NEW c \in Conversation, SaveDefinition(c)
  PROVE  MemoryInv'
<1>. USE DEF MemoryInv
<1>1. /\ saves \in 0 .. Len(Answers) /\ saves < Len(Answers) /\ saves' = saves + 1
      /\ Len(Answers) \in Nat
  BY MemoryAssumption, LenProperties DEF MemoryTypeOK, SaveDefinition
<1>2. saves' \in MemoryId /\ saves' \in 0 .. Len(Answers)
  BY <1>1 DEF MemoryId
<1>3. Answers[saves'] \in Column
  BY <1>2, MemoryAssumption, ElementOfSeq DEF MemoryId
<1>. DEFINE column == Answers[saves + 1]
            row == [content |-> column, conversation |-> c, status |-> "pending"]
<1>4. PICK m \in IF Definition = {} THEN {saves'} ELSE Definition :
        /\ document' = [document EXCEPT ![m] = row]
        /\ Enqueued({DefinitionKey(m, column)})
  BY <1>1 DEF SaveDefinition
<1>5. m \in MemoryId /\ m \in Document
  BY <1>2, <1>4 DEF Definition, Live, Document
<1>6. row \in Row /\ row # None
  <2>1. row \in Row
    BY <1>1, <1>3 DEF Row, MemoryRecord, IndexStatus
  <2>. QED BY <2>1, RowFields
<1>7. document' \in [Document -> Row \cup {None}]
  BY <1>4, <1>6 DEF MemoryTypeOK
<1>8. Definition' = Definition \cup {m}
  <2>1. \A d \in Document : document'[d] # None <=> document[d] # None \/ d = m
    BY <1>4, <1>5, <1>6 DEF MemoryTypeOK
  <2>. QED BY <2>1, <1>5 DEF Definition, Live, Document
<1>9. OneDefinition'
  BY <1>4, <1>8 DEF OneDefinition
<1>10. revision' \in 0 .. MaxRevision
  BY MemoryAssumption DEF SaveDefinition, Bump, MemoryTypeOK
<1>11. job' \in [JobKey -> Job] /\ AttemptsLeft'
  BY <1>4, EnqueuedJobs DEF MemoryTypeOK
<1>12. MemoryTypeOK'
  BY <1>2, <1>7, <1>10, <1>11 DEF MemoryTypeOK, SaveDefinition
<1>13. ReadersCurrent' /\ CacheCurrent'
  BY BumpedCurrent DEF SaveDefinition
<1>. QED BY <1>9, <1>11, <1>12, <1>13

LEMMA DeleteConversationSafe ==
  ASSUME MemoryInv, NEW c \in Conversation, DeleteConversation(c)
  PROVE  MemoryInv'
<1>. USE DEF MemoryInv
<1>1. \A d \in Document : \/ document'[d] = document[d]
                          \/ document'[d] = None
  BY DEF DeleteConversation
<1>2. document' \in [Document -> Row \cup {None}]
  BY DEF DeleteConversation, MemoryTypeOK
<1>3. Kept
  BY <1>1, SmallFacts DEF Kept, Definition, Live, Document
<1>4. job' \in [JobKey -> Job] /\ AttemptsLeft'
  BY EnqueuedJobs DEF DeleteConversation, MemoryTypeOK
<1>5. MemoryTypeOK'
  BY <1>2, <1>4 DEF MemoryTypeOK, DeleteConversation
<1>6. UNCHANGED <<revision, cache, reader>>
  BY DEF DeleteConversation
<1>7. OneDefinition' /\ ReadersCurrent' /\ CacheCurrent'
  BY <1>3, <1>6, KeptCurrent
<1>. QED BY <1>4, <1>5, <1>7

\* Steps that leave the rows, the revision, the cache and the retrievals alone need
\* only be well formed.
LEMMA AsideSafe ==
  ASSUME MemoryInv, MemoryTypeOK', AttemptsLeft',
         UNCHANGED <<document, revision, cache, reader>>
  PROVE  MemoryInv'
<1>1. Kept
  BY DEF Kept, Definition, Live
<1>2. OneDefinition' /\ ReadersCurrent' /\ CacheCurrent'
  BY <1>1, KeptCurrent DEF MemoryInv
<1>. QED BY <1>2 DEF MemoryInv

LEMMA CredentialSafe ==
  ASSUME MemoryInv, CredentialValidated \/ CredentialLost
  PROVE  MemoryInv'
<1>1. CASE CredentialValidated
  <2>1. job' \in [JobKey -> Job] /\ AttemptsLeft'
    <3>1. \E keys : Enqueued(keys)
      BY <1>1 DEF CredentialValidated, EnqueueRetryable
    <3>. QED BY <3>1, EnqueuedJobs DEF MemoryInv, MemoryTypeOK
  <2>2. reindexes' \in 0 .. MaxCredentials
    BY <1>1, MemoryAssumption DEF CredentialValidated, MemoryInv, MemoryTypeOK
  <2>3. MemoryTypeOK'
    BY <1>1, <2>1, <2>2 DEF CredentialValidated, MemoryInv, MemoryTypeOK
  <2>4. UNCHANGED <<document, revision, cache, reader>>
    BY <1>1 DEF CredentialValidated
  <2>. QED BY <2>1, <2>3, <2>4, AsideSafe
<1>2. CASE CredentialLost
  <2>1. UNCHANGED <<document, revision, cache, reader, job>>
    BY <1>2 DEF CredentialLost, queues
  <2>2. MemoryTypeOK' /\ AttemptsLeft'
    BY <1>2 DEF CredentialLost, queues, MemoryInv, MemoryTypeOK, AttemptsLeft
  <2>. QED BY <2>1, <2>2, AsideSafe
<1>. QED BY <1>1, <1>2

-----------------------------------------------------------------------------
(* The indexing and the deletion of points *)

\* What a job is about is rows of documents.
LEMMA ToIndexRows ==
  ASSUME MemoryTypeOK, NEW k \in IndexKey
  PROVE  /\ ToIndex(k) \subseteq Document
         /\ \A d \in ToIndex(k) : document[d] \in Row
<1>1. k.source # "dataset-schema" => k.memory \in MemoryId
  BY DEF IndexKey
<1>2. Loaded(k) \subseteq {d \in Document : document[d] # None}
  BY <1>1 DEF Loaded, Live, Document
<1>. QED BY <1>2 DEF ToIndex, MemoryTypeOK

LEMMA DeliverSafe ==
  ASSUME MemoryInv, NEW w \in Worker, NEW k \in IndexKey, Deliver(w, k)
  PROVE  MemoryInv'
<1>. USE DEF MemoryInv
<1>1. /\ k \in JobKey /\ job[k] \in Job
      /\ job[k].state = "waiting" /\ job[k].attempts < MaxAttempts
  BY DEF JobKey, Deliver, MemoryTypeOK, AttemptsLeft
<1>2. PICK j : /\ job' = [job EXCEPT ![k] = j]
               /\ j \in {[job[k] EXCEPT !.state = "completed"],
                         [job[k] EXCEPT !.state = "active"], Retried(job[k])}
  BY DEF Deliver
<1>3. /\ j \in Job
      /\ j.state \in {"waiting", "active"} => j.attempts < MaxAttempts
  <2>1. \A s \in {"completed", "active"} :
          /\ [job[k] EXCEPT !.state = s] \in Job
          /\ [job[k] EXCEPT !.state = s].attempts < MaxAttempts
    BY <1>1 DEF Job
  <2>. QED BY <1>1, <1>2, <2>1, RetriedJobs
<1>4. job' \in [JobKey -> Job]
  BY <1>1, <1>2, <1>3 DEF MemoryTypeOK
<1>5. AttemptsLeft'
  <2>. SUFFICES ASSUME NEW q \in JobKey, job'[q].state \in {"waiting", "active"}
                PROVE  job'[q].attempts < MaxAttempts
    BY DEF AttemptsLeft
  <2>1. CASE q = k
    BY <2>1, <1>1, <1>2, <1>3 DEF MemoryTypeOK
  <2>2. CASE q # k
    BY <2>2, <1>2 DEF AttemptsLeft, MemoryTypeOK
  <2>. QED BY <2>1, <2>2
<1>6. worker' \in [Worker -> Call]
  <2>1. CASE UNCHANGED worker
    BY <2>1 DEF MemoryTypeOK
  <2>. DEFINE batch == ToIndex(k)
              points == [d \in batch |-> [content |-> document[d].content,
                                          conversation |-> document[d].conversation]]
              call == [phase |-> "loaded", key |-> k, loaded |-> points]
  <2>2. CASE worker' = [worker EXCEPT ![w] = call]
    <3>1. batch \in SUBSET Document
      BY ToIndexRows
    <3>2. \A d \in batch : [content |-> document[d].content,
                            conversation |-> document[d].conversation] \in Point
      BY ToIndexRows, RowFields DEF Point
    <3>3. points \in [batch -> Point]
      BY <3>2
    <3>4. points \in UNION {[b -> Point] : b \in SUBSET Document}
      BY <3>1, <3>3
    <3>5. call \in Call
      BY <3>4 DEF Call
    <3>. QED BY <2>2, <3>5 DEF MemoryTypeOK
  <2>. QED BY <2>1, <2>2 DEF Deliver
<1>7. faults' \in 0 .. MaxFaults
  BY FaultCounts DEF Deliver, MemoryTypeOK
<1>8. UNCHANGED <<document, revision, cache, reader>>
  BY DEF Deliver, stores
<1>9. MemoryTypeOK'
  BY <1>4, <1>6, <1>7 DEF MemoryTypeOK, Deliver, stores
<1>. QED BY <1>5, <1>8, <1>9, AsideSafe

\* The job of a call in a call's own words.
LEMMA CallJob ==
  ASSUME MemoryInv, NEW w \in Worker, worker[w].phase # "idle"
  PROVE  /\ worker[w] # NoCall
         /\ worker[w].key \in JobKey
         /\ job[worker[w].key] \in Job
         /\ job[worker[w].key].state = "active" =>
              job[worker[w].key].attempts < MaxAttempts
<1>1. worker[w] # NoCall
  BY DEF NoCall
<1>2. worker[w].key \in JobKey
  BY <1>1 DEF MemoryInv, MemoryTypeOK, Call, JobKey
<1>. QED BY <1>1, <1>2 DEF MemoryInv, MemoryTypeOK, AttemptsLeft

\* A call that ends with its job tried, stalled or completed.
LEMMA EndedCall ==
  ASSUME MemoryInv, NEW w \in Worker, worker[w].phase # "idle", NEW j, Done(w, j),
         j \in {Retried(job[worker[w].key]), Stalled(job[worker[w].key]),
               [job[worker[w].key] EXCEPT !.state = "completed"]}
  PROVE  job' \in [JobKey -> Job] /\ AttemptsLeft' /\ worker' \in [Worker -> Call]
<1>. DEFINE old == job[worker[w].key]
<1>1. /\ worker[w] # NoCall /\ old \in Job
      /\ old.state = "active" => old.attempts < MaxAttempts
  BY CallJob
<1>. HIDE DEF old
<1>2. /\ Stalled(old) \in Job
      /\ Stalled(old).attempts = old.attempts
  BY <1>1, StalledJobs
<1>3. /\ [old EXCEPT !.state = "completed"] \in Job
      /\ [old EXCEPT !.state = "completed"].state = "completed"
  BY <1>1 DEF Job
<1>4. old.state = "active" =>
        /\ Retried(old) \in Job
        /\ Retried(old).state \in {"waiting", "active"} => Retried(old).attempts < MaxAttempts
  BY <1>1, RetriedJobs
<1>5. j \in {Retried(old), Stalled(old), [old EXCEPT !.state = "completed"]}
  BY DEF old
<1>6. old.state = "active" =>
        /\ j \in Job
        /\ j.state \in {"waiting", "active"} => j.attempts < MaxAttempts
  BY <1>1, <1>2, <1>3, <1>4, <1>5
<1>. QED BY <1>1, <1>6, DoneJobs DEF old, MemoryInv, MemoryTypeOK

\* What a call marks in the rows never concerns their content.
LEMMA MarkIndexingSafe ==
  ASSUME MemoryInv, NEW w \in Worker, MarkIndexing(w)
  PROVE  MemoryInv'
<1>. USE DEF MemoryInv
<1>1. document' \in [Document -> Row \cup {None}] /\ Kept
  <2>1. CASE SetStatus(Batch(w), "indexing")
    BY <2>1, StatusKept DEF MemoryTypeOK, IndexStatus
  <2>2. CASE UNCHANGED document
    BY <2>2 DEF MemoryTypeOK, Kept, Definition, Live
  <2>. QED BY <2>1, <2>2 DEF MarkIndexing
<1>2. job' \in [JobKey -> Job] /\ AttemptsLeft' /\ worker' \in [Worker -> Call]
  <2>1. CASE Becomes(w, "marked") /\ UNCHANGED job
    BY <2>1, BecomesCall DEF MarkIndexing, MemoryTypeOK, AttemptsLeft
  <2>2. CASE Done(w, Retried(job[worker[w].key]))
    BY <2>2, EndedCall DEF MarkIndexing
  <2>. QED BY <2>1, <2>2 DEF MarkIndexing
<1>3. UNCHANGED <<revision, cache, reader>>
  BY DEF MarkIndexing
<1>4. faults' \in 0 .. MaxFaults
  BY FaultCounts DEF MarkIndexing, MemoryTypeOK
<1>5. MemoryTypeOK'
  BY <1>1, <1>2, <1>4 DEF MarkIndexing, MemoryTypeOK
<1>6. OneDefinition' /\ ReadersCurrent' /\ CacheCurrent'
  BY <1>1, <1>3, KeptCurrent
<1>. QED BY <1>2, <1>5, <1>6

\* The collection, the provider and the points: nothing the definitions depend on.
LEMMA IndexCallSafe ==
  ASSUME MemoryInv, NEW w \in Worker, EnsureReady(w) \/ Embed(w) \/ Upsert(w)
  PROVE  MemoryInv'
<1>. USE DEF MemoryInv
<1>1. /\ UNCHANGED <<document, revision, cache, reader, job, conversations, credential,
                     reindexes, saves>>
      /\ faults' \in 0 .. MaxFaults
      /\ readiness' \in {"none", "ready"}
  BY MemoryAssumption DEF EnsureReady, Embed, Upsert, Fault, stores, queues, MemoryTypeOK
<1>2. worker' \in [Worker -> Call]
  <2>1. \E phase \in {"loaded", "marked", "prepared", "embedded", "stored", "failing"} :
          worker[w].phase # "idle" /\ Becomes(w, phase)
    BY DEF EnsureReady, Embed, Upsert
  <2>. QED BY <2>1, BecomesCall DEF MemoryTypeOK
<1>3. point' \in [Document -> Point \cup {None}]
  <2>1. CASE UNCHANGED point
    BY <2>1 DEF MemoryTypeOK
  <2>2. CASE worker[w].phase = "embedded" /\ point' = Upserted(w)
    <3>1. worker[w].loaded \in UNION {[batch -> Point] : batch \in SUBSET Document}
      BY <2>2 DEF MemoryTypeOK, Call, NoCall
    <3>2. \A d \in Batch(w) : worker[w].loaded[d] \in Point
      BY <3>1 DEF Batch
    <3>. QED BY <2>2, <3>2 DEF Upserted, MemoryTypeOK
  <2>. QED BY <2>1, <2>2 DEF EnsureReady, Embed, Upsert, stores
<1>4. MemoryTypeOK' /\ AttemptsLeft'
  BY <1>1, <1>2, <1>3 DEF MemoryTypeOK, AttemptsLeft
<1>. QED BY <1>1, <1>4, AsideSafe

LEMMA MarkIndexedSafe ==
  ASSUME MemoryInv, NEW w \in Worker, MarkIndexed(w)
  PROVE  MemoryInv'
<1>. USE DEF MemoryInv
<1>1. job' \in [JobKey -> Job] /\ AttemptsLeft' /\ worker' \in [Worker -> Call]
  <2>1. CASE Becomes(w, "failing") /\ UNCHANGED job
    BY <2>1, BecomesCall DEF MarkIndexed, MemoryTypeOK, AttemptsLeft
  <2>2. CASE Done(w, [job[worker[w].key] EXCEPT !.state = "completed"])
    BY <2>2, EndedCall DEF MarkIndexed
  <2>. QED BY <2>1, <2>2 DEF MarkIndexed
<1>2. faults' \in 0 .. MaxFaults
  BY FaultCounts DEF MarkIndexed, MemoryTypeOK
<1>3. CASE revision < MaxRevision /\ SetStatus(Batch(w), "indexed") /\ Bump
  <2>1. /\ document' \in [Document -> Row \cup {None}]
        /\ Definition' = Definition
    BY <1>3, StatusKept DEF MemoryTypeOK, IndexStatus
  <2>2. revision' \in 0 .. MaxRevision
    BY <1>3, MemoryAssumption DEF Bump, MemoryTypeOK
  <2>3. MemoryTypeOK'
    BY <1>1, <1>2, <2>1, <2>2 DEF MemoryTypeOK, MarkIndexed
  <2>4. OneDefinition'
    BY <2>1 DEF OneDefinition
  <2>5. ReadersCurrent' /\ CacheCurrent'
    BY <1>3, BumpedCurrent DEF MarkIndexed
  <2>. QED BY <1>1, <2>3, <2>4, <2>5
<1>4. CASE UNCHANGED <<document, revision, cache>>
  <2>1. MemoryTypeOK'
    BY <1>1, <1>2, <1>4 DEF MemoryTypeOK, MarkIndexed
  <2>. QED BY <1>1, <1>4, <2>1, AsideSafe DEF MarkIndexed
<1>. QED BY <1>3, <1>4 DEF MarkIndexed

LEMMA MarkIndexFailedSafe ==
  ASSUME MemoryInv, NEW w \in Worker, MarkIndexFailed(w)
  PROVE  MemoryInv'
<1>. USE DEF MemoryInv
<1>1. document' \in [Document -> Row \cup {None}] /\ Kept
  <2>1. CASE SetStatus(Batch(w), "failed")
    BY <2>1, StatusKept DEF MemoryTypeOK, IndexStatus
  <2>2. CASE UNCHANGED document
    BY <2>2 DEF MemoryTypeOK, Kept, Definition, Live
  <2>. QED BY <2>1, <2>2 DEF MarkIndexFailed
<1>2. job' \in [JobKey -> Job] /\ AttemptsLeft' /\ worker' \in [Worker -> Call]
  BY EndedCall DEF MarkIndexFailed
<1>3. faults' \in 0 .. MaxFaults
  BY FaultCounts DEF MarkIndexFailed, MemoryTypeOK
<1>4. UNCHANGED <<revision, cache, reader>>
  BY DEF MarkIndexFailed
<1>5. MemoryTypeOK'
  BY <1>1, <1>2, <1>3 DEF MemoryTypeOK, MarkIndexFailed
<1>6. OneDefinition' /\ ReadersCurrent' /\ CacheCurrent'
  BY <1>1, <1>4, KeptCurrent
<1>. QED BY <1>2, <1>5, <1>6

LEMMA CrashSafe ==
  ASSUME MemoryInv, NEW w \in Worker, Crash(w)
  PROVE  MemoryInv'
<1>. USE DEF MemoryInv
<1>1. job' \in [JobKey -> Job] /\ AttemptsLeft' /\ worker' \in [Worker -> Call]
  BY EndedCall DEF Crash
<1>2. faults' \in 0 .. MaxFaults
  BY FaultCounts DEF Crash, MemoryTypeOK
<1>3. MemoryTypeOK' /\ UNCHANGED <<document, revision, cache, reader>>
  BY <1>1, <1>2 DEF MemoryTypeOK, Crash
<1>. QED BY <1>1, <1>3, AsideSafe

LEMMA ProcessDeleteSafe ==
  ASSUME MemoryInv, NEW c \in Conversation, ProcessDelete(c)
  PROVE  MemoryInv'
<1>. USE DEF MemoryInv
<1>. DEFINE k == [source |-> "conversation", conversation |-> c]
<1>1. k \in JobKey
  BY DEF JobKey, DeleteKey
<1>. HIDE DEF k
<1>2. job[k] \in Job /\ job[k].state = "waiting" /\ job[k].attempts < MaxAttempts
  BY <1>1 DEF ProcessDelete, k, MemoryTypeOK, AttemptsLeft
<1>3. PICK j : job' = [job EXCEPT ![k] = j] /\ j \in {[job[k] EXCEPT !.state = "completed"],
                                                      Retried(job[k]), Stalled(job[k])}
  <2>1. \/ job' = [job EXCEPT ![k].state = "completed"]
        \/ \E j \in {Retried(job[k]), Stalled(job[k])} : job' = [job EXCEPT ![k] = j]
    BY DEF ProcessDelete, k
  <2>. QED BY <2>1
<1>4. /\ j \in Job
      /\ j.state \in {"waiting", "active"} => j.attempts < MaxAttempts
  <2>1. [job[k] EXCEPT !.state = "completed"] \in Job
    BY <1>2 DEF Job
  <2>2. [job[k] EXCEPT !.state = "completed"].state = "completed"
    BY <1>2 DEF Job
  <2>. QED BY <1>2, <1>3, <2>1, <2>2, RetriedJobs, StalledJobs
<1>5. job' \in [JobKey -> Job] /\ AttemptsLeft'
  BY <1>1, <1>3, <1>4 DEF MemoryTypeOK, AttemptsLeft
<1>6. /\ point' \in [Document -> Point \cup {None}]
      /\ readiness' \in {"none", "ready"}
      /\ faults' \in 0 .. MaxFaults
  BY MemoryAssumption DEF ProcessDelete, Fault, MemoryTypeOK
<1>7. MemoryTypeOK' /\ UNCHANGED <<document, revision, cache, reader>>
  BY <1>5, <1>6 DEF MemoryTypeOK, ProcessDelete
<1>. QED BY <1>5, <1>7, AsideSafe

-----------------------------------------------------------------------------
(* The retrievals *)

\* A retrieval changes the retrieval that steps, and the cache only to nothing or to
\* a result that holds what the definitions are.
LEMMA ReaderSafe ==
  ASSUME MemoryInv, NEW r \in Reader, NEW call, Retrieving(r, call),
         call \in [phase : {"idle", "revised", "defined"}, revision : 0 .. MaxRevision,
                   definitions : Context],
         call.revision <= revision,
         \A m, n \in DOMAIN call.definitions : m = n,
         call.phase = "defined" /\ call.revision = revision =>
           \A m \in Definition : /\ m \in DOMAIN call.definitions
                                 /\ call.definitions[m] = document[m].content,
         CacheCurrent',
         UNCHANGED <<conversations, document, revision, point, readiness, credential, queues,
                     worker, saves, faults>>
  PROVE  MemoryInv'
<1>1. MemoryTypeOK'
  BY DEF MemoryInv, MemoryTypeOK, Retrieving, queues
<1>2. AttemptsLeft' /\ OneDefinition' /\ Definition' = Definition
  BY DEF MemoryInv, AttemptsLeft, OneDefinition, Definition, Live, queues
<1>3. ReadersCurrent'
  <2>. SUFFICES ASSUME NEW q \in Reader
                PROVE  (/\ reader[q].revision <= revision
                        /\ \A m, n \in DOMAIN reader[q].definitions : m = n
                        /\ reader[q].phase = "defined" /\ reader[q].revision = revision =>
                             \A m \in Definition :
                               /\ m \in DOMAIN reader[q].definitions
                               /\ reader[q].definitions[m] = document[m].content)'
    BY DEF ReadersCurrent
  <2>1. CASE q = r
    <3>1. reader'[q] = call
      BY <2>1 DEF MemoryInv, MemoryTypeOK, Retrieving
    <3>. QED BY <1>2, <3>1
  <2>2. CASE q # r
    <3>1. reader'[q] = reader[q]
      BY <2>2 DEF MemoryInv, MemoryTypeOK, Retrieving
    <3>. QED BY <1>2, <3>1 DEF MemoryInv, ReadersCurrent
  <2>. QED BY <2>1, <2>2
<1>. QED BY <1>1, <1>2, <1>3 DEF MemoryInv

\* A retrieval that is over, or has only its revision.
LEMMA BareRetrieval ==
  ASSUME MemoryInv
  PROVE  \A phase \in {"idle", "revised"}, v \in {0, revision} :
           LET call == [phase |-> phase, revision |-> v, definitions |-> <<>>] IN
           /\ call \in [phase : {"idle", "revised", "defined"}, revision : 0 .. MaxRevision,
                        definitions : Context]
           /\ call.revision <= revision
           /\ \A m, n \in DOMAIN call.definitions : m = n
           /\ call.phase # "defined"
<1>1. revision \in 0 .. MaxRevision /\ MaxRevision \in Nat
  BY MemoryAssumption DEF MemoryInv, MemoryTypeOK
<1>2. \A v \in {0, revision} : v \in 0 .. MaxRevision /\ v <= revision
  BY <1>1
<1>. QED BY <1>2, NoContext

LEMMA RetrieveSafe ==
  ASSUME MemoryInv, NEW r \in Reader, Retrieve(r) \/ Reuse(r)
  PROVE  MemoryInv'
<1>1. PICK call : /\ Retrieving(r, call)
                  /\ call \in {[phase |-> "revised", revision |-> revision, definitions |-> <<>>],
                               [phase |-> "idle", revision |-> 0, definitions |-> <<>>]}
  BY DEF Retrieve, Reuse, NoRetrieval
<1>2. /\ call \in [phase : {"idle", "revised", "defined"}, revision : 0 .. MaxRevision,
                   definitions : Context]
      /\ call.revision <= revision
      /\ \A m, n \in DOMAIN call.definitions : m = n
      /\ call.phase # "defined"
  BY <1>1, BareRetrieval
<1>3. UNCHANGED <<conversations, document, revision, point, readiness, cache, credential,
                  queues, worker, saves, faults>>
  BY DEF Retrieve, Reuse, stores
<1>4. CacheCurrent'
  BY <1>3 DEF MemoryInv, CacheCurrent, Definition, Live
<1>. QED BY <1>1, <1>2, <1>3, <1>4, ReaderSafe

\* A retrieval that has its definitions is otherwise what it was.
LEMMA DefinedRetrieval ==
  ASSUME NEW call \in [phase : {"idle", "revised", "defined"}, revision : 0 .. MaxRevision,
                       definitions : Context],
         NEW found \in Context
  PROVE  LET next == [call EXCEPT !.phase = "defined", !.definitions = found] IN
         /\ next \in [phase : {"idle", "revised", "defined"}, revision : 0 .. MaxRevision,
                      definitions : Context]
         /\ next.revision = call.revision
         /\ next.definitions = found
  OBVIOUS

\* The definitions as they are now belong to no revision but the present one.
LEMMA FindDefinitionsSafe ==
  ASSUME MemoryInv, NEW r \in Reader, FindDefinitions(r)
  PROVE  MemoryInv'
<1>. USE DEF MemoryInv
<1>. DEFINE call == [reader[r] EXCEPT !.phase = "defined", !.definitions = FoundDefinitions]
<1>1. FoundDefinitions \in Context /\ DOMAIN FoundDefinitions = Definition
  <2>1. \A d \in Definition : document[d].content \in Column \cup {Profile}
    <3>1. \A d \in Definition : document[d] \in Row
      BY SmallFacts DEF MemoryTypeOK, Definition, Live
    <3>. QED BY <3>1, RowFields
  <2>2. FoundDefinitions \in [Definition -> Column \cup {Profile}]
    BY <2>1 DEF FoundDefinitions
  <2>3. Definition \in SUBSET Document
    BY SmallFacts
  <2>. QED BY <2>2, <2>3 DEF Context
<1>2. \A m \in Definition : FoundDefinitions[m] = document[m].content
  BY DEF FoundDefinitions
<1>3. reader[r] \in [phase : {"idle", "revised", "defined"}, revision : 0 .. MaxRevision,
                     definitions : Context]
  BY DEF MemoryTypeOK
<1>4. /\ call \in [phase : {"idle", "revised", "defined"}, revision : 0 .. MaxRevision,
                   definitions : Context]
      /\ call.revision = reader[r].revision
      /\ call.definitions = FoundDefinitions
  BY <1>1, <1>3, DefinedRetrieval
<1>5. Retrieving(r, call)
  BY DEF FindDefinitions
<1>. HIDE DEF call
<1>6. /\ call.revision <= revision
      /\ \A m, n \in DOMAIN call.definitions : m = n
      /\ \A m \in Definition : /\ m \in DOMAIN call.definitions
                               /\ call.definitions[m] = document[m].content
  BY <1>1, <1>2, <1>4 DEF ReadersCurrent, OneDefinition
<1>7. UNCHANGED <<conversations, document, revision, point, readiness, cache, credential,
                  queues, worker, saves, faults>>
  BY DEF FindDefinitions, stores
<1>8. CacheCurrent'
  BY <1>7 DEF CacheCurrent, Definition, Live
<1>. QED BY <1>4, <1>5, <1>6, <1>7, <1>8, ReaderSafe

\* What is cached under the present revision holds the definition there is.
LEMMA RetrieveUncachedSafe ==
  ASSUME MemoryInv, NEW r \in Reader, RetrieveUncached(r)
  PROVE  MemoryInv'
<1>1. UNCHANGED <<conversations, document, revision, point, readiness, credential, queues,
                  worker, saves, faults>>
  BY DEF RetrieveUncached
<1>2. CacheCurrent'
  <2>1. Definition' = Definition
    BY <1>1 DEF Definition, Live
  <2>2. PICK semantic :
          \E result \in BoundContext(reader[r].definitions, semantic) :
            CacheUnder(reader[r].revision, result) \/ UNCHANGED cache
    BY DEF RetrieveUncached
  <2>3. PICK result \in BoundContext(reader[r].definitions, semantic) :
          CacheUnder(reader[r].revision, result) \/ UNCHANGED cache
    BY <2>2
  <2>4. CASE cache' = result /\ reader[r].revision = revision
    <3>1. \A m \in Definition : /\ m \in DOMAIN reader[r].definitions
                                /\ reader[r].definitions[m] = document[m].content
      BY <2>4 DEF RetrieveUncached, MemoryInv, ReadersCurrent
    <3>2. \A m, n \in DOMAIN reader[r].definitions : m = n
      BY DEF MemoryInv, ReadersCurrent
    <3>3. \A m \in Definition : m \in DOMAIN result /\ result[m] = document[m].content
      BY <3>1, <3>2, BoundKeepsDefinition
    <3>. QED BY <1>1, <2>1, <2>4, <3>3 DEF CacheCurrent
  <2>5. CASE UNCHANGED cache
    BY <1>1, <2>1, <2>5 DEF MemoryInv, CacheCurrent
  <2>. QED BY <2>3, <2>4, <2>5 DEF CacheUnder
<1>3. Retrieving(r, NoRetrieval)
  BY DEF RetrieveUncached
<1>4. /\ NoRetrieval \in [phase : {"idle", "revised", "defined"}, revision : 0 .. MaxRevision,
                          definitions : Context]
      /\ NoRetrieval.revision <= revision
      /\ \A m, n \in DOMAIN NoRetrieval.definitions : m = n
      /\ NoRetrieval.phase # "defined"
  BY BareRetrieval DEF NoRetrieval
<1>. QED BY <1>1, <1>2, <1>3, <1>4, ReaderSafe

LEMMA ExpireSafe ==
  ASSUME MemoryInv, Expire
  PROVE  MemoryInv'
<1>1. /\ MemoryTypeOK'
      /\ AttemptsLeft'
      /\ Definition' = Definition
  BY DEF Expire, queues, MemoryInv, MemoryTypeOK, AttemptsLeft, Definition, Live
<1>2. OneDefinition' /\ CacheCurrent'
  BY <1>1 DEF Expire, MemoryInv, OneDefinition, CacheCurrent
<1>3. ReadersCurrent'
  BY <1>1 DEF Expire, MemoryInv, ReadersCurrent
<1>. QED BY <1>1, <1>2, <1>3 DEF MemoryInv

-----------------------------------------------------------------------------
(* The theorems *)

LEMMA NextSafe ==
  ASSUME MemoryInv, [MemoryNext]_memoryVars
  PROVE  MemoryInv'
<1>1. ASSUME NEW c \in Conversation,
             SaveDefinition(c) \/ DeleteConversation(c) \/ ProcessDelete(c)
      PROVE  MemoryInv'
  BY <1>1, SaveDefinitionSafe, DeleteConversationSafe, ProcessDeleteSafe
<1>2. CASE CredentialValidated \/ CredentialLost
  BY <1>2, CredentialSafe
<1>3. ASSUME NEW w \in Worker, Index(w) \/ Crash(w)
      PROVE  MemoryInv'
  BY <1>3, DeliverSafe, MarkIndexingSafe, IndexCallSafe, MarkIndexedSafe,
     MarkIndexFailedSafe, CrashSafe
     DEF Index
<1>4. ASSUME NEW r \in Reader, Retrieval(r)
      PROVE  MemoryInv'
  BY <1>4, RetrieveSafe, FindDefinitionsSafe, RetrieveUncachedSafe DEF Retrieval
<1>5. CASE Expire
  BY <1>5, ExpireSafe
<1>6. CASE UNCHANGED memoryVars
  <2>1. MemoryTypeOK'
    BY <1>6 DEF memoryVars, MemoryInv, MemoryTypeOK
  <2>2. AttemptsLeft'
    BY <1>6 DEF memoryVars, MemoryInv, AttemptsLeft
  <2>3. UNCHANGED <<document, revision, cache, reader>>
    BY <1>6 DEF memoryVars
  <2>. QED BY <2>1, <2>2, <2>3, AsideSafe
<1>. QED BY <1>1, <1>2, <1>3, <1>4, <1>5, <1>6 DEF MemoryNext

\* At every step of every behaviour: rows, jobs, calls and retrievals are well
\* formed, a delivered job has an attempt left, the alias means one thing, and
\* retrievals and the cache are current (memory-service.ts, postgres-memory-
\* repository.ts).
THEOREM MemoryInvariant == MemorySpec => []MemoryInv
<1>1. MemoryInit => MemoryInv
  BY InitTyped, InitCurrent DEF MemoryInv
<1>2. MemoryInv /\ [MemoryNext]_memoryVars => MemoryInv'
  BY NextSafe
<1>. QED BY <1>1, <1>2, PTL DEF MemorySpec

\* The type invariant of the memory.
THEOREM MemoryTyped == MemorySpec => []MemoryTypeOK
<1>1. MemoryInv => MemoryTypeOK
  BY DEF MemoryInv
<1>. QED BY <1>1, MemoryInvariant, PTL

\* A result served from Redis holds the present meaning of "revenue", whatever
\* answers, indexing calls, faults and other retrievals came between
\* (MemoryRetrievalService.retrieve and the revision it reads first).
THEOREM CachesCurrent == MemorySpec => []CacheCurrent
<1>1. MemoryInv => CacheCurrent
  BY DEF MemoryInv
<1>. QED BY <1>1, MemoryInvariant, PTL
=============================================================================
