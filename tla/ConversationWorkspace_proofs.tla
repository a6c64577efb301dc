----------------------- MODULE ConversationWorkspace_proofs -----------------------
(***************************************************************************)
(* What the stream of a run and the page that follows it promise for any   *)
(* number of runs, connections and loads: the limit on streams holds, a    *)
(* stream that ends has sent its log, every event is handled once, and a   *)
(* page at rest shows what is so.                                          *)
(***************************************************************************)
EXTENDS ConversationWorkspace, FiniteSetTheorems, SequenceTheorems, TLAPS

-----------------------------------------------------------------------------
(* The inductive invariant of the stream *)

Status == {"none", "queued", "running", "waiting_for_user"} \cup Terminal

EventName ==
  {"run.queued", "run.started", "run.progress", "run.clarification", "run.resumed",
   "assistant.delta", "run.completed", "run.failed", "run.cancelled"}

StreamTypeOK ==
  /\ run \in [Run -> Status]
  /\ log \in [Run -> Seq(EventName)]
  /\ lease \in [Stream -> 0 .. Lease]
  /\ stream \in [Stream -> Connection \cup {None}]
  /\ source \in EventSource \cup {None}
  /\ deaths \in Nat

\* A lease outlasts what is left of its stream's lifetime.
Leased ==
  \A s \in Stream : stream[s] # None =>
    stream[s].age <= Lifetime /\ lease[s] + stream[s].age >= Lease

LeasesWithinLimit == Cardinality(Leases) <= Limit

\* What waits in the browser follows what was handled, event by event, and the
\* stream it came by goes on after it.
Consecutive(src) ==
  /\ \A n \in 1 .. Len(src.inbox) : src.inbox[n] = src.last + n
  /\ src.last + Len(src.inbox) <= Len(log[src.run])
  /\ src.on \notin Stream => src.inbox = <<>>
  /\ \A s \in Stream : src.on = s /\ stream[s] # None =>
       stream[s].run = src.run /\ stream[s].cursor = src.last + Len(src.inbox)

StreamInv ==
  /\ StreamTypeOK
  /\ Leased
  /\ LeasesWithinLimit
  /\ source # None => Consecutive(source)

-----------------------------------------------------------------------------
(* The limit *)

LEMMA LeasesFinite == IsFiniteSet(Leases) /\ Cardinality(Leases) \in Nat
<1>1. IsFiniteSet(Stream) /\ Leases \in SUBSET Stream
  BY StreamAssumption DEF Leases
<1>2. IsFiniteSet(Leases)
  BY <1>1, FS_Subset
<1>3. QED
  BY <1>2, FS_CardinalityType

LEMMA FewerLeases ==
  ASSUME LeasesWithinLimit, Leases' \subseteq Leases
  PROVE  LeasesWithinLimit'
<1>1. IsFiniteSet(Leases) /\ Cardinality(Leases) \in Nat
  BY LeasesFinite
<1>2. Cardinality(Leases') <= Cardinality(Leases) /\ IsFiniteSet(Leases')
  BY <1>1, FS_Subset
<1>3. Cardinality(Leases') \in Nat
  BY <1>2, FS_CardinalityType
<1>4. QED
  BY <1>1, <1>2, <1>3, StreamAssumption DEF LeasesWithinLimit

LEMMA LimitHolds ==
  ASSUME StreamInv
  PROVE  StreamsWithinLimit
<1> DEFINE open == {s \in Stream : stream[s] # None}
<1>1. ASSUME NEW s \in open PROVE s \in Leases
  <2>1. stream[s] \in Connection /\ lease[s] \in 0 .. Lease
    BY DEF StreamInv, StreamTypeOK
  <2>2. stream[s].age \in Nat /\ stream[s].age <= Lifetime /\ lease[s] + stream[s].age >= Lease
    BY <2>1 DEF StreamInv, Leased, Connection
  <2>3. QED
    BY <2>1, <2>2, StreamAssumption DEF Leases
<1>2. open \in SUBSET Leases
  BY <1>1
<1>3. IsFiniteSet(Leases) /\ Cardinality(Leases) \in Nat
  BY LeasesFinite
<1>4. IsFiniteSet(open) /\ Cardinality(open) <= Cardinality(Leases)
  BY <1>2, <1>3, FS_Subset
<1>5. Cardinality(open) \in Nat
  BY <1>4, FS_CardinalityType
<1>6. QED
  BY <1>3, <1>4, <1>5, StreamAssumption DEF StreamInv, LeasesWithinLimit, StreamsWithinLimit

-----------------------------------------------------------------------------
(* The conversation's transactions only lengthen logs *)

LogGrows ==
  /\ run' \in [Run -> Status]
  /\ log' \in [Run -> Seq(EventName)]
  /\ \A r \in Run : Len(log'[r]) >= Len(log[r])

LEMMA SetGrows ==
  ASSUME StreamTypeOK, NEW r \in Run, NEW status \in Status, NEW events \in Seq(EventName),
         Set(r, status, events)
  PROVE  LogGrows
<1>1. log[r] \in Seq(EventName) /\ log[r] \o events \in Seq(EventName)
      /\ Len(log[r] \o events) = Len(log[r]) + Len(events)
  BY ConcatProperties DEF StreamTypeOK
<1>2. run' \in [Run -> Status] /\ log' = [log EXCEPT ![r] = log[r] \o events]
  BY DEF Set, StreamTypeOK
<1>3. log' \in [Run -> Seq(EventName)]
  BY <1>1, <1>2 DEF StreamTypeOK
<1>4. ASSUME NEW q \in Run PROVE Len(log'[q]) >= Len(log[q])
  <2>1. log[q] \in Seq(EventName) /\ Len(log[q]) \in Nat /\ Len(events) \in Nat
    BY DEF StreamTypeOK
  <2>2. CASE q = r
    BY <1>1, <1>2, <2>1, <2>2 DEF StreamTypeOK
  <2>3. CASE q # r
    BY <1>2, <2>1, <2>3 DEF StreamTypeOK
  <2>4. QED
    BY <2>2, <2>3
<1>5. QED
  BY <1>2, <1>3, <1>4 DEF LogGrows

LEMMA TransactionGrows ==
  ASSUME StreamTypeOK, NEW r \in Run,
         \/ EnqueueMessage(r) \/ ClaimRun(r) \/ RecordProgress(r) \/ PauseRun(r)
         \/ ResumeRun(r) \/ CompleteRun(r) \/ FailRun(r) \/ CancelRun(r)
  PROVE  LogGrows
<1>1. ASSUME NEW status \in Status, NEW event \in EventName, Set(r, status, <<event>>)
      PROVE  LogGrows
  <2>1. <<event>> \in Seq(EventName)
    OBVIOUS
  <2>2. QED
    BY <1>1, <2>1, SetGrows
<1>2. CASE EnqueueMessage(r)
  <2>1. Set(r, "queued", <<"run.queued">>)
    BY <1>2 DEF EnqueueMessage
  <2>2. "queued" \in Status /\ "run.queued" \in EventName
    BY DEF Status, Terminal, EventName
  <2>3. QED
    BY <1>1, <2>1, <2>2
<1>3. CASE ClaimRun(r)
  <2>1. Set(r, "running", <<"run.started">>)
    BY <1>3 DEF ClaimRun
  <2>2. "running" \in Status /\ "run.started" \in EventName
    BY DEF Status, Terminal, EventName
  <2>3. QED
    BY <1>1, <2>1, <2>2
<1>4. CASE RecordProgress(r)
  <2>1. Set(r, "running", <<"run.progress">>)
    BY <1>4 DEF RecordProgress
  <2>2. "running" \in Status /\ "run.progress" \in EventName
    BY DEF Status, Terminal, EventName
  <2>3. QED
    BY <1>1, <2>1, <2>2
<1>5. CASE PauseRun(r)
  <2>1. Set(r, "waiting_for_user", <<"run.clarification">>)
    BY <1>5 DEF PauseRun
  <2>2. "waiting_for_user" \in Status /\ "run.clarification" \in EventName
    BY DEF Status, Terminal, EventName
  <2>3. QED
    BY <1>1, <2>1, <2>2
<1>6. CASE ResumeRun(r)
  <2>1. Set(r, "queued", <<"run.resumed">>)
    BY <1>6 DEF ResumeRun
  <2>2. "queued" \in Status /\ "run.resumed" \in EventName
    BY DEF Status, Terminal, EventName
  <2>3. QED
    BY <1>1, <2>1, <2>2
<1>7. CASE FailRun(r)
  <2>1. Set(r, "failed", <<"run.failed">>)
    BY <1>7 DEF FailRun
  <2>2. "failed" \in Status /\ "run.failed" \in EventName
    BY DEF Status, Terminal, EventName
  <2>3. QED
    BY <1>1, <2>1, <2>2
<1>8. CASE CancelRun(r)
  <2>1. Set(r, "cancelled", <<"run.cancelled">>)
    BY <1>8 DEF CancelRun
  <2>2. "cancelled" \in Status /\ "run.cancelled" \in EventName
    BY DEF Status, Terminal, EventName
  <2>3. QED
    BY <1>1, <2>1, <2>2
<1>9. CASE CompleteRun(r)
  <2>1. Set(r, "completed", <<"assistant.delta", "run.completed">>)
    BY <1>9 DEF CompleteRun
  <2>2. "completed" \in Status /\ <<"assistant.delta", "run.completed">> \in Seq(EventName)
    BY DEF Status, Terminal, EventName
  <2>3. QED
    BY <2>1, <2>2, SetGrows
<1>10. QED
  BY <1>2, <1>3, <1>4, <1>5, <1>6, <1>7, <1>8, <1>9

LEMMA LogGrowsKeeps ==
  ASSUME StreamInv, LogGrows, UNCHANGED <<server, source>>
  PROVE  StreamInv'
<1>1. StreamTypeOK' /\ Leased' /\ Leases' = Leases
  BY DEF StreamInv, StreamTypeOK, LogGrows, server, Leased, Leases
<1>2. LeasesWithinLimit'
  BY <1>1 DEF StreamInv, LeasesWithinLimit
<1>3. ASSUME source' # None PROVE Consecutive(source)'
  <2>1. source \in EventSource /\ source' = source /\ stream' = stream /\ Consecutive(source)
    BY <1>3 DEF StreamInv, StreamTypeOK, server
  <2>2. Len(log'[source.run]) >= Len(log[source.run])
        /\ Len(log'[source.run]) \in Nat /\ Len(log[source.run]) \in Nat
        /\ source.last \in Nat /\ Len(source.inbox) \in Nat
    BY <2>1 DEF LogGrows, EventSource, StreamInv, StreamTypeOK
  <2>3. source.last + Len(source.inbox) <= Len(log'[source.run])
    BY <2>1, <2>2 DEF Consecutive
  <2>4. QED
    BY <2>1, <2>3 DEF Consecutive
<1>4. QED
  BY <1>1, <1>2, <1>3 DEF StreamInv

-----------------------------------------------------------------------------
(* The steps of the servers and of the EventSource *)

\* A step that ages no stream and opens none keeps the limit.
StreamsStay ==
  /\ stream' \in [Stream -> Connection \cup {None}]
  /\ lease' \in [Stream -> 0 .. Lease]
  /\ \A s \in Stream :
       /\ lease'[s] \in {lease[s], 0}
       /\ stream'[s] # None =>
            stream[s] # None /\ stream'[s].age = stream[s].age /\ lease'[s] = lease[s]

LEMMA SourceMoves ==
  ASSUME StreamInv, StreamsStay, UNCHANGED <<run, log>>, deaths' \in Nat,
         source' \in EventSource \cup {None},
         source' # None => Consecutive(source)'
  PROVE  StreamInv'
<1>1. StreamTypeOK'
  BY DEF StreamInv, StreamTypeOK, StreamsStay
<1>2. Leased'
  BY DEF StreamInv, Leased, StreamsStay
<1>3. Leases' \subseteq Leases
  BY DEF StreamsStay, Leases
<1>4. LeasesWithinLimit'
  BY <1>3, FewerLeases DEF StreamInv
<1>5. QED
  BY <1>1, <1>2, <1>4 DEF StreamInv

LEMMA AbandonStays ==
  ASSUME StreamTypeOK, stream' \in {stream, Abandon}, UNCHANGED lease
  PROVE  StreamsStay
<1>1. ASSUME NEW s \in Stream
      PROVE  /\ stream'[s] \in Connection \cup {None}
             /\ stream'[s] # None =>
                  stream[s] # None /\ stream'[s].age = stream[s].age
  <2>1. stream[s] \in Connection \cup {None}
    BY DEF StreamTypeOK
  <2>2. \/ stream'[s] = stream[s]
        \/ /\ stream[s] # None
           /\ stream'[s] = [stream[s] EXCEPT !.aborted = TRUE]
    BY DEF Abandon
  <2>3. QED
    BY <2>1, <2>2 DEF Connection
<1>2. stream' \in [Stream -> Connection \cup {None}]
  BY <1>1 DEF Abandon, StreamTypeOK
<1>3. lease' \in [Stream -> 0 .. Lease] /\ \A s \in Stream : lease'[s] = lease[s]
  BY DEF StreamTypeOK
<1>4. QED
  BY <1>1, <1>2, <1>3 DEF StreamsStay

\* A new source waits for nothing yet.
LEMMA NewSourceKeeps ==
  ASSUME StreamInv, stream' \in {stream, Abandon}, UNCHANGED <<run, log, lease, deaths>>,
         \/ source' = None
         \/ (\E r \in Run, n \in Nat : n <= Len(log[r]) /\ source' = NewSource(r, n))
  PROVE  StreamInv'
<1>1. StreamsStay
  BY AbandonStays DEF StreamInv
<1>2. deaths' \in Nat
  BY DEF StreamInv, StreamTypeOK
<1>3. CASE source' = None
  BY <1>1, <1>2, <1>3, SourceMoves
<1>4. ASSUME NEW r \in Run, NEW n \in Nat, n <= Len(log[r]), source' = NewSource(r, n)
      PROVE  StreamInv'
  <2>1. source' \in EventSource
    BY <1>4 DEF NewSource, EventSource
  <2>2. source'.inbox = <<>> /\ source'.last = n /\ source'.run = r
        /\ source'.on = "connecting"
    BY <1>4 DEF NewSource
  <2>3. "connecting" \notin Stream
    BY StreamAssumption
  <2>4. Consecutive(source)'
    BY <1>4, <2>2, <2>3 DEF Consecutive
  <2>5. QED
    BY <1>1, <1>2, <2>1, <2>4, SourceMoves
<1>5. QED
  BY <1>3, <1>4

LEMMA OpenKeeps ==
  ASSUME StreamInv, NEW s \in Stream, Open(s)
  PROVE  StreamInv'
<1> DEFINE c == [run |-> source.run, cursor |-> source.last, age |-> 0, aborted |-> FALSE]
<1>1. source \in EventSource /\ source # None /\ Consecutive(source)
  BY DEF Open, StreamInv, StreamTypeOK
<1>2. c \in Connection
  BY <1>1 DEF EventSource, Connection
<1>3. StreamTypeOK'
  <2>1. lease' \in [Stream -> 0 .. Lease] /\ stream' \in [Stream -> Connection \cup {None}]
    BY <1>2, StreamAssumption DEF Open, StreamInv, StreamTypeOK
  <2>2. source' \in EventSource
    BY <1>1 DEF Open, EventSource
  <2>3. QED
    BY <2>1, <2>2 DEF Open, StreamInv, StreamTypeOK
<1>4. Leased'
  BY <1>2, StreamAssumption DEF Open, StreamInv, StreamTypeOK, Leased
<1>5. LeasesWithinLimit'
  <2>1. Leases' = Leases \cup {s}
    BY StreamAssumption DEF Open, Leases, StreamInv, StreamTypeOK
  <2>2. IsFiniteSet(Leases) /\ Cardinality(Leases) \in Nat
    BY LeasesFinite
  <2>3. s \notin Leases /\ Cardinality(Leases) < Limit
    BY DEF Open, Admits
  <2>4. Cardinality(Leases \cup {s}) = Cardinality(Leases) + 1
    BY <2>2, <2>3, FS_AddElement
  <2>5. QED
    BY <2>1, <2>2, <2>3, <2>4, StreamAssumption DEF LeasesWithinLimit
<1>6. Consecutive(source)'
  <2>1. /\ source'.inbox = source.inbox /\ source'.last = source.last
        /\ source'.run = source.run /\ source'.on = s
    BY <1>1 DEF Open, EventSource
  <2>2. stream'[s] = c /\ log' = log
    BY DEF Open, StreamInv, StreamTypeOK
  <2>3. source.inbox = <<>>
    BY <1>1, StreamAssumption DEF Open, Consecutive
  <2>4. QED
    BY <1>1, <2>1, <2>2, <2>3 DEF Consecutive, EventSource
<1>7. QED
  BY <1>3, <1>4, <1>5, <1>6 DEF StreamInv

\* What a page sends of a log continues it.
LEMMA PageContinues ==
  ASSUME StreamTypeOK, NEW s \in Stream, stream[s] # None
  PROVE  /\ Page(s) \in Seq(Nat)
         /\ \A n \in 1 .. Len(Page(s)) : Page(s)[n] = stream[s].cursor + n
         /\ Len(Page(s)) < PageSize => stream[s].cursor + Len(Page(s)) >= Len(log[stream[s].run])
         /\ stream[s].cursor <= Len(log[stream[s].run]) =>
              /\ stream[s].cursor + Len(Page(s)) <= Len(log[stream[s].run])
<1> DEFINE cursor == stream[s].cursor
           left == Len(log[stream[s].run]) - cursor
           size == IF left < PageSize THEN left ELSE PageSize
<1>1. cursor \in Nat /\ left \in Int /\ size \in Int /\ Len(log[stream[s].run]) \in Nat
  <2>1. stream[s] \in Connection
    BY DEF StreamTypeOK
  <2>2. QED
    BY <2>1, StreamAssumption DEF StreamTypeOK, Connection
<1>2. Page(s) = [n \in 1 .. size |-> cursor + n]
  BY DEF Page
<1>3. CASE size >= 0
  <2>1. size \in Nat
    BY <1>1, <1>3
  <2>2. \A n \in 1 .. size : cursor + n \in Nat
    BY <1>1, <2>1
  <2>3. Page(s) \in Seq(Nat) /\ Len(Page(s)) = size
    BY <1>2, <2>1, <2>2
  <2>4. \A n \in 1 .. size : Page(s)[n] = cursor + n
    BY <1>2
  <2>5. QED
    BY <1>1, <2>1, <2>3, <2>4, StreamAssumption, SMTT(30)
<1>4. CASE size < 0
  <2>1. 1 .. size = {}
    BY <1>1, <1>4
  <2>2. Page(s) = <<>>
    BY <1>2, <2>1
  <2>3. QED
    BY <1>1, <1>4, <2>2, StreamAssumption
<1>5. QED
  BY <1>1, <1>3, <1>4

LEMMA PageAppended ==
  ASSUME StreamInv, NEW s \in Stream, stream[s] # None, Attached(s), Enqueue(s)
  PROVE  /\ source' \in EventSource
         /\ source'.last = source.last /\ source'.run = source.run /\ source'.on = s
         /\ Len(source'.inbox) = Len(source.inbox) + Len(Page(s))
         /\ \A n \in 1 .. Len(source'.inbox) : source'.inbox[n] = source.last + n
         /\ stream[s].run = source.run
         /\ stream[s].cursor = source.last + Len(source.inbox)
         /\ source.last + Len(source'.inbox) <= Len(log[source.run])
<1>1. source \in EventSource /\ Consecutive(source) /\ source.on = s
  BY DEF StreamInv, StreamTypeOK, Attached
<1>2. stream[s].run = source.run /\ stream[s].cursor = source.last + Len(source.inbox)
  BY <1>1 DEF Consecutive
<1>3. /\ Page(s) \in Seq(Nat) /\ Len(Page(s)) \in Nat
      /\ \A n \in 1 .. Len(Page(s)) : Page(s)[n] = stream[s].cursor + n
      /\ stream[s].cursor + Len(Page(s)) <= Len(log[stream[s].run])
  <2>1. stream[s].cursor <= Len(log[stream[s].run])
    BY <1>1, <1>2 DEF Consecutive
  <2>2. QED
    BY <2>1, PageContinues DEF StreamInv
<1> DEFINE inbox == source.inbox \o Page(s)
<1>4. source.inbox \in Seq(Nat) /\ source.last \in Nat /\ Len(source.inbox) \in Nat
  BY <1>1 DEF EventSource
<1>5. inbox \in Seq(Nat) /\ Len(inbox) = Len(source.inbox) + Len(Page(s))
      /\ \A n \in 1 .. Len(inbox) :
           inbox[n] = IF n <= Len(source.inbox) THEN source.inbox[n]
                      ELSE Page(s)[n - Len(source.inbox)]
  BY <1>3, <1>4, ConcatProperties
<1>6. source' = [source EXCEPT !.inbox = inbox]
  BY DEF Enqueue
<1>7. ASSUME NEW n \in 1 .. Len(inbox) PROVE inbox[n] = source.last + n
  <2>1. CASE n <= Len(source.inbox)
    BY <1>1, <1>4, <1>5, <2>1 DEF Consecutive
  <2>2. CASE n > Len(source.inbox)
    <3>1. n - Len(source.inbox) \in 1 .. Len(Page(s))
      BY <1>3, <1>4, <1>5, <2>2
    <3>2. inbox[n] = Page(s)[n - Len(source.inbox)]
      BY <1>4, <1>5, <2>2
    <3>3. Page(s)[n - Len(source.inbox)] = stream[s].cursor + (n - Len(source.inbox))
      BY <1>3, <3>1
    <3>4. QED
      BY <1>2, <1>3, <1>4, <1>5, <3>2, <3>3
  <2>3. QED
    BY <1>4, <1>5, <2>1, <2>2
<1>8. source' \in EventSource /\ source'.inbox = inbox /\ source'.last = source.last
      /\ source'.run = source.run /\ source'.on = source.on
  BY <1>1, <1>5, <1>6 DEF EventSource
<1>9. QED
  BY <1>1, <1>2, <1>3, <1>4, <1>5, <1>7, <1>8

\* A stream that is ended, and gives its lease back.
LEMMA EndStays ==
  ASSUME StreamTypeOK, NEW s \in Stream, End(s)
  PROVE  StreamsStay
BY StreamAssumption DEF End, Release, StreamTypeOK, StreamsStay

LEMMA EndConsecutive ==
  ASSUME StreamInv, NEW s \in Stream, End(s), UNCHANGED <<source, log>>, source # None
  PROVE  Consecutive(source)'
<1>1. \A t \in Stream : stream'[t] # None => stream'[t] = stream[t]
  BY DEF End, StreamInv, StreamTypeOK
<1>2. QED
  BY <1>1 DEF StreamInv, Consecutive

LEMMA CloseKeeps ==
  ASSUME StreamInv, NEW s \in Stream, Close(s)
  PROVE  StreamInv'
<1>1. End(s) /\ UNCHANGED <<run, log, source, deaths>>
  BY DEF Close
<1>2. StreamsStay
  BY <1>1, EndStays DEF StreamInv
<1>3. source' # None => Consecutive(source)'
  BY <1>1, EndConsecutive
<1>4. QED
  BY <1>1, <1>2, <1>3, SourceMoves DEF StreamInv, StreamTypeOK

LEMMA SendKeeps ==
  ASSUME StreamInv, NEW s \in Stream, Send(s)
  PROVE  StreamInv'
<1>1. stream[s] # None /\ Enqueue(s) /\ UNCHANGED <<run, log, deaths>>
  BY DEF Send
<1>2. stream[s] \in Connection /\ Page(s) \in Seq(Nat) /\ Len(Page(s)) \in Nat
  BY <1>1, PageContinues DEF StreamInv, StreamTypeOK
<1>3. \/ End(s)
      \/ /\ stream' = [stream EXCEPT ![s].cursor = @ + Len(Page(s))]
         /\ UNCHANGED lease
  BY DEF Send
<1>4. StreamsStay
  <2>1. CASE End(s)
    BY <2>1, EndStays DEF StreamInv
  <2>2. CASE stream' = [stream EXCEPT ![s].cursor = @ + Len(Page(s))] /\ UNCHANGED lease
    <3>1. PICK n \in Nat : n = stream[s].cursor + Len(Page(s))
      BY <1>2 DEF Connection
    <3> DEFINE c == [stream[s] EXCEPT !.cursor = n]
    <3>2. c \in Connection /\ c.age = stream[s].age
      BY <1>2 DEF Connection
    <3>3. stream' = [stream EXCEPT ![s] = c]
      BY <2>2, <3>1
    <3> HIDE DEF c
    <3>4. QED
      BY <1>1, <2>2, <3>2, <3>3 DEF StreamInv, StreamTypeOK, StreamsStay
  <2>3. QED
    BY <1>3, <2>1, <2>2
<1>5. \A t \in Stream \ {s} : stream'[t] = stream[t]
  BY <1>3 DEF End, StreamInv, StreamTypeOK
<1>6. CASE Attached(s)
  <2>1. /\ source' \in EventSource
        /\ source'.last = source.last /\ source'.run = source.run /\ source'.on = s
        /\ Len(source'.inbox) = Len(source.inbox) + Len(Page(s))
        /\ \A n \in 1 .. Len(source'.inbox) : source'.inbox[n] = source.last + n
        /\ stream[s].run = source.run
        /\ stream[s].cursor = source.last + Len(source.inbox)
        /\ source.last + Len(source'.inbox) <= Len(log[source.run])
    BY <1>1, <1>6, PageAppended
  <2>2. source \in EventSource
    BY <1>6 DEF Attached, StreamInv, StreamTypeOK
  <2>3. ASSUME stream'[s] # None
        PROVE  stream'[s].run = stream[s].run
               /\ stream'[s].cursor = stream[s].cursor + Len(Page(s))
    BY <1>2, <1>3, <2>3 DEF End, StreamInv, StreamTypeOK, Connection
  <2>4. source.last \in Nat /\ Len(source.inbox) \in Nat
    BY <2>2 DEF EventSource
  <2>5. stream'[s] # None =>
          stream'[s].run = source'.run /\ stream'[s].cursor = source'.last + Len(source'.inbox)
    BY <1>2, <2>1, <2>3, <2>4
  <2>6. Consecutive(source)'
    BY <1>1, <2>1, <2>5 DEF Consecutive
  <2>7. QED
    BY <1>1, <1>4, <2>1, <2>6, SourceMoves DEF StreamInv, StreamTypeOK
<1>7. CASE ~Attached(s)
  <2>1. source' = source
    BY <1>1, <1>7 DEF Enqueue
  <2>2. source # None => source.on # s
    BY <1>7 DEF Attached
  <2>3. source' # None => Consecutive(source)'
    BY <1>1, <1>5, <2>1, <2>2 DEF StreamInv, Consecutive
  <2>4. QED
    BY <1>1, <1>4, <2>1, <2>3, SourceMoves DEF StreamInv, StreamTypeOK
<1>8. QED
  BY <1>6, <1>7

LEMMA RefuseKeeps ==
  ASSUME StreamInv, Refuse
  PROVE  StreamInv'
<1>1. /\ source \in EventSource /\ source.on = "connecting" /\ Consecutive(source)
      /\ source' = [source EXCEPT !.on = "closed"]
      /\ UNCHANGED <<run, log, lease, stream>>
  BY DEF Refuse, StreamInv, StreamTypeOK
<1>2. deaths' \in Nat
  BY DEF Refuse, StreamInv, StreamTypeOK
<1>3. StreamsStay
  BY <1>1, AbandonStays DEF StreamInv
<1>4. source' \in EventSource /\ source'.on = "closed" /\ source'.inbox = source.inbox
      /\ source'.last = source.last /\ source'.run = source.run
  BY <1>1 DEF EventSource
<1>5. Consecutive(source)'
  BY <1>1, <1>4, StreamAssumption DEF Consecutive
<1>6. QED
  BY <1>1, <1>2, <1>3, <1>4, <1>5, SourceMoves

LEMMA ReconnectKeeps ==
  ASSUME StreamInv, Reconnect
  PROVE  StreamInv'
<1>1. /\ source \in EventSource /\ Consecutive(source)
      /\ source' = [source EXCEPT !.on = "connecting"]
      /\ source.inbox = <<>>
      /\ UNCHANGED <<run, log, lease, stream, deaths>>
  BY DEF Reconnect, StreamInv, StreamTypeOK, server
<1>2. StreamsStay
  BY <1>1, AbandonStays DEF StreamInv
<1>3. source' \in EventSource /\ source'.on = "connecting" /\ source'.inbox = source.inbox
      /\ source'.last = source.last /\ source'.run = source.run
  BY <1>1 DEF EventSource
<1>4. Consecutive(source)'
  BY <1>1, <1>3, StreamAssumption DEF Consecutive
<1>5. QED
  BY <1>1, <1>2, <1>3, <1>4, SourceMoves DEF StreamInv, StreamTypeOK

LEMMA CutKeeps ==
  ASSUME StreamInv, NEW s \in Stream, Cut(s)
  PROVE  StreamInv'
<1>1. UNCHANGED <<run, log, lease>> /\ deaths' \in Nat
  BY DEF Cut, StreamInv, StreamTypeOK
<1>2. \A t \in Stream : stream'[t] # None => stream'[t] = stream[t]
  BY DEF Cut, StreamInv, StreamTypeOK
<1>3. StreamsStay
  BY <1>1, <1>2 DEF Cut, StreamInv, StreamTypeOK, StreamsStay
<1>4. CASE Attached(s)
  <2>1. source \in EventSource /\ Consecutive(source)
        /\ source' = [source EXCEPT !.on = "connecting", !.inbox = <<>>]
    BY <1>4 DEF Cut, Attached, StreamInv, StreamTypeOK
  <2>2. source' = [run |-> source.run, last |-> source.last, on |-> "connecting", inbox |-> <<>>]
    BY <2>1 DEF EventSource
  <2>3. /\ source' \in EventSource /\ source'.on = "connecting" /\ source'.inbox = <<>>
        /\ source'.last = source.last /\ source'.run = source.run
    <3>1. source.run \in Run /\ source.last \in Nat
      BY <2>1 DEF EventSource
    <3>2. QED
      BY <2>2, <3>1 DEF EventSource
  <2>4. source.last <= Len(log[source.run]) /\ source.last \in Nat
    BY <2>1 DEF Consecutive, EventSource, StreamInv, StreamTypeOK
  <2>5. source'.last + Len(source'.inbox) <= Len(log'[source'.run])
    BY <1>1, <2>3, <2>4
  <2>6. Consecutive(source)'
    BY <2>3, <2>5, StreamAssumption DEF Consecutive
  <2>7. QED
    BY <1>1, <1>3, <2>3, <2>6, SourceMoves
<1>5. CASE ~Attached(s)
  <2>1. source' = source
    BY <1>5 DEF Cut
  <2>2. source' # None => Consecutive(source)'
    BY <1>1, <1>2, <2>1 DEF StreamInv, Consecutive
  <2>3. QED
    BY <1>1, <1>3, <2>1, <2>2, SourceMoves DEF StreamInv, StreamTypeOK
<1>6. QED
  BY <1>4, <1>5

LEMMA TickKeeps ==
  ASSUME StreamInv, Tick
  PROVE  StreamInv'
<1>1. ASSUME NEW s \in Stream
      PROVE  /\ stream'[s] \in Connection \cup {None}
             /\ lease'[s] \in 0 .. Lease
             /\ stream'[s] # None =>
                  /\ stream[s] # None
                  /\ stream'[s].run = stream[s].run /\ stream'[s].cursor = stream[s].cursor
                  /\ stream'[s].age <= Lifetime /\ lease'[s] + stream'[s].age >= Lease
  <2>1. lease[s] \in 0 .. Lease /\ lease'[s] = IF lease[s] > 0 THEN lease[s] - 1 ELSE 0
    BY DEF Tick, StreamInv, StreamTypeOK
  <2>2. lease'[s] \in 0 .. Lease
    BY <2>1, StreamAssumption
  <2>3. CASE stream[s] = None
    BY <2>2, <2>3 DEF Tick
  <2>4. CASE stream[s] # None
    <3>1. stream[s] \in Connection /\ stream[s].age < Lifetime
          /\ lease[s] + stream[s].age >= Lease
      BY <2>4 DEF Tick, StreamInv, StreamTypeOK, Leased
    <3>2. stream'[s] = [stream[s] EXCEPT !.age = @ + 1]
      BY <2>4 DEF Tick
    <3>3. stream'[s] \in Connection /\ stream'[s].age = stream[s].age + 1
          /\ stream'[s].run = stream[s].run /\ stream'[s].cursor = stream[s].cursor
      BY <3>1, <3>2 DEF Connection
    <3>4. stream[s].age \in Nat
      BY <3>1 DEF Connection
    <3>5. QED
      BY <2>1, <2>2, <2>4, <3>1, <3>3, <3>4, StreamAssumption
  <2>5. QED
    BY <2>3, <2>4
<1>2. StreamTypeOK'
  <2>1. stream' \in [Stream -> Connection \cup {None}] /\ lease' \in [Stream -> 0 .. Lease]
    BY <1>1 DEF Tick
  <2>2. QED
    BY <2>1 DEF Tick, StreamInv, StreamTypeOK
<1>3. Leased'
  BY <1>1 DEF Leased
<1>4. LeasesWithinLimit'
  <2>1. Leases' \subseteq Leases
    BY DEF Tick, Leases
  <2>2. QED
    BY <2>1, FewerLeases DEF StreamInv
<1>5. source' # None => Consecutive(source)'
  BY <1>1 DEF Tick, StreamInv, Consecutive
<1>6. QED
  BY <1>2, <1>3, <1>4, <1>5 DEF StreamInv

LEMMA StreamStepKeeps ==
  ASSUME StreamInv, StreamStep
  PROVE  StreamInv'
<1>1. ASSUME NEW s \in Stream, Serve(s) PROVE StreamInv'
  BY <1>1, OpenKeeps, SendKeeps, CloseKeeps DEF Serve
<1>2. CASE WorkerStep
  <2>1. StreamTypeOK /\ UNCHANGED <<server, source>>
    BY <1>2 DEF WorkerStep, StreamInv
  <2>2. LogGrows
    BY <1>2, <2>1, TransactionGrows DEF WorkerStep
  <2>3. QED
    BY <2>1, <2>2, LogGrowsKeeps
<1>3. QED
  BY <1>1, <1>2, CutKeeps, RefuseKeeps, ReconnectKeeps DEF StreamStep

-----------------------------------------------------------------------------
(* The stream with a reader of its own *)

LEMMA TakenKeeps ==
  ASSUME StreamInv, source # None, source.inbox # <<>>,
         source' = [run |-> source.run, last |-> Head(source.inbox),
                    on |-> source.on, inbox |-> Tail(source.inbox)],
         UNCHANGED <<run, log, lease, stream, deaths>>
  PROVE  /\ StreamInv'
         /\ Head(source.inbox) = source.last + 1
         /\ Head(source.inbox) <= Len(log[source.run])
<1>1. source \in EventSource /\ Consecutive(source)
  BY DEF StreamInv, StreamTypeOK
<1> DEFINE inbox == source.inbox
<1>2. inbox \in Seq(Nat) /\ source.last \in Nat /\ inbox # <<>> /\ source.run \in Run
  BY <1>1 DEF EventSource
<1>3. Len(inbox) \in Nat \ {0} /\ Head(inbox) = inbox[1] /\ Tail(inbox) \in Seq(Nat)
      /\ Len(Tail(inbox)) = Len(inbox) - 1
      /\ \A n \in 1 .. Len(Tail(inbox)) : Tail(inbox)[n] = inbox[n + 1]
  BY <1>2, HeadTailProperties, EmptySeq
<1>4. \A n \in 1 .. Len(inbox) : inbox[n] = source.last + n
  BY <1>1 DEF Consecutive
<1>5. Head(inbox) = source.last + 1
  BY <1>3, <1>4
<1>6. Len(log[source.run]) \in Nat /\ source.last + Len(inbox) <= Len(log[source.run])
  BY <1>1, <1>2 DEF Consecutive, StreamInv, StreamTypeOK
<1>7. source' \in EventSource
  BY <1>1, <1>2, <1>3, <1>5 DEF EventSource
<1>8. /\ source'.last = source.last + 1 /\ source'.inbox = Tail(inbox)
      /\ source'.run = source.run /\ source'.on = source.on
  BY <1>5
<1>9. \A n \in 1 .. Len(Tail(inbox)) : Tail(inbox)[n] = (source.last + 1) + n
  <2>1. SUFFICES ASSUME NEW n \in 1 .. Len(Tail(inbox))
                 PROVE  Tail(inbox)[n] = (source.last + 1) + n
    OBVIOUS
  <2>2. n + 1 \in 1 .. Len(inbox) /\ n \in Nat
    BY <1>3
  <2>3. Tail(inbox)[n] = inbox[n + 1] /\ inbox[n + 1] = source.last + (n + 1)
    BY <1>3, <1>4, <2>2
  <2>4. source.last + (n + 1) = (source.last + 1) + n
    <3>1. PICK last \in Nat : last = source.last
      BY <1>2
    <3>2. last + (n + 1) = (last + 1) + n
      BY <2>2
    <3>3. QED
      BY <3>1, <3>2
  <2>5. QED
    BY <2>3, <2>4
<1>10. source.on \in Stream
  BY <1>1, <1>2 DEF Consecutive
<1>11. Consecutive(source)'
  <2>1. source'.last + Len(source'.inbox) = source.last + Len(inbox)
    BY <1>2, <1>3, <1>8, SMTT(30)
  <2>2. log' = log /\ stream' = stream
    OBVIOUS
  <2>3. \A s \in Stream : source.on = s /\ stream[s] # None =>
          stream[s].run = source.run /\ stream[s].cursor = source.last + Len(inbox)
    BY <1>1 DEF Consecutive
  <2>4. QED
    BY <1>6, <1>8, <1>9, <1>10, <2>1, <2>2, <2>3 DEF Consecutive
<1>12. StreamsStay
  BY AbandonStays DEF StreamInv
<1>13. QED
  BY <1>2, <1>3, <1>5, <1>6, <1>7, <1>11, <1>12, SourceMoves, SMTT(30) DEF StreamInv, StreamTypeOK

LEMMA ReaderKeeps ==
  ASSUME StreamInv, Users \/ (\E r \in Run : Watch(r)) \/ Leave \/ Take
  PROVE  StreamInv'
<1>1. CASE Users
  <2>1. StreamTypeOK /\ UNCHANGED <<server, source>>
    BY <1>1 DEF Users, StreamInv
  <2>2. LogGrows
    BY <1>1, <2>1, TransactionGrows DEF Users
  <2>3. QED
    BY <2>1, <2>2, LogGrowsKeeps
<1>2. ASSUME NEW r \in Run, Watch(r) PROVE StreamInv'
  <2>1. source' = NewSource(r, 0) /\ UNCHANGED <<run, log, lease, stream, deaths>>
    BY <1>2 DEF Watch, server
  <2>2. Len(log[r]) >= 0
    BY DEF StreamInv, StreamTypeOK
  <2>3. QED
    BY <2>1, <2>2, NewSourceKeeps
<1>3. CASE Leave
  BY <1>3, NewSourceKeeps DEF Leave
<1>4. CASE Take
  <2>1. source \in EventSource /\ source # None /\ source.inbox # <<>>
    BY <1>4 DEF Take, StreamInv, StreamTypeOK
  <2>2. source' = [run |-> source.run, last |-> Head(source.inbox),
                   on |-> source.on, inbox |-> Tail(source.inbox)]
    BY <1>4, <2>1 DEF Take, EventSource
  <2>3. QED
    BY <1>4, <2>1, <2>2, TakenKeeps DEF Take, server
<1>5. QED
  BY <1>1, <1>2, <1>3, <1>4

LEMMA UnchangedKeeps ==
  ASSUME StreamInv, UNCHANGED <<run, log, lease, stream, source, deaths>>
  PROVE  StreamInv'
<1>1. StreamsStay
  BY AbandonStays DEF StreamInv
<1>2. source' # None => Consecutive(source)'
  BY DEF StreamInv, Consecutive
<1>3. QED
  BY <1>1, <1>2, SourceMoves DEF StreamInv, StreamTypeOK

LEMMA StreamInitInv ==
  ASSUME run \in [Run -> Status], log \in [Run -> Seq(EventName)],
         lease = [s \in Stream |-> 0], stream = [s \in Stream |-> None],
         source = None, deaths = 0
  PROVE  StreamInv
<1>1. Leases = {}
  BY DEF Leases
<1>2. Cardinality(Leases) = 0
  BY <1>1, FS_EmptySet
<1>3. QED
  BY <1>2, StreamAssumption
     DEF StreamInv, StreamTypeOK, Leased, LeasesWithinLimit

\* The inductive invariant holds whatever the number of connections, their
\* deaths and the boundaries of the pages.
THEOREM StreamInvariant == StreamSpec => []StreamInv
<1>1. StreamInit => StreamInv
  <2>1. SUFFICES ASSUME StreamInit PROVE StreamInv
    OBVIOUS
  <2>2. run \in [Run -> Status] /\ log \in [Run -> Seq(EventName)]
    BY <2>1 DEF StreamInit, Status
  <2>3. QED
    BY <2>1, <2>2, StreamInitInv DEF StreamInit
<1>2. StreamInv /\ [StreamNext]_streamVars => StreamInv'
  <2>1. SUFFICES ASSUME StreamInv, [StreamNext]_streamVars PROVE StreamInv'
    OBVIOUS
  <2>2. CASE UNCHANGED streamVars
    BY <2>1, <2>2, UnchangedKeeps DEF streamVars
  <2>3. QED
    BY <2>1, <2>2, StreamStepKeeps, TickKeeps, ReaderKeeps DEF StreamNext
<1>3. QED
  BY <1>1, <1>2, PTL DEF StreamSpec

\* A user never has more streams open than the limit: however servers die
\* with leases out, a lease outlives its stream.
THEOREM LimitKept == StreamSpec => []StreamsWithinLimit
<1>1. StreamInv => StreamsWithinLimit
  BY LimitHolds
<1>2. QED
  BY <1>1, StreamInvariant, PTL

\* A stream's record stays one: only its end, or its server's, takes it away.
LEMMA StillOpen ==
  ASSUME StreamTypeOK, NEW s \in Stream, stream[s] # None,
         \/ stream'[s] = stream[s]
         \/ stream'[s] = [stream[s] EXCEPT !.aborted = TRUE]
         \/ stream'[s] = [stream[s] EXCEPT !.age = @ + 1]
         \/ (\E n \in Nat : stream'[s] = [stream[s] EXCEPT !.cursor = n])
  PROVE  stream'[s] # None
<1>1. stream[s] \in Connection
  BY DEF StreamTypeOK
<1>2. CASE stream'[s] = [stream[s] EXCEPT !.aborted = TRUE]
  BY <1>1, <1>2, NoneAssumption DEF Connection
<1>3. CASE stream'[s] = [stream[s] EXCEPT !.age = @ + 1]
  BY <1>1, <1>3, NoneAssumption DEF Connection
<1>4. ASSUME NEW n \in Nat, stream'[s] = [stream[s] EXCEPT !.cursor = n]
      PROVE  stream'[s] # None
  BY <1>1, <1>4, NoneAssumption DEF Connection
<1>5. QED
  BY <1>2, <1>3, <1>4

Drained(s) ==
  LET sent == source'.inbox IN
  (IF sent = <<>> THEN source.last ELSE sent[Len(sent)]) = Len(log[stream[s].run])

LEMMA SendDrains ==
  ASSUME StreamInv, NEW s \in Stream, Send(s), Attached(s), stream'[s] = None
  PROVE  Drained(s)
<1>1. stream[s] # None /\ Enqueue(s) /\ stream[s] \in Connection
  BY DEF Send, StreamInv, StreamTypeOK
<1>2. Page(s) \in Seq(Nat)
  BY <1>1, PageContinues DEF StreamInv
<1>3. Len(Page(s)) < PageSize
  <2>1. CASE Len(Page(s)) < PageSize /\ run[stream[s].run] \in Terminal
    BY <2>1
  <2>2. CASE ~(Len(Page(s)) < PageSize /\ run[stream[s].run] \in Terminal)
    <3>1. stream' = [stream EXCEPT ![s].cursor = @ + Len(Page(s))]
      BY <2>2 DEF Send
    <3>2. stream[s].cursor + Len(Page(s)) \in Nat
      BY <1>1, <1>2 DEF Connection
    <3>3. stream'[s] = [stream[s] EXCEPT !.cursor = stream[s].cursor + Len(Page(s))]
      BY <3>1 DEF StreamInv, StreamTypeOK
    <3>4. stream'[s] # None
      BY <1>1, <3>2, <3>3, StillOpen DEF StreamInv
    <3>5. QED
      BY <3>4
  <2>3. QED
    BY <2>1, <2>2
<1>4. stream[s].cursor + Len(Page(s)) >= Len(log[stream[s].run])
  BY <1>1, <1>3, PageContinues DEF StreamInv
<1>5. /\ source' \in EventSource
      /\ Len(source'.inbox) = Len(source.inbox) + Len(Page(s))
      /\ \A n \in 1 .. Len(source'.inbox) : source'.inbox[n] = source.last + n
      /\ stream[s].run = source.run
      /\ stream[s].cursor = source.last + Len(source.inbox)
      /\ source.last + Len(source'.inbox) <= Len(log[source.run])
  BY <1>1, PageAppended
<1>6. source.last \in Nat /\ Len(source.inbox) \in Nat /\ Len(Page(s)) \in Nat
      /\ source'.inbox \in Seq(Nat) /\ Len(log[source.run]) \in Nat
  BY <1>2, <1>5 DEF StreamInv, StreamTypeOK, EventSource, Attached
<1>7. source.last + Len(source'.inbox) = Len(log[stream[s].run])
  <2>1. PICK last \in Nat, had \in Nat, got \in Nat, all \in Nat :
          /\ last = source.last /\ had = Len(source.inbox)
          /\ got = Len(Page(s)) /\ all = Len(log[source.run])
    BY <1>6
  <2>2. (last + had) + got >= all /\ last + (had + got) <= all
    BY <1>4, <1>5, <2>1
  <2>3. last + (had + got) = all
    BY <2>2
  <2>4. QED
    BY <1>5, <2>1, <2>3
<1>8. CASE source'.inbox = <<>>
  BY <1>6, <1>7, <1>8 DEF Drained
<1>9. CASE source'.inbox # <<>>
  <2>1. Len(source'.inbox) \in 1 .. Len(source'.inbox)
    BY <1>6, <1>9, EmptySeq
  <2>2. QED
    BY <1>5, <1>7, <1>9, <2>1 DEF Drained
<1>10. QED
  BY <1>8, <1>9

\* Whatever the page boundaries and the reconnections, a stream ended for a
\* terminal run has put the whole log before its reader.
THEOREM EndedStreamsDrained == StreamSpec => EndsDrained
<1> DEFINE Ended(s) == stream[s] # None /\ ~Over(s) /\ stream'[s] = None /\ UNCHANGED deaths
<1>1. StreamInv /\ [StreamNext]_streamVars =>
        [\A s \in Stream : Ended(s) => (Attached(s) => Drained(s))]_streamVars
  <2>1. SUFFICES ASSUME StreamInv, StreamNext, NEW s \in Stream, Ended(s), Attached(s)
                 PROVE  Drained(s)
    OBVIOUS
  <2>2. StreamTypeOK /\ stream[s] # None
    BY <2>1 DEF StreamInv
  <2>3. ASSUME NEW t \in Stream, Serve(t) PROVE Drained(s)
    <3>1. CASE t # s
      <4>1. stream'[s] = stream[s]
        BY <2>2, <2>3, <3>1 DEF Serve, Open, Send, Close, End, StreamTypeOK
      <4>2. QED
        BY <2>1, <4>1
    <3>2. CASE t = s
      BY <2>1, <2>3, <3>2, SendDrains DEF Serve, Open, Close
    <3>3. QED
      BY <3>1, <3>2
  <2>4. ASSUME NEW t \in Stream, Cut(t) PROVE FALSE
    BY <2>1, <2>2, <2>4 DEF Cut, StreamTypeOK
  <2>5. CASE Refuse \/ Reconnect \/ WorkerStep \/ Users \/ (\E r \in Run : Watch(r)) \/ Take
    <3>1. stream' = stream
      BY <2>5 DEF Refuse, Reconnect, WorkerStep, Users, Watch, Take, server
    <3>2. QED
      BY <2>1, <3>1
  <2>6. CASE Tick
    <3>1. stream'[s] = [stream[s] EXCEPT !.age = @ + 1]
      BY <2>2, <2>6 DEF Tick
    <3>2. QED
      BY <2>1, <2>2, <3>1, StillOpen
  <2>7. CASE Leave
    <3>1. stream'[s] = stream[s] \/ stream'[s] = [stream[s] EXCEPT !.aborted = TRUE]
      BY <2>7 DEF Leave, Abandon
    <3>2. QED
      BY <2>1, <2>2, <3>1, StillOpen
  <2>8. QED
    BY <2>1, <2>3, <2>4, <2>5, <2>6, <2>7 DEF StreamNext, StreamStep
<1>2. QED
  BY <1>1, StreamInvariant, PTL DEF StreamSpec, EndsDrained, Drained

-----------------------------------------------------------------------------
(* The page over the stream *)

LoadCall ==
  [first : BOOLEAN, step : {"timeline", "run", "answered"},
   replies : SUBSET Run, active : ShownRun \cup {None}]

PageTypeOK ==
  /\ page \in [run : ShownRun \cup {None}, replies : SUBSET Run, seen : [Run -> Nat]]
  /\ loads \in Seq(LoadCall)
  /\ call \in UserCall \cup {None}
  /\ call # None /\ call.op # "delete" => call.run \in Run

\* The browser's last event and the page's are the same: whichever source the
\* page opens goes on where the one before was left.
Handled ==
  /\ \A r \in Run : page.seen[r] <= Len(log[r])
  /\ source # None => source.last = page.seen[source.run]

WorkspaceInv == StreamInv /\ PageTypeOK /\ Handled

SeenKept == page'.seen = page.seen

LEMMA FollowKeeps ==
  ASSUME WorkspaceInv, NEW shown \in ShownRun \cup {None}, Follow(shown),
         UNCHANGED <<run, log, lease, deaths>>, SeenKept
  PROVE  StreamInv' /\ Handled'
<1>1. page.seen \in [Run -> Nat] /\ \A r \in Run : page'.seen[r] <= Len(log'[r])
  BY DEF WorkspaceInv, PageTypeOK, Handled, SeenKept
<1>2. CASE UNCHANGED <<source, stream>>
  <2>1. StreamInv'
    BY <1>2, UnchangedKeeps DEF WorkspaceInv
  <2>2. QED
    BY <1>1, <1>2, <2>1 DEF WorkspaceInv, Handled, SeenKept
<1>3. CASE source' = None /\ stream' = Abandon
  <2>1. StreamInv'
    BY <1>3, NewSourceKeeps DEF WorkspaceInv
  <2>2. QED
    BY <1>1, <1>3, <2>1 DEF Handled
<1>4. CASE StreamOf(shown) # None /\ stream' = Abandon
           /\ source' = NewSource(shown.id, page.seen[shown.id])
  <2>1. shown.id \in Run
    BY <1>4 DEF StreamOf, ShownRun
  <2>2. page.seen[shown.id] \in Nat /\ page.seen[shown.id] <= Len(log[shown.id])
    BY <1>1, <2>1 DEF WorkspaceInv, Handled
  <2>3. StreamInv'
    BY <1>4, <2>1, <2>2, NewSourceKeeps DEF WorkspaceInv
  <2>4. source'.last = page'.seen[source'.run]
    BY <1>4 DEF NewSource, SeenKept
  <2>5. QED
    BY <1>1, <2>3, <2>4 DEF Handled
<1>5. QED
  BY <1>2, <1>3, <1>4 DEF Follow

LEMMA HandledKept ==
  ASSUME WorkspaceInv, SeenKept,
         \A r \in Run : Len(log'[r]) >= Len(log[r]) /\ Len(log'[r]) \in Nat,
         \/ source' = None
         \/ source' = source
         \/ source # None /\ source'.run = source.run /\ source'.last = source.last
  PROVE  Handled'
<1>1. ASSUME NEW r \in Run PROVE page'.seen[r] <= Len(log'[r])
  BY DEF WorkspaceInv, Handled, SeenKept, PageTypeOK, StreamInv, StreamTypeOK
<1>2. source' # None => source'.last = page'.seen[source'.run]
  BY DEF WorkspaceInv, Handled, SeenKept
<1>3. QED
  BY <1>1, <1>2 DEF Handled

\* The servers and the network give the browser events, and never lose its place.
LEMMA StreamStepPlace ==
  ASSUME StreamInv, StreamStep
  PROVE  /\ \/ source' = source
            \/ source # None /\ source'.run = source.run /\ source'.last = source.last
         /\ \A r \in Run : Len(log'[r]) >= Len(log[r]) /\ Len(log'[r]) \in Nat
<1>1. CASE WorkerStep
  <2>1. LogGrows
    BY <1>1, TransactionGrows DEF WorkerStep, StreamInv
  <2>2. QED
    BY <1>1, <2>1 DEF WorkerStep, LogGrows
<1>2. source \in EventSource \cup {None}
  BY DEF StreamInv, StreamTypeOK
<1>3. ASSUME NEW s \in Stream, Serve(s) \/ Cut(s)
      PROVE  /\ \/ source' = source
                \/ source # None /\ source'.run = source.run /\ source'.last = source.last
             /\ log' = log
  <2>1. CASE Open(s)
    BY <1>2, <2>1 DEF Open, EventSource
  <2>2. CASE Close(s)
    BY <2>2 DEF Close
  <2>3. CASE Cut(s)
    BY <1>2, <2>3 DEF Cut, EventSource, Attached
  <2>4. CASE Send(s)
    BY <1>2, <2>4 DEF Send, Enqueue, EventSource, Attached
  <2>5. QED
    BY <1>3, <2>1, <2>2, <2>3, <2>4 DEF Serve
<1>4. CASE Refuse \/ Reconnect
  BY <1>2, <1>4 DEF Refuse, Reconnect, EventSource, StreamInv, StreamTypeOK
<1>5. \A r \in Run : Len(log[r]) \in Nat
  BY DEF StreamInv, StreamTypeOK
<1>6. QED
  BY <1>1, <1>3, <1>4, <1>5 DEF StreamStep

LEMMA StreamStepWorkspace ==
  ASSUME WorkspaceInv, StreamStep, UNCHANGED <<page, loads, call>>
  PROVE  WorkspaceInv' /\ SeenKept
<1>1. StreamInv' /\ SeenKept
  BY StreamStepKeeps DEF WorkspaceInv, SeenKept
<1>2. Handled'
  BY <1>1, StreamStepPlace, HandledKept DEF WorkspaceInv
<1>3. PageTypeOK'
  BY DEF WorkspaceInv, PageTypeOK
<1>4. QED
  BY <1>1, <1>2, <1>3 DEF WorkspaceInv

LEMMA LoadAppends ==
  ASSUME PageTypeOK, Load
  PROVE  loads' \in Seq(LoadCall)
<1>1. Asked(FALSE) \in LoadCall
  BY DEF Asked, LoadCall
<1>2. QED
  BY <1>1, AppendProperties DEF Load, PageTypeOK

LEMMA LoadsShorten ==
  ASSUME PageTypeOK, NEW i \in DOMAIN loads
  PROVE  RemoveAt(loads, i) \in Seq(LoadCall)
<1>1. loads \in Seq(LoadCall) /\ i \in 1 .. Len(loads) /\ Len(loads) \in Nat
  BY DEF PageTypeOK
<1>2. SubSeq(loads, 1, i - 1) \in Seq(LoadCall) /\ SubSeq(loads, i + 1, Len(loads)) \in Seq(LoadCall)
  BY <1>1, SubSeqProperties
<1>3. QED
  BY <1>2, ConcatProperties DEF RemoveAt

\* The event at the head of the source is the one after the last the page
\* handled, so none is dropped or handled twice.
LEMMA NextEvent ==
  ASSUME WorkspaceInv, source # None, source.inbox # <<>>
  PROVE  /\ source.run \in Run
         /\ Head(source.inbox) = page.seen[source.run] + 1
         /\ Head(source.inbox) \in Nat
         /\ Head(source.inbox) <= Len(log[source.run])
         /\ ~Seen
<1>1. source \in EventSource /\ Consecutive(source) /\ source.last = page.seen[source.run]
  BY DEF WorkspaceInv, StreamInv, StreamTypeOK, Handled
<1>2. source.run \in Run /\ source.inbox \in Seq(Nat) /\ page.seen[source.run] \in Nat
  BY <1>1 DEF EventSource, WorkspaceInv, PageTypeOK
<1>3. Len(source.inbox) \in Nat \ {0} /\ Head(source.inbox) = source.inbox[1]
  BY <1>2, EmptySeq
<1>4. Head(source.inbox) = page.seen[source.run] + 1
  BY <1>1, <1>2, <1>3 DEF Consecutive
<1>5. source.last + Len(source.inbox) <= Len(log[source.run]) /\ Len(log[source.run]) \in Nat
  BY <1>1, <1>2 DEF Consecutive, WorkspaceInv, StreamInv, StreamTypeOK
<1>6. page.seen[source.run] + 1 <= Len(log[source.run])
  <2>1. PICK n \in Nat, size \in Nat, all \in Nat :
          /\ n = page.seen[source.run] /\ size = Len(source.inbox)
          /\ all = Len(log[source.run])
    BY <1>2, <1>3, <1>5
  <2>2. n + size <= all /\ size > 0
    BY <1>1, <1>3, <1>5, <2>1
  <2>3. n + 1 <= all
    BY <2>2
  <2>4. QED
    BY <2>1, <2>3
<1>7. QED
  BY <1>2, <1>4, <1>6 DEF Seen

SeenSteps == \A r \in Run : page'.seen[r] \in {page.seen[r], page.seen[r] + 1}

LEMMA HandleEventSteps ==
  ASSUME WorkspaceInv, HandleEvent
  PROVE  WorkspaceInv' /\ SeenSteps
<1> DEFINE n == Head(source.inbox)
           r == source.run
           working == Event \in {"run.started", "run.progress"}
<1>1. /\ source \in EventSource /\ source # None /\ source.inbox # <<>>
      /\ UNCHANGED <<run, log, lease, deaths, call>>
  BY DEF HandleEvent, WorkspaceInv, StreamInv, StreamTypeOK
<1>2. r \in Run /\ n = page.seen[r] + 1 /\ n \in Nat /\ n <= Len(log[r]) /\ ~Seen
  BY <1>1, NextEvent
<1>3. page' = [page EXCEPT
                 !.seen[r] = n,
                 !.run = IF @ # None /\ working THEN [@ EXCEPT !.status = "running"] ELSE @]
  BY <1>2 DEF HandleEvent
<1>4. page \in [run : ShownRun \cup {None}, replies : SUBSET Run, seen : [Run -> Nat]]
  BY DEF WorkspaceInv, PageTypeOK
<1>5. PICK shown \in ShownRun \cup {None} :
        shown = IF page.run # None /\ working THEN [page.run EXCEPT !.status = "running"]
                ELSE page.run
  BY <1>4 DEF ShownRun, Status
<1>6. PICK seen \in [Run -> Nat] : seen = [page.seen EXCEPT ![r] = n]
  BY <1>2, <1>4
<1>7. page' = [run |-> shown, replies |-> page.replies, seen |-> seen]
  BY <1>3, <1>4, <1>5, <1>6
<1>8. PageTypeOK'
  <2>1. page' \in [run : ShownRun \cup {None}, replies : SUBSET Run, seen : [Run -> Nat]]
    BY <1>4, <1>5, <1>6, <1>7
  <2>2. loads' \in Seq(LoadCall)
    BY LoadAppends DEF HandleEvent, WorkspaceInv, PageTypeOK
  <2>3. QED
    BY <1>1, <2>1, <2>2 DEF WorkspaceInv, PageTypeOK
<1>9. page'.seen = seen
  BY <1>7
<1>10. \A q \in Run : page'.seen[q] <= Len(log'[q])
  BY <1>1, <1>2, <1>6, <1>9 DEF WorkspaceInv, Handled
<1>11. SeenSteps
  BY <1>2, <1>4, <1>6, <1>9 DEF SeenSteps
<1>12. CASE Ends
  <2>1. source' = None /\ stream' = Abandon
    BY <1>2, <1>12 DEF HandleEvent
  <2>2. StreamInv'
    BY <1>1, <2>1, NewSourceKeeps DEF WorkspaceInv
  <2>3. QED
    BY <1>8, <1>10, <1>11, <2>1, <2>2 DEF WorkspaceInv, Handled
<1>13. CASE ~Ends
  <2>1. source' = [source EXCEPT !.inbox = Tail(@), !.last = n] /\ UNCHANGED stream
    BY <1>13 DEF HandleEvent
  <2>2. source' = [run |-> source.run, last |-> n, on |-> source.on, inbox |-> Tail(source.inbox)]
    BY <1>1, <2>1 DEF EventSource
  <2>3. StreamInv'
    BY <1>1, <2>1, <2>2, TakenKeeps DEF WorkspaceInv
  <2>4. source'.last = page'.seen[source'.run]
    BY <1>2, <1>4, <1>6, <1>9, <2>2
  <2>5. QED
    BY <1>8, <1>10, <1>11, <2>3, <2>4 DEF WorkspaceInv, Handled
<1>14. QED
  BY <1>12, <1>13

LEMMA ActiveRunShown == ASSUME StreamTypeOK PROVE ActiveRun \in ShownRun \cup {None}
<1>1. CASE Active = {}
  BY <1>1 DEF ActiveRun
<1>2. CASE Active # {}
  <2>1. PICK r \in Active : r = CHOOSE a \in Active : TRUE
    BY <1>2
  <2>2. r \in Run /\ run[r] \in {"queued", "running", "waiting_for_user"}
    BY DEF Active
  <2>3. QED
    BY <1>2, <2>1, <2>2 DEF ActiveRun, ShownRun
<1>3. QED
  BY <1>1, <1>2

\* Steps that leave the stream and the conversation as they are.
LEMMA PageKeeps ==
  ASSUME WorkspaceInv, UNCHANGED streamVars, SeenKept, PageTypeOK'
  PROVE  WorkspaceInv'
<1>1. StreamInv'
  BY UnchangedKeeps DEF WorkspaceInv, streamVars
<1>2. Handled'
  BY HandledKept DEF streamVars, WorkspaceInv, StreamInv, StreamTypeOK
<1>3. QED
  BY <1>1, <1>2 DEF WorkspaceInv

LEMMA LoadSteps ==
  ASSUME WorkspaceInv, NEW i \in DOMAIN loads, Answer(i) \/ LoadFails(i)
  PROVE  WorkspaceInv' /\ SeenKept
<1>1. /\ page \in [run : ShownRun \cup {None}, replies : SUBSET Run, seen : [Run -> Nat]]
      /\ loads \in Seq(LoadCall) /\ loads[i] \in LoadCall
  BY DEF WorkspaceInv, PageTypeOK
<1>2. CASE ReadTimeline(i)
  <2>1. loads' \in Seq(LoadCall)
    <3>1. [loads[i] EXCEPT !.step = "run", !.replies = Replied] \in LoadCall
      BY <1>1 DEF LoadCall, Replied
    <3>2. loads' = [loads EXCEPT ![i] = [loads[i] EXCEPT !.step = "run", !.replies = Replied]]
      BY <1>1, <1>2 DEF ReadTimeline
    <3>3. QED
      BY <1>1, <3>1, <3>2, ExceptSeq
  <2>2. UNCHANGED <<streamVars, page, call>>
    BY <1>2 DEF ReadTimeline
  <2>3. PageTypeOK' /\ SeenKept
    BY <2>1, <2>2 DEF WorkspaceInv, PageTypeOK, SeenKept
  <2>4. QED
    BY <2>2, <2>3, PageKeeps
<1>3. CASE ReadRun(i)
  <2>1. loads' \in Seq(LoadCall)
    <3>1. [loads[i] EXCEPT !.step = "answered", !.active = ActiveRun] \in LoadCall
      BY <1>1, ActiveRunShown DEF LoadCall, WorkspaceInv, StreamInv
    <3>2. loads' = [loads EXCEPT ![i] = [loads[i] EXCEPT !.step = "answered", !.active = ActiveRun]]
      BY <1>1, <1>3 DEF ReadRun
    <3>3. QED
      BY <1>1, <3>1, <3>2, ExceptSeq
  <2>2. UNCHANGED <<streamVars, page, call>>
    BY <1>3 DEF ReadRun
  <2>3. PageTypeOK' /\ SeenKept
    BY <2>1, <2>2 DEF WorkspaceInv, PageTypeOK, SeenKept
  <2>4. QED
    BY <2>2, <2>3, PageKeeps
<1>4. CASE Arrive(i)
  <2>1. loads[i].active \in ShownRun \cup {None} /\ loads[i].replies \in SUBSET Run
    BY <1>1 DEF LoadCall
  <2>2. page' = [page EXCEPT !.run = loads[i].active, !.replies = loads[i].replies]
    BY <1>4 DEF Arrive
  <2>3. SeenKept
        /\ page' \in [run : ShownRun \cup {None}, replies : SUBSET Run, seen : [Run -> Nat]]
    BY <1>1, <2>1, <2>2 DEF SeenKept
  <2>4. loads' \in Seq(LoadCall)
    BY <1>4, LoadsShorten DEF Arrive, WorkspaceInv
  <2>5. PageTypeOK'
    BY <1>4, <2>3, <2>4 DEF Arrive, WorkspaceInv, PageTypeOK
  <2>6. StreamInv' /\ Handled'
    BY <1>4, <2>1, <2>3, FollowKeeps DEF Arrive
  <2>7. QED
    BY <2>3, <2>5, <2>6 DEF WorkspaceInv
<1>5. CASE LoadFails(i)
  <2>1. page' = IF loads[i].first THEN [page EXCEPT !.run = None, !.replies = {}] ELSE page
    BY <1>5 DEF LoadFails
  <2>2. SeenKept
        /\ page' \in [run : ShownRun \cup {None}, replies : SUBSET Run, seen : [Run -> Nat]]
    BY <1>1, <2>1 DEF SeenKept
  <2>3. loads' \in Seq(LoadCall)
    BY <1>5, LoadsShorten DEF LoadFails, WorkspaceInv
  <2>4. PageTypeOK'
    BY <1>5, <2>2, <2>3 DEF LoadFails, WorkspaceInv, PageTypeOK
  <2>5. page'.run \in ShownRun \cup {None} /\ Follow(page'.run)
        /\ UNCHANGED <<run, log, lease, deaths>>
    BY <1>5, <2>2 DEF LoadFails
  <2>6. PICK shown \in ShownRun \cup {None} : shown = page'.run
    BY <2>5
  <2>7. Follow(shown)
    BY <2>5, <2>6
  <2>8. StreamInv' /\ Handled'
    BY <2>2, <2>5, <2>7, FollowKeeps
  <2>9. QED
    BY <2>2, <2>4, <2>8 DEF WorkspaceInv
<1>6. QED
  BY <1>2, <1>3, <1>4, <1>5 DEF Answer

LEMMA ClickSteps ==
  ASSUME WorkspaceInv, Click
  PROVE  WorkspaceInv' /\ SeenKept
<1>1. ASSUME NEW op \in Op, NEW r \in Run \cup {None}, op # "delete" => r \in Run, Ask(op, r)
      PROVE  WorkspaceInv' /\ SeenKept
  <2>1. UNCHANGED <<streamVars, page, loads>>
        /\ call' = [op |-> op, run |-> r, done |-> FALSE]
    BY <1>1 DEF Ask
  <2>2. call' \in UserCall /\ call'.op = op /\ call'.run = r
    BY <1>1, <2>1 DEF UserCall
  <2>3. PageTypeOK' /\ SeenKept
    BY <1>1, <2>1, <2>2 DEF WorkspaceInv, PageTypeOK, SeenKept
  <2>4. QED
    BY <2>1, <2>3, PageKeeps
<1>2. {"send", "answer", "stop", "delete"} \subseteq Op
  BY DEF Op
<1>3. page.run # None => page.run.id \in Run
  BY DEF WorkspaceInv, PageTypeOK, ShownRun
<1>4. ASSUME NEW r \in Run, ClickSend(r) PROVE WorkspaceInv' /\ SeenKept
  BY <1>1, <1>2, <1>4 DEF ClickSend
<1>5. CASE ClickAnswer
  BY <1>1, <1>2, <1>3, <1>5 DEF ClickAnswer
<1>6. CASE ClickStop
  BY <1>1, <1>2, <1>3, <1>6 DEF ClickStop
<1>7. CASE ClickDelete
  BY <1>1, <1>2, <1>7 DEF ClickDelete
<1>8. QED
  BY <1>4, <1>5, <1>6, <1>7 DEF Click

LEMMA CommitSteps ==
  ASSUME WorkspaceInv, NEW op \in Op, Commit(op)
  PROVE  WorkspaceInv' /\ SeenKept
<1>1. call \in UserCall /\ call.op = op /\ (op # "delete" => call.run \in Run)
      /\ call' = [call EXCEPT !.done = TRUE]
      /\ UNCHANGED <<server, source, page, loads>>
  BY DEF Commit, Calling, Idle, WorkspaceInv, PageTypeOK
<1>2. StreamTypeOK /\ \A r \in Run : Len(log[r]) \in Nat
  BY DEF WorkspaceInv, StreamInv, StreamTypeOK
<1>3. LogGrows
  <2>1. CASE op # "delete" /\ (EnqueueMessage(call.run) \/ ResumeRun(call.run) \/ CancelRun(call.run))
    BY <1>1, <1>2, <2>1, TransactionGrows
  <2>2. CASE UNCHANGED <<run, log>>
    BY <1>2, <2>2 DEF LogGrows, StreamTypeOK
  <2>3. CASE CancelByDeletion
    <3>1. run' \in [Run -> Status]
      BY <1>2, <2>3 DEF CancelByDeletion, StreamTypeOK, Status, Terminal
    <3>2. QED
      BY <1>2, <2>3, <3>1 DEF CancelByDeletion, LogGrows, StreamTypeOK
  <2>4. QED
    BY <2>1, <2>2, <2>3 DEF Commit
<1>4. StreamInv'
  BY <1>1, <1>3, LogGrowsKeeps DEF WorkspaceInv
<1>5. SeenKept /\ PageTypeOK'
  <2>1. call' \in UserCall /\ call'.op = call.op /\ call'.run = call.run
    BY <1>1 DEF UserCall
  <2>2. QED
    BY <1>1, <2>1 DEF WorkspaceInv, PageTypeOK, SeenKept
<1>6. Handled'
  <2>1. \A r \in Run : Len(log'[r]) >= Len(log[r]) /\ Len(log'[r]) \in Nat
    BY <1>3 DEF LogGrows
  <2>2. QED
    BY <1>1, <1>5, <2>1, HandledKept
<1>7. QED
  BY <1>4, <1>5, <1>6 DEF WorkspaceInv

LEMMA ReturnSteps ==
  ASSUME WorkspaceInv, Return
  PROVE  WorkspaceInv' /\ SeenKept
<1>1. loads' \in Seq(LoadCall) /\ call' = None
  BY LoadAppends DEF Return, Sent, Answered, Stopped, Deleted, Returned, WorkspaceInv
<1>2. page \in [run : ShownRun \cup {None}, replies : SUBSET Run, seen : [Run -> Nat]]
  BY DEF WorkspaceInv, PageTypeOK
<1>3. CASE Stopped \/ Deleted
  <2>1. UNCHANGED <<streamVars, page>>
    BY <1>3 DEF Stopped, Deleted
  <2>2. PageTypeOK' /\ SeenKept
    BY <1>1, <2>1 DEF WorkspaceInv, PageTypeOK, SeenKept
  <2>3. QED
    BY <2>1, <2>2, PageKeeps
<1>4. CASE Sent \/ Answered
  <2>1. call \in UserCall /\ call.run \in Run
    BY <1>4 DEF Sent, Answered, Calling, Idle, WorkspaceInv, PageTypeOK
  <2>2. PICK shown \in ShownRun : shown = [id |-> call.run, status |-> "queued"]
    BY <2>1 DEF ShownRun, Status
  <2>3. page' = [page EXCEPT !.run = shown] /\ Follow(shown)
        /\ UNCHANGED <<run, log, lease, deaths>>
    BY <1>4, <2>2 DEF Sent, Answered
  <2>4. SeenKept
        /\ page' \in [run : ShownRun \cup {None}, replies : SUBSET Run, seen : [Run -> Nat]]
    BY <1>2, <2>3 DEF SeenKept
  <2>5. StreamInv' /\ Handled'
    BY <2>3, <2>4, FollowKeeps
  <2>6. PageTypeOK'
    BY <1>1, <2>4 DEF PageTypeOK
  <2>7. QED
    BY <2>4, <2>5, <2>6 DEF WorkspaceInv
<1>5. QED
  BY <1>3, <1>4 DEF Return

LEMMA CallEnds ==
  ASSUME WorkspaceInv, NEW op \in Op, CallFails(op) \/ CallRefused(op)
  PROVE  WorkspaceInv' /\ SeenKept
<1>1. UNCHANGED <<streamVars, page, loads>> /\ call' = None
  BY DEF CallFails, CallRefused, Returned
<1>2. PageTypeOK' /\ SeenKept
  BY <1>1 DEF WorkspaceInv, PageTypeOK, SeenKept
<1>3. QED
  BY <1>1, <1>2, PageKeeps

LEMMA NewPageTyped ==
  /\ NewPage \in [run : ShownRun \cup {None}, replies : SUBSET Run, seen : [Run -> Nat]]
  /\ \A r \in Run : NewPage.seen[r] = 0
  /\ <<Asked(TRUE)>> \in Seq(LoadCall)
<1>1. Asked(TRUE) \in LoadCall
  BY DEF Asked, LoadCall
<1>2. <<Asked(TRUE)>> \in Seq(LoadCall)
  <2>1. \A asked \in LoadCall : <<asked>> \in Seq(LoadCall)
    OBVIOUS
  <2>2. QED
    BY <1>1, <2>1
<1>3. [r \in Run |-> 0] \in [Run -> Nat]
  OBVIOUS
<1>4. NewPage \in [run : ShownRun \cup {None}, replies : SUBSET Run, seen : [Run -> Nat]]
  BY <1>3 DEF NewPage
<1>5. \A r \in Run : NewPage.seen[r] = 0
  BY DEF NewPage
<1>6. QED
  BY <1>2, <1>4, <1>5

LEMMA ReloadKeeps ==
  ASSUME WorkspaceInv, Reload
  PROVE  WorkspaceInv'
<1>1. StreamInv'
  BY NewSourceKeeps DEF Reload, WorkspaceInv
<1>2. PageTypeOK'
  BY NewPageTyped DEF Reload, WorkspaceInv, PageTypeOK
<1>3. \A r \in Run : Len(log'[r]) \in Nat
  BY <1>1 DEF StreamInv, StreamTypeOK
<1>4. Handled'
  BY <1>3, NewPageTyped DEF Reload, Handled
<1>5. QED
  BY <1>1, <1>2, <1>4 DEF WorkspaceInv

LEMMA WorkspaceNextSteps ==
  ASSUME WorkspaceInv, WorkspaceNext
  PROVE  WorkspaceInv' /\ (Reload \/ SeenSteps)
<1>1. SeenKept => SeenSteps
  BY DEF SeenKept, SeenSteps
<1>2. CASE StreamStep /\ UNCHANGED <<page, loads, call, ghosts, errors>>
  BY <1>1, <1>2, StreamStepWorkspace
<1>3. ASSUME NEW i \in DOMAIN loads, Answer(i) \/ LoadFails(i)
      PROVE  WorkspaceInv' /\ SeenSteps
  BY <1>1, <1>3, LoadSteps
<1>4. ASSUME NEW op \in Op, Commit(op) \/ CallFails(op) \/ CallRefused(op)
      PROVE  WorkspaceInv' /\ SeenSteps
  BY <1>1, <1>4, CommitSteps, CallEnds
<1>5. CASE HandleEvent
  BY <1>5, HandleEventSteps
<1>6. CASE Return \/ Click
  BY <1>1, <1>6, ReturnSteps, ClickSteps
<1>7. CASE Reload
  BY <1>7, ReloadKeeps
<1>8. QED
  BY <1>2, <1>3, <1>4, <1>5, <1>6, <1>7 DEF WorkspaceNext

LEMMA OpenedInv ==
  ASSUME StreamInv, Opened, source = None
  PROVE  WorkspaceInv
<1>1. PageTypeOK
  BY NewPageTyped DEF Opened, PageTypeOK
<1>2. Handled
  BY NewPageTyped DEF Opened, Handled, StreamInv, StreamTypeOK
<1>3. QED
  BY <1>1, <1>2 DEF WorkspaceInv

LEMMA WorkspaceUnchanged ==
  ASSUME WorkspaceInv, UNCHANGED workspaceVars
  PROVE  WorkspaceInv'
<1>1. UNCHANGED <<streamVars, page, loads, call>>
  BY DEF workspaceVars
<1>2. PageTypeOK' /\ SeenKept
  BY <1>1 DEF WorkspaceInv, PageTypeOK, SeenKept
<1>3. QED
  BY <1>1, <1>2, PageKeeps

\* The stream's invariant holds under the page as well, and the page and its
\* source agree on the last event.
THEOREM WorkspaceInvariant == WorkspaceSpec => []WorkspaceInv
<1>1. WorkspaceInit => WorkspaceInv
  <2>1. SUFFICES ASSUME StreamInit, Opened PROVE WorkspaceInv
    BY DEF WorkspaceInit
  <2>2. run \in [Run -> Status] /\ log \in [Run -> Seq(EventName)]
    BY <2>1 DEF StreamInit, Status
  <2>3. StreamInv /\ source = None
    BY <2>1, <2>2, StreamInitInv DEF StreamInit
  <2>4. QED
    BY <2>1, <2>3, OpenedInv
<1>2. WorkspaceInv /\ [WorkspaceNext]_workspaceVars => WorkspaceInv'
  BY WorkspaceNextSteps, WorkspaceUnchanged
<1>3. QED
  BY <1>1, <1>2, PTL DEF WorkspaceSpec

\* The page handles each event of a run once and in its order, through pages
\* of the log, cut connections, pauses and streams that are opened again.
THEOREM EventsHandledOnce == WorkspaceSpec => EventsOnceInOrder
<1>1. WorkspaceInv /\ [WorkspaceNext]_workspaceVars =>
        [\A r \in Run : Reload \/ page'.seen[r] \in {page.seen[r], page.seen[r] + 1}]_workspaceVars
  BY WorkspaceNextSteps DEF SeenSteps
<1>2. QED
  BY <1>1, WorkspaceInvariant, PTL DEF WorkspaceSpec, EventsOnceInOrder

\* A page that is opened while the run waits starts inside the invariant too.
THEOREM ReopenedInvariant == ReopenedSpec => []WorkspaceInv
<1>1. WaitingInit => WorkspaceInv
  <2>1. SUFFICES ASSUME WaitingInit PROVE WorkspaceInv
    OBVIOUS
  <2>2. <<"run.queued", "run.started", "run.clarification">> \in Seq(EventName)
    BY DEF EventName
  <2>3. run \in [Run -> Status] /\ log \in [Run -> Seq(EventName)]
    BY <2>1, <2>2 DEF WaitingInit, Status
  <2>4. StreamInv /\ source = None /\ Opened
    BY <2>1, <2>3, StreamInitInv DEF WaitingInit
  <2>5. QED
    BY <2>4, OpenedInv
<1>2. WorkspaceInv /\ [WorkspaceNext]_workspaceVars => WorkspaceInv'
  BY WorkspaceNextSteps, WorkspaceUnchanged
<1>3. QED
  BY <1>1, <1>2, PTL DEF ReopenedSpec

-----------------------------------------------------------------------------
(* The page at rest: the invariant *)

Outcomes == {"run.completed", "run.failed", "run.cancelled"}

StreamEnds == Outcomes \cup {"run.clarification"}

OneActive == \A a, b \in Active : a = b

\* A run with an outcome in its log is over.
OutcomesSettle ==
  \A r \in Run : \A n \in DOMAIN log[r] : log[r][n] \in Outcomes => run[r] \in Terminal

\* The page has the stream of the run it shows, or none.
Follows == source # None => StreamOf(page.run) = source.run

Tallies == errors \in Nat /\ overtakes \in Nat

\* What SettledPageIsTrue excepts has not happened.
Undisturbed == errors = 0 /\ overtakes = 0 /\ ~torn /\ ~replayed

Newest == loads[Len(loads)]

\* A run is shown that should be streamed, and its stream was closed.
Detached == source = None /\ StreamOf(page.run) # None

\* Its stream is not needed any more: the run is over or waits, nobody is resuming
\* it, and the newest load will not show it as one that goes on.
DetachedForGood ==
  Undisturbed /\ Detached =>
    /\ loads # <<>>
    /\ Newest.step = "answered" => StreamOf(Newest.active) # StreamOf(page.run)
    /\ run[page.run.id] \in Terminal \cup {"waiting_for_user"}
    /\ run[page.run.id] = "waiting_for_user" => Idle \/ call.op # "answer"

\* What is shown, or will be, is what is so ...
Agrees(shown, replies) ==
  /\ replies = Replied
  /\ (shown = None) = (ActiveRun = None)
  /\ shown # None => shown.id = ActiveRun.id /\ Waits(shown) = Waits(ActiveRun)

\* ... or the stream of the run that is shown has still to bring its question or its
\* outcome, upon which the page loads again.
Behind(shown) ==
  /\ StreamOf(shown) # None
  /\ \E n \in DOMAIN log[shown.id] :
       n > page.seen[shown.id] /\ log[shown.id][n] \in StreamEnds

Sound(shown, replies) == Agrees(shown, replies) \/ Behind(shown)

\* The newest load has the last word on the page, unless a call has yet to return.
LastWord ==
  Undisturbed /\ (Idle \/ ~call.done) =>
    /\ loads = <<>> => Sound(page.run, page.replies)
    /\ loads # <<>> /\ Newest.step = "answered" => Sound(Newest.active, Newest.replies)

ServerInv == OneActive /\ OutcomesSettle

RestInv == Tallies /\ ServerInv /\ Follows /\ DetachedForGood /\ LastWord

-----------------------------------------------------------------------------
(* The page at rest: sequences of loads *)

LEMMA NewestAsked ==
  ASSUME PageTypeOK, Load
  PROVE  loads' # <<>> /\ Newest'.step = "timeline"
<1>1. Asked(FALSE) \in LoadCall /\ Asked(FALSE).step = "timeline"
  BY DEF Asked, LoadCall
<1>2. loads \in Seq(LoadCall) /\ loads' = Append(loads, Asked(FALSE))
  BY DEF PageTypeOK, Load
<1>3. PICK asked \in LoadCall : asked = Asked(FALSE)
  BY <1>1
<1>4. /\ Append(loads, asked) # <<>>
      /\ Len(Append(loads, asked)) = Len(loads) + 1
      /\ Append(loads, asked)[Len(loads) + 1] = asked
  BY <1>2, AppendProperties
<1>5. QED
  BY <1>1, <1>2, <1>3, <1>4 DEF Newest

\* A load that goes on leaves the others.
LEMMA NewestReads ==
  ASSUME PageTypeOK, NEW i \in DOMAIN loads, NEW next \in LoadCall,
         loads' = [loads EXCEPT ![i] = next]
  PROVE  /\ loads # <<>> /\ loads' # <<>>
         /\ Newest' = IF i = Len(loads) THEN next ELSE Newest
<1>1. loads \in Seq(LoadCall) /\ i \in 1 .. Len(loads) /\ Len(loads) \in Nat
  BY DEF PageTypeOK
<1>2. Len(loads') = Len(loads) /\ \A j \in 1 .. Len(loads) :
        loads'[j] = IF j = i THEN next ELSE loads[j]
  BY <1>1, ExceptSeq
<1>3. Len(loads) \in 1 .. Len(loads)
  BY <1>1
<1>4. loads' \in Seq(LoadCall)
  BY <1>1, ExceptSeq
<1>5. loads # <<>> /\ loads' # <<>>
  BY <1>1, <1>2, <1>3, <1>4, EmptySeq
<1>6. QED
  BY <1>2, <1>3, <1>5 DEF Newest

\* The first load arrives: it was the newest, or the newest stays.
LEMMA NewestStays ==
  ASSUME PageTypeOK, 1 \in DOMAIN loads, loads' = RemoveAt(loads, 1)
  PROVE  /\ loads # <<>>
         /\ loads' = <<>> => Newest = loads[1]
         /\ loads' # <<>> => Newest' = Newest
<1>1. loads \in Seq(LoadCall) /\ Len(loads) \in Nat /\ Len(loads) >= 1 /\ loads # <<>>
  BY EmptySeq DEF PageTypeOK
<1>. DEFINE rest == SubSeq(loads, 2, Len(loads))
<1>2. \A n \in 2 .. Len(loads) : loads[n] \in LoadCall
  BY <1>1
<1>3. /\ rest \in Seq(LoadCall)
      /\ Len(rest) = IF 2 <= Len(loads) THEN Len(loads) - 2 + 1 ELSE 0
      /\ \A n \in 1 .. Len(loads) - 2 + 1 : rest[n] = loads[2 + n - 1]
  BY <1>1, <1>2, SubSeqProperties
<1>. HIDE DEF rest
<1>4. loads' = rest
  <2>1. SubSeq(loads, 1, 1 - 1) = <<>>
    BY SubSeqEmpty
  <2>2. loads' = SubSeq(loads, 1, 1 - 1) \o SubSeq(loads, 1 + 1, Len(loads))
    BY DEF RemoveAt
  <2>3. SubSeq(loads, 1 + 1, Len(loads)) = rest
    BY DEF rest
  <2>4. <<>> \o rest = rest
    BY <1>3, ConcatEmptySeq
  <2>5. QED
    BY <2>1, <2>2, <2>3, <2>4
<1>5. CASE Len(loads) = 1
  <2>1. loads' = <<>>
    BY <1>3, <1>4, <1>5, EmptySeq
  <2>2. QED
    BY <1>1, <1>5, <2>1 DEF Newest
<1>6. CASE Len(loads) > 1
  <2>1. Len(loads') = Len(loads) - 1 /\ loads' # <<>>
    BY <1>1, <1>3, <1>4, <1>6, EmptySeq
  <2>2. rest[Len(loads) - 1] = loads[Len(loads)]
    BY <1>1, <1>3, <1>6
  <2>3. Newest' = Newest
    BY <1>4, <2>1, <2>2 DEF Newest
  <2>4. QED
    BY <1>1, <2>1, <2>3
<1>7. QED
  BY <1>1, <1>5, <1>6

-----------------------------------------------------------------------------
(* The page at rest: the conversation *)

\* What was written to a log stays where it is.
LogsExtend ==
  \A r \in Run : \A n \in DOMAIN log[r] : n \in DOMAIN log'[r] /\ log'[r][n] = log[r][n]

\* One transaction on a run that is not over, none but the conversation's active one.
LEMMA SetSettles ==
  ASSUME WorkspaceInv, ServerInv, NEW r \in Run, NEW status \in Status,
         NEW events \in Seq(EventName), Set(r, status, events),
         run[r] \notin Terminal,
         r \in Active \/ Active = {},
         \A n \in DOMAIN events : events[n] \in Outcomes => status \in Terminal
  PROVE  /\ ServerInv'
         /\ LogsExtend
         /\ run' = [run EXCEPT ![r] = status]
         /\ Len(log'[r]) = Len(log[r]) + Len(events)
         /\ \A n \in DOMAIN events : Len(log[r]) + n \in DOMAIN log'[r]
                                     /\ log'[r][Len(log[r]) + n] = events[n]
<1>1. /\ run \in [Run -> Status] /\ log \in [Run -> Seq(EventName)]
      /\ run' = [run EXCEPT ![r] = status] /\ log' = [log EXCEPT ![r] = log[r] \o events]
  BY DEF WorkspaceInv, StreamInv, StreamTypeOK, Set
<1>2. /\ log[r] \in Seq(EventName) /\ Len(log[r]) \in Nat /\ Len(events) \in Nat
      /\ DOMAIN events = 1 .. Len(events) /\ DOMAIN log[r] = 1 .. Len(log[r])
      /\ log'[r] = log[r] \o events
  BY <1>1
<1>3. /\ log'[r] \in Seq(EventName)
      /\ Len(log'[r]) = Len(log[r]) + Len(events)
      /\ DOMAIN log'[r] = 1 .. Len(log[r]) + Len(events)
      /\ \A n \in 1 .. Len(log[r]) + Len(events) :
           log'[r][n] = IF n <= Len(log[r]) THEN log[r][n] ELSE events[n - Len(log[r])]
  BY <1>2, ConcatProperties
<1>4. \A q \in Run : q # r => log'[q] = log[q] /\ run'[q] = run[q]
  BY <1>1
<1>5. LogsExtend
  <2>1. \A n \in DOMAIN log[r] : n \in DOMAIN log'[r] /\ log'[r][n] = log[r][n]
    BY <1>2, <1>3
  <2>2. QED
    BY <1>4, <2>1 DEF LogsExtend
<1>6. OneActive'
  <2>1. run'[r] = status
    BY <1>1
  <2>2. Active' \subseteq Active \cup {r}
    BY <1>4 DEF Active
  <2>3. QED
    BY <2>2 DEF ServerInv, OneActive
<1>7. OutcomesSettle'
  <2>1. ASSUME NEW q \in Run, NEW n \in DOMAIN log'[q], log'[q][n] \in Outcomes
        PROVE  run'[q] \in Terminal
    <3>1. CASE q # r
      BY <1>4, <2>1, <3>1 DEF ServerInv, OutcomesSettle
    <3>2. CASE q = r /\ n <= Len(log[r])
      <4>1. n \in DOMAIN log'[r] /\ log'[r][n] \in Outcomes
        BY <2>1, <3>2
      <4>2. n \in DOMAIN log[r] /\ log[r][n] \in Outcomes
        BY <1>2, <1>3, <3>2, <4>1
      <4>3. QED
        BY <4>2 DEF ServerInv, OutcomesSettle
    <3>3. CASE q = r /\ ~(n <= Len(log[r]))
      <4>1. n - Len(log[r]) \in DOMAIN events /\ events[n - Len(log[r])] \in Outcomes
        BY <1>2, <1>3, <2>1, <3>3
      <4>2. PICK m \in DOMAIN events : events[m] \in Outcomes
        BY <4>1
      <4>3. status \in Terminal /\ run'[r] = status
        BY <1>1, <4>2
      <4>4. QED
        BY <3>3, <4>3
    <3>4. QED
      BY <3>1, <3>2, <3>3
  <2>2. QED
    BY <2>1 DEF OutcomesSettle
<1>8. ASSUME NEW n \in DOMAIN events
      PROVE  Len(log[r]) + n \in DOMAIN log'[r] /\ log'[r][Len(log[r]) + n] = events[n]
  BY <1>2, <1>3
<1>9. QED
  BY <1>1, <1>3, <1>5, <1>6, <1>7, <1>8 DEF ServerInv

\* The same for one event.
LEMMA EventSettles ==
  ASSUME WorkspaceInv, ServerInv, NEW r \in Run, NEW status \in Status,
         NEW event \in EventName, Set(r, status, <<event>>),
         run[r] \notin Terminal,
         r \in Active \/ Active = {},
         event \in Outcomes => status \in Terminal
  PROVE  /\ ServerInv'
         /\ LogsExtend
         /\ run' = [run EXCEPT ![r] = status]
         /\ Len(log[r]) + 1 \in DOMAIN log'[r]
         /\ log'[r][Len(log[r]) + 1] = event
<1>1. /\ \A e \in EventName : <<e>> \in Seq(EventName)
      /\ \A e \in EventName : \A n \in DOMAIN <<e>> : <<e>>[n] = e
      /\ \A e \in EventName : 1 \in DOMAIN <<e>> /\ <<e>>[1] = e
  OBVIOUS
<1>2. PICK events \in Seq(EventName) :
        /\ events = <<event>>
        /\ \A n \in DOMAIN events : events[n] = event
        /\ 1 \in DOMAIN events /\ events[1] = event
  BY <1>1
<1>3. Set(r, status, events) /\ \A n \in DOMAIN events : events[n] \in Outcomes => status \in Terminal
  BY <1>2
<1>4. QED
  BY <1>2, <1>3, SetSettles

\* A worker's step concerns a run that works, and takes it to the end of its stream
\* or leaves it active and not waiting.
WorkedOn(r, status) ==
  /\ run[r] \in {"queued", "running"}
  /\ run' = [run EXCEPT ![r] = status]
  /\ \/ status = "running"
     \/ /\ status \in Terminal \cup {"waiting_for_user"}
        /\ \E n \in DOMAIN log'[r] : n > Len(log[r]) /\ log'[r][n] \in StreamEnds

LEMMA WorkerStepSettles ==
  ASSUME WorkspaceInv, ServerInv, WorkerStep
  PROVE  /\ ServerInv'
         /\ LogsExtend
         /\ \E r \in Run, status \in Status : WorkedOn(r, status)
<1>1. \A r \in Run : Len(log[r]) \in Nat
  BY DEF WorkspaceInv, StreamInv, StreamTypeOK
<1>2. \A r \in Run : run[r] \in {"queued", "running"} => r \in Active /\ run[r] \notin Terminal
  BY DEF Active, Terminal
<1>3. ASSUME NEW r \in Run, NEW status \in Status, NEW event \in EventName,
             run[r] \in {"queued", "running"}, Set(r, status, <<event>>),
             event \in Outcomes => status \in Terminal,
             \/ status = "running"
             \/ status \in Terminal \cup {"waiting_for_user"} /\ event \in StreamEnds
      PROVE  ServerInv' /\ LogsExtend /\ WorkedOn(r, status)
  <2>1. /\ ServerInv' /\ LogsExtend /\ run' = [run EXCEPT ![r] = status]
        /\ Len(log[r]) + 1 \in DOMAIN log'[r] /\ log'[r][Len(log[r]) + 1] = event
    BY <1>2, <1>3, EventSettles
  <2>2. event \in StreamEnds =>
          \E n \in DOMAIN log'[r] : n > Len(log[r]) /\ log'[r][n] \in StreamEnds
    BY <1>1, <2>1
  <2>3. QED
    BY <1>3, <2>1, <2>2 DEF WorkedOn
<1>4. PICK r \in Run : \/ ClaimRun(r) \/ RecordProgress(r) \/ PauseRun(r)
                       \/ CompleteRun(r) \/ FailRun(r)
  BY DEF WorkerStep
<1>5. CASE ClaimRun(r)
  <2>1. /\ Set(r, "running", <<"run.started">>) /\ run[r] \in {"queued", "running"}
        /\ "running" \in Status /\ "run.started" \in EventName \ Outcomes
    BY <1>5 DEF ClaimRun, Status, EventName, Outcomes
  <2>2. QED
    BY <1>3, <2>1
<1>6. CASE RecordProgress(r)
  <2>1. /\ Set(r, "running", <<"run.progress">>) /\ run[r] \in {"queued", "running"}
        /\ "running" \in Status /\ "run.progress" \in EventName \ Outcomes
    BY <1>6 DEF RecordProgress, Status, EventName, Outcomes
  <2>2. QED
    BY <1>3, <2>1
<1>7. CASE PauseRun(r)
  <2>1. /\ Set(r, "waiting_for_user", <<"run.clarification">>)
        /\ run[r] \in {"queued", "running"}
        /\ "waiting_for_user" \in Status
        /\ "run.clarification" \in EventName \ Outcomes /\ "run.clarification" \in StreamEnds
    BY <1>7 DEF PauseRun, Status, EventName, Outcomes, StreamEnds
  <2>2. QED
    BY <1>3, <2>1
<1>8. CASE FailRun(r)
  <2>1. /\ Set(r, "failed", <<"run.failed">>) /\ run[r] \in {"queued", "running"}
        /\ "failed" \in Status /\ "failed" \in Terminal
        /\ "run.failed" \in EventName /\ "run.failed" \in StreamEnds
    BY <1>8 DEF FailRun, Status, Terminal, EventName, Outcomes, StreamEnds
  <2>2. QED
    BY <1>3, <2>1
<1>9. CASE CompleteRun(r)
  <2>. DEFINE events == <<"assistant.delta", "run.completed">>
  <2>1. /\ Set(r, "completed", events) /\ run[r] \in {"queued", "running"}
        /\ "completed" \in Status /\ "completed" \in Terminal
    BY <1>9 DEF CompleteRun, Status, Terminal
  <2>2. "assistant.delta" \in EventName /\ "run.completed" \in EventName
    BY DEF EventName
  <2>3. events \in Seq(EventName) /\ 2 \in DOMAIN events /\ events[2] = "run.completed"
    BY <2>2
  <2>4. "run.completed" \in StreamEnds
    BY DEF StreamEnds, Outcomes
  <2>. HIDE DEF events
  <2>5. \A n \in DOMAIN events : events[n] \in Outcomes => "completed" \in Terminal
    BY <2>1
  <2>6. /\ ServerInv' /\ LogsExtend /\ run' = [run EXCEPT ![r] = "completed"]
        /\ Len(log[r]) + 2 \in DOMAIN log'[r]
        /\ log'[r][Len(log[r]) + 2] = "run.completed"
    BY <1>2, <2>1, <2>3, <2>5, SetSettles
  <2>7. \E n \in DOMAIN log'[r] : n > Len(log[r]) /\ log'[r][n] \in StreamEnds
    BY <1>1, <2>4, <2>6
  <2>8. QED
    BY <2>1, <2>6, <2>7 DEF WorkedOn
<1>10. QED
  BY <1>4, <1>5, <1>6, <1>7, <1>8, <1>9

\* The user's transactions keep the runs in order as well, and what is over stays
\* over; only an answer moves a run that waits on.
LEMMA CommitSettles ==
  ASSUME WorkspaceInv, ServerInv, NEW op \in Op, Commit(op)
  PROVE  /\ ServerInv'
         /\ \A r \in Run :
              run[r] \in Terminal \cup {"waiting_for_user"} =>
                \/ run'[r] \in Terminal
                \/ run'[r] = run[r]
                \/ run[r] = "waiting_for_user" /\ op = "answer"
<1>1. run \in [Run -> Status]
  BY DEF WorkspaceInv, StreamInv, StreamTypeOK
<1>2. op # "delete" => call.run \in Run
  BY DEF Commit, Calling, Idle, WorkspaceInv, PageTypeOK
<1>3. CASE op = "send" /\ EnqueueMessage(call.run)
  <2>1. /\ Set(call.run, "queued", <<"run.queued">>) /\ run[call.run] = "none" /\ Active = {}
        /\ "queued" \in Status /\ "run.queued" \in EventName \ Outcomes
        /\ "none" \notin Terminal
    BY <1>3 DEF EnqueueMessage, Status, EventName, Outcomes, Terminal
  <2>2. ServerInv' /\ run' = [run EXCEPT ![call.run] = "queued"]
    BY <1>2, <1>3, <2>1, EventSettles
  <2>3. QED
    BY <1>1, <1>2, <1>3, <2>1, <2>2
<1>4. CASE op = "answer" /\ ResumeRun(call.run)
  <2>1. /\ Set(call.run, "queued", <<"run.resumed">>) /\ run[call.run] = "waiting_for_user"
        /\ "queued" \in Status /\ "run.resumed" \in EventName \ Outcomes
        /\ "waiting_for_user" \notin Terminal
    BY <1>4 DEF ResumeRun, Status, EventName, Outcomes, Terminal
  <2>2. call.run \in Active
    BY <1>2, <1>4, <2>1 DEF Active
  <2>3. ServerInv' /\ run' = [run EXCEPT ![call.run] = "queued"]
    BY <1>2, <1>4, <2>1, <2>2, EventSettles
  <2>4. QED
    BY <1>1, <1>2, <1>4, <2>1, <2>3
<1>5. CASE op = "stop" /\ CancelRun(call.run)
  <2>1. /\ Set(call.run, "cancelled", <<"run.cancelled">>) /\ call.run \in Active
        /\ "cancelled" \in Status /\ "cancelled" \in Terminal
        /\ "run.cancelled" \in EventName
    BY <1>5 DEF CancelRun, Status, EventName, Terminal
  <2>2. run[call.run] \notin Terminal
    BY <2>1 DEF Active, Terminal
  <2>3. ServerInv' /\ run' = [run EXCEPT ![call.run] = "cancelled"]
    BY <1>2, <1>5, <2>1, <2>2, EventSettles
  <2>4. QED
    BY <1>1, <1>2, <1>5, <2>1, <2>3
<1>6. CASE UNCHANGED <<run, log>>
  <2>1. ServerInv'
    BY <1>6 DEF ServerInv, OneActive, Active, OutcomesSettle
  <2>2. QED
    BY <1>6, <2>1
<1>7. CASE CancelByDeletion
  <2>1. \A r \in Run : run'[r] = run[r] \/ run'[r] = "cancelled"
    BY <1>7 DEF CancelByDeletion
  <2>2. Active' = {}
    BY <1>7 DEF CancelByDeletion, Active
  <2>3. OutcomesSettle'
    BY <1>7, <2>1 DEF CancelByDeletion, ServerInv, OutcomesSettle, Terminal
  <2>4. QED
    BY <2>1, <2>2, <2>3 DEF ServerInv, OneActive, Terminal
<1>8. QED
  BY <1>3, <1>4, <1>5, <1>6, <1>7 DEF Commit

-----------------------------------------------------------------------------
(* The page at rest: what is shown and its stream *)

LEMMA ShownStream ==
  ASSUME NEW shown \in ShownRun \cup {None}
  PROVE  /\ shown \in ShownRun <=> shown # None
         /\ StreamOf(shown) # None => /\ shown # None /\ ~Waits(shown)
                                      /\ StreamOf(shown) = shown.id
                                      /\ StreamOf(shown) \in Run
         /\ shown # None /\ ~Waits(shown) => StreamOf(shown) # None
  BY NothingShown DEF StreamOf, Waits, ShownRun

LEMMA ShownTypes ==
  ASSUME WorkspaceInv
  PROVE  /\ page.run \in ShownRun \cup {None}
         /\ ActiveRun \in ShownRun \cup {None}
         /\ loads # <<>> => Newest \in LoadCall /\ Newest.active \in ShownRun \cup {None}
<1>1. page.run \in ShownRun \cup {None} /\ loads \in Seq(LoadCall)
  BY DEF WorkspaceInv, PageTypeOK
<1>2. ActiveRun \in ShownRun \cup {None}
  BY ActiveRunShown DEF WorkspaceInv, StreamInv
<1>3. loads # <<>> => Newest \in LoadCall
  <2>1. loads # <<>> => Len(loads) \in 1 .. Len(loads)
    BY <1>1, EmptySeq
  <2>2. QED
    BY <1>1, <2>1 DEF Newest
<1>4. QED
  BY <1>1, <1>2, <1>3 DEF LoadCall

\* A page that follows what it shows keeps the stream it has, or leaves none behind
\* that it needs.
LEMMA FollowFollows ==
  ASSUME WorkspaceInv, Follows, NEW shown \in ShownRun \cup {None}, Follow(shown),
         page'.run = shown
  PROVE  /\ Follows'
         /\ Detached' => /\ Detached
                         /\ StreamOf(shown) = StreamOf(page.run)
                         /\ shown.id = page.run.id
<1>1. page.run \in ShownRun \cup {None}
  BY DEF WorkspaceInv, PageTypeOK
<1>2. CASE StreamOf(shown) = StreamOf(page.run) /\ source' = source
  <2>1. StreamOf(shown) # None => shown.id = page.run.id
    BY <1>1, <1>2, ShownStream
  <2>2. QED
    BY <1>2, <2>1 DEF Follows, Detached
<1>3. CASE StreamOf(shown) = None /\ source' = None
  BY <1>3 DEF Follows, Detached
<1>4. CASE StreamOf(shown) # None /\ source' = NewSource(shown.id, page.seen[shown.id])
  <2>1. StreamOf(shown) = shown.id /\ shown.id \in Run
    BY <1>4, ShownStream
  <2>2. page.seen[shown.id] \in Nat
    BY <2>1 DEF WorkspaceInv, PageTypeOK
  <2>3. source' \in EventSource /\ source'.run = shown.id
    BY <1>4, <2>1, <2>2 DEF NewSource, EventSource
  <2>4. source' # None
    BY <2>3, NoneAssumption
  <2>5. QED
    BY <2>1, <2>3, <2>4 DEF Follows, Detached
<1>5. QED
  BY <1>2, <1>3, <1>4 DEF Follow

\* While the conversation stays and no event is handled, what was sound is sound.
LEMMA SoundStays ==
  ASSUME UNCHANGED <<run, log>>, SeenKept
  PROVE  /\ \A shown, replies : Sound(shown, replies) => Sound(shown, replies)'
         /\ ServerInv => ServerInv'
         /\ Replied' = Replied /\ Active' = Active /\ ActiveRun' = ActiveRun
<1>1. Replied' = Replied /\ Active' = Active
  BY DEF Replied, Active
<1>2. ActiveRun' = ActiveRun
  BY <1>1 DEF ActiveRun
<1>3. ASSUME NEW shown, NEW replies, Sound(shown, replies)
      PROVE  Sound(shown, replies)'
  BY <1>1, <1>2, <1>3 DEF Sound, Agrees, Behind, SeenKept
<1>4. ServerInv => ServerInv'
  BY <1>1 DEF ServerInv, OneActive, OutcomesSettle
<1>5. QED
  BY <1>1, <1>2, <1>3, <1>4

\* The last word, as something that is shown.
LEMMA LastWordNow ==
  ASSUME LastWord, Undisturbed, Idle \/ ~call.done, loads = <<>> \/ Newest.step = "answered"
  PROVE  \E shown, replies :
           /\ Sound(shown, replies)
           /\ IF loads = <<>> THEN page.run = shown /\ page.replies = replies
                              ELSE Newest.active = shown /\ Newest.replies = replies
<1>1. CASE loads = <<>>
  BY <1>1 DEF LastWord
<1>2. CASE loads # <<>>
  BY <1>2 DEF LastWord
<1>3. QED
  BY <1>1, <1>2

LEMMA LastWordNext ==
  ASSUME /\ Undisturbed'
         /\ Idle' \/ ~call'.done
         /\ loads' = <<>> \/ Newest'.step = "answered"
         => \E shown, replies :
              /\ Sound(shown, replies)'
              /\ IF loads' = <<>> THEN page'.run = shown /\ page'.replies = replies
                                  ELSE Newest'.active = shown /\ Newest'.replies = replies
  PROVE  LastWord'
<1>1. CASE loads' = <<>>
  BY <1>1 DEF LastWord, Sound, Agrees, Behind
<1>2. CASE loads' # <<>>
  BY <1>2 DEF LastWord, Sound, Agrees, Behind
<1>3. QED
  BY <1>1, <1>2

\* What is not undisturbed owes nothing.
LEMMA Disturbed ==
  ASSUME Tallies', ServerInv', Follows', ~Undisturbed'
  PROVE  RestInv'
  BY DEF RestInv, DetachedForGood, LastWord

\* Steps of the servers and of the network.
LEMMA StillAtRest ==
  ASSUME WorkspaceInv, RestInv,
         UNCHANGED <<run, log, page, loads, call, ghosts, errors>>,
         source' = None <=> source = None,
         source' # None => source'.run = source.run
  PROVE  RestInv'
<1>. USE DEF RestInv
<1>1. Tallies' /\ (Undisturbed' <=> Undisturbed)
  BY DEF Tallies, Undisturbed, ghosts
<1>2. ServerInv' /\ \A shown, replies : Sound(shown, replies) => Sound(shown, replies)'
  BY SoundStays DEF SeenKept
<1>3. Follows' /\ (Detached' <=> Detached)
  BY DEF Follows, Detached
<1>4. DetachedForGood'
  BY <1>1, <1>3 DEF DetachedForGood, Newest, Idle
<1>5. LastWord'
  <2>1. SUFFICES ASSUME Undisturbed', Idle' \/ ~call'.done,
                        loads' = <<>> \/ Newest'.step = "answered"
                 PROVE  \E shown, replies :
                          /\ Sound(shown, replies)'
                          /\ IF loads' = <<>> THEN page'.run = shown /\ page'.replies = replies
                             ELSE Newest'.active = shown /\ Newest'.replies = replies
    BY LastWordNext
  <2>2. Newest' = Newest
    BY DEF Newest
  <2>3. Undisturbed /\ (Idle \/ ~call.done) /\ (loads = <<>> \/ Newest.step = "answered")
    BY <1>1, <2>1, <2>2 DEF Idle
  <2>4. PICK shown, replies :
          /\ Sound(shown, replies)
          /\ IF loads = <<>> THEN page.run = shown /\ page.replies = replies
                             ELSE Newest.active = shown /\ Newest.replies = replies
    BY <2>3, LastWordNow
  <2>5. Sound(shown, replies)'
    BY <1>2, <2>4
  <2>6. QED
    BY <2>2, <2>4, <2>5
<1>6. QED
  BY <1>1, <1>2, <1>3, <1>4, <1>5

-----------------------------------------------------------------------------
(* The page at rest: the steps *)

\* What the worker does is shown as it is, or its event is still to come.
LEMMA SoundAfterWork ==
  ASSUME WorkspaceInv, ServerInv, WorkerStep, SeenKept,
         NEW shown \in ShownRun \cup {None}, NEW replies, Sound(shown, replies)
  PROVE  Sound(shown, replies)'
<1>1. LogsExtend /\ \E q \in Run, s \in Status : WorkedOn(q, s)
  BY WorkerStepSettles
<1>2. PICK r \in Run, status \in Status : WorkedOn(r, status)
  BY <1>1
<1>3. /\ run \in [Run -> Status] /\ run[r] \in {"queued", "running"}
      /\ run' = [run EXCEPT ![r] = status]
  BY <1>2 DEF WorkedOn, WorkspaceInv, StreamInv, StreamTypeOK
<1>4. CASE Behind(shown)
  <2>1. shown.id \in Run
    BY <1>4, ShownStream DEF Behind
  <2>2. QED
    BY <1>1, <1>4, <2>1 DEF Behind, LogsExtend, SeenKept, Sound
<1>5. CASE Agrees(shown, replies)
  <2>1. r \in Active /\ (CHOOSE a \in Active : TRUE) = r
    <3>1. r \in Active
      BY <1>3 DEF Active
    <3>2. (CHOOSE a \in Active : TRUE) \in Active
      BY <3>1
    <3>3. QED
      BY <3>1, <3>2 DEF ServerInv, OneActive
  <2>2. ActiveRun = [id |-> r, status |-> run[r]]
    BY <2>1 DEF ActiveRun
  <2>3. ActiveRun # None /\ ActiveRun.id = r /\ ~Waits(ActiveRun)
    <3>1. ActiveRun \in ShownRun
      BY <1>3, <2>2 DEF ShownRun
    <3>2. QED
      BY <1>3, <2>2, <3>1, NothingShown DEF Waits
  <2>4. shown # None /\ shown.id = r /\ ~Waits(shown)
    BY <1>5, <2>3 DEF Agrees
  <2>5. CASE status = "running"
    <3>1. Active' = Active /\ Replied' = Replied
      BY <1>3, <2>5 DEF Active, Replied
    <3>2. ActiveRun' = [id |-> r, status |-> "running"]
      BY <1>3, <2>1, <2>5, <3>1 DEF ActiveRun
    <3>3. ActiveRun' # None /\ ActiveRun'.id = r /\ ~Waits(ActiveRun')
      <4>1. [id |-> r, status |-> "running"] \in ShownRun
        BY DEF ShownRun
      <4>2. QED
        BY <3>2, <4>1, NothingShown DEF Waits
    <3>4. replies = Replied'
      BY <1>5, <3>1 DEF Agrees
    <3>5. QED
      BY <2>4, <3>3, <3>4 DEF Sound, Agrees, Waits
  <2>6. CASE \E n \in DOMAIN log'[r] : n > Len(log[r]) /\ log'[r][n] \in StreamEnds
    <3>1. PICK n \in DOMAIN log'[r] : n > Len(log[r]) /\ log'[r][n] \in StreamEnds
      BY <2>6
    <3>2. /\ page.seen[r] \in Nat /\ Len(log[r]) \in Nat /\ page.seen[r] <= Len(log[r])
      BY DEF WorkspaceInv, PageTypeOK, Handled, StreamInv, StreamTypeOK
    <3>3. n \in Nat
      <4>1. StreamInv'
        <5>1. LogGrows
          BY TransactionGrows DEF WorkerStep, WorkspaceInv, StreamInv
        <5>2. QED
          BY <5>1, LogGrowsKeeps DEF WorkerStep, WorkspaceInv
      <4>2. log'[r] \in Seq(EventName)
        BY <4>1 DEF StreamInv, StreamTypeOK
      <4>3. QED
        BY <4>2
    <3>4. n > page'.seen[r]
      BY <3>1, <3>2, <3>3 DEF SeenKept
    <3>5. StreamOf(shown) # None
      BY <2>4, ShownStream
    <3>6. QED
      BY <2>4, <3>1, <3>4, <3>5 DEF Sound, Behind
  <2>7. QED
    BY <1>2, <2>5, <2>6 DEF WorkedOn
<1>6. QED
  BY <1>4, <1>5 DEF Sound

LEMMA WorkerStepAtRest ==
  ASSUME WorkspaceInv, RestInv, WorkerStep, UNCHANGED <<page, loads, call, ghosts, errors>>
  PROVE  RestInv'
<1>. USE DEF RestInv
<1>1. ServerInv' /\ source' = source
  BY WorkerStepSettles DEF WorkerStep
<1>2. Tallies' /\ (Undisturbed' <=> Undisturbed) /\ Follows' /\ (Detached' <=> Detached)
      /\ Newest' = Newest /\ SeenKept
  BY <1>1 DEF Tallies, Undisturbed, ghosts, Follows, Detached, Newest, SeenKept
<1>3. DetachedForGood'
  <2>1. SUFFICES ASSUME Undisturbed, Detached PROVE run'[page.run.id] = run[page.run.id]
    BY <1>2 DEF DetachedForGood, Idle
  <2>2. page.run.id \in Run
    BY <2>1, ShownTypes, ShownStream DEF Detached
  <2>3. run[page.run.id] \in Terminal \cup {"waiting_for_user"}
    BY <2>1 DEF DetachedForGood
  <2>4. PICK r \in Run, status \in Status :
          run[r] \in {"queued", "running"} /\ run' = [run EXCEPT ![r] = status]
    BY WorkerStepSettles DEF WorkedOn
  <2>5. page.run.id # r
    BY <2>3, <2>4 DEF Terminal
  <2>6. QED
    BY <2>2, <2>4, <2>5 DEF WorkspaceInv, StreamInv, StreamTypeOK
<1>4. LastWord'
  <2>1. SUFFICES ASSUME Undisturbed', Idle' \/ ~call'.done,
                        loads' = <<>> \/ Newest'.step = "answered"
                 PROVE  \E shown, replies :
                          /\ Sound(shown, replies)'
                          /\ IF loads' = <<>> THEN page'.run = shown /\ page'.replies = replies
                             ELSE Newest'.active = shown /\ Newest'.replies = replies
    BY LastWordNext
  <2>2. PICK shown, replies :
          /\ Sound(shown, replies)
          /\ IF loads = <<>> THEN page.run = shown /\ page.replies = replies
                             ELSE Newest.active = shown /\ Newest.replies = replies
    BY <1>2, <2>1, LastWordNow DEF Idle
  <2>3. shown \in ShownRun \cup {None}
    BY <2>2, ShownTypes
  <2>4. Sound(shown, replies)'
    BY <1>2, <2>2, <2>3, SoundAfterWork
  <2>5. QED
    BY <1>2, <2>2, <2>4
<1>5. QED
  BY <1>1, <1>2, <1>3, <1>4

LEMMA StreamStepAtRest ==
  ASSUME WorkspaceInv, RestInv, StreamStep, UNCHANGED <<page, loads, call, ghosts, errors>>
  PROVE  RestInv'
<1>1. source \in EventSource \cup {None}
  BY DEF WorkspaceInv, StreamInv, StreamTypeOK
<1>2. CASE WorkerStep
  BY <1>2, WorkerStepAtRest
<1>3. ASSUME UNCHANGED <<run, log>>,
             \/ source' = source
             \/ source # None /\ source' \in EventSource /\ source'.run = source.run
      PROVE  RestInv'
  BY <1>3, StillAtRest, NoneAssumption
<1>4. ASSUME NEW s \in Stream, Serve(s) \/ Cut(s) PROVE RestInv'
  <2>1. UNCHANGED <<run, log>>
    BY <1>4 DEF Serve, Open, Send, Close, Cut
  <2>2. CASE Open(s)
    BY <1>1, <1>3, <2>1, <2>2 DEF Open, EventSource
  <2>3. CASE Close(s)
    BY <1>3, <2>1, <2>3 DEF Close
  <2>4. CASE Send(s)
    <3>1. stream[s] # None /\ Enqueue(s)
      BY <2>4 DEF Send
    <3>2. CASE Attached(s)
      <4>1. source' \in EventSource /\ source'.run = source.run /\ source # None
        BY <3>1, <3>2, PageAppended DEF Attached, WorkspaceInv
      <4>2. QED
        BY <1>3, <2>1, <4>1
    <3>3. CASE ~Attached(s)
      BY <1>3, <2>1, <3>1, <3>3 DEF Enqueue
    <3>4. QED
      BY <3>2, <3>3
  <2>5. CASE Cut(s)
    <3>1. <<>> \in Seq(Nat)
      OBVIOUS
    <3>2. QED
      BY <1>1, <1>3, <2>1, <2>5, <3>1 DEF Cut, Attached, EventSource
  <2>6. QED
    BY <1>4, <2>2, <2>3, <2>4, <2>5 DEF Serve
<1>5. CASE Refuse \/ Reconnect
  BY <1>1, <1>3, <1>5 DEF Refuse, Reconnect, EventSource
<1>6. QED
  BY <1>2, <1>4, <1>5 DEF StreamStep

\* An event that does not end the stream leaves what is shown, but for its working.
LEMMA SoundAfterEvent ==
  ASSUME WorkspaceInv, HandleEvent, ~Ends,
         NEW shown \in ShownRun \cup {None}, NEW replies, Sound(shown, replies),
         NEW next \in ShownRun \cup {None},
         \/ next = shown
         \/ /\ shown # None /\ next # None /\ next.id = shown.id
            /\ ~Waits(shown) /\ ~Waits(next)
  PROVE  Sound(next, replies)'
<1>. DEFINE r == source.run
            n == Head(source.inbox)
<1>1. source # None /\ source.inbox # <<>> /\ UNCHANGED <<run, log>>
  BY DEF HandleEvent
<1>2. r \in Run /\ n = page.seen[r] + 1 /\ n \in Nat /\ ~Seen
  BY <1>1, NextEvent
<1>3. /\ page'.seen = [page.seen EXCEPT ![r] = n]
      /\ page.seen \in [Run -> Nat]
  BY <1>2 DEF HandleEvent, WorkspaceInv, PageTypeOK
<1>4. Replied' = Replied /\ ActiveRun' = ActiveRun
  <2>1. Replied' = Replied /\ Active' = Active
    BY <1>1 DEF Replied, Active
  <2>2. QED
    BY <1>1, <2>1 DEF ActiveRun
<1>5. CASE Agrees(shown, replies)
  BY <1>4, <1>5 DEF Sound, Agrees, Waits
<1>6. CASE Behind(shown)
  <2>1. /\ shown # None /\ ~Waits(shown) /\ shown.id \in Run
    BY <1>6, ShownStream DEF Behind
  <2>2. next # None /\ next.id = shown.id /\ StreamOf(next) # None
    BY <2>1, ShownStream
  <2>3. PICK m \in DOMAIN log[shown.id] :
          m > page.seen[shown.id] /\ log[shown.id][m] \in StreamEnds
    BY <1>6 DEF Behind
  <2>4. m \in Nat
    BY <2>1, <2>3 DEF WorkspaceInv, StreamInv, StreamTypeOK
  <2>5. m > page'.seen[shown.id]
    <3>1. CASE shown.id # r
      BY <1>3, <2>1, <2>3, <3>1
    <3>2. CASE shown.id = r
      <4>1. log[r][n] \notin StreamEnds
        BY DEF Ends, Event, StreamEnds, Outcomes
      <4>2. m # n
        BY <2>3, <3>2, <4>1
      <4>3. page.seen[r] \in Nat /\ m > page.seen[r] /\ n = page.seen[r] + 1
        BY <1>2, <1>3, <2>3, <3>2
      <4>4. m > n
        BY <2>4, <4>2, <4>3
      <4>5. QED
        BY <1>2, <1>3, <3>2, <4>4
    <3>3. QED
      BY <3>1, <3>2
  <2>6. m \in DOMAIN log'[next.id] /\ log'[next.id][m] \in StreamEnds
    BY <1>1, <2>2, <2>3
  <2>7. QED
    BY <2>2, <2>5, <2>6 DEF Sound, Behind
<1>7. QED
  BY <1>5, <1>6 DEF Sound

LEMMA HandleEventAtRest ==
  ASSUME WorkspaceInv, RestInv, HandleEvent
  PROVE  RestInv'
<1>. USE DEF RestInv
<1>. DEFINE r == source.run
            n == Head(source.inbox)
            working == Event \in {"run.started", "run.progress"}
<1>1. /\ source # None /\ source.inbox # <<>> /\ source \in EventSource
      /\ UNCHANGED <<run, log, call, overtakes, torn, errors>>
  BY DEF HandleEvent, WorkspaceInv, StreamInv, StreamTypeOK
<1>2. /\ r \in Run /\ n = page.seen[r] + 1 /\ n \in Nat /\ ~Seen
      /\ n \in DOMAIN log[r] /\ page.seen[r] \in Nat
  <2>1. r \in Run /\ n = page.seen[r] + 1 /\ n \in Nat /\ ~Seen /\ n <= Len(log[r])
    BY <1>1, NextEvent
  <2>2. page.seen[r] \in Nat /\ log[r] \in Seq(EventName)
    BY <2>1 DEF WorkspaceInv, PageTypeOK, StreamInv, StreamTypeOK
  <2>3. QED
    BY <2>1, <2>2
<1>3. page.run \in ShownRun /\ page.run # None /\ page.run.id = r /\ ~Waits(page.run)
  BY <1>1, <1>2, ShownTypes, ShownStream, NothingShown DEF Follows
<1>4. /\ page'.run \in {page.run, [page.run EXCEPT !.status = "running"]}
      /\ page'.replies = page.replies
  BY <1>2, <1>3 DEF HandleEvent, WorkspaceInv, PageTypeOK
<1>5. /\ page'.run \in ShownRun /\ page'.run # None /\ page'.run.id = r /\ ~Waits(page'.run)
      /\ StreamOf(page'.run) = r
  <2>1. PICK shown : shown = [page.run EXCEPT !.status = "running"]
    OBVIOUS
  <2>2. shown \in ShownRun /\ shown.id = r /\ ~Waits(shown)
    BY <1>3, <2>1 DEF ShownRun, Waits
  <2>3. page'.run \in ShownRun /\ page'.run.id = r /\ ~Waits(page'.run)
    BY <1>3, <1>4, <2>1, <2>2
  <2>4. QED
    BY <2>3, ShownStream, NothingShown
<1>6. Tallies' /\ ServerInv'
  BY <1>1 DEF Tallies, ServerInv, OneActive, Active, OutcomesSettle
<1>7. Undisturbed' =>
        /\ Undisturbed
        /\ Event = "run.clarification" =>
             run[r] = "waiting_for_user" /\ (Idle \/ call.op # "answer")
  <2>1. replayed' = (replayed \/ (~Seen /\ Event = "run.clarification"
                                  /\ \/ run[r] # "waiting_for_user"
                                     \/ ~Idle /\ call.op = "answer"))
    BY DEF HandleEvent
  <2>2. ~replayed' =>
          /\ ~replayed
          /\ ~(~Seen /\ Event = "run.clarification"
               /\ \/ run[r] # "waiting_for_user"
                  \/ ~Idle /\ call.op = "answer")
    BY <2>1, Zenon
  <2>3. Undisturbed' => errors = 0 /\ overtakes = 0 /\ ~torn /\ ~replayed'
    BY <1>1, Zenon DEF Undisturbed
  <2>4. QED
    BY <1>2, <2>2, <2>3, Zenon DEF Undisturbed
<1>8. CASE Ends
  <2>1. Load /\ source' = None
    BY <1>2, <1>8 DEF HandleEvent
  <2>2. loads' # <<>> /\ Newest'.step = "timeline"
    BY <2>1, NewestAsked DEF WorkspaceInv
  <2>3. ASSUME Undisturbed'
        PROVE  /\ run'[r] \in Terminal \cup {"waiting_for_user"}
               /\ run'[r] = "waiting_for_user" => Idle' \/ call'.op # "answer"
    <3>1. CASE Event = "run.clarification"
      BY <1>1, <1>7, <2>3, <3>1 DEF Idle
    <3>2. CASE Event \in Outcomes
      <4>1. run[r] \in Terminal
        BY <1>2, <3>2 DEF ServerInv, OutcomesSettle, Event
      <4>2. QED
        BY <1>1, <4>1 DEF Terminal
    <3>3. QED
      BY <1>8, <3>1, <3>2 DEF Ends, Outcomes
  <2>4. Follows' /\ DetachedForGood' /\ LastWord'
    BY <1>5, <2>1, <2>2, <2>3 DEF Follows, DetachedForGood, LastWord
  <2>5. QED
    BY <1>6, <2>4
<1>9. CASE ~Ends
  <2>1. source' = [source EXCEPT !.inbox = Tail(@), !.last = n] /\ UNCHANGED loads
    BY <1>9 DEF HandleEvent
  <2>2. source' \in EventSource /\ source'.run = r
    <3>1. Tail(source.inbox) \in Seq(Nat)
      BY <1>1, HeadTailProperties DEF EventSource
    <3>2. QED
      BY <1>1, <1>2, <2>1, <3>1 DEF EventSource
  <2>3. source' # None
    BY <2>2, NoneAssumption
  <2>4. Follows' /\ DetachedForGood'
    BY <1>5, <2>2, <2>3 DEF Follows, DetachedForGood, Detached
  <2>5. LastWord'
    <3>1. SUFFICES ASSUME Undisturbed', Idle' \/ ~call'.done,
                          loads' = <<>> \/ Newest'.step = "answered"
                   PROVE  \E shown, replies :
                            /\ Sound(shown, replies)'
                            /\ IF loads' = <<>>
                                 THEN page'.run = shown /\ page'.replies = replies
                                 ELSE Newest'.active = shown /\ Newest'.replies = replies
      BY LastWordNext
    <3>2. PICK shown, replies :
            /\ Sound(shown, replies)
            /\ IF loads = <<>> THEN page.run = shown /\ page.replies = replies
                               ELSE Newest.active = shown /\ Newest.replies = replies
      BY <1>1, <1>7, <2>1, <3>1, LastWordNow DEF Idle, Newest
    <3>3. shown \in ShownRun \cup {None}
      BY <3>2, ShownTypes
    <3>4. CASE loads = <<>>
      <4>1. PICK next : next = page'.run
        OBVIOUS
      <4>2. Sound(next, replies)'
        BY <1>3, <1>5, <1>9, <3>2, <3>3, <3>4, <4>1, SoundAfterEvent
      <4>3. QED
        BY <1>4, <2>1, <3>2, <3>4, <4>1, <4>2
    <3>5. CASE loads # <<>>
      <4>1. Sound(shown, replies)'
        BY <1>9, <3>2, <3>3, SoundAfterEvent
      <4>2. Newest' = Newest
        BY <2>1 DEF Newest
      <4>3. QED
        BY <2>1, <3>2, <3>5, <4>1, <4>2
    <3>6. QED
      BY <3>4, <3>5
  <2>6. QED
    BY <1>6, <2>4, <2>5
<1>10. QED
  BY <1>8, <1>9

\* A load that reads the timeline, or the run.
LEMMA ReadAtRest ==
  ASSUME WorkspaceInv, RestInv, NEW i \in DOMAIN loads, ReadTimeline(i) \/ ReadRun(i)
  PROVE  RestInv'
<1>. USE DEF RestInv
<1>1. /\ UNCHANGED <<run, log, source, page, call, overtakes, replayed, errors>>
      /\ SeenKept
  BY DEF ReadTimeline, ReadRun, streamVars, ghosts, SeenKept
<1>2. /\ ServerInv' /\ \A shown, replies : Sound(shown, replies) => Sound(shown, replies)'
      /\ Replied' = Replied /\ ActiveRun' = ActiveRun
  BY <1>1, SoundStays
<1>3. /\ Tallies' /\ Follows' /\ (Detached' <=> Detached)
  BY <1>1 DEF Tallies, Follows, Detached
<1>4. Undisturbed' => Undisturbed /\ (ReadRun(i) => loads[i].replies = Replied)
  <2>1. CASE ReadTimeline(i)
    <3>1. torn' = torn
      BY <2>1 DEF ReadTimeline, ghosts
    <3>2. loads[i].step = "timeline"
      BY <2>1 DEF ReadTimeline
    <3>3. ~ReadRun(i)
      BY <3>2 DEF ReadRun
    <3>4. QED
      BY <1>1, <3>1, <3>3, Zenon DEF Undisturbed
  <2>2. CASE ReadRun(i)
    <3>1. torn' = (torn \/ loads[i].replies # Replied)
      BY <2>2 DEF ReadRun
    <3>2. ~torn' => ~torn /\ loads[i].replies = Replied
      BY <3>1, Zenon
    <3>3. QED
      BY <1>1, <3>2, Zenon DEF Undisturbed
  <2>3. QED
    BY <2>1, <2>2
<1>5. PICK next \in LoadCall :
        /\ loads' = [loads EXCEPT ![i] = next]
        /\ \/ next.step = "run"
           \/ /\ ReadRun(i) /\ next.active = ActiveRun
              /\ next.replies = loads[i].replies
  <2>1. loads \in Seq(LoadCall) /\ loads[i] \in LoadCall
    BY DEF WorkspaceInv, PageTypeOK
  <2>2. CASE ReadTimeline(i)
    <3>1. PICK next : next = [loads[i] EXCEPT !.step = "run", !.replies = Replied]
      OBVIOUS
    <3>2. next \in LoadCall /\ next.step = "run"
      BY <2>1, <3>1 DEF LoadCall, Replied
    <3>3. loads' = [loads EXCEPT ![i] = next]
      BY <2>1, <2>2, <3>1 DEF ReadTimeline
    <3>4. QED
      BY <3>2, <3>3
  <2>3. CASE ReadRun(i)
    <3>1. PICK active \in ShownRun \cup {None} : active = ActiveRun
      BY ShownTypes
    <3>2. PICK next : next = [loads[i] EXCEPT !.step = "answered", !.active = active]
      OBVIOUS
    <3>3. next \in LoadCall /\ next.active = active /\ next.replies = loads[i].replies
      BY <2>1, <3>1, <3>2 DEF LoadCall
    <3>4. loads' = [loads EXCEPT ![i] = next]
      BY <2>1, <2>3, <3>1, <3>2 DEF ReadRun
    <3>5. QED
      BY <2>3, <3>1, <3>3, <3>4
  <2>4. QED
    BY <2>2, <2>3
<1>6. /\ loads # <<>> /\ loads' # <<>>
      /\ Newest' = IF i = Len(loads) THEN next ELSE Newest
  BY <1>5, NewestReads DEF WorkspaceInv
<1>7. DetachedForGood'
  <2>1. SUFFICES ASSUME Undisturbed, Detached, next.active = ActiveRun
                 PROVE  StreamOf(next.active) # StreamOf(page.run)
    BY <1>1, <1>3, <1>4, <1>5, <1>6 DEF DetachedForGood, Idle
  <2>2. SUFFICES ASSUME StreamOf(ActiveRun) = StreamOf(page.run) PROVE FALSE
    BY <2>1
  <2>3. /\ ActiveRun # None /\ ~Waits(ActiveRun) /\ ActiveRun.id = page.run.id
    BY <2>1, <2>2, ShownTypes, ShownStream DEF Detached
  <2>4. PICK a \in Active : ActiveRun = [id |-> a, status |-> run[a]]
    <3>1. Active # {}
      BY <2>3 DEF ActiveRun
    <3>2. (CHOOSE a \in Active : TRUE) \in Active
      BY <3>1
    <3>3. QED
      BY <3>1, <3>2 DEF ActiveRun
  <2>5. run[a] # "waiting_for_user" /\ run[a] \notin Terminal /\ a = page.run.id
    BY <2>3, <2>4 DEF Waits, Active, Terminal
  <2>6. run[page.run.id] \in Terminal \cup {"waiting_for_user"}
    BY <2>1 DEF DetachedForGood
  <2>7. QED
    BY <2>5, <2>6
<1>8. LastWord'
  <2>1. SUFFICES ASSUME Undisturbed', Idle' \/ ~call'.done,
                        loads' = <<>> \/ Newest'.step = "answered"
                 PROVE  \E shown, replies :
                          /\ Sound(shown, replies)'
                          /\ IF loads' = <<>> THEN page'.run = shown /\ page'.replies = replies
                             ELSE Newest'.active = shown /\ Newest'.replies = replies
    BY LastWordNext
  <2>2. CASE i = Len(loads)
    <3>1. next.active = ActiveRun /\ next.replies = Replied
      BY <1>4, <1>5, <1>6, <2>1, <2>2
    <3>2. PICK shown, replies : shown = ActiveRun /\ replies = Replied
      OBVIOUS
    <3>3. Sound(shown, replies)'
      BY <1>2, <3>2 DEF Sound, Agrees, Waits
    <3>4. QED
      BY <1>6, <2>2, <3>1, <3>2, <3>3
  <2>3. CASE i # Len(loads)
    <3>1. Newest' = Newest
      BY <1>6, <2>3
    <3>2. PICK shown, replies :
            /\ Sound(shown, replies)
            /\ Newest.active = shown /\ Newest.replies = replies
      BY <1>1, <1>4, <1>6, <2>1, <3>1, LastWordNow DEF Idle
    <3>3. Sound(shown, replies)'
      BY <1>2, <3>2
    <3>4. QED
      BY <1>6, <3>1, <3>2, <3>3
  <2>4. QED
    BY <2>2, <2>3
<1>9. QED
  BY <1>2, <1>3, <1>7, <1>8

\* A load that arrives in its turn.
LEMMA ArriveAtRest ==
  ASSUME WorkspaceInv, RestInv, NEW i \in DOMAIN loads, Arrive(i)
  PROVE  RestInv'
<1>. USE DEF RestInv
<1>0. PICK replies : replies = loads[i].replies
  OBVIOUS
<1>1. PICK shown \in ShownRun \cup {None} : shown = loads[i].active
  <2>1. loads[i] \in LoadCall
    BY DEF WorkspaceInv, PageTypeOK
  <2>2. QED
    BY <2>1 DEF LoadCall
<1>2. /\ loads[i].step = "answered"
      /\ page' = [page EXCEPT !.run = shown, !.replies = replies]
      /\ Follow(shown)
      /\ loads' = RemoveAt(loads, i)
      /\ UNCHANGED <<run, log, call, torn, replayed, errors>>
  BY <1>0, <1>1 DEF Arrive
<1>3. page'.run = shown /\ page'.replies = replies /\ SeenKept
  BY <1>2 DEF WorkspaceInv, PageTypeOK, SeenKept
<1>4. /\ ServerInv' /\ \A s, t : Sound(s, t) => Sound(s, t)'
  BY <1>2, <1>3, SoundStays
<1>5. /\ Follows'
      /\ Detached' => /\ Detached /\ StreamOf(shown) = StreamOf(page.run)
                      /\ shown.id = page.run.id
  BY <1>2, <1>3, FollowFollows
<1>6. Tallies' /\ (Undisturbed' => Undisturbed /\ i = 1)
  <2>1. overtakes' = IF i = 1 THEN overtakes ELSE overtakes + 1
    BY DEF Arrive
  <2>2. overtakes' \in Nat /\ (overtakes' = 0 => overtakes = 0 /\ i = 1)
    BY <2>1 DEF Tallies
  <2>3. QED
    BY <1>2, <2>2 DEF Tallies, Undisturbed
<1>7. CASE ~Undisturbed'
  BY <1>4, <1>5, <1>6, <1>7, Disturbed
<1>8. CASE Undisturbed'
  <2>1. Undisturbed /\ i = 1
    BY <1>6, <1>8
  <2>2. /\ loads # <<>>
        /\ loads' = <<>> => Newest = loads[1]
        /\ loads' # <<>> => Newest' = Newest
    BY <1>2, <2>1, NewestStays DEF WorkspaceInv
  <2>3. DetachedForGood'
    <3>1. SUFFICES ASSUME Detached'
                   PROVE  /\ loads' # <<>>
                          /\ Newest'.step = "answered" =>
                               StreamOf(Newest'.active) # StreamOf(page'.run)
                          /\ run'[page'.run.id] \in Terminal \cup {"waiting_for_user"}
                          /\ run'[page'.run.id] = "waiting_for_user" =>
                               Idle' \/ call'.op # "answer"
      BY DEF DetachedForGood
    <3>2. /\ Newest.step = "answered" => StreamOf(Newest.active) # StreamOf(page.run)
          /\ run[page.run.id] \in Terminal \cup {"waiting_for_user"}
          /\ run[page.run.id] = "waiting_for_user" => Idle \/ call.op # "answer"
      BY <1>5, <2>1, <3>1 DEF DetachedForGood
    <3>3. loads' # <<>>
      BY <1>1, <1>2, <1>5, <2>1, <2>2, <3>1, <3>2
    <3>4. Newest' = Newest /\ page'.run.id = page.run.id
          /\ StreamOf(page'.run) = StreamOf(page.run)
      BY <1>3, <1>5, <2>2, <3>1, <3>3
    <3>5. QED
      BY <1>2, <3>2, <3>3, <3>4 DEF Idle
  <2>4. LastWord'
    <3>1. SUFFICES ASSUME Idle' \/ ~call'.done, loads' = <<>> \/ Newest'.step = "answered"
                   PROVE  \E s, t :
                            /\ Sound(s, t)'
                            /\ IF loads' = <<>> THEN page'.run = s /\ page'.replies = t
                               ELSE Newest'.active = s /\ Newest'.replies = t
      BY LastWordNext
    <3>2. PICK s, t : /\ Sound(s, t)
                      /\ Newest.active = s /\ Newest.replies = t
      BY <1>2, <2>1, <2>2, <3>1, LastWordNow DEF Idle
    <3>3. Sound(s, t)'
      BY <1>4, <3>2
    <3>4. QED
      BY <1>0, <1>1, <1>3, <2>1, <2>2, <3>2, <3>3
  <2>5. QED
    BY <1>4, <1>5, <1>6, <2>3, <2>4
<1>9. QED
  BY <1>7, <1>8

\* Failures are excepted.
LEMMA FailureAtRest ==
  ASSUME WorkspaceInv, RestInv,
         \/ \E i \in DOMAIN loads : LoadFails(i)
         \/ \E op \in Op : CallFails(op)
  PROVE  RestInv'
<1>. USE DEF RestInv
<1>1. errors' \in Nat \ {0} /\ overtakes' \in Nat
  <2>1. errors' = errors + 1 /\ overtakes' = overtakes
    BY DEF LoadFails, CallFails, ghosts
  <2>2. QED
    BY <2>1 DEF Tallies
<1>2. Tallies' /\ ~Undisturbed'
  BY <1>1 DEF Tallies, Undisturbed
<1>3. UNCHANGED <<run, log>> /\ SeenKept /\ page'.run \in {page.run, None}
  BY DEF LoadFails, CallFails, streamVars, WorkspaceInv, PageTypeOK, SeenKept
<1>4. ServerInv'
  BY <1>3, SoundStays
<1>5. Follows'
  <2>1. CASE \E i \in DOMAIN loads : LoadFails(i)
    <3>1. PICK shown \in ShownRun \cup {None} : shown = page'.run
      BY <1>3, ShownTypes
    <3>2. Follow(shown)
      BY <2>1, <3>1 DEF LoadFails
    <3>3. QED
      BY <3>1, <3>2, FollowFollows
  <2>2. CASE \E op \in Op : CallFails(op)
    BY <2>2 DEF CallFails, streamVars, Follows
  <2>3. QED
    BY <2>1, <2>2
<1>6. QED
  BY <1>2, <1>4, <1>5, Disturbed

\* The user asks for something, or is refused it.
LEMMA CallAtRest ==
  ASSUME WorkspaceInv, RestInv, UNCHANGED <<streamVars, page, loads, ghosts, errors>>,
         Idle \/ ~call.done,
         Idle' \/ call'.op # "answer" \/ ~Detached
  PROVE  RestInv'
<1>. USE DEF RestInv
<1>1. /\ UNCHANGED <<run, log, source>> /\ SeenKept /\ Newest' = Newest
      /\ Tallies' /\ (Undisturbed' <=> Undisturbed)
  BY DEF streamVars, ghosts, SeenKept, Newest, Tallies, Undisturbed
<1>2. ServerInv' /\ \A s, t : Sound(s, t) => Sound(s, t)'
  BY <1>1, SoundStays
<1>3. Follows' /\ (Detached' <=> Detached)
  BY <1>1 DEF Follows, Detached
<1>4. DetachedForGood'
  BY <1>1, <1>3 DEF DetachedForGood
<1>5. LastWord'
  <2>1. SUFFICES ASSUME Undisturbed', loads' = <<>> \/ Newest'.step = "answered"
                 PROVE  \E s, t :
                          /\ Sound(s, t)'
                          /\ IF loads' = <<>> THEN page'.run = s /\ page'.replies = t
                             ELSE Newest'.active = s /\ Newest'.replies = t
    BY LastWordNext
  <2>2. PICK s, t : /\ Sound(s, t)
                    /\ IF loads = <<>> THEN page.run = s /\ page.replies = t
                       ELSE Newest.active = s /\ Newest.replies = t
    BY <1>1, <2>1, LastWordNow
  <2>3. QED
    BY <1>1, <1>2, <2>2
<1>6. QED
  BY <1>1, <1>2, <1>3, <1>4, <1>5

LEMMA ClickAtRest ==
  ASSUME WorkspaceInv, RestInv, Click
  PROVE  RestInv'
<1>1. ASSUME NEW op, NEW r, Ask(op, r), op # "answer" \/ ~Detached
      PROVE  RestInv'
  <2>1. Idle /\ UNCHANGED <<streamVars, page, loads, ghosts, errors>> /\ call'.op = op
    BY <1>1 DEF Ask
  <2>2. QED
    BY <1>1, <2>1, CallAtRest
<1>2. CASE \E r \in Run : ClickSend(r)
  BY <1>1, <1>2 DEF ClickSend
<1>3. CASE ClickAnswer
  <2>1. ~Detached
    BY <1>3 DEF ClickAnswer, Detached, StreamOf
  <2>2. QED
    BY <1>1, <1>3, <2>1 DEF ClickAnswer
<1>4. CASE ClickStop \/ ClickDelete
  BY <1>1, <1>4 DEF ClickStop, ClickDelete
<1>5. QED
  BY <1>2, <1>3, <1>4 DEF Click

\* While a call has been committed and has not returned, the page is behind.
LEMMA CommitAtRest ==
  ASSUME WorkspaceInv, RestInv, NEW op \in Op, Commit(op)
  PROVE  RestInv'
<1>. USE DEF RestInv
<1>1. /\ ~Idle /\ call \in UserCall /\ call.op = op
      /\ UNCHANGED <<source, page, loads, ghosts, errors>>
  BY DEF Commit, Calling, Idle, WorkspaceInv, PageTypeOK
<1>2. ~Idle' /\ call'.done /\ call'.op = op
  <2>1. [call EXCEPT !.done = TRUE] \in UserCall
        /\ [call EXCEPT !.done = TRUE].done = TRUE /\ [call EXCEPT !.done = TRUE].op = op
    BY <1>1 DEF UserCall
  <2>2. call' = [call EXCEPT !.done = TRUE]
    BY DEF Commit
  <2>3. QED
    BY <2>1, <2>2, NothingShown DEF Idle
<1>3. ServerInv'
  BY CommitSettles
<1>4. Tallies' /\ Follows' /\ (Detached' <=> Detached) /\ (Undisturbed' <=> Undisturbed)
      /\ Newest' = Newest
  BY <1>1 DEF Tallies, Follows, Detached, Undisturbed, ghosts, Newest
<1>5. LastWord'
  BY <1>2 DEF LastWord
<1>6. DetachedForGood'
  <2>1. SUFFICES ASSUME Undisturbed, Detached
                 PROVE  /\ run'[page.run.id] \in Terminal \cup {"waiting_for_user"}
                        /\ run'[page.run.id] = "waiting_for_user" => op # "answer"
    BY <1>1, <1>2, <1>4 DEF DetachedForGood
  <2>2. page.run.id \in Run
    BY <2>1, ShownTypes, ShownStream DEF Detached
  <2>3. /\ run[page.run.id] \in Terminal \cup {"waiting_for_user"}
        /\ run[page.run.id] = "waiting_for_user" => op # "answer"
    BY <1>1, <2>1 DEF DetachedForGood
  <2>4. \/ run'[page.run.id] \in Terminal
        \/ run'[page.run.id] = run[page.run.id]
    BY <2>2, <2>3, CommitSettles
  <2>5. "waiting_for_user" \notin Terminal
    BY DEF Terminal
  <2>6. QED
    BY <2>3, <2>4, <2>5
<1>7. QED
  BY <1>3, <1>4, <1>5, <1>6

\* A call that returns has the page load again.
LEMMA ReturnAtRest ==
  ASSUME WorkspaceInv, RestInv, Return
  PROVE  RestInv'
<1>. USE DEF RestInv
<1>1. /\ Load /\ call' = None
      /\ UNCHANGED <<run, log, ghosts, errors>>
  BY DEF Return, Sent, Answered, Stopped, Deleted, Returned, streamVars
<1>2. loads' # <<>> /\ Newest'.step = "timeline"
  BY <1>1, NewestAsked DEF WorkspaceInv
<1>3. Tallies' /\ (Undisturbed' <=> Undisturbed) /\ SeenKept
  BY <1>1, ReturnSteps DEF Tallies, Undisturbed, ghosts
<1>4. ServerInv'
  BY <1>1, <1>3, SoundStays
<1>5. /\ Follows'
      /\ Detached' => Detached /\ page'.run.id = page.run.id
  <2>1. CASE Stopped \/ Deleted
    BY <2>1 DEF Stopped, Deleted, streamVars, Follows, Detached
  <2>2. CASE Sent \/ Answered
    <3>1. PICK shown : shown = [id |-> call.run, status |-> "queued"]
      OBVIOUS
    <3>2. shown \in ShownRun
      <4>1. call.run \in Run
        BY <2>2 DEF Sent, Answered, Calling, Idle, WorkspaceInv, PageTypeOK
      <4>2. QED
        BY <3>1, <4>1 DEF ShownRun
    <3>3. page' = [page EXCEPT !.run = shown] /\ Follow(shown)
      BY <2>2, <3>1 DEF Sent, Answered
    <3>4. page'.run = shown
      BY <3>3 DEF WorkspaceInv, PageTypeOK
    <3>5. QED
      BY <3>2, <3>3, <3>4, FollowFollows
  <2>3. QED
    BY <2>1, <2>2 DEF Return
<1>6. DetachedForGood' /\ LastWord'
  BY <1>1, <1>2, <1>3, <1>5 DEF DetachedForGood, LastWord, Idle
<1>7. QED
  BY <1>3, <1>4, <1>5, <1>6

\* A page that was just opened has everything to load.
LEMMA NewPageAtRest ==
  /\ StreamOf(NewPage.run) = None
  /\ <<Asked(TRUE)>> # <<>>
  /\ <<Asked(TRUE)>>[Len(<<Asked(TRUE)>>)].step = "timeline"
<1>1. StreamOf(NewPage.run) = None
  BY DEF StreamOf, NewPage
<1>2. Asked(TRUE).step = "timeline"
  BY DEF Asked
<1>3. QED
  BY <1>1, <1>2

LEMMA ReloadAtRest ==
  ASSUME WorkspaceInv, RestInv, Reload
  PROVE  RestInv'
<1>. USE DEF RestInv
<1>1. /\ page' = NewPage /\ loads' = <<Asked(TRUE)>> /\ source' = None
      /\ UNCHANGED <<run, log, overtakes, errors>>
  BY DEF Reload
<1>2. Tallies' /\ ServerInv'
  BY <1>1 DEF Tallies, ServerInv, OneActive, Active, OutcomesSettle
<1>3. Follows' /\ ~Detached' /\ loads' # <<>> /\ Newest'.step = "timeline"
  BY <1>1, NewPageAtRest DEF Follows, Detached, Newest
<1>4. QED
  BY <1>2, <1>3 DEF DetachedForGood, LastWord

LEMMA NextAtRest ==
  ASSUME WorkspaceInv, RestInv, [WorkspaceNext]_workspaceVars
  PROVE  RestInv'
<1>1. CASE StreamStep /\ UNCHANGED <<page, loads, call, ghosts, errors>>
  BY <1>1, StreamStepAtRest
<1>2. CASE HandleEvent \/ Return \/ Click \/ Reload
  BY <1>2, HandleEventAtRest, ReturnAtRest, ClickAtRest, ReloadAtRest
<1>3. ASSUME NEW i \in DOMAIN loads, Answer(i) \/ LoadFails(i) PROVE RestInv'
  BY <1>3, ReadAtRest, ArriveAtRest, FailureAtRest DEF Answer
<1>4. ASSUME NEW op \in Op, Commit(op) \/ CallFails(op) \/ CallRefused(op) PROVE RestInv'
  <2>1. CASE CallRefused(op)
    <3>1. /\ UNCHANGED <<streamVars, page, loads, ghosts, errors>>
          /\ ~call.done /\ Idle'
      BY <2>1 DEF CallRefused, Calling, Returned, Idle
    <3>2. QED
      BY <3>1, CallAtRest
  <2>2. QED
    BY <1>4, <2>1, CommitAtRest, FailureAtRest
<1>5. CASE UNCHANGED workspaceVars
  BY <1>5, StillAtRest DEF workspaceVars, streamVars, ghosts
<1>6. QED
  BY <1>1, <1>2, <1>3, <1>4, <1>5 DEF WorkspaceNext

\* What the page rests on: one run at a time is active, the newest load has the
\* last word, and a stream that was closed is not needed any more.
THEOREM RestInvariant == WorkspaceSpec => []RestInv
<1>1. WorkspaceInit => RestInv
  <2>1. SUFFICES ASSUME WorkspaceInit PROVE RestInv
    OBVIOUS
  <2>2. /\ run = [r \in Run |-> "none"] /\ log = [r \in Run |-> <<>>] /\ source = None
        /\ page = NewPage /\ loads = <<Asked(TRUE)>> /\ errors = 0 /\ overtakes = 0
    BY <2>1 DEF WorkspaceInit, StreamInit, Opened
  <2>3. Active = {}
    BY <2>2 DEF Active
  <2>4. \A r \in Run : DOMAIN log[r] = {}
    BY <2>2
  <2>5. Tallies /\ ServerInv
    BY <2>2, <2>3, <2>4 DEF Tallies, ServerInv, OneActive, OutcomesSettle
  <2>6. Follows /\ ~Detached /\ loads # <<>> /\ Newest.step = "timeline"
    BY <2>2, NewPageAtRest DEF Follows, Detached, Newest
  <2>7. QED
    BY <2>5, <2>6 DEF RestInv, DetachedForGood, LastWord
<1>2. WorkspaceInv /\ RestInv /\ [WorkspaceNext]_workspaceVars => RestInv'
  BY NextAtRest
<1>3. QED
  BY <1>1, <1>2, WorkspaceInvariant, PTL DEF WorkspaceSpec

\* A page at rest, whose stream has nothing new, shows the conversation's active
\* run, whether it waits for an answer, and every reply, through loads that are
\* answered while the run goes on, pauses, cancellations, deletions and reloads
\* (conversation-workspace.tsx).
THEOREM PageTellsTruth == WorkspaceSpec => []SettledPageIsTrue
<1>1. WorkspaceInv /\ RestInv => SettledPageIsTrue
  <2>1. SUFFICES ASSUME WorkspaceInv, RestInv,
                        loads = <<>>, Idle, CaughtUp, Undisturbed
                 PROVE  Agrees(page.run, page.replies)
    BY DEF SettledPageIsTrue, Undisturbed, Agrees
  <2>2. Sound(page.run, page.replies)
    BY <2>1 DEF RestInv, LastWord
  <2>3. ~Behind(page.run)
    <3>1. SUFFICES ASSUME Behind(page.run) PROVE FALSE
      OBVIOUS
    <3>2. page.run.id \in Run /\ StreamOf(page.run) = page.run.id
      BY <2>1, <3>1, ShownTypes, ShownStream DEF Behind
    <3>3. source # None /\ source.run = page.run.id
      BY <2>1, <3>1, <3>2 DEF RestInv, DetachedForGood, Detached, Follows, Behind
    <3>4. page.seen[page.run.id] = Len(log[page.run.id])
      BY <2>1, <3>3 DEF CaughtUp
    <3>5. PICK n \in DOMAIN log[page.run.id] : n > page.seen[page.run.id]
      BY <3>1 DEF Behind
    <3>6. log[page.run.id] \in Seq(EventName)
      BY <2>1, <3>2 DEF WorkspaceInv, StreamInv, StreamTypeOK
    <3>7. QED
      BY <3>4, <3>5, <3>6
  <2>4. QED
    BY <2>2, <2>3 DEF Sound
<1>2. QED
  BY <1>1, WorkspaceInvariant, RestInvariant, PTL
=================================================================================
