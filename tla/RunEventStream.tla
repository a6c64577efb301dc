---------------------------- MODULE RunEventStream ----------------------------
(***************************************************************************)
(* The delivery of a run's events to a browser: the log the conversation   *)
(* transactions append to, the route that serves it as a stream under a    *)
(* lease, page by page, and the browser's EventSource, which reconnects    *)
(* after the last event it was given.                                      *)
(*                                                                         *)
(* Runs are a conversation's, as ConversationRuns describes them, reduced  *)
(* to status and log.  Time is the age of streams and of leases; a page is *)
(* read and sent in one step.                                              *)
(***************************************************************************)
EXTENDS Integers, Sequences, FiniteSets

CONSTANTS
  Run,         \* runs of the conversation
  Stream,      \* connections the servers hold for the user
  Limit,       \* SSE_MAX_CONNECTIONS_PER_USER
  PageSize,    \* eventPageSize
  Lifetime,    \* streamLifetimeMs
  Lease,       \* SSE_CONNECTION_LEASE_SECONDS, longer than a stream lives
  MaxLog,      \* bound on a run's log
  MaxDeaths,   \* bound on servers that die and connections that are cut
  None

ASSUME StreamAssumption ==
  /\ PageSize \in Nat \ {0} /\ Lifetime \in Nat \ {0}
  /\ Lease \in Nat /\ Lease > Lifetime
  /\ Limit \in Nat /\ MaxDeaths \in Nat
  /\ IsFiniteSet(Stream)
  /\ Stream \cap {"connecting", "closed"} = {}

Connection == [run : Run, cursor : Nat, age : Nat, aborted : BOOLEAN]

\* A page's EventSource: its run, the last event handled, its connection if it has
\* one, and the events that wait.
EventSource ==
  [run : Run, last : Nat, on : Stream \cup {"connecting", "closed"}, inbox : Seq(Nat)]

ASSUME NoneAssumption == None \notin Connection \cup EventSource

VARIABLES
  run,     \* agent_runs.status, "none" before the run exists
  log,     \* run_events, by sequence
  lease,   \* how long each connection's lease in Redis has left
  stream,  \* what the route does for each connection
  source,  \* the page's EventSource
  deaths

streamVars == <<run, log, lease, stream, source, deaths>>

server == <<lease, stream, deaths>>

Terminal == {"completed", "failed", "cancelled"}

-----------------------------------------------------------------------------
(* The conversation's transactions *)

Set(r, status, events) ==
  /\ Len(log[r]) + Len(events) <= MaxLog
  /\ run' = [run EXCEPT ![r] = status]
  /\ log' = [log EXCEPT ![r] = @ \o events]

Active == {r \in Run : run[r] \in {"queued", "running", "waiting_for_user"}}

EnqueueMessage(r) ==
  /\ run[r] = "none" /\ Active = {}
  /\ Set(r, "queued", <<"run.queued">>)

ClaimRun(r) == run[r] = "queued" /\ Set(r, "running", <<"run.started">>)

\* One stage of several.
RecordProgress(r) ==
  /\ run[r] = "running"
  /\ log[r][Len(log[r])] = "run.started"
  /\ Set(r, "running", <<"run.progress">>)

PauseRun(r) ==
  /\ run[r] = "running"
  /\ \A n \in DOMAIN log[r] : log[r][n] # "run.clarification"
  /\ Set(r, "waiting_for_user", <<"run.clarification">>)

ResumeRun(r) == run[r] = "waiting_for_user" /\ Set(r, "queued", <<"run.resumed">>)

CompleteRun(r) ==
  run[r] = "running" /\ Set(r, "completed", <<"assistant.delta", "run.completed">>)

FailRun(r) == run[r] = "running" /\ Set(r, "failed", <<"run.failed">>)

CancelRun(r) == r \in Active /\ Set(r, "cancelled", <<"run.cancelled">>)

\* The deletion of its dataset cancels a run and writes no event.
CancelByDeletion == run' = [r \in Run |-> IF r \in Active THEN "cancelled" ELSE run[r]]
                    /\ UNCHANGED log

WorkerStep ==
  /\ \E r \in Run : \/ ClaimRun(r) \/ RecordProgress(r) \/ PauseRun(r)
                    \/ CompleteRun(r) \/ FailRun(r)
  /\ UNCHANGED <<server, source>>

-----------------------------------------------------------------------------
(* The EventSource *)

\* A connection is asked for with the sequence of the last event handled.
NewSource(r, after) == [run |-> r, last |-> after, on |-> "connecting", inbox |-> <<>>]

Attached(s) == source # None /\ source.on = s

\* The servers learn of a source that is closed when they next look.
Abandon == [s \in Stream |-> IF Attached(s) /\ stream[s] # None
                               THEN [stream[s] EXCEPT !.aborted = TRUE]
                               ELSE stream[s]]

-----------------------------------------------------------------------------
(* The lease limiter *)

Leases == {s \in Stream : lease[s] > 0}

\* What if the leases were counted before the new one's?
AdmitsOneMore(s) == s \notin Leases /\ Cardinality(Leases) <= Limit

Admits(s) == s \notin Leases /\ Cardinality(Leases) < Limit

Release(s) == lease' = [lease EXCEPT ![s] = 0]

-----------------------------------------------------------------------------
(* GET .../events *)

\* What if a stream began with what is new?
OpenAtEnd(s) ==
  /\ source # None /\ source.on = "connecting"
  /\ stream[s] = None
  /\ Admits(s)
  /\ lease' = [lease EXCEPT ![s] = Lease]
  /\ stream' = [stream EXCEPT ![s] =
       [run |-> source.run, cursor |-> Len(log[source.run]), age |-> 0, aborted |-> FALSE]]
  /\ source' = [source EXCEPT !.on = s]
  /\ UNCHANGED <<run, log, deaths>>

Open(s) ==
  /\ source # None /\ source.on = "connecting"
  /\ stream[s] = None
  /\ Admits(s)
  /\ lease' = [lease EXCEPT ![s] = Lease]
  /\ stream' = [stream EXCEPT ![s] =
       [run |-> source.run, cursor |-> source.last, age |-> 0, aborted |-> FALSE]]
  /\ source' = [source EXCEPT !.on = s]
  /\ UNCHANGED <<run, log, deaths>>

\* Any answer but 200 ends the reconnecting: too many leases or requests, no
\* session, a Redis that is away.
Refuse ==
  /\ source # None /\ source.on = "connecting"
  /\ Cardinality(Leases) >= Limit \/ deaths < MaxDeaths
  /\ deaths' = IF Cardinality(Leases) >= Limit THEN deaths ELSE deaths + 1
  /\ source' = [source EXCEPT !.on = "closed"]
  /\ UNCHANGED <<run, log, lease, stream>>

\* listRunEvents: the next page after the cursor.
Page(s) ==
  LET cursor == stream[s].cursor
      left == Len(log[stream[s].run]) - cursor
  IN [n \in 1 .. (IF left < PageSize THEN left ELSE PageSize) |-> cursor + n]

Over(s) == stream[s].aborted \/ stream[s].age >= Lifetime

Enqueue(s) ==
  source' = IF Attached(s) THEN [source EXCEPT !.inbox = @ \o Page(s)] ELSE source

End(s) == stream' = [stream EXCEPT ![s] = None] /\ Release(s)

\* At the lifetime, or when the browser has gone: cancel() then releases the lease at
\* once.  What the loop of start() still does, one query or delay, nobody reads.
Close(s) ==
  /\ stream[s] # None /\ Over(s)
  /\ End(s)
  /\ UNCHANGED <<run, log, source, deaths>>

\* What if the cursor followed the log instead of the page?
SendToEnd(s) ==
  /\ stream[s] # None /\ ~Over(s)
  /\ Enqueue(s)
  /\ IF Len(Page(s)) < PageSize /\ run[stream[s].run] \in Terminal
       THEN End(s)
       ELSE /\ stream' = [stream EXCEPT ![s].cursor = Len(log[stream[s].run])]
            /\ UNCHANGED lease
  /\ UNCHANGED <<run, log, deaths>>

\* What if the status were enough to end the stream?
SendOnePage(s) ==
  /\ stream[s] # None /\ ~Over(s)
  /\ Enqueue(s)
  /\ IF run[stream[s].run] \in Terminal
       THEN End(s)
       ELSE /\ stream' = [stream EXCEPT ![s].cursor = @ + Len(Page(s))]
            /\ UNCHANGED lease
  /\ UNCHANGED <<run, log, deaths>>

\* A full page is followed by the next; a terminal run's last page ends the
\* stream; after another the log is read again.
Send(s) ==
  /\ stream[s] # None /\ ~Over(s)
  /\ Enqueue(s)
  /\ IF Len(Page(s)) < PageSize /\ run[stream[s].run] \in Terminal
       THEN End(s)
       ELSE /\ stream' = [stream EXCEPT ![s].cursor = @ + Len(Page(s))]
            /\ UNCHANGED lease
  /\ UNCHANGED <<run, log, deaths>>

\* When the stream has ended and its events are handled, the browser asks
\* again after a second.
Reconnect ==
  /\ source # None /\ source.on \in Stream
  /\ stream[source.on] = None
  /\ source.inbox = <<>>
  /\ source' = [source EXCEPT !.on = "connecting"]
  /\ UNCHANGED <<run, log, server>>

-----------------------------------------------------------------------------
(* Time, and what goes wrong *)

\* A stream that is past its lifetime looks at the clock before more time passes.
Tick ==
  /\ \E s \in Stream : lease[s] > 0
  /\ \A s \in Stream : stream[s] # None => stream[s].age < Lifetime
  /\ lease' = [s \in Stream |-> IF lease[s] > 0 THEN lease[s] - 1 ELSE 0]
  /\ stream' = [s \in Stream |-> IF stream[s] = None THEN None
                                 ELSE [stream[s] EXCEPT !.age = @ + 1]]
  /\ UNCHANGED <<run, log, source, deaths>>

\* The server dies and leaves its lease, or the connection is cut and the
\* server, which is not told, goes on.
Cut(s) ==
  /\ stream[s] # None
  /\ deaths < MaxDeaths
  /\ deaths' = deaths + 1
  /\ \/ stream' = [stream EXCEPT ![s] = None]
     \/ Attached(s) /\ UNCHANGED stream
  /\ source' = IF Attached(s) THEN [source EXCEPT !.on = "connecting", !.inbox = <<>>] ELSE source
  /\ UNCHANGED <<run, log, lease>>

-----------------------------------------------------------------------------

StreamInit ==
  /\ run = [r \in Run |-> "none"]
  /\ log = [r \in Run |-> <<>>]
  /\ lease = [s \in Stream |-> 0]
  /\ stream = [s \in Stream |-> None]
  /\ source = None
  /\ deaths = 0

Serve(s) == Open(s) \/ Send(s) \/ Close(s)

StreamStep ==
  \/ \E s \in Stream : Serve(s) \/ Cut(s)
  \/ Refuse \/ Reconnect \/ WorkerStep

-----------------------------------------------------------------------------
(* A reader of its own, for what the page does with a source *)

Watch(r) ==
  /\ source = None
  /\ run[r] # "none"
  /\ source' = NewSource(r, 0)
  /\ UNCHANGED <<run, log, server>>

Leave ==
  /\ source # None
  /\ source' = None
  /\ stream' = Abandon
  /\ UNCHANGED <<run, log, lease, deaths>>

Take ==
  /\ source # None /\ source.inbox # <<>>
  /\ source' = [source EXCEPT !.last = Head(source.inbox), !.inbox = Tail(@)]
  /\ UNCHANGED <<run, log, server>>

Users == /\ \E r \in Run : EnqueueMessage(r) \/ ResumeRun(r) \/ CancelRun(r)
         /\ UNCHANGED <<server, source>>

StreamNext ==
  \/ StreamStep \/ Tick \/ Users
  \/ \E r \in Run : Watch(r)
  \/ Leave \/ Take

\* Servers, time and the browser go on; workers and users may stop.  Of the
\* streams that open again and again some read a page within their lifetime.
StreamSpec ==
  /\ StreamInit /\ [][StreamNext]_streamVars
  /\ \A s \in Stream : WF_streamVars(Serve(s)) /\ SF_streamVars(Send(s))
  /\ WF_streamVars(Refuse \/ Reconnect) /\ WF_streamVars(Take) /\ WF_streamVars(Tick)

-----------------------------------------------------------------------------
(* Properties *)

\* However servers die, connections are cut and reconnect, a user's streams
\* that are open at once are no more than the limit.
StreamsWithinLimit == Cardinality({s \in Stream : stream[s] # None}) <= Limit

\* A stream that its server ends for a terminal run has sent the whole log, the
\* event that was last included, whatever the page boundaries were.
EndsDrained ==
  [][\A s \in Stream :
       stream[s] # None /\ ~Over(s) /\ stream'[s] = None /\ UNCHANGED deaths =>
         (Attached(s) =>
            LET sent == source'.inbox IN
            (IF sent = <<>> THEN source.last ELSE sent[Len(sent)]) = Len(log[stream[s].run]))]_streamVars

Caught(r, n) == source # None /\ source.run = r /\ (source.last >= n \/ source.on = "closed")

\* A reader that stays is given every event, in order, through pages, cut
\* connections and streams that end after their lifetime.
EveryEventTaken ==
  \A r \in Run, n \in 1 .. MaxLog :
    (source # None /\ source.run = r /\ n <= Len(log[r])) ~> (Caught(r, n) \/ source = None)
===============================================================================
