------------------------------ MODULE HubRequests -----------------------------
(***************************************************************************)
(* The requests over one connection of an agent and the end of that        *)
(* connection (internal/ws/correlate.go, struct.go; BeszelWSHandler in     *)
(* internal/agent/beszel_ws.go).  The socket's only reader correlates the  *)
(* answers with the callers by their id, and hands the answers to GetData  *)
(* to the handler, which ingests them.  The reader, the handler and a      *)
(* newer connection may all close the hub.                                 *)
(*                                                                         *)
(* The agent is external: it answers what was sent, in any order, late,    *)
(* twice or never.  An id is used once in a connection: that 2^32 of them  *)
(* wrap around is left out, since a request is tracked for 90 seconds at   *)
(* most.  When the time of a request is over is a choice at every look at  *)
(* the clock.                                                              *)
(***************************************************************************)
EXTENDS Integers, Sequences, FiniteSets

CONSTANTS
  Awaited,      \* ids of requests that somebody waits for, configuration and others
  Polls,        \* ids of GetData requests, which nobody waits for
  Handshake,    \* the one of Awaited that the handler authenticates the agent with
  FeedLimit,    \* capacity of the channel between the reader and the handler
  MaxRequests   \* bound: requests of one connection

ASSUME HandshakeAwaited == Handshake \in Awaited
ASSUME AwaitedNotPolled == Awaited \cap Polls = {}

Ids    == Awaited \cup Polls
NoId   == "no id"
Closers == {"reader", "handler", "newer connection"}

VARIABLES
  tracked,     \* Hub.pending: the ids in it
  channel,     \* the channel of each: "none", "open", "answered", "failed" or "closed"
  caller,      \* what has become of each request
  misused,     \* a channel was sent to or closed after it was closed: the program ends
  conn,        \* Hub.conn is there
  reader,      \* the reader: where it is, and the answer it has in its hands
  handler,     \* the handler of the connection
  closer,      \* how far each Close has got
  cancelled,   \* the context of the connection is cancelled
  feed,        \* answers handed to the handler
  ingested     \* how often the answer to each was ingested

hubVars == <<tracked, channel, caller, misused, conn, reader, handler,
             closer, cancelled, feed, ingested>>

Receiving == [at |-> "receive", id |-> NoId, failed |-> FALSE]

NoRequests ==
  /\ tracked = {}
  /\ channel = [i \in Ids |-> "none"]
  /\ caller = [i \in Ids |-> "idle"]
  /\ misused = FALSE /\ cancelled = FALSE
  /\ closer = [c \in Closers |-> "away"]
  /\ feed = <<>> /\ ingested = [i \in Ids |-> 0]

HubInit ==
  /\ NoRequests
  /\ conn = TRUE /\ reader = Receiving /\ handler = "authenticate"

Calls(i, state) == caller' = [caller EXCEPT ![i] = state]

-----------------------------------------------------------------------------
(* Callers *)

\* Closing every channel of ids: each must be open still.
ClosesChannels(ids) ==
  /\ channel' = [i \in Ids |-> IF i \in ids THEN "closed" ELSE channel[i]]
  /\ misused' = (misused \/ \E i \in ids : channel[i] # "open")

\* Hub.track, in Request or SendTracked: what is overdue is swept, the new id tracked.
\* Only an authenticated connection is used by others than its handler.
Track(i) ==
  /\ caller[i] = "idle" /\ Cardinality({j \in Ids : caller[j] # "idle"}) < MaxRequests
  /\ IF i = Handshake THEN handler = "authenticate" ELSE handler # "authenticate"
  /\ ~ (handler = "done" /\ closer["newer connection"] = "done")
  /\ \E stale \in SUBSET tracked :
       /\ tracked' = (tracked \ stale) \cup {i}
       /\ channel' = [j \in Ids |-> IF j = i THEN "open"
                                    ELSE IF j \in stale THEN "closed" ELSE channel[j]]
       /\ misused' = (misused \/ \E j \in stale : channel[j] # "open")
  /\ Calls(i, "tracked")
  /\ UNCHANGED <<conn, reader, handler, closer, cancelled, feed, ingested>>

\* Hub.Send.  A request that cannot be sent is forgotten; of a GetData that was sent
\* nobody waits for the end.
SendRequest(i) ==
  /\ caller[i] = "tracked"
  /\ Calls(i, IF ~conn THEN "refused" ELSE IF i \in Polls THEN "sent" ELSE "waiting")
  /\ UNCHANGED <<tracked, channel, misused, conn, reader, handler,
                 closer, cancelled, feed, ingested>>

\* The select of Request: the context is over, or the channel has an answer or is closed.
Select(i) ==
  /\ caller[i] = "waiting"
  /\ \/ channel[i] = "answered" /\ Calls(i, "answered")
     \/ Calls(i, "refused")
  /\ UNCHANGED <<tracked, channel, misused, conn, reader, handler,
                 closer, cancelled, feed, ingested>>

Returned(i) == caller[i] \in {"returned", "succeeded"}

\* Hub.forget, deferred or after a failed send.
Forget(i) ==
  /\ caller[i] \in {"refused", "answered"}
  /\ Calls(i, IF caller[i] = "answered" THEN "succeeded" ELSE "returned")
  /\ tracked' = tracked \ {i}
  /\ UNCHANGED <<channel, misused, conn, reader, handler, closer,
                 cancelled, feed, ingested>>

-----------------------------------------------------------------------------
(* The reader *)

\* An answer of the agent arrives.
Receive(i, failed) ==
  /\ reader.at = "receive" /\ conn
  /\ caller[i] \notin {"idle", "tracked"}
  /\ reader' = [at |-> "route", id |-> i, failed |-> failed]
  /\ UNCHANGED <<tracked, channel, caller, misused, conn, handler, closer,
                 cancelled, feed, ingested>>

\* Mutant of Route: the id stays in the list.
RouteKeeping ==
  /\ reader.at = "route"
  /\ LET i == reader.id IN
       \E inTime, handedOn \in BOOLEAN :
         /\ inTime => i \in tracked
         /\ handedOn => inTime /\ i \in Polls /\ ~reader.failed
         /\ channel' = IF inTime THEN [channel EXCEPT ![i] = IF reader.failed THEN "failed"
                                                             ELSE "answered"]
                       ELSE channel
         /\ misused' = (misused \/ (inTime /\ channel[i] # "open"))
         /\ reader' = IF handedOn THEN [reader EXCEPT !.at = "hand over"] ELSE Receiving
  /\ UNCHANGED <<tracked, caller, conn, handler, closer, cancelled, feed, ingested>>

\* Hub.Route: a tracked id is taken out, and its caller answered when it is in time; an
\* answer to a GetData that is still in time after the lock is handed on.
Route ==
  /\ reader.at = "route"
  /\ LET i == reader.id IN
       \E inTime, handedOn \in BOOLEAN :
         /\ inTime => i \in tracked
         /\ handedOn => inTime /\ i \in Polls /\ ~reader.failed
         /\ tracked' = tracked \ {i}
         /\ channel' = IF inTime THEN [channel EXCEPT ![i] = IF reader.failed THEN "failed"
                                                             ELSE "answered"]
                       ELSE channel
         /\ misused' = (misused \/ (inTime /\ channel[i] # "open"))
         /\ reader' = IF handedOn THEN [reader EXCEPT !.at = "hand over"] ELSE Receiving
  /\ UNCHANGED <<caller, conn, handler, closer, cancelled, feed, ingested>>

\* Into the handler's channel, or not at all once the connection is over.
HandOver ==
  /\ reader.at = "hand over"
  /\ \/ /\ Len(feed) < FeedLimit
        /\ feed' = Append(feed, reader.id)
        /\ reader' = Receiving
     \/ /\ cancelled
        /\ reader' = [Receiving EXCEPT !.at = "closing"]
        /\ UNCHANGED feed
  /\ UNCHANGED <<tracked, channel, caller, misused, conn, handler,
                 closer, cancelled, ingested>>

\* The socket fails, or was closed.
ReceiveFails ==
  /\ reader.at = "receive"
  /\ reader' = [Receiving EXCEPT !.at = "closing"]
  /\ UNCHANGED <<tracked, channel, caller, misused, conn, handler,
                 closer, cancelled, feed, ingested>>

-----------------------------------------------------------------------------
(* The handler *)

\* The agent is authenticated, or its connection given up.
Authenticated ==
  /\ handler = "authenticate" /\ Returned(Handshake)
  /\ handler' = IF caller[Handshake] = "succeeded" THEN "serve" ELSE "closing"
  /\ UNCHANGED <<tracked, channel, caller, misused, conn, reader, closer,
                 cancelled, feed, ingested>>

\* An answer is ingested; a failure ends the connection.
Ingest ==
  /\ handler = "serve" /\ feed # <<>>
  /\ feed' = Tail(feed)
  /\ ingested' = [ingested EXCEPT ![Head(feed)] = @ + 1]
  /\ handler' \in {"serve", "closing"}
  /\ UNCHANGED <<tracked, channel, caller, misused, conn, reader, closer,
                 cancelled>>

HandlerCancelled ==
  /\ handler = "serve" /\ cancelled
  /\ handler' = "closing"
  /\ UNCHANGED <<tracked, channel, caller, misused, conn, reader, closer,
                 cancelled, feed, ingested>>

-----------------------------------------------------------------------------
(* Close *)

\* Hub.Close: a reader and a handler that leave, Manager.Register of a newer connection
\* or CloseAgent.  cancelPending ends what is tracked ...
CancelPending(c) ==
  /\ closer[c] = "away"
  /\ CASE c = "reader"  -> reader.at = "closing"
       [] c = "handler" -> handler = "closing"
       [] OTHER         -> handler # "authenticate"
  /\ closer' = [closer EXCEPT ![c] = "cancelled"]
  /\ tracked' = {}
  /\ ClosesChannels(tracked)
  /\ UNCHANGED <<caller, conn, reader, handler, cancelled, feed, ingested>>

\* ... then the socket is closed; what is tracked in between stays so.  The reader and
\* the handler cancel the context last.
HangUp(c) ==
  /\ closer[c] = "cancelled"
  /\ closer' = [closer EXCEPT ![c] = "done"]
  /\ conn' = FALSE
  /\ cancelled' = (cancelled \/ c \in {"reader", "handler"})
  /\ reader' = IF c = "reader" THEN [Receiving EXCEPT !.at = "done"] ELSE reader
  /\ handler' = IF c = "handler" THEN "done" ELSE handler
  /\ UNCHANGED <<tracked, channel, caller, misused, feed, ingested>>

\* When all is over the next connection of the agent gets a hub of its own.
Over == /\ reader.at = "done" /\ handler = "done"
        /\ \A i \in Ids : caller[i] \in {"idle", "returned", "succeeded", "sent"}
NextHub ==
  /\ Over
  /\ closer["newer connection"] \in {"away", "done"}
  /\ tracked' = {}
  /\ channel' = [i \in Ids |-> "none"]
  /\ caller' = [i \in Ids |-> "idle"]
  /\ conn' = TRUE /\ cancelled' = FALSE
  /\ reader' = Receiving /\ handler' = "authenticate"
  /\ closer' = [c \in Closers |-> "away"]
  /\ feed' = <<>> /\ ingested' = [i \in Ids |-> 0]
  /\ UNCHANGED misused

-----------------------------------------------------------------------------

CallerSteps(i) == Track(i) \/ SendRequest(i) \/ Select(i) \/ Forget(i)
ReaderSteps == Route \/ HandOver
HandlerSteps == Authenticated \/ Ingest \/ HandlerCancelled

HubNext ==
  \/ \E i \in Ids : CallerSteps(i) \/ \E failed \in BOOLEAN : Receive(i, failed)
  \/ ReaderSteps \/ ReceiveFails \/ HandlerSteps
  \/ \E c \in Closers : CancelPending(c) \/ HangUp(c)
  \/ NextHub

\* Callers, the reader and the handler go on (a caller at the latest at its deadline), a
\* reader notices that the socket is closed.  Nothing says that an agent answers or that
\* a connection ends.
HubFairness ==
  /\ \A i \in Ids : WF_hubVars(SendRequest(i) \/ Select(i) \/ Forget(i))
  /\ WF_hubVars(Track(Handshake))
  /\ WF_hubVars(ReaderSteps) /\ WF_hubVars(HandlerSteps)
  /\ WF_hubVars(~conn /\ ReceiveFails)
  /\ \A c \in Closers \ {"newer connection"} : WF_hubVars(CancelPending(c))
  /\ \A c \in Closers : WF_hubVars(HangUp(c))

HubSpec == HubInit /\ [][HubNext]_hubVars /\ HubFairness

-----------------------------------------------------------------------------
(* Properties *)

\* However answers, deadlines and the three closes fall, no channel is used after it was
\* closed (which would end the whole program), and the answer to a GetData is ingested
\* once at most, even when the agent repeats it (track, Route, forget, cancelPending).
AnswersUsedOnce ==
  /\ ~misused
  /\ \A i \in Ids : ingested[i] + Cardinality({k \in DOMAIN feed : feed[k] = i}) <= 1
  /\ \A i \in Awaited : ingested[i] = 0

\* One side of a connection has gone, or is about to.
OneSided == ~conn \/ cancelled \/ reader.at = "closing" \/ handler = "closing"
=============================================================================
