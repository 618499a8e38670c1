------------------------------- MODULE Stream -------------------------------
(***************************************************************************)
(* The event stream of one client (/stream, src/websrv/gom_server.cpp): a  *)
(* thread of its own appends a status every second, and the internals of   *)
(* the control law when they are news, to the response's buffer and begins *)
(* to send it; the server's thread completes the sends and calls back.     *)
(*                                                                         *)
(* A send takes what the buffer holds when it begins, and on completion    *)
(* that much is consumed of what the buffer holds then.  Sends overlap, so *)
(* an event may arrive twice, or be consumed unsent.                       *)
(***************************************************************************)
EXTENDS Integers, Sequences, SequencesExt

CONSTANTS
  Status,      \* what getProbeData reports
  Nothing,
  MaxPending   \* bound on the events in the buffer and on the sends begun

ASSUME StreamAssumption == MaxPending \in Nat /\ MaxPending >= 3 /\ Nothing \notin Status

VARIABLES
  status,   \* what getProbeData reports now
  news,     \* the internals differ from oldpt, or have not been logged
  pc,       \* where the stream's thread is, "none" without a stream
  running,
  buffer,   \* the events in the response's streambuf
  sends,    \* async_write operations begun, in order
  client,   \* the client's side of the connection
  shown     \* the status the client received last

streamVars == <<status, news, pc, running, buffer, sends, client, shown>>

-----------------------------------------------------------------------------
Header    == "header"
Internals == "pidint"
Events    == Status \cup {Header, Internals}

\* The last of the statuses in what was received
LastStatus(events) ==
  LET statuses == {i \in DOMAIN events : events[i] \in Status}
  IN IF statuses = {} THEN shown ELSE events[Max(statuses)]

\* Response::send; watched when it has the callback that ends the thread
Send(watched) ==
  /\ sends' = Append(sends, [sent |-> buffer, watched |-> watched])
  /\ UNCHANGED buffer

\* GET /stream.  The response's header is appended and sent at once.
OpenStream ==
  /\ pc = "none" /\ client = "none" /\ sends = <<>>
  /\ client' = "reading" /\ shown' = Nothing
  /\ running' = TRUE /\ pc' = "status"
  /\ buffer' = <<Header>>
  /\ sends' = <<[sent |-> <<Header>>, watched |-> FALSE]>>
  /\ UNCHANGED <<status, news>>

\* getProbeData, which always reports a change
AppendStatus ==
  /\ pc = "status"
  /\ buffer' = Append(buffer, status)
  /\ pc' = "sendStatus"
  /\ UNCHANGED <<status, news, running, sends, client, shown>>

\* Mutant: the status waits for the internals to be sent.
SendStatusLater ==
  /\ pc = "sendStatus"
  /\ pc' = "internals"
  /\ UNCHANGED <<status, news, running, buffer, sends, client, shown>>

SendStatus ==
  /\ pc = "sendStatus"
  /\ Send(TRUE)
  /\ pc' = "internals"
  /\ UNCHANGED <<status, news, running, client, shown>>

\* getPidData: news is news once, to whichever stream asks first.
AppendInternals ==
  /\ pc = "internals"
  /\ news' = FALSE
  /\ IF news THEN buffer' = Append(buffer, Internals) /\ pc' = "sendInternals"
             ELSE pc' = "sleep" /\ UNCHANGED buffer
  /\ UNCHANGED <<status, running, sends, client, shown>>

SendInternals ==
  /\ pc = "sendInternals"
  /\ Send(TRUE)
  /\ pc' = "sleep"
  /\ UNCHANGED <<status, news, running, client, shown>>

Room == Len(buffer) + 2 <= MaxPending /\ Len(sends) + 2 <= MaxPending

\* "while (running)", a second later
Wake ==
  /\ pc = "sleep"
  /\ \/ ~running /\ pc' = "none"
     \/ running /\ Room /\ pc' = "status"
  /\ UNCHANGED <<status, news, running, buffer, sends, client, shown>>

StreamThread ==
  AppendStatus \/ SendStatus \/ AppendInternals \/ SendInternals \/ Wake

-----------------------------------------------------------------------------
\* Mutant: what was sent stays in the buffer.
SentUnconsumed ==
  /\ sends # <<>> /\ client \in {"reading", "leaving"}
  /\ shown' = IF client = "reading" THEN LastStatus(Head(sends).sent) ELSE shown
  /\ sends' = Tail(sends)
  /\ UNCHANGED <<status, news, pc, running, buffer, client>>

\* The server's thread takes the result of the oldest send.
Sent ==
  /\ sends # <<>> /\ client \in {"reading", "leaving"}
  /\ LET op == Head(sends) IN
     /\ buffer' = SubSeq(buffer, Len(op.sent) + 1, Len(buffer))
     /\ shown' = IF client = "reading" THEN LastStatus(op.sent) ELSE shown
  /\ sends' = Tail(sends)
  /\ UNCHANGED <<status, news, pc, running, client>>

\* Mutant: an error leaves the thread running.
SendFailedUnnoticed ==
  /\ sends # <<>> /\ client = "gone"
  /\ sends' = Tail(sends)
  /\ UNCHANGED <<status, news, pc, running, buffer, client, shown>>

SendFailed ==
  /\ sends # <<>> /\ client = "gone"
  /\ running' = (running /\ ~Head(sends).watched)
  /\ sends' = Tail(sends)
  /\ UNCHANGED <<status, news, pc, buffer, client, shown>>

Complete == Sent \/ SendFailed

-----------------------------------------------------------------------------
\* What the client does: read, not read, go away.
ClientStep ==
  /\ \/ client = "reading" /\ client' \in {"stalled", "leaving"}
     \/ client = "stalled" /\ client' \in {"reading", "leaving"}
     \/ client = "gone" /\ pc = "none" /\ sends = <<>> /\ client' = "none"
  /\ UNCHANGED <<status, news, pc, running, buffer, sends, shown>>

\* The network gives a client that went away up; until then what is sent to
\* it is accepted.
ConnectionReset ==
  /\ client = "leaving" /\ client' = "gone"
  /\ UNCHANGED <<status, news, pc, running, buffer, sends, shown>>

\* Another stream takes the news.
RivalAsks ==
  /\ news /\ news' = FALSE
  /\ UNCHANGED <<status, pc, running, buffer, sends, client, shown>>

StatusChanges(s, isNews) ==
  /\ status' = s
  /\ news' = (news \/ isNews)
  /\ UNCHANGED <<pc, running, buffer, sends, client, shown>>

StreamInit ==
  /\ status \in Status /\ news = FALSE
  /\ pc = "none" /\ running = FALSE /\ buffer = <<>> /\ sends = <<>>
  /\ client = "none" /\ shown = Nothing
=============================================================================
