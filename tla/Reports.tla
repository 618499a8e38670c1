------------------------------ MODULE Reports -------------------------------
(***************************************************************************)
(* What the program reports over HTTP: history and event stream.  Both are *)
(* served by the one thread of the web server, which finishes a download   *)
(* before it completes a send; they share nothing else.  So a behaviour    *)
(* follows one visitor, who asks for the one or for the other.             *)
(***************************************************************************)
EXTENDS History, Stream

VARIABLE visitor

reportVars == <<historyVars, streamVars, visitor>>

\* hmcoreLoop writes the history when it is due, hist downloads it.
HistoryNext ==
  /\ visitor = "history"
  /\ writeHistory \/ StoreSeen \/ (\E span \in Spans : BeginDownload(span)) \/ DownloadStep
  /\ UNCHANGED <<streamVars, visitor>>

\* The process dies of a stale iterator and is started anew.
Crash ==
  /\ Fault
  /\ boot' \in Boots /\ entries' = <<>> /\ unseen' = {} /\ download' = NoDownload
  /\ UNCHANGED <<streamVars, visitor>>

\* A period measures anew, and may have news; a command of /set has none.
Measured ==
  \E s \in Status, isNews \in BOOLEAN : visitor = "stream" /\ StatusChanges(s, isNews)

Streaming == StreamThread /\ UNCHANGED <<historyVars, visitor>>

Completing == Complete /\ UNCHANGED <<historyVars, visitor>>

Resetting == ConnectionReset /\ UNCHANGED <<historyVars, visitor>>

StreamNext ==
  \/ visitor = "stream" /\ OpenStream /\ UNCHANGED <<historyVars, visitor>>
  \/ (Measured \/ ClientStep \/ RivalAsks) /\ UNCHANGED <<historyVars, visitor>>
  \/ Streaming \/ Completing \/ Resetting

ReportsInit == HistoryInit /\ StreamInit /\ visitor \in {"history", "stream"}

ReportsNext == HistoryNext \/ Crash \/ StreamNext

\* The stream's thread and the server's run, the network gives up for good.
ReportsSpec ==
  /\ ReportsInit /\ [][ReportsNext]_reportVars
  /\ WF_reportVars(Streaming) /\ WF_reportVars(Completing) /\ WF_reportVars(Resetting)

-----------------------------------------------------------------------------
\* Overlapping sends confuse what was sent with what is in the buffer, but
\* the newest event begins no later than the newest send: once all sends have
\* succeeded nothing waits in the buffer for a later one (the stream would
\* otherwise lag behind by one status for good).
ReportsTypeOK ==
  /\ unseen \subseteq {"slot", "finish"} /\ Len(entries) <= MaxEntries
  /\ status \in Status /\ shown \in Status \cup {Nothing}
  /\ buffer \in Seq(Events) /\ Len(buffer) <= MaxPending /\ Len(sends) <= MaxPending
  /\ sends = <<>> /\ client # "gone" /\ pc \in {"sleep", "status", "internals"}
       => buffer = <<>>

Ascending(s) == \A i, j \in DOMAIN s : i < j => s[i] < s[j]

\* The time lies within the span asked for.
Asked(time) == download.span > 0 => time > download.began - download.span

\* A history downloaded shows each entry of the time span once and in order,
\* those written while it was under way included, unless the vector moved
\* meanwhile, a slot was read before it was written, or the clock, not yet
\* set, is younger than the span (getHistoryCsv).
HistoryIsComplete ==
  [][ EndDownload /\ ~download.torn /\ download.span <= download.began
        => /\ download.next > download.present
           /\ Ascending(download.rows)
           /\ Range(download.rows) = {t \in Range(SubSeq(entries, 1, download.next - 1)) : Asked(t)}
    ]_reportVars

\* Once the status stays as it is, a client that keeps reading sees it, for
\* good, whatever sends overlapped before.
StreamShowsStatus ==
  <>[][status' = status]_reportVars /\ <>[](client = "reading")
    => <>[](shown = status)

\* The thread of a client that went away ends; streams do not pile up.
StreamEnds == client = "gone" ~> pc = "none"
=============================================================================
