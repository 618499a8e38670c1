------------------------------ MODULE History -------------------------------
(***************************************************************************)
(* The history of measurements: writeHistory appends an entry to a vector  *)
(* on the main thread, getHistoryCsv walks over it on the server's.        *)
(* Nothing is locked.                                                      *)
(*                                                                         *)
(* One entry is written per unit of time, so the entry of slot i is its    *)
(* time, boot + i.  An append into a block with room is two stores that    *)
(* the other thread may see in either order; an append to a full block     *)
(* moves the vector, and an iterator into the old one is stale: it never   *)
(* meets end() but by accident and reads freed memory until then.          *)
(***************************************************************************)
EXTENDS Integers, Sequences

CONSTANTS
  Boots,       \* what time() may say when the program starts
  Spans,       \* the time spans /hist asks for, 0 for everything
  MaxEntries,  \* bound on the length of the history
  Garbage,     \* what an uninitialised or freed slot holds
  Word         \* 2^w, w the width of unsigned long

ASSUME HistoryAssumption ==
  /\ Boots \subseteq Nat /\ Spans \subseteq Nat /\ MaxEntries \in Nat
  /\ Word \in Nat \ {0}
  /\ \A b \in Boots : b + MaxEntries < Word

VARIABLES
  boot,      \* time() at the start
  entries,   \* the slots of _history_array, the one being appended included
  unseen,    \* the stores of the append that others do not see yet
  download   \* getHistoryCsv under way

historyVars == <<boot, entries, unseen, download>>

-----------------------------------------------------------------------------
NoDownload == <<>>

now == boot + Len(entries)

\* end() - begin(), as the other thread sees it
finish == IF "finish" \in unseen THEN Len(entries) - 1 ELSE Len(entries)

\* The block is full: its size doubles, from nothing.
Full == Len(entries) = 0 \/ \E k \in 0..Len(entries) : Len(entries) = 2^k

\* push_back of writeHistory
writeHistory ==
  /\ unseen = {} /\ Len(entries) < MaxEntries
  /\ entries' = Append(entries, now + 1)
  /\ unseen' = IF Full THEN {} ELSE {"slot", "finish"}
  /\ download' = IF download # NoDownload /\ Full
                   THEN [download EXCEPT !.stale = TRUE] ELSE download
  /\ UNCHANGED boot

StoreSeen ==
  /\ \E store \in unseen : unseen' = unseen \ {store}
  /\ UNCHANGED <<boot, entries, download>>

-----------------------------------------------------------------------------
\* "targettime = time(NULL) - (timespan *3600)", unsigned
Target(span) == IF span > 0 THEN (now - span) % Word ELSE 0

\* began and span are history: the property is stated in them.
BeginDownload(span) ==
  /\ download = NoDownload
  /\ download' = [next |-> 1, rows |-> <<>>, target |-> Target(span), stale |-> FALSE,
                  torn |-> FALSE, began |-> now, span |-> span, present |-> finish]
  /\ UNCHANGED <<boot, entries, unseen>>

\* Mutant: an entry as old as the span is shown.
WithinInclusive(time) == time >= download.target

Within(time) == time > download.target

AtEnd == download.next > finish

\* One turn of the loop.  A slot not yet written may pass for any time.
Row ==
  /\ download # NoDownload /\ ~download.stale /\ ~AtEnd
  /\ LET d    == [download EXCEPT !.next = @ + 1]
         time == entries[download.next] IN
     IF "slot" \in unseen /\ download.next = Len(entries)
       THEN download' \in {[d EXCEPT !.torn = TRUE],
                           [d EXCEPT !.torn = TRUE, !.rows = Append(@, Garbage)]}
       ELSE download' = IF Within(time) THEN [d EXCEPT !.rows = Append(@, time)] ELSE d
  /\ UNCHANGED <<boot, entries, unseen>>

EndDownload ==
  /\ download # NoDownload /\ ~download.stale /\ AtEnd
  /\ download' = NoDownload
  /\ UNCHANGED <<boot, entries, unseen>>

\* A stale iterator meets end() by accident, after rows of garbage.
EndStale ==
  /\ download # NoDownload /\ download.stale
  /\ download' = NoDownload
  /\ UNCHANGED <<boot, entries, unseen>>

\* Or it leaves the heap before.
Fault == download # NoDownload /\ download.stale

DownloadStep == Row \/ EndDownload \/ EndStale

HistoryInit ==
  /\ boot \in Boots
  /\ entries = <<>> /\ unseen = {} /\ download = NoDownload
=============================================================================
