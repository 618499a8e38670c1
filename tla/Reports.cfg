\* Four entries: three appends move the vector, the fourth is in place.
SPECIFICATION ReportsSpec
CONSTANTS
  Boots = {0, 4}
  Spans = {0, 2}
  MaxEntries = 4
  Garbage = Garbage
  Word = 256
  Status = {"cold", "hot"}
  Nothing = Nothing
  MaxPending = 3
INVARIANTS
  ReportsTypeOK
PROPERTIES
  HistoryIsComplete
  StreamShowsStatus
  StreamEnds
