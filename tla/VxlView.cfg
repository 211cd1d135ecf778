SPECIFICATION Spec
CONSTANTS
  None = None
  NoText = NoText
  Unreadable = Unreadable
  Freed = Freed
  Lost = Lost
  MaxLost = 1
  Files = {1, 2}
  Severities = {"error", "debug"}
  Components <- MCComponents
  Texts = {"a", "b"}
  Entries <- MCEntries
  Filters <- MCFilters
  InitialLogs <- MCInitialLogs
  MaxEntries = 3
  Threshold = 3
  JunkReads <- MCJunk
  Exporters = {e1, e2}
INVARIANTS
  RowsAreSelected
  EveryEntryHasARow
  ExportIsComplete
PROPERTIES
  WindowComesBack
CHECK_DEADLOCK FALSE
