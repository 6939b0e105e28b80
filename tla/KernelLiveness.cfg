\* One process and one child at a time, slices of two ticks, changing file tables.
CONSTANTS
  MaxThread = 2
  MaxTime = 2
  HeapSize = 11
  StackSize = 3
  MaxStack = 3
  FileSize = 1
  Char = {"CR", "LF"}
  MaxTyped = 2
  Files = {1, 2}
SPECIFICATION FairSpec
INVARIANTS ThreadIsWhereItLeft SliceIsCharged
PROPERTIES ReadyRuns ReaderReturns
