\* Nested processes, slot reuse, a full pool; a heap for idle and three threads
\* that runs out when a thread is made while characters wait, or of queue nodes.
CONSTANTS
  MaxThread = 3
  MaxTime = 1
  HeapSize = 14
  StackSize = 3
  MaxStack = 4
  FileSize = 1
  Char = {"CR", "LF"}
  MaxTyped = 3
  Files = {1}
SPECIFICATION Spec
INVARIANTS
  TypeOK ReadyIsQueued SleeperIsAwaited WokenReaderFindsChar
  StacksAreOwned NoWildSwitch InputInOrder
