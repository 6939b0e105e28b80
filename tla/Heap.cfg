\* Eight blocks of three bytes.  Requests for nothing, for exactly one block, for
\* two, three (that is four) and five (that is eight) blocks, and for more than
\* there are; addresses just before and behind the heap.
CONSTANTS
  Total = 8
  MinBlock = 3
  HEAP = 16
  Sizes = {0, 3, 4, 7, 13, 25}
  Foreign = {0, 15, 40}
SPECIFICATION Spec
INVARIANTS LongestIsExact ClearsItsPiece BytesAreOwned
PROPERTIES ImplementsAllocator
