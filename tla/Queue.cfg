\* The two queues of standard input, on a heap of four nodes.
CONSTANTS
  Name = {"buf", "waitQueue"}
  Item = {1, 2}
  Node = {n1, n2, n3, n4}
  NULL = NULL
SPECIFICATION Spec
INVARIANTS ListHoldsChain NodesAreOwned
PROPERTIES ImplementsFifo
