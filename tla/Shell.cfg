\* Five characters and the terminating zero: room for a built-in, a blank and
\* an argument.
CONSTANTS
  LineSize = 6
  Letters = {"l", "s", "c", "d", "p", "w"}
  SHUTDOWN <- Word
  Fresh <- Contents
  Behind <- Texts
SPECIFICATION Spec
INVARIANTS BufferIsScreen DoesWhatWasTyped
PROPERTIES ReadsStayInside
