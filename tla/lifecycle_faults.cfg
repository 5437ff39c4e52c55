\* Signals interrupt no system call, or any that can wait; any set of them fails
\* otherwise.
SPECIFICATION Spec
CONSTANTS
  NumBufs    = 3
  Counts     = {0, 2, 4}
  SignalSets = {{}, {"REQBUFS", "QUERYBUF", "MMAP", "STREAMOFF", "FREEBUFS", "CLOSE"}}
  ErrorSets  <- MCErrorSets
  TimeoutSet = TRUE
INVARIANTS
  TypeOK
  NoUseAfterClose
  ArenaCoversQueue
  MappingsFreed
  PanicsContained
PROPERTY
  ReleasedUnlessEmpty
\* An aborted process stops.
CHECK_DEADLOCK FALSE
