\* Signals alone: dropping a stream panics.
SPECIFICATION Spec
CONSTANTS
  NumBufs    = 2
  Counts     = {2}
  SignalSets = {{"FREEBUFS"}}
  ErrorSets  = {{}}
  TimeoutSet = FALSE
INVARIANTS
  SignalsNeverPanic
