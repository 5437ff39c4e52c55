\* queue(0) followed by the first next() lends a buffer the driver owns.
SPECIFICATION OutputSpec
CONSTANTS
  NumBufs    = 2
  Frames     = {f1}
  Blank      = blank
  Timeouts   = {}
  Faults     = {}
  RetriesMod = 1
INVARIANTS
  LendsFree
