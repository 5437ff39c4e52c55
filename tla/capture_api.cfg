\* Any use of the API, any failure, two rounds of two frames.
SPECIFICATION Spec
CONSTANTS
  NumBufs    = 3
  Frames     = {f1, f2}
  Blank      = blank
  Timeouts   = {0}
  Faults     = {}
  RetriesMod = 1
INVARIANTS
  TypeOK
  BookkeepingMatchesKernel
  LentIsStable
  CursorExact
  StartupComplete
  NextNeverRequeues
  PipelineFull
  NextNeverMisusesKernel
PROPERTIES
  ImplementsFrameSource
