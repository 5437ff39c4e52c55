\* Any use of the API, any failure; what next gives an application that uses
\* nothing else, and that it keeps giving.
SPECIFICATION OutputSpec
CONSTANTS
  NumBufs    = 2
  Frames     = {f1, f2}
  Blank      = blank
  Timeouts   = {1}
  Faults     = {}
  RetriesMod = 1
INVARIANTS
  BookkeepingMatchesKernel
  ClientLentIsStable
PROPERTIES
  ImplementsFrameSink
  BuffersKeepComing
