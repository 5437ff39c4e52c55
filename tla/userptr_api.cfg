\* Any use of the API, any failure; what next gives who uses nothing else.
SPECIFICATION Spec
CONSTANTS
  NumBufs    = 2
  Frames     = {f1, f2}
  Blank      = blank
  Timeouts   = {0, 1}
  Faults     = {"EIO"}
INVARIANTS
  TypeOK
  LentIsStable
PROPERTIES
  EinvalOnlyAfterFailure
  ImplementsFrameSource
