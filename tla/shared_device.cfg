\* Two threads, two formats and one set of parameters in force, buffers of one and of two bytes.
SPECIFICATION Spec
CONSTANTS
  t1 = t1
  t2 = t2
  small = small
  full = full
  large = large
  strange = strange
  slow = slow
  odd = odd
  Threads <- MCThreads
  Formats <- MCFormats
  Params <- MCParams
  Pix <- MCPix
  Parm <- MCParm
  Adjusted <- MCAdjusted
  MaxBufs = 2
SYMMETRY Symmetry
INVARIANTS
  TypeOK
  DriverHoldsLiveMemory
PROPERTIES
  FailedConstructionHarmless
  ReportsActualValue
\* A panic while a thread unwinds ends the process.
CHECK_DEADLOCK FALSE
