\* Clock units of a third of a millisecond, timeouts from none to too long.
SPECIFICATION Spec
CONSTANTS
  Milli     = 3
  MaxMillis = 3
  Durations = {0, 2, 3, 7, 11, 12}
  Horizon   = 14
INVARIANTS
  TypeOK
  NeverOversleeps
PROPERTIES
  NotTooEarly
  GivesUpOnlyAfterSleep
\* set_timeout panics on a timeout that is too long.
CHECK_DEADLOCK FALSE
