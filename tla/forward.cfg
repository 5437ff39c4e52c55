\* Forwarding three frames between two devices that may fail at any time.
SPECIFICATION FairSpec
CONSTANTS
  Frames   = {f1, f2}
  Blank    = blank
  None     = none
  Shapes   = {s1, s2}
  Lengths  = {1, 2}
  Capacity = 2
  Count    = 3
INVARIANTS
  TypeOK
  EndToEnd
PROPERTIES
  Terminates
CHECK_DEADLOCK FALSE
