\* One string, set by the application.
SPECIFICATION Spec
CONSTANTS
  MaxEntries = 1
  MaxWrites = 1
  Devices <- MCStringOnly
  Numbers = {0, 1}
  Ranges = {}
  Word = 8
  Faults = {}
INVARIANT
  PayloadArrives
