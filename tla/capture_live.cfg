\* Calls with a timeout return; frames keep coming to who keeps asking.
SPECIFICATION FairSpec
CONSTANTS
  NumBufs    = 2
  Frames     = {f1}
  Blank      = blank
  Timeouts   = {1}
  Faults     = {}
  RetriesMod = 2
PROPERTIES
  TimedCallReturns
  FramesKeepComing
