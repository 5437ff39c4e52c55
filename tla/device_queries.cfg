\* Three entries, or two controls and one entry; a word of three bits, so that 6 and 9
\* do not fit a signed one.
SPECIFICATION Spec
CONSTANTS
  MaxEntries = 3
  MaxWrites = 2
  Devices <- MCDevices
  Numbers <- MCNumbers
  Ranges <- MCRanges
  Word = 8
  Faults = {"EIO"}
INVARIANTS
  TypeOK
  
  ReadsBackWhatFits
  ToDiscreteExact
