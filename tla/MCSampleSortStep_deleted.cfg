\* The documented meaning of pwork.
CONSTANTS
  KeyWidth = 2
  NumChars = 4
  Null = Null
  Moved = 0
  MaxProcs = 4
  SmallThreshold = 1
  NumSplitters = 1
  Inputs <- PlainInputs
SPECIFICATION Spec
INVARIANTS
  DeletedWhenNobodyWorks
