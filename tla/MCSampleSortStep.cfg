\* Two splitters: five buckets.
CONSTANTS
  KeyWidth = 2
  NumChars = 4
  Null = Null
  Moved = 0
  MaxProcs = 4
  SmallThreshold = 1
  NumSplitters = 2
  Inputs <- SomeInputs
SPECIFICATION FairSpec
INVARIANTS
  SortedWhenTold
  PworkExact
  HandlesExact
  ArraysLive
  SubstepDepthSound
PROPERTIES
  NoOverwrite
  Finishes
