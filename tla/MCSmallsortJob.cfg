\* Three splitters; seven strings make a large bucket, four a quicksort frame.
CONSTANTS
  KeyWidth = 2
  NumChars = 3
  NumSplitters = 3
  SmallThreshold = 7
  InsThreshold = 4
  FreeBatch = 1
  Inputs <- SomeInputs
  Searched <- ShortStrings
  Moved <- NoString
  UseLcpInssort = FALSE
SPECIFICATION FairSpec
INVARIANTS
  SortedWhenTold
  OutputSearchable
  OwnedOnce
  HandlesExact
  FramesSound
PROPERTIES
  LcpOnce
  Finishes
