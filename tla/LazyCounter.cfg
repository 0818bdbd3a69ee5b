\* Two workers that may both be in update() at once, three strings.
CONSTANTS
  NumThreads = 2
  Slots = 2
  Total = 3
  MaxUpdates = 2
SPECIFICATION Spec
INVARIANTS
  Conservation
  LoneUpdaterNeverBelow
  NothingRests
