\* Seven splitters in a tree of three levels, every sample of fourteen keys
\* out of the seven that two characters and the terminator allow.
CONSTANTS
  KeyWidth = 2
  NumChars = 3
  TreeBits = 3
  Oversample = 2
  Rollout = 4
  SampleKeys <- AllKeys
SPECIFICATION Spec
INVARIANTS
  InterleavedRight
  SplittersOrdered
  TreeCalcExact
  ClassifyRight
  EqualVariantRight
  DepthSound
