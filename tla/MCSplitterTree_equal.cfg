\* get_splitter of the equality variants.
CONSTANTS
  KeyWidth = 2
  NumChars = 3
  TreeBits = 2
  Oversample = 2
  Rollout = 4
  SampleKeys <- AllKeys
SPECIFICATION Spec
INVARIANTS
  EqualBucketHasSplitter
