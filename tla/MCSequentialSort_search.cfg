\* Repeated strings that end within a key, by the variant with a binary
\* search.
CONSTANTS
  KeyWidth = 2
  NumChars = 3
  TreeBits = 2
  UseLcpInssort = FALSE
  Moved <- NoString
  SmallSort = 5
  InsThreshold = 3
  SampleSize = 6
  Input <- SearchInput
SPECIFICATION FairSpec
INVARIANTS
  TerminatedIsDone
