\* Samples of five to seven strings with three splitters, at least five for a
\* sample sort and three for a radix sort.
CONSTANTS
  KeyWidth = 2
  NumChars = 3
  TreeBits = 2
  UseLcpInssort = FALSE
  Moved <- NoString
  SmallSort = 5
  InsThreshold = 3
  SampleSize = 6
  Input <- AllInput
SPECIFICATION FairSpec
INVARIANTS
  SortedAtEnd
  DepthShared
  PlacedRight
  SubtreesAligned
PROPERTIES
  Ends
