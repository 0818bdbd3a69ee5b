\* Up to five threads and three queues, each with up to two jobs.
CONSTANTS
  ThreadCounts <- OneToFive
  QueueCounts <- OneToThree
  MaxJobs = 2
SPECIFICATION FairGroupSpec
INVARIANTS
  TeamsFit
PROPERTIES
  LaunchEnds
