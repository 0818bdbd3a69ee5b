\* Three threads and three jobs: enough for a thread that pops while counted
\* idle, one that leaves early and one that still spins.  No symmetry, since
\* liveness is checked too.
CONSTANTS
  Threads = {t1, t2, t3}
  Jobs = {j1, j2, j3}
  NoJob = NoJob
SPECIFICATION FairSpec
INVARIANTS
  TypeOK
  QueuedWorkHasWorker
PROPERTIES
  LeaveWhenNobodyRuns
  ImplementsPool
  Termination
  EveryJobRuns
