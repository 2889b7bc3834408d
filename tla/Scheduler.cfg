\* The default pool (Parallel = 0 becomes 2), three jobs, two retry waves, a budget
\* that may trip, a context that may end.
SPECIFICATION FairSpec
CONSTANTS
  NumJobs = 3
  Parallel = 0
  MaxTokens = 1
  Retry = 2
  JobTokens = 1
  MayEnd = TRUE
INVARIANTS
  OneWorkerPerJob
  RetriesFollowErrors
  BoundedOvershoot
  NoJobLost
PROPERTIES
  ImplementsLedger
  UndisturbedBenchmarkEnds
CHECK_DEADLOCK FALSE
