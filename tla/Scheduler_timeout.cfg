\* No budget; the context may end at any time.
SPECIFICATION FairSpec
CONSTANTS
  NumJobs = 3
  Parallel = 2
  MaxTokens = 0
  Retry = 0
  JobTokens = 0
  MayEnd = TRUE
PROPERTY
  BenchmarkEnds
CHECK_DEADLOCK FALSE
