\* Three runs of one repository; clones fail, contexts end, processes are killed once.
SPECIFICATION FairSpec
CONSTANTS
  r1 = r1
  r2 = r2
  r3 = r3
  repoA = repoA
  Runs = {r1, r2, r3}
  Repos = {repoA}
  Scratch = scratch
  RepoOf <- OneRepo
  MayCancel = TRUE
  MayFail = TRUE
  MaxCrashes = 1
INVARIANTS
  OneCloner
  ClonerOwnsMirror
  LockHasHolder
PROPERTIES
  ReplacedOnlyOnStaleCheck
  CreateEnds
CHECK_DEADLOCK FALSE
