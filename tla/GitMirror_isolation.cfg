\* Three runs of one repository, and nothing goes wrong: no failure, no cancellation.
SPECIFICATION Spec
CONSTANTS
  r1 = r1
  r2 = r2
  r3 = r3
  repoA = repoA
  Runs = {r1, r2, r3}
  Repos = {repoA}
  Scratch = scratch
  RepoOf <- OneRepo
  MayCancel = FALSE
  MayFail = FALSE
  MaxCrashes = 0
INVARIANT
  Isolated
CHECK_DEADLOCK FALSE
