\* Nothing fails, the model is recorded, the patch is whole, and the worktree is fresh.
SPECIFICATION MCSpec
CONSTANTS
  Args = {"ls"}
  Results = {"x"}
  Pathful = {"ls"}
  Machines <- OneMachine
  Recorders = {TRUE}
  Restores = {TRUE}
  Worktree = "wt1"
  Fresh = "wt2"
  MaxFaults = 0
  MaxCalls = 3
INVARIANT
  SuccessfulRunReplays
CHECK_DEADLOCK FALSE
