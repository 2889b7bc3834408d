\* Two worktrees, two calls with two answers, everything that may fail fails.
SPECIFICATION MCSpec
CONSTANTS
  Args = {"ls", "cat"}
  Results = {"x", "y"}
  Pathful = {"cat", "y"}
  Machines <- TwoMachines
  Recorders = {TRUE, FALSE}
  Restores = {TRUE, FALSE}
  Worktree = "wt1"
  Fresh = "wt2"
  MaxFaults = 1
  MaxCalls = 3
INVARIANTS
  StrictStaysOffline
  ReplayFollowsRecord
  CleanRunReplays
  ToolsAnswerAsRecorded
CHECK_DEADLOCK FALSE
