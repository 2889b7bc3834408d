\* A command of the agent and two of the verification, which fork two processes.
SPECIFICATION FairSpec
CONSTANTS
  NumAgent = 1
  NumVerify = 2
  Children = {"p", "q"}
INVARIANTS
  KilledTreeIsGone
  OutputIsComplete
  ResultsHold
PROPERTIES
  CommandReturns
