\* Every two trajectories of up to three steps; a listing of more than two lines is cut.
SPECIFICATION CompareSpec
CONSTANTS
  Steps <- FourSteps
  MaxSteps = 3
  LongList = 2
  HeadLines = 1
  NoStep = NoStep
INVARIANTS
  ComparisonIsRight
  FullListingIsComplete
CHECK_DEADLOCK FALSE
