\* Two candidates and the base, a task of either kind, runs that trade tokens for cost.
SPECIFICATION Spec
CONSTANTS
  Dev = {"d"}
  Holdout = {"h"}
  c1 = c1
  c2 = c2
  Names <- CandidateNames
  Uses <- TwoUses
  MaxCandidates = 2
INVARIANTS
  FrontCovers
  RetriesNeverRaiseRate
  GateHolds
SYMMETRY OrderOfCandidates
CHECK_DEADLOCK FALSE
