\* Three sessions on one file, two run ids, two events, one refusal or kill.
SPECIFICATION Spec
CONSTANTS
  Sessions = {s1, s2, s3}
  Ids = {i1, i2}
  MaxTime = 1
  MaxEvents = 2
  MaxFaults = 1
  NoOne = NoOne
INVARIANTS
  AdmittedFindsSchema
  SomeoneIsAdmitted
  HolderOwnsRow
  LostEventsShareTime
PROPERTIES
  RowsAreKept
SYMMETRY SessionsAndIds
CHECK_DEADLOCK FALSE
