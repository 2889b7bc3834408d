\* A JSON run without a workspace whose commands must pass, and a SQLite run with
\* a workspace, a recorded patch and a required change; every operation may fail,
\* contexts end, and the processes are killed once.
SPECIFICATION Spec
CONSTANTS
  Runs = {json, sqlite}
  Sqlite = {sqlite}
  Repo = {sqlite}
  Patched = {sqlite}
  Verifies = {json, sqlite}
  NeedsVerification = {json}
  NeedsChange = {sqlite}
  MayFail = TRUE
  MaxCrashes = 1
INVARIANTS
  NoFakePass
  FailureHasCause
  RecordTellsOutcome
PROPERTY
  ImplementsContract
CHECK_DEADLOCK FALSE
