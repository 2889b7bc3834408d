\* Three tool calls, one without an id, in two model calls, an error at any time, a buffer of one event.
SPECIFICATION FairSpec
CONSTANTS
  Tool = {t1, t2, t3}
  Identified = {t1, t2}
  None = None
  Capacity = 1
  MaxCalls = 2
  MaxTools = 2
  MaxNameless = 1
  MaxErrors = 1
INVARIANTS
  Framed
  ModelEventsAlternate
  AnswersCounted
  ToolEventsMatch
  SequentialSteps
PROPERTY StreamEnds
