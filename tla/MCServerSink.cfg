\* One request and one fault: a sink that raises, as StructuredLogger allows.
CONSTANTS
  Parts = {"service"}
  Version = {1}
  WithD = {}
  MaxStarts = 0
  MaxChanges = 0
  Request = {r1}
  SinkMayFail = TRUE
  MaxFaults = 1
  None = None
  State = {"PASSED"}
SPECIFICATION MCSpec
INVARIANT AnswersAreTruthful
CHECK_DEADLOCK FALSE
