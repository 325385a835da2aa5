\* Two bundles, the second with a receipt for D, two starts, two changed
\* files; two requests of every kind, three faults, a log sink that may raise;
\* every status whose gates have passed or are blocked.
CONSTANTS
  Parts = {"start", "service", "status"}
  Version = {1, 2}
  WithD = {2}
  MaxStarts = 2
  MaxChanges = 2
  Request = {r1, r2}
  SinkMayFail = TRUE
  MaxFaults = 3
  None = None
  State = {"PASSED", "BLOCKED"}
SPECIFICATION MCSpec
INVARIANTS
  ReadyIsEarned
  StatusIsConsistent
PROPERTIES
  ContactIsEarned
  CallsAreAccountedFor
  StartsAndRequestsFinish
\* The starts are used up, every request is answered, a status is built once.
CHECK_DEADLOCK FALSE
