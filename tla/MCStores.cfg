\* Two threads of one process and one of another, two events, one reader; two
\* webhook handlers for the same two events, two bodies, two index rounds;
\* three faults in the file and one in the handlers.
CONSTANTS
  t1 = t1
  t2 = t2
  t3 = t3
  p1 = p1
  p2 = p2
  Thread = {t1, t2, t3}
  Process = {p1, p2}
  ProcessOf <- MCProcessOf
  capture = capture
  refund = refund
  Event = {capture, refund}
  MaxReads = 1
  MaxFaults = 3
  None = None
  Handler = {h1, h2}
  Body = {b1, b2}
  TypeOf <- MCTypeOf
  MaxTries = 2
  MaxFailures = 1
SPECIFICATION MCSpec
INVARIANT ChainIsSound
PROPERTIES
  AppendsFailSafely
  WorkEnds
  EventsAreKept
\* Every event was appended and acknowledged, or refused: nothing is left to do.
CHECK_DEADLOCK FALSE
