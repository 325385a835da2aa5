\* Two workers, and one fault or a clock that passes both expiries.
CONSTANTS
  Worker = {a, b}
  MaxTime = 1
  CertTTL = 1
  HandoffExpiry = 0
  Faults = 1
  Gone = Gone
SPECIFICATION LiveSpec
PROPERTIES
  CapturesAreCompensated
CHECK_DEADLOCK FALSE
