\* One worker, and one lost call or crash.
CONSTANTS
  Worker = {a}
  MaxTime = 1
  CertTTL = 1
  HandoffExpiry = 0
  Faults = 1
  Gone = Gone
SPECIFICATION FairSpec
PROPERTIES
  RefundIsReconstructed
CHECK_DEADLOCK FALSE
