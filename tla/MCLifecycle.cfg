\* Two overlapping workers, one fault, and a clock that passes both expiries.
CONSTANTS
  Worker = {a, b}
  MaxTime = 2
  CertTTL = 1
  HandoffExpiry = 1
  Faults = 1
  Gone = Gone
SPECIFICATION Spec
SYMMETRY WorkerSymmetry
INVARIANTS
  TypeOK
  LocalFollowsProvider
  JournalFollowsPayment
  CachedResultsAreTrue
PROPERTIES
  CaptureIsCertified
  NothingMovesBack
  RefusalMeansNoCapture
CHECK_DEADLOCK FALSE
