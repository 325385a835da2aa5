\* Two callers with different idempotency keys and two crashes or failures;
\* two evidence ids, eight records, four ticks; evidence and certificates
\* live two ticks, a decision one; four lost requests or restarts of an order.
CONSTANTS
  Parts = {"order", "boundary", "journal"}
  a = a
  b = b
  Caller = {a, b}
  k1 = k1
  k2 = k2
  IdemKey = {k1, k2}
  KeyOf <- MCKeyOf
  ReasonOf <- MCReasonOf
  MaxFaults = 2
  None = None
  Record <- MCRecord
  Authority <- MCAuthority
  Tier <- MCTier
  MaxAge = 3
  Skew = 0
  Subject = "tx"
  N = 2
  MaxTime = 4
  Amount = 4
  TTL = 2
  DecisionAge = 1
  MaxLosses = 4
SPECIFICATION MCSpec
INVARIANTS
  BooksMatchPayment
  CertificateNamesARealState
  OrdersAreUnique
PROPERTIES
  CaptureIsCovered
  RetriesSucceed
\* A terminal commitment leaves nothing to do; a captured payment neither.
CHECK_DEADLOCK FALSE
