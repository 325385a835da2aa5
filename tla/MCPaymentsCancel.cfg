\* The journal alone and without faults: is captured money always actionable?
CONSTANTS
  Parts = {"journal"}
  a = a
  b = b
  Caller = {a, b}
  k1 = k1
  k2 = k2
  IdemKey = {k1, k2}
  KeyOf <- MCKeyOf
  ReasonOf <- MCReasonOf
  MaxFaults = 0
  None = None
  Record <- MCRecord
  Authority <- MCAuthority
  Tier <- MCTier
  MaxAge = 3
  Skew = 0
  Subject = "tx"
  N = 2
  MaxTime = 4
  Amount = 4
  TTL = 2
  DecisionAge = 1
  MaxLosses = 0
SPECIFICATION MCSpec
INVARIANT CompensationStaysActionable
CHECK_DEADLOCK FALSE
