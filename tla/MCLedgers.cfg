\* Three calls on one key with two possible requests and a lease of one tick;
\* three calls on two threads and two keys, one nested in the other; two
\* threads, two attempts in a window of three ticks and a delay of one.
CONSTANTS
  Call = {c1, c2, c3}
  Key = {1}
  Fingerprint = {f1, f2}
  Lease = 1
  None = None
  ThreadKey = {1, 2}
  Thread = {t1, t2}
  MaxAttempts = 2
  Window = 3
  MaxDelay = 1
  Horizon = 6
SPECIFICATION MCSpec
INVARIANTS
  TypeOK
  ExecuteOnce
  LiveLeaseIsKept
  LimiterIsExact
PROPERTIES
  ImplementsPromise
  ThreadsTakeTurns
  CallsEnd
\* Every call ends and then nothing is left to do.
CHECK_DEADLOCK FALSE
