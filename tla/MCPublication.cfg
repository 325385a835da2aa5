\* Two registrations, three manifests, three receipts, two publishers; two
\* finalizers with clocks of their own, files replaced alone or in pairs, two
\* records, one crash; the corpus of the qualification, a frozen suite of 5
\* clear and 3 ambiguous cases; two attempts at two cases, run again at will.
CONSTANTS
  s1 = s1
  u1 = u1
  u2 = u2
  Suite = {s1}
  SuiteOf <- MCSuiteOf
  Rule = {0}
  RuleOf <- MCRuleOf
  Upstream = {u1}
  UpstreamOf <- MCUpstreamOf
  Outcome <- MCOutcome
  Execution = {1}
  Publisher = {p, q}
  MaxTime = 1
  Skew = 1
  MaxRegistrations = 2
  MaxManifests = 3
  MaxReceipts = 3
  f1 = f1
  f2 = f2
  Finalizer = {f1, f2}
  Version = {1, 2}
  Holds <- MCHolds
  Confirmed = {2, 3}
  MaxRecords = 2
  Batches <- MCBatches
  ClockOf <- MCClockOf
  MaxFaults = 1
  Runner = {"candidate 5", "candidate 6", "candidate 8", "qualification"}
  KindsOf <- MCKindsOf
  CriteriaOf <- MCCriteriaOf
  a1 = a1
  a2 = a2
  Attempt = {a1, a2}
  LastCase = 2
  ShardOf <- MCShardOf
  Manifest = {1, 2}
  MinPasses = 1
  None = None
SPECIFICATION MCSpec
INVARIANTS FinalIsEarned ScoringIsSound VerdictsAreEarned
PROPERTIES PublishedEvidenceStays ReceiptIsEarned InterruptedRunsRecover
\* The writers are done and the clock is at its bound; a sample has no step.
CHECK_DEADLOCK FALSE
