\* Two callers, one id for each of the six steps of a full history.
CONSTANTS
  Caller = {p, q}
  EventId = {e1, e2, e3, e4, e5, e6}
  Reference = {r}
  Time <- Times
  CertExpires = 1
  None = None
SPECIFICATION Spec
SYMMETRY IdSymmetry
INVARIANTS
  TypeOK
  ValidatorAccepts
  CopiesArePrefixes
  CaptureStaysActionable
PROPERTIES
  HistoryOnlyGrows
