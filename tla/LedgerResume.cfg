SPECIFICATION Spec
CONSTANTS
  None = None
  h1 = h1
  run1 = run1
  b1 = b1
  b2 = b2
  b3 = b3
  Caller = {c1}
  Resumer = {s1}
  Request <- MCExplicitJudges
  RecordId = {h1, r1, r2}
  Key = {k1, k2, k3, k4}
  Op = {o1, o2}
  MaxRecords = 2
  MaxFaults = 3
  Concurrent = FALSE
  Expiry = TRUE
SYMMETRY Symmetry
INVARIANT OneOperationPerRequestId
INVARIANT BoundToOwnOperation
INVARIANT ReportBeforeSuccess

