SPECIFICATION LiveSpec
CONSTANTS
  None = None
  h1 = h1
  run1 = run1
  b1 = b1
  b2 = b2
  b3 = b3
  Caller = {c1, c2}
  Resumer = {}
  Request <- MCLegacyExplicit
  RecordId = {h1, r1, r2}
  Key = {k1, k2}
  Op = {o1, o2}
  MaxRecords = 2
  MaxFaults = 1
  Concurrent = TRUE
  Expiry = FALSE
PROPERTY RequestSettles
