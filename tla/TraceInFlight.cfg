SPECIFICATION TraceSpec
CONSTANTS
  Span = {1, 2, 3, 4, 5}
  NoSpan = 0
  Parent <- MCParent
  Failing = {}
  Boundary = {}
  Unmappable = {}
  BodySize <- MCBodySize
  Record = {}
  Workloads <- MCPair
  MaxSpans = 2
  MaxOpen = 2
  MaxBytes = 6
  ArtifactBytes = 5
  MaxRecords = 2
  MaxLogBytes = 3
  MaxDropped = 3
  MaxSteps = 1
CHECK_DEADLOCK FALSE
INVARIANT LossForbidsComplete
