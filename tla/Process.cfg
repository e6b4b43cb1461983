SPECIFICATION ProcessSpec
CONSTANTS
  None = None
  a = a
  b = b
  p1 = p1
  Run = {a, b}
  Process = {p1}
  Home <- MCTogether
  Steps = 2
  StopOnFailure = TRUE
  JudgeEnabled = TRUE
  Callbacks = {"output"}
  MaxFaults = 3
  Caller <- Threads
  Space <- Namespaces
  Capacity = 1
  MaxFlights = 2
  MaxVersion = 1
CHECK_DEADLOCK FALSE
INVARIANT TypeOK
INVARIANT LeaseFollowsRun
INVARIANT EvidenceFollowsHistory
INVARIANT WindowsInUse
INVARIANT SingleFlight
INVARIANT RefreshSeen
PROPERTY ImplementsProtocol
PROPERTY LeaseFreed
PROPERTY ServedVersionsGrow
PROPERTY WaitersReleased
