SPECIFICATION Spec
CONSTANTS
  None = None
  a = a
  b = b
  p1 = p1
  Run = {a}
  Process = {p1}
  Home <- MCAlone
  Steps = 1
  StopOnFailure = TRUE
  JudgeEnabled = TRUE
  Callbacks = {"judge"}
  MaxFaults = 0
CHECK_DEADLOCK FALSE
PROPERTY ImplementsProtocol
