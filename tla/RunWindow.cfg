SPECIFICATION Spec
CONSTANTS
  None = None
  a = a
  b = b
  p1 = p1
  Run = {a, b}
  Process = {p1}
  Home <- MCTogether
  Steps = 2
  StopOnFailure = TRUE
  JudgeEnabled = TRUE
  Callbacks = {}
  MaxFaults = 0
CHECK_DEADLOCK FALSE
PROPERTY WindowKept
