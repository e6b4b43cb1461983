SPECIFICATION Spec
CONSTANTS
  Span = {1, 2, 3, 4, 5}
  NoSpan = 0
  Parent <- MCParent
  Failing = {4}
  Boundary = {3}
  Unmappable = {13}
  BodySize <- MCBodySize
  Record = {11, 12, 13}
  Workloads <- MCWorkloads
  MaxSpans = 2
  MaxOpen = 2
  MaxBytes = 4
  ArtifactBytes = 4
  MaxRecords = 2
  MaxLogBytes = 3
  MaxDropped = 2
  MaxSteps = 2
  Log = {"a", "b", "c", "d"}
  Unsupported = {"d"}
  Refused = {"c"}
  Requests <- MCRequests
  PrefixBytes = 2
  MaxFiles = 3
  MaxSegment = 3
  MaxTotal = 4
  MaxSize = 4
  Rotated = {"a"}
  MaxLives = 2
  Path = {1, 2, 3, 4, 5, 6, 7, 8}
  Top = 0
  Outside = 99
  Folder <- MCFolder
  Sensitive = {5}
  Content = {21, 22, 23, 24}
  SizeOf <- MCSizeOf
  Binary = {24}
  Secret = {22}
  UploadDiff = TRUE
  Logs = 1
  MaxComponents = 5
  MaxEnvelope = 5
  Excluded = {6}
  Mounted = {8}
  Unreadable = {}
  LinkTarget <- MCLinkTarget
  MaxEntries = 3
  MaxHash = 2
  MaxText = 2
  MaxTotalText = 2
  Disks <- MCDisks
  Touchable = {1, 2, 4, 5}
  NewContent = {21, 22}
  MaxWrites = 2
  Session = {"outer", "inner"}
  NoSession = "none"
  Context = {"main", "task"}
  Main = "main"
  Invalid = {2}
  Faulty = {4}
  Programs <- MCPrograms
  MaxPending = 1
  MaxObserved = 1
  MaxExport = 3
  RawSpans <- MCRawSpans
  MaxAttributes = 2
  MaxEvents = 2
  MaxLinks = 2
  MaxList = 2
  Wait = 10
  RequestTime = 3
  Late = 1
  MaxRetries = 1
  Reserve = 2
  ShortestPoll = 2
  ResumePoll = 3
  FallbackCap = 6
  BackoffBase = 1
  BackoffCap = 2
  Guidance = {2, 8}
  Hints = {5}
  MaxKeys = 2
  Services <- MCServices
  StepKinds <- MCStepKinds
  CaseBytes = 2
  MaxOutputs = 2
  MaxShifts = 2
  MaxRequests = 2
  Saver = {"s1", "s2"}
  FileName = {"case"}
  MaxForeign = 2
  Calls <- MCCalls
  Adverts <- MCAdverts
  Replies <- MCReplies
  Baseline <- MCBaseline
  DefaultSteps = 3
  MaxAsked = 2
  MaxChanges = 1
CHECK_DEADLOCK FALSE
INVARIANTS TypeOK
  Accounted WithinBudget ChargedOnce StagedIsValid
  BytesDeliveredOnce
  ChangesExplain SummaryIsTrue
  ObservationValid ObservedOnce
  MappedIsValid MappingAdmitsLoss
  DeadlineHolds PacingHolds OpenIsPending
  OnlyNegotiated RequestBindsBytes LossIsAdmitted
  FilesAreWhole RepeatBuysOnce AcceptedIsRequested
PROPERTIES OthersAreKept
