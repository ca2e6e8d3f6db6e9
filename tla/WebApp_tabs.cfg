SPECIFICATION Spec
CONSTANTS
  a = a
  b = b
  Phones = {a, b}
  Callable = {a, b}
  Identified = {}
  Categories = {"SCAM"}
  Reporters = {me, other}
  Anonymous = Anonymous
  High = 2
  EarlierReports = {}
  MaxReports = 9
  NoAnswer = NoAnswer
  MaxGestures <- Gestures
  MaxMishaps = 1
  Garbage = Garbage
  Refused = Refused
  Inserted = Inserted
  None = None
  BrowserRef = me
  s = s
  j = j
  k = k
  l = l
  m = m
  Readable = {1, 2}
  Scrawls = {s}
  Caller <- Callers0
  Jobs = {j, k, l, m}
  Charts = {"growth"}
  Lists = {"running"}
  Thresholds <- Limits
  Nothing = Nothing
  Failed = Failed
  MaxWaiting = 2
  MaxUsed = 1
  EarlierDirectories <- Directories
  EarlierJobs <- JobsBefore
INVARIANTS PagesCoherent WarningsHonest SettledLookupAnswers CallsKept
PROPERTIES LoadingEnds DashboardCatchesUp
CHECK_DEADLOCK FALSE
