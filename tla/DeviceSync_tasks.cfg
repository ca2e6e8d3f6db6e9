SPECIFICATION Spec
CONSTANTS
  bank = bank
  stranger = stranger
  hotline = hotline
  r1 = r1
  Phones = {bank, stranger, hotline}
  Callable = {bank, stranger}
  Identified = {bank}
  Categories = {"SCAM", "SPAM"}
  Reporters = {r1}
  Anonymous = Anonymous
  High = 2
  EarlierReports <- ReportedBefore
  MaxReports = 5
  Tasks = {t1, t2}
  NoChange = NoChange
  NoAnswer = NoAnswer
  MaxActions = 3
  MaxFailures = 1
SYMMETRY Symmetry
INVARIANTS TypeOK BlockingNeedsOptIn BlockedByTheRule SettledDeviceHonours
CHECK_DEADLOCK FALSE
