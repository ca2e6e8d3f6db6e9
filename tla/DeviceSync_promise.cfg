SPECIFICATION Spec
CONSTANTS
  bank = bank
  stranger = stranger
  hotline = hotline
  r1 = r1
  Phones = {stranger}
  Callable = {stranger}
  Identified = {}
  Categories = {"SCAM", "SPAM"}
  Reporters = {r1}
  Anonymous = Anonymous
  High = 10
  EarlierReports <- ReportedByTen
  MaxReports = 10
  Tasks = {t1}
  NoChange = NoChange
  NoAnswer = NoAnswer
  MaxActions = 3
  MaxFailures = 0
INVARIANT BlockedAsPromised
CHECK_DEADLOCK FALSE
