SPECIFICATION FairSpec
CONSTANTS
  t1 = t1
  s1 = s1
  s2 = s2
  s3 = s3
  Schedulers = {p1}
  Workers = {}
  Targets = {}
  Sources <- OneSource
  Rank <- RankOrder
  Api = Api
  NoItem = NoItem
  DueAtStart = {}
  MaxActive = 1
  MaxPerRun = 1
  FetchLimit = 1
  MaxPeriods = 2
  MaxApiJobs = 0
  MaxCrashes = 0
  MaxOverruns = 0
PROPERTIES EveryDueItemQueued

