SPECIFICATION FairSpec
CONSTANTS
  t1 = t1
  s1 = s1
  s2 = s2
  s3 = s3
  Schedulers = {p1}
  Workers = {w1}
  Targets <- OneTarget
  Sources <- ThreeSources
  Rank <- RankOrder
  Api = Api
  NoItem = NoItem
  DueAtStart <- FirstTwoDue
  MaxActive = 3
  MaxPerRun = 2
  FetchLimit = 1
  MaxPeriods = 1
  MaxApiJobs = 1
  MaxCrashes = 1
  MaxOverruns = 1
INVARIANTS CapRespected
PROPERTIES DeferredNotDropped OneDiscoveryPerPeriod OnlyDueItemsQueued EveryDueItemQueued
