SPECIFICATION FairSpec
CONSTANTS
  Jobs = {j1, j2}
  Workers = {w1, w2}
  Keys = {k1}
  NoKey = NoKey
  NoJob = NoJob
  NoWorker = NoWorker
  MaxAttempts = 2
  MaxDisruptions = 2
  Overrun = FALSE
INVARIANTS ExclusiveExecution RetryBudget
PROPERTIES TerminalIsFinal ImplementsLifecycle EveryJobSettles
