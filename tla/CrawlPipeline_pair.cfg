SPECIFICATION FairSpec
CONSTANTS
  a = a
  b = b
  None = None
  JobCrawlers = {w1}
  SourceCrawlers = {m1}
  Normalizers = {n1}
  Pages <- TwoPages
  Tagged = {a,b}
  MaxChanges = 1
  MaxDisruptions = 1
INVARIANTS ValidatorsVouch DoublesNeedOverlap
PROPERTY FinalPageStored
