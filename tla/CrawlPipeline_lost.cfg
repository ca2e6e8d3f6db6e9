SPECIFICATION FairSpec
CONSTANTS
  a = a
  b = b
  None = None
  JobCrawlers = {w1}
  SourceCrawlers = {}
  Normalizers = {}
  Pages <- TwoPages
  Tagged = {a,b}
  MaxChanges = 0
  MaxDisruptions = 1
PROPERTY StoredIsExtracted
