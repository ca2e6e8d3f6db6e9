SPECIFICATION Spec
CONSTANTS
  a = a
  b = b
  f = f
  g = g
  h = h
  Phones = {a, b}
  Scrawl = Scrawl
  Blank = Blank
  None = None
  Rows <- Tables
  Columnless = {h}
  Ingestors = {p, q}
  Normalizers = {n}
  MaxRuns = 3
  MaxCrashes = 1
INVARIANTS StoredWhole StoredOnce
PROPERTIES EveryRunEnds
CHECK_DEADLOCK FALSE
