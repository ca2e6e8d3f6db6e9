SPECIFICATION Spec
CONSTANTS
  bank = bank
  site = site
  user = user
  abc = abc
  abcSpaced = abcSpaced
  o1 = o1
  o2 = o2
  e1 = e1
  e2 = e2
  e3 = e3
  r1 = r1
  r2 = r2
  Phones = {bank}
  NoPhone = NoPhone
  Sources = {site, user}
  Companies = {abc, abcSpaced}
  NoCompany = NoCompany
  NameKey <- NameKeys
  Categories = {"BANK", "SPAM"}
  NoCategory = NoCategory
  Precedence <- Places
  Crawled = {o1, o2}
  Requests = {r1, r2}
  Entries <- Lists
  Submitted <- Labels
  About <- Texts
  Timer = {timer}
  Manual = {manual}
  UserSource = user
  None = None
  Mortal = {timer, r1}
  MaxManual = 1
  MaxCrashes = 1
INVARIANTS SettledAgrees CountAndScoreTogether ClaimsTraceable ImportsAccounted
