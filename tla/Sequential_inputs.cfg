SPECIFICATION Spec
CONSTANTS
  Window = 4
  Keys <- KeysTried
  Free = 4
  MaxKeys = 14
  Shown <- Spellings
  Tagged <- InTags
  Gaps <- Between
  Marks <- DocumentedMarks
  MaxPieces = 4
  m1 = m1
  m2 = m2
  m3 = m3
  company = company
  companyContact = companyContact
  branch = branch
  product = product
  signIn = signIn
  contact = contact
  chiNhanh = chiNhanh
  about = about
  login = login
  Sitemaps = {m1, m2, m3}
  Fallbacks <- Common
  Urls = {company, companyContact, branch, product, signIn}
  Targets = {company, branch, product, signIn}
  TargetOf <- Target
  Patterns = {contact, chiNhanh, about, login}
  Matches <- Contained
  Rules <- Scoring
  Denied = {login}
  DefaultScore = 10
  MaxDepth = 2
  MaxQueued = 2
  Sites <- Layouts
  NoSite = NoSite
  EarlierTargets <- TargetsBefore
  MaxDiscoveries = 2
  MaxSetbacks = 2
INVARIANTS OneStoredForm ShownNumbersFound ContextOfParagraph LineReadAsWritten BestOfSiteQueued
CHECK_DEADLOCK FALSE
