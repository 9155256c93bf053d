SPECIFICATION OneLifeSpec
CONSTANTS
  m1 = m1
  p1 = p1
  n1 = n1
  n2 = n2
  r1 = r1
  Models = {m1}
  Pictures = {}
  Catalogue = {}
  Nodes = {n1, n2}
  OpenRouter = OpenRouter
  ImageShim = ImageShim
  DefaultCap <- OneCap
  Requests = {r1}
  Environments <- UsualOnly
  POLL_TTL = 1
  SCRAPE_TIMEOUT = 1
  ScrapeDelay = 1
  MaxRunning = 1
  MaxWaiting = 0
INVARIANT TypeOK
PROPERTY AdmittedOnRecentRoom
PROPERTY SpillOnlyOnOverload
PROPERTY StrictRecovers
