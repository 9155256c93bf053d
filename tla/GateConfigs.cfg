SPECIFICATION StillSpec
CONSTANTS
  m1 = m1
  p1 = p1
  n1 = n1
  n2 = n2
  r1 = r1
  Models = {m1}
  Pictures = {p1}
  Catalogue = {}
  Nodes = {n1, n2}
  OpenRouter = OpenRouter
  ImageShim = ImageShim
  DefaultCap <- OneCap
  Requests = {r1}
  Environments <- AllEnvironments
  POLL_TTL = 0
  SCRAPE_TIMEOUT = 0
  ScrapeDelay = 0
  MaxRunning = 0
  MaxWaiting = 1
INVARIANT StrictStaysLocal
INVARIANT StrictFailuresNormalised
INVARIANT StrictStaysGated
