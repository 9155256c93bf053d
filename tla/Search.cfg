\* Two requests for three keys over a cache of two rows and a gate of one;
\* no symmetry, for the liveness property.  Age 0 is fresh, 1 stale, 2 too old.
CONSTANTS
  None = None
  c1 = c1
  c2 = c2
  k1 = k1
  k2 = k2
  k3 = k3
  t1 = t1
  t2 = t2
  Callers <- TwoCallers
  Keys <- ThreeKeys
  Calls <- TwoCalls
  MAX_CONCURRENT_SEARCHES = 1
  CACHE_TTL_S = 0
  STALE_TTL_S = 1
  AgeCap = 2
  CACHE_MAX_ENTRIES = 2
SPECIFICATION FairHistorySpec
INVARIANTS OneCallPerKey RecentlyUsedStay
PROPERTIES SlotsKept StaleRatherThanError EveryoneAnswered
