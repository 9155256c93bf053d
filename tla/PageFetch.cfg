\* Three scrapes on two slots against the watcher, two failures.
CONSTANTS
  s1 = s1
  s2 = s2
  s3 = s3
  Scrapes <- ThreeScrapes
  Watcher = Watcher
  Nobody = Nobody
  MAX_CONCURRENT_PAGES = 2
  EXIT_LIMIT = 3
  MaxTrouble = 2
SPECIFICATION FairSpec
INVARIANTS TypeOK ReplacedOnlyIfLost OneBreakdownIsAbsorbed
PROPERTIES SlotsKept BrowserComesBack
