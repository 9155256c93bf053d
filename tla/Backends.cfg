SPECIFICATION Spec
\* Three backends for images: with two the stale order shows nothing.
CONSTANTS
  p1 = p1
  p2 = p2
  p3 = p3
  u1 = u1
  u2 = u2
  u3 = u3
  PictureRequests <- MCPictures
  Uploads <- MCUploads
  NoUpload = NoUpload
  Urls = 3
  COOLDOWN = 2
  Backends = 2
  HEALTH_CACHE_TTL_SEC = 3
  HEALTH_PROBE_TIMEOUT_SEC = 1
  AgeCap = 6
SYMMETRY Symmetry
PROPERTIES FirstTryLeastBusy GivesUpAfterAll DeadAvoided UploadsSpread
