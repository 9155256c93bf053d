SPECIFICATION MCSpec
CONSTANTS
  r1 = r1
  r2 = r2
  r3 = r3
  r4 = r4
  r5 = r5
  r6 = r6
  Requests <- MCRequests
  CONCURRENCY = 2
  OCR_QUEUE = 1
  MAX_PAGES = 3
  MAX_PIXELS = 4
  PerInch = 72
  Boxes <- MCBoxes
  WIDTH = 20
  MaxRows = 6
  Uploads <- MCUploads
  Pages <- MCPages
  Resolutions = {72, 100}
  NoPage = NoPage
INVARIANTS ServedIffThere LinesReadInOrder
PROPERTIES GatesKept PagesAnswered
