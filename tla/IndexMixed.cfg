SPECIFICATION MCSpec
CONSTANTS
  Nothing = Nothing
  d1 = d1
  d2 = d2
  r1 = r1
  r2 = r2
  r3 = r3
  Requests <- MCRequests
  Collections <- MCCollections
  EMBED_MODELS <- MCModels
  MAX_CONNECTIONS = 2
  Jobs <- MCJobs
  CHUNK = 7
  OVERLAP = 3
  MaxText = 11
INVARIANTS OneModelPerCollection
