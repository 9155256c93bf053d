\* One failed or killed run is enough.
CONSTANTS
  None = None
  Nodes <- TwoNodes
  Models <- TwoModels
  Plans <- ThreePlans
  MAX_FAILURES = 2
  MAX_SURPRISES = 1
SPECIFICATION Spec

PROPERTIES NoChangesMeansMatch
