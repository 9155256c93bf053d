\* Three plans over two nodes, any number of runs, two failures or kills, one surprise.
CONSTANTS
  None = None
  Nodes <- TwoNodes
  Models <- TwoModels
  Plans <- ThreePlans
  MAX_FAILURES = 2
  MAX_SURPRISES = 1
SPECIFICATION Spec
INVARIANTS TypeOK ReapplyIsNoOp NoDrift
PROPERTIES StartedAsPlanned NoDeadRoute AppliedIsServed
