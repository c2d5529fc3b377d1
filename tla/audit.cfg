SPECIFICATION FairSpec
CONSTANTS
  w1 = w1
  w2 = w2
  w3 = w3
  Writers <- ThreeWriters
  MaxId = 4
INVARIANTS TypeOK OrderedTrailVerifies DetectsAlteration
PROPERTIES BreakIsFound KeepsPromise
CHECK_DEADLOCK FALSE
