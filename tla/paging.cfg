SPECIFICATION PagingSpec
CONSTANTS
  MaxRow = 3
  MaxValue = 2
  Limits <- OneOrTwo
INVARIANTS PagingTypeOK WalkIsComplete
