SPECIFICATION Spec
CONSTANTS
  w1 = w1
  w2 = w2
  ann = ann
  ben = ben
  north = north
  lab = lab
  field = field
  Workers <- MCWorkers
  People <- TwoPeople
  Links <- OneLink
  Sites <- MCSites
  SiteOf <- OneSiteOf
  Caps <- AnyCap
  MaxTime = 1
INVARIANTS
  UsesCountRegistrants
  OnlyVerifiedConsent
PROPERTIES
  DeadStaysDead
  KeepsPromise
