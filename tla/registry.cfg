SPECIFICATION Spec
CONSTANTS
  w1 = w1
  w2 = w2
  survey = survey
  v1 = v1
  v2 = v2
  lab = lab
  rig = rig
  north = north
  south = south
  Workers <- TwoWorkers
  Purposes <- OnePurpose
  Notices <- TwoNotices
  Processors <- OneProcessor
  Sources <- OneSource
  Sites <- TwoSites
INVARIANTS TypeOK StaleChecksRunOut NamedOrFlagged
SYMMETRY Symmetry
