SPECIFICATION Spec
CONSTANTS
  w1 = w1
  w2 = w2
  n1 = n1
  n2 = n2
  n3 = n3
  ntc = ntc
  english = english
  core = core
  wording = wording
  rewording = rewording
  Workers <- MCWorkers
  Notices <- ThreeNotices
  Codes <- MCCodes
  Languages <- OneLanguage
  Purposes <- MCPurposes
  Texts <- TwoTexts
  MaxVersion = 3
  MaxMoves = 5
INVARIANTS HistoryExplains PublishedIsSignedOff OnlyOthersDisplace
PROPERTIES FrozenOncePublished KeepsPromise
SYMMETRY Symmetry
