SPECIFICATION Spec
CONSTANTS
  w1 = w1
  w2 = w2
  ann = ann
  ben = ben
  l1 = l1
  e1 = e1
  Workers <- TwoWorkers
  People <- MCPeople
  Names <- MCNames
  Links <- MCLinks
  Exports <- OneExport
  MaxVersion = 2
  MaxActs = 2
INVARIANTS TypeOK RecordIsOneMoment DriftShows
SYMMETRY Symmetry
