SPECIFICATION FairSpec
CONSTANTS
  i1 = i1
  i2 = i2
  v1 = v1
  p1 = p1
  p2 = p2
  c1 = c1
  c2 = c2
  a1 = a1
  a2 = a2
  k1 = k1
  f1 = f1
  f2 = f2
  Importers <- MCImporters
  Sweepers <- MCSweepers
  Projects <- MCProjects
  Collections <- MCCollections
  Assets <- MCAssets
  Consents <- MCConsents
  Files <- MCFiles
  Manifest <- MCManifest
  ConsentProject <- MCConsentProject
  LapseBehaviours <- MCLapseBehaviours
  Limit = 2
INVARIANTS OneRowPerSubject ReportsAreTrue
PROPERTIES QuarantineSticks LapsedIsQuarantined KeepsPromise
