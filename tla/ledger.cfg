SPECIFICATION FairSpec
CONSTANTS
  w1 = w1
  w2 = w2
  ann = ann
  ben = ben
  notice = notice
  core = core
  extra = extra
  Workers <- MCWorkers
  Subjects <- TwoSubjects
  Notices <- MCNotices
  Purposes <- MCPurposes
  PurposesOf <- MCPurposesOf
  Mandatory <- MCMandatory
  Answered <- AnnAnswered
  FirstId <- AnnFirstId
  MaxId = 3
  MaxTime = 1
INVARIANTS
  NoForks
  WithdrawalNarrows
  CurrentIsLastAct
  ExportFollowsLastAct
  IndInv
PROPERTIES
  KeepsPromise
  EveryRequestEnds
