SPECIFICATION Spec
CONSTANTS
  w1 = w1
  w2 = w2
  ann = ann
  ben = ben
  notice = notice
  core = core
  extra = extra
  Workers <- MCWorkers
  Subjects <- OneSubject
  Notices <- MCNotices
  Purposes <- MCPurposes
  PurposesOf <- MCPurposesOf
  Mandatory <- MCMandatory
  Answered <- NobodyAnswered
  FirstId <- NoFirstId
  MaxId = 3
  MaxTime = 0
INVARIANT OneCurrent
