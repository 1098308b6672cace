SPECIFICATION FairSpec
CONSTANTS
  j1 = j1
  j2 = j2
  j3 = j3
  w1 = w1
  c1 = c1
  v1 = v1
  v2 = v2
  w2 = w2
  JobIds <- TwoJobs
  Workers <- TwoWorkers
  Claims <- OneClaim
  Versions <- TwoVersions
  Messages <- MessagesOfOneClaim
  NoMessage = NoMessage
  NoJob = NoJob
  MaxAttempts = 2
  Batch = 2
INVARIANTS
  TypeOK
  CommittedOnce
  NothingDiscarded
  SpendIsCounted
PROPERTIES
  DeliversAtLeastOnce
  EveryJobEnds
