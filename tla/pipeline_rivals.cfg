SPECIFICATION Spec
CONSTANTS
  c1 = c1
  c2 = c2
  s1 = s1
  s2 = s2
  p1 = p1
  p2 = p2
  k1 = k1
  k2 = k2
  w1 = w1
  w2 = w2
  j1 = j1
  j2 = j2
  j3 = j3
  Claims <- TwoClaims
  Skills <- TwoSkills
  PRs <- TwoPRs
  Clients <- TwoClients
  Workers <- OneWorker
  JobIds <- TwoJobs
  EvidenceLists <- OneList
  SkillSets <- OneDeclared
  Messages <- AllMessages
  NoMessage = NoMessage
  NoClaim = NoClaim
  NoJob = NoJob
  MaxPRs = 1
  PrimaryThreshold = 1
  MaxVersion = 1
  Rubrics = 1
  MaxAttempts = 1
SYMMETRY RivalClaims
PROPERTIES
  PairsNotStolen
CONSTRAINT RivalsThenEvaluates
