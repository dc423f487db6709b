SPECIFICATION FairSpec
CONSTANTS
  b1 = b1
  b2 = b2
  d1 = d1
  p1 = p1
  p2 = p2
  Workers = {w1, w2}
  Branches = {b1, b2}
  Databases = {d1}
  Packages = {p1, p2}
  DatabaseOf <- OneDatabase
  BranchOf <- OnePerBranch
  Answers = {"success"}
  Deferrable = {}
  ProducerTimeout = FALSE
  JobsMayFail = FALSE
  MaxSchedules = 1
  MaxCrashes = 0
  MaxStops = 0
  NoBranch = NoBranch
  NoPackage = NoPackage
  NoWorker = NoWorker
  NoAnswer = NoAnswer
INVARIANTS
  NoLostWakeup
  GlobalWorkIsSeen
  CountersAreExact

  
  
CHECK_DEADLOCK FALSE
