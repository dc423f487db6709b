SPECIFICATION Spec
CONSTANTS
  b1 = b1
  b2 = b2
  d1 = d1
  p1 = p1
  p2 = p2
  Workers = {w1, w2}
  Branches = {b1}
  Databases = {d1}
  Packages = {p1, p2}
  DatabaseOf <- OneDatabase
  BranchOf <- SameBranch
  Answers = {"success", "error"}
  Deferrable = {p1}
  ProducerTimeout = TRUE
  JobsMayFail = TRUE
  MaxSchedules = 0
  MaxCrashes = 1
  MaxStops = 1
  NoBranch = NoBranch
  NoPackage = NoPackage
  NoWorker = NoWorker
  NoAnswer = NoAnswer
SYMMETRY WorkerSymmetry
INVARIANTS
  BranchLocksAreSound
  NothingStranded
PROPERTIES
  ImplementsService
CHECK_DEADLOCK FALSE
