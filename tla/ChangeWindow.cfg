SPECIFICATION Spec
CONSTANTS
  r1 = r1
  r2 = r2
  w1 = w1
  b1 = b1
  x = x
  y = y
  Root = root
  NoCommit = NoCommit
  Nobody = Nobody
  CommitIds = {c1, c2, c3}
  DocIds = {x, y}
  Requests = {r1, r2}
  Inserts = {r1}
  Lenient = {}
  IdsOf <- TwoDocuments
  CreatesOf <- CreatesOther
  Writers = {w1}
  Rebasers = {b1}
  RootKinds = {TRUE, FALSE}
  Scenarios <- WritesOrMoves
SYMMETRY CommitSymmetry
INVARIANTS
  NoMissedConflict
  WindowIsReadable
  GuardsCanClose
PROPERTIES
  AncestorsAreKept
CHECK_DEADLOCK FALSE
