SPECIFICATION FairSpec
CONSTANTS
  q1 = q1
  q2 = q2
  h1 = h1
  h2 = h2
  Requests = {q1, q2}
  Helpers = {h1, h2}
  NumChunks = 2
  Nobody = Nobody
INVARIANTS
  ChunksAreCounted
  NobodyWorksForTheDone
PROPERTIES
  EveryRequestEnds
CHECK_DEADLOCK FALSE
