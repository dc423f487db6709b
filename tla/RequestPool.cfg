SPECIFICATION LiveSpec
CONSTANTS
  r1 = r1
  r2 = r2
  r3 = r3
  w1 = w1
  w2 = w2
  Requests = {r1, r2}
  WithBody = {r1}
  BadQuery = {r2}
  Workers = {w1}
  MaxFds = 7
  QueueSize = 1
  MaxUpsets = 1
  Nothing = Nothing
INVARIANTS
  RequestsAreApart
  DescriptorsComeBack
PROPERTIES
  EveryRequestEnds
CHECK_DEADLOCK FALSE
