SPECIFICATION Spec
CONSTANTS
  d1 = d1
  d2 = d2
  s1 = s1
  s2 = s2
  b = b
  c = c
  j = j
  Nobody = nobody
  Order <- Identifiers
  Layers <- SomeLayers
  Bulks <- SomeBulks
PROPERTIES
  LiveSharedAreKept
CHECK_DEADLOCK FALSE
