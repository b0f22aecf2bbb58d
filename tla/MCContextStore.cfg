\* Two ids, and times to live of nought, one and two ticks.
CONSTANTS
  ContextId = {x1, x2}
  NoContext = NoContext
  MaxTtl = 2
SPECIFICATION FairContextSpec
INVARIANTS
  ServedWithinTtl
PROPERTIES
  SharedContextLivesItsTtl
  ExpiredContextsGo
