\* Two servers, a tool each of one name, two overlapping callbacks, one invocation.
CONSTANTS
  s1 = s1
  Server = {s1, s2}
  t1 = t1
  x = x
  y = y
  Tool = {t1}
  Input = {x, y}
  Desc = {"d"}
  NoTool = NoTool
  Offers <- Lists
  Callback = {r1, r2}
  Invocation = {i1}
  NoHash = NoHash
  Request <- Requests
  Result <- Results
SPECIFICATION FairInvokeSpec
INVARIANTS
  CatalogFollowsTools
  AnswerFits
PROPERTIES
  InvocationsCatchUp
