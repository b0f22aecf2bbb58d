\* One client, over HTTP or gRPC, of a server with one capability of two versions; two
\* discoveries and an invocation in flight.
CONSTANTS
  Client = {a}
  Cap = {c1}
  Version = {v1, v2}
  NoVersion = NoVersion
  AskedLevel = {0}
  DiscoverId = {d1, d2}
  InvokeId = {i1}
SPECIFICATION FairSpec
INVARIANTS
  NoCallFailsByVersion
  OneRunPerInvoke
  OneRefreshPerKey
PROPERTIES
  RefreshEnds
  HashCatchesUp
