\* Two clients with one cache: the hash one of them learnt over HTTP, the other sends over
\* gRPC.
CONSTANTS
  Client = {a, b}
  Cap = {c1}
  Version = {v1, v2}
  NoVersion = NoVersion
  AskedLevel = {0}
  DiscoverId = {d1}
  InvokeId = {i1}
SPECIFICATION Spec
INVARIANT MismatchIsRetried
