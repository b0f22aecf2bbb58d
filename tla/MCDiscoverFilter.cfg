\* Two capabilities, one described anew; every strategy; two requests at work at a time.
CONSTANTS
  None = None
  MatchOf <- Matches
  WordsShare <- Words
  similarity <- Similar
  topKDefault = 2
  thresholdDefault = 30
  keywordWeight = 30
  semanticWeight = 70
  Capability <- Capabilities
  Query = {"weather forecast", "today", "weather"}
  AnyId = AnyId
  Request <- Requests
  Task = {"weather forecast"}
  Strategy = {"keyword", "semantic", "hybrid"}
  FilterCacheTtl = 1
  FilterCacheMax = 1
  Call = {p1, p2}
SPECIFICATION Spec
SYMMETRY Symmetry
INVARIANTS
  FilterInv
  HitsAreYoung
  ScoredByEmbedding
  BestFirst
