\* Four frames of two kinds over either transport: cut into chunks in every way, or
\* pushed in any number between two runs of the generator; the connection may break.
CONSTANTS
  Frame = {progress, complete}
  NoFrame = NoFrame
  MaxFrames = 4
SPECIFICATION FairSpec
INVARIANTS
  StreamInv
PROPERTIES
  ImplementsEventStream
  IterationEnds
\* The iteration is over and the server has ended.
CHECK_DEADLOCK FALSE
