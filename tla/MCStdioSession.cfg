\* Two sessions, each child printing up to two lines.
CONSTANTS
  Session = {s1, s2}
  MaxLines = 2
SPECIFICATION FairSessionSpec
INVARIANTS
  SessionInv
PROPERTIES
  ResultAnswersTheRequest
  SessionEnds
\* Every session is over.
CHECK_DEADLOCK FALSE
