\* Two calls under one id: the second is refused, or follows the first once that is
\* cleaned up while its handler may still be at work.
CONSTANTS
  TaskId = {t1}
  Call = {c1, c2}
  NoCall = NoCall
  StaleMaxAge = 1
  MaxProgress = 2
SPECIFICATION FairSpec
INVARIANTS
  LiveTaskHasItsCall
  UnabortedCallOwnsItsId
  EndFrameIsLast
PROPERTIES
  FailureIsReported
  SettlesOnlyItsOwnTask
  ImplementsContract
  DelegationEnds
\* A process that went down takes no step.
CHECK_DEADLOCK FALSE
