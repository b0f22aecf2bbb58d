\* Two requests while the task under the one id runs, ends, goes and comes again.
SPECIFICATION WsSpec
CONSTANTS
    Call = {c1, c2}
    TaskId = {t1}
    Checks <- AnyChecks
    MaxEntries = 2
    MaxMoves = 4
SYMMETRY AnyCall
INVARIANTS
  VerifyInv
\* Every request is over.
CHECK_DEADLOCK FALSE
