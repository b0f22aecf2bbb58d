\* One id and two entry objects: every history of a task with one suspension and
\* resumption, told to one subscriber, and the id registered again after cleanup.
CONSTANTS
  TaskId = {t1}
  Ref = {r1, r2}
  NoRef = NoRef
  Listener = {l1}
  StaleMaxAge = 1
  MaxTransitions = 4
  MaxInbox = 2
SPECIFICATION FairSpec
INVARIANTS
  HistoryExplainsStatus
  LiveTasksStayRegistered
  FollowersSeeHistory
PROPERTIES
  ImplementsContract
  FinalStatusIsDelivered
  EndedTasksAreDropped
