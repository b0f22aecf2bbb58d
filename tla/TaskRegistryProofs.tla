------------------------- MODULE TaskRegistryProofs -------------------------
(***************************************************************************)
(* Theorems about TaskRegistry, for every number of ids, entries, listeners *)
(* and for every bound.                                                     *)
(*                                                                         *)
(* The argument has two parts.  First, every step of the registry is, as    *)
(* far as the map, the entries and their histories go, of one of four       *)
(* kinds (StepKinds).  Then each part of the inductive invariant is shown   *)
(* to survive each kind.                                                    *)
(***************************************************************************)
EXTENDS TaskRegistry, TaskContract, SequenceTheorems, FiniteSetTheorems, TLAPS

\* A step that registers a new entry object r under a free id.
Created(id, r) ==
  /\ tasks[id] = NoRef
  /\ entry[r].status = "absent"
  /\ tasks' = [tasks EXCEPT ![id] = r]
  /\ entry' = [entry EXCEPT ![r] = createTaskEntry]
  /\ transitions' = transitions

\* A step that moves the registered entry r along the lifecycle.
Moved(r, to) ==
  /\ \E id \in TaskId : tasks[id] = r
  /\ isValidTransition(entry[r].status, to)
  /\ \E e \in TaskEntry :
       /\ entry' = [entry EXCEPT ![r] = e]
       /\ e.status = to
       /\ e.aborted = (entry[r].aborted \/ to = "cancelled")
  /\ transitions' =
       [transitions EXCEPT ![r] = Append(@, [from |-> entry[r].status, to |-> to])]
  /\ tasks' = tasks

\* A step that leaves every status as it is: a checkpoint, or time passing.
Kept ==
  /\ entry' \in [Ref -> TaskEntry]
  /\ \A r \in Ref :
       /\ entry'[r].status = entry[r].status
       /\ entry'[r].aborted = entry[r].aborted
       /\ entry[r].status \in TERMINAL_STATES => entry'[r].checkpoint = entry[r].checkpoint
  /\ tasks' = tasks
  /\ transitions' = transitions

\* A step that drops entries from the map.
Dropped ==
  /\ entry' = entry
  /\ transitions' = transitions
  /\ tasks' \in [TaskId -> Ref \cup {NoRef}]
  /\ \A id \in TaskId :
       \/ tasks'[id] = tasks[id]
       \/ /\ tasks'[id] = NoRef
          /\ tasks[id] \in Ref
          /\ entry[tasks[id]].status \in TERMINAL_STATES

StepKind ==
  \/ \E id \in TaskId, r \in Ref : Created(id, r)
  \/ \E r \in Ref, to \in TaskStatus : Moved(r, to)
  \/ Kept
  \/ Dropped

----------------------------------------------------------------------------
(* Typing.                                                                  *)

\* What the entry functions return.
LEMMA EntryFunctions ==
  ASSUME NEW e \in TaskEntry, NEW to \in TaskStatus
  PROVE  /\ transitionTask(e, to) \in TaskEntry
         /\ transitionTask(e, to).status = to
         /\ transitionTask(e, to).aborted = (e.aborted \/ to = "cancelled")
         /\ saveCheckpoint(e) \in TaskEntry
         /\ saveCheckpoint(e).status = e.status
         /\ saveCheckpoint(e).aborted = e.aborted
         /\ createTaskEntry \in TaskEntry
         /\ NoEntryYet \in TaskEntry
BY DEF transitionTask, saveCheckpoint, createTaskEntry, NoEntryYet, TaskEntry, TaskStatus

\* Time passing changes nothing but the age of an entry.
LEMMA OlderKeeps ==
  ASSUME NEW e \in TaskEntry, NEW cap \in Nat
  PROVE  /\ Older(e, cap) \in TaskEntry
         /\ Older(e, cap).status = e.status
         /\ Older(e, cap).aborted = e.aborted
         /\ Older(e, cap).checkpoint = e.checkpoint
BY DEF Older, TaskEntry

\* A valid transition starts from a status that has not ended and leads to a
\* status of the lifecycle.
LEMMA TransitionTable ==
  ASSUME NEW from \in TaskStatus, NEW to, isValidTransition(from, to)
  PROVE  /\ to \in TaskStatus
         /\ from \notin TERMINAL_STATES
         /\ to # "absent" /\ to # "pending"
BY DEF isValidTransition, TASK_TRANSITIONS, TaskStatus, TERMINAL_STATES

\* The moves of the table that are no cancellation.
LEMMA TableWithoutCancel ==
  ASSUME NEW from \in TaskStatus, NEW to, isValidTransition(from, to), to # "cancelled"
  PROVE  \/ from = "pending"   /\ to \in {"accepted", "failed"}
         \/ from = "accepted"  /\ to \in {"running", "failed"}
         \/ from = "running"   /\ to \in {"completed", "failed", "suspended"}
         \/ from = "suspended" /\ to \in {"running", "failed"}
BY DEF isValidTransition, TASK_TRANSITIONS, TaskStatus

\* Every event a call emits is a member of Events.
LEMMA EventTyped ==
  ASSUME NEW type \in EventType, NEW r \in Ref \cup {NoRef},
         NEW s \in TaskStatus \cup {"none"}
  PROVE  Event(type, r, s) \in Events
BY DEF Event, Events

\* Queues of events stay queues of events when a call emits.
LEMMA EmitTyped ==
  ASSUME TypeOK, NEW evs \in Seq(Events), emit(evs)
  PROVE  inbox' \in [Listener -> Seq(Events)]
BY DEF emit, TypeOK

----------------------------------------------------------------------------
(* Every step is of one of the four kinds.                                  *)

\* The map holds entries that have been created.
MapSound ==
  \A id \in TaskId : tasks[id] \in Ref => entry[tasks[id]].status \in TaskStatus

\* The type invariant needs MapSound: a transition of an entry that does not
\* exist would record a "from" that is no status.
TypedMap == TypeOK /\ MapSound

LEMMA MoveIsMoved ==
  ASSUME TypedMap, NEW id \in TaskId, tasks[id] # NoRef,
         NEW to \in TaskStatus, move(tasks[id], to), UNCHANGED tasks
  PROVE  tasks[id] \in Ref /\ Moved(tasks[id], to)
<1> DEFINE r == tasks[id]
<1>1. r \in Ref /\ entry[r] \in TaskEntry
  BY DEF TypedMap, TypeOK
<1>2. entry' = [entry EXCEPT ![r] = transitionTask(entry[r], to)]
  BY DEF move, Put
<1>3. \E e \in TaskEntry :
        /\ entry' = [entry EXCEPT ![r] = e]
        /\ e.status = to
        /\ e.aborted = (entry[r].aborted \/ to = "cancelled")
  <2> DEFINE e == transitionTask(entry[r], to)
  <2>1. e \in TaskEntry /\ e.status = to /\ e.aborted = (entry[r].aborted \/ to = "cancelled")
    BY <1>1, EntryFunctions
  <2>2. entry' = [entry EXCEPT ![r] = e]
    BY <1>2
  <2> HIDE DEF e
  <2>3. QED
    BY <2>1, <2>2
<1>4. QED
  BY <1>1, <1>3 DEF move, Moved

LEMMA SuspendIsMoved ==
  ASSUME TypedMap, NEW id \in TaskId, NEW hasData \in BOOLEAN, suspend(id, hasData)
  PROVE  tasks[id] \in Ref /\ Moved(tasks[id], "suspended")
<1> DEFINE r == tasks[id]
           e == transitionTask(entry[r], "suspended")
           f == IF hasData THEN saveCheckpoint(e) ELSE e
<1>1. r \in Ref /\ entry[r] \in TaskEntry
  BY DEF TypedMap, TypeOK, suspend
<1>2. "suspended" \in TaskStatus
  BY DEF TaskStatus
<1>3. e \in TaskEntry /\ e.status = "suspended"
      /\ e.aborted = (entry[r].aborted \/ "suspended" = "cancelled")
  BY <1>1, <1>2, EntryFunctions
<1>4. f \in TaskEntry /\ f.status = "suspended"
      /\ f.aborted = (entry[r].aborted \/ "suspended" = "cancelled")
  BY <1>2, <1>3, EntryFunctions
<1>5. entry' = [entry EXCEPT ![r] = f]
  BY DEF suspend, Put
<1>6. QED
  BY <1>1, <1>4, <1>5 DEF suspend, Moved

LEMMA CallKinds ==
  ASSUME TypedMap, NEW id \in TaskId, Call(id)
  PROVE  StepKind
<1>1. ASSUME NEW r \in Ref, register(id, r) PROVE StepKind
  BY <1>1 DEF register, Put, StepKind, Created
<1>2. ASSUME NEW to \in TaskStatus, transition(id, to) PROVE StepKind
  BY <1>2, MoveIsMoved DEF transition, StepKind
<1>3. CASE cancel(id)
  BY <1>3, MoveIsMoved DEF cancel, StepKind, TaskStatus
<1>4. ASSUME NEW hasData \in BOOLEAN, suspend(id, hasData) PROVE StepKind
  BY <1>4, SuspendIsMoved DEF StepKind, TaskStatus
<1>5. CASE resume(id)
  BY <1>5, MoveIsMoved DEF resume, StepKind, TaskStatus
<1>6. CASE checkpoint(id)
  <2>1. tasks[id] \in Ref /\ entry[tasks[id]] \in TaskEntry
    BY <1>6 DEF checkpoint, TypedMap, TypeOK
  <2>2. /\ saveCheckpoint(entry[tasks[id]]) \in TaskEntry
        /\ saveCheckpoint(entry[tasks[id]]).status = entry[tasks[id]].status
        /\ saveCheckpoint(entry[tasks[id]]).aborted = entry[tasks[id]].aborted
    BY <2>1, EntryFunctions DEF TaskStatus
  <2>3. entry[tasks[id]].status \notin TERMINAL_STATES
    BY <1>6 DEF checkpoint, canCheckpoint, TERMINAL_STATES
  <2>4. entry' = [entry EXCEPT ![tasks[id]] = saveCheckpoint(entry[tasks[id]])]
    BY <1>6 DEF checkpoint, Put
  <2>5. Kept
    BY <1>6, <2>1, <2>2, <2>3, <2>4 DEF checkpoint, Kept, TypedMap, TypeOK
  <2>6. QED
    BY <2>5 DEF StepKind
<1>7. QED
  BY <1>1, <1>2, <1>3, <1>4, <1>5, <1>6 DEF Call

LEMMA CleanupIsDropped ==
  ASSUME TypedMap, NEW maxAge, cleanup(maxAge)
  PROVE  Dropped
<1>1. ASSUME NEW id \in TaskId
      PROVE  \/ tasks'[id] = tasks[id]
             \/ /\ tasks'[id] = NoRef
                /\ tasks[id] \in Ref
                /\ entry[tasks[id]].status \in TERMINAL_STATES
  BY DEF cleanup, Stale, isStale, isTerminal, TypedMap, TypeOK
<1>2. tasks' \in [TaskId -> Ref \cup {NoRef}]
  BY DEF cleanup, TypedMap, TypeOK
<1>3. QED
  BY <1>1, <1>2 DEF cleanup, Dropped

LEMMA StepKinds == TypedMap /\ [Next]_vars => StepKind
<1> SUFFICES ASSUME TypedMap, [Next]_vars PROVE StepKind
  OBVIOUS
<1>1. ASSUME NEW id \in TaskId, Call(id) PROVE StepKind
  BY <1>1, CallKinds
<1>2. ASSUME UNCHANGED entryVars PROVE StepKind
  BY <1>2 DEF entryVars, StepKind, Dropped, TypedMap, TypeOK
<1>3. ASSUME NEW l \in Listener, on(l) \/ unsubscribe(l) \/ Deliver(l) PROVE StepKind
  BY <1>2, <1>3 DEF on, unsubscribe, Deliver
<1>4. ASSUME NEW maxAge, cleanup(maxAge) PROVE StepKind
  BY <1>4, CleanupIsDropped DEF StepKind
<1>5. CASE Tick
  <2>1. AgeCap \in Nat
    BY BoundsAssumption DEF AgeCap
  <2>2. Kept
    BY <1>5, <2>1, OlderKeeps DEF Tick, Kept, TypedMap, TypeOK
  <2>3. QED
    BY <2>2 DEF StepKind
<1>6. QED
  BY <1>1, <1>2, <1>3, <1>4, <1>5 DEF Next, CleanupTimer, dispose, vars, entryVars

----------------------------------------------------------------------------
(* Type correctness.                                                        *)

LEMMA MapStaysTyped ==
  ASSUME TypedMap, StepKind
  PROVE  /\ tasks' \in [TaskId -> Ref \cup {NoRef}]
         /\ entry' \in [Ref -> TaskEntry]
         /\ transitions' \in [Ref -> Seq(Transition)]
         /\ MapSound'
<1> USE DEF TypedMap, TypeOK, MapSound
<1>1. ASSUME NEW id \in TaskId, NEW r \in Ref, Created(id, r)
      PROVE  /\ tasks' \in [TaskId -> Ref \cup {NoRef}]
             /\ entry' \in [Ref -> TaskEntry]
             /\ transitions' \in [Ref -> Seq(Transition)]
             /\ MapSound'
  BY <1>1 DEF Created, createTaskEntry, NoEntryYet, TaskEntry, TaskStatus
<1>2. ASSUME NEW r \in Ref, NEW to \in TaskStatus, Moved(r, to)
      PROVE  /\ tasks' \in [TaskId -> Ref \cup {NoRef}]
             /\ entry' \in [Ref -> TaskEntry]
             /\ transitions' \in [Ref -> Seq(Transition)]
             /\ MapSound'
  <2>1. [from |-> entry[r].status, to |-> to] \in Transition
    BY <1>2 DEF Moved, Transition
  <2>2. transitions' \in [Ref -> Seq(Transition)]
    BY <1>2, <2>1 DEF Moved
  <2>3. entry' \in [Ref -> TaskEntry]
    BY <1>2 DEF Moved
  <2>4. MapSound'
    BY <1>2 DEF Moved
  <2>5. QED
    BY <1>2, <2>2, <2>3, <2>4 DEF Moved
<1>3. CASE Kept
  BY <1>3 DEF Kept
<1>4. CASE Dropped
  BY <1>4, NoRefAssumption DEF Dropped
<1>5. QED
  BY <1>1, <1>2, <1>3, <1>4 DEF StepKind

LEMMA EventsStayTyped ==
  ASSUME TypedMap, [Next]_vars
  PROVE  /\ listening' \in [Listener -> {"new", "on", "off"}]
         /\ inbox' \in [Listener -> Seq(Events)]
         /\ view' \in [Listener -> [Ref -> TaskStatus \cup {"unseen"}]]
         /\ timer' \in BOOLEAN
<1> DEFINE Goal == /\ listening' \in [Listener -> {"new", "on", "off"}]
                   /\ inbox' \in [Listener -> Seq(Events)]
                   /\ view' \in [Listener -> [Ref -> TaskStatus \cup {"unseen"}]]
                   /\ timer' \in BOOLEAN
<1>1. ASSUME NEW evs \in Seq(Events), emit(evs), UNCHANGED <<listening, view, timer>>
      PROVE  Goal
  BY <1>1, EmitTyped DEF TypedMap, TypeOK
<1>2. ASSUME UNCHANGED <<inbox, view>>, timer' \in BOOLEAN,
             listening' \in [Listener -> {"new", "on", "off"}]
      PROVE  Goal
  BY <1>2 DEF TypedMap, TypeOK
<1>3. ASSUME NEW id \in TaskId, Call(id) PROVE Goal
  <2>1. tasks[id] \in Ref \cup {NoRef} /\ Ref \subseteq Ref \cup {NoRef}
    BY DEF TypedMap, TypeOK
  <2>2. ASSUME NEW r \in Ref, register(id, r) PROVE Goal
    <3>1. <<Event("registered", r, "pending")>> \in Seq(Events)
      BY EventTyped DEF EventType, TaskStatus
    <3>2. QED
      BY <1>1, <2>2, <3>1 DEF register
  <2>3. ASSUME NEW to \in TaskStatus, transition(id, to) PROVE Goal
    <3>1. <<Event("transitioned", tasks[id], to)>> \in Seq(Events)
      BY <2>1, EventTyped DEF EventType
    <3>2. QED
      BY <1>1, <2>3, <3>1 DEF transition
  <2>4. CASE cancel(id)
    <3>1. <<Event("cancelled", tasks[id], "cancelled")>> \in Seq(Events)
      BY <2>1, EventTyped DEF EventType, TaskStatus
    <3>2. QED
      BY <1>1, <2>4, <3>1 DEF cancel
  <2>5. ASSUME NEW hasData \in BOOLEAN, suspend(id, hasData) PROVE Goal
    <3>1. Event("checkpoint", tasks[id], "none") \in Events
      BY <2>1, EventTyped DEF EventType
    <3>2. Event("suspended", tasks[id], "suspended") \in Events
      BY <2>1, EventTyped DEF EventType, TaskStatus
    <3> DEFINE evs == (IF hasData THEN <<Event("checkpoint", tasks[id], "none")>>
                       ELSE <<>>) \o <<Event("suspended", tasks[id], "suspended")>>
    <3>3. evs \in Seq(Events)
      BY <3>1, <3>2
    <3>4. emit(evs) /\ UNCHANGED <<listening, view, timer>>
      BY <2>5 DEF suspend
    <3> HIDE DEF evs
    <3>5. QED
      BY <1>1, <3>3, <3>4
  <2>6. CASE resume(id)
    <3>1. <<Event("resumed", tasks[id], "running")>> \in Seq(Events)
      BY <2>1, EventTyped DEF EventType, TaskStatus
    <3>2. QED
      BY <1>1, <2>6, <3>1 DEF resume
  <2>7. CASE checkpoint(id)
    <3>1. <<Event("checkpoint", tasks[id], "none")>> \in Seq(Events)
      BY <2>1, EventTyped DEF EventType
    <3>2. QED
      BY <1>1, <2>7, <3>1 DEF checkpoint
  <2>8. QED
    BY <1>3, <2>2, <2>3, <2>4, <2>5, <2>6, <2>7 DEF Call
<1>4. ASSUME NEW l \in Listener, on(l) \/ unsubscribe(l) PROVE Goal
  BY <1>2, <1>4 DEF on, unsubscribe, TypedMap, TypeOK
<1>5. ASSUME NEW l \in Listener, Deliver(l) PROVE Goal
  <2> DEFINE e == Head(inbox[l])
  <2>1. inbox[l] \in Seq(Events) /\ inbox[l] # <<>>
    BY <1>5 DEF Deliver, TypedMap, TypeOK
  <2>2. e \in Events /\ Tail(inbox[l]) \in Seq(Events)
    BY <2>1
  <2>3. inbox' \in [Listener -> Seq(Events)]
    BY <1>5, <2>2 DEF Deliver, TypedMap, TypeOK
  <2>4. e.announces = "none" \/ e.announces \in TaskStatus
    BY <2>2 DEF Events
  <2>5. view' = IF e.announces = "none" THEN view
                ELSE [view EXCEPT ![l][e.ref] = e.announces]
    BY <1>5 DEF Deliver
  <2> HIDE DEF e
  <2>6. view' \in [Listener -> [Ref -> TaskStatus \cup {"unseen"}]]
    BY <2>4, <2>5 DEF TypedMap, TypeOK
  <2>7. QED
    BY <1>5, <2>3, <2>6 DEF Deliver, TypedMap, TypeOK
<1>6. ASSUME NEW maxAge, cleanup(maxAge) PROVE Goal
  <2>1. <<Event("cleaned", NoRef, "none")>> \in Seq(Events)
    BY EventTyped DEF EventType
  <2>2. QED
    BY <1>1, <1>6, <2>1 DEF cleanup
<1>7. CASE dispose
  BY <1>2, <1>7 DEF dispose, TypedMap, TypeOK
<1>8. CASE Tick
  BY <1>8 DEF Tick, TypedMap, TypeOK
<1>9. CASE UNCHANGED vars
  BY <1>9 DEF vars, TypedMap, TypeOK
<1>10. QED
  BY <1>3, <1>4, <1>5, <1>6, <1>7, <1>8, <1>9 DEF Next, CleanupTimer

LEMMA TypedMapInvariant == Spec => []TypedMap
<1>1. Init => TypedMap
  BY NoRefAssumption DEF Init, TypedMap, TypeOK, MapSound, NoEntryYet, TaskEntry
<1>2. TypedMap /\ [Next]_vars => TypedMap'
  BY StepKinds, MapStaysTyped, EventsStayTyped DEF TypedMap, TypeOK
<1>3. QED
  BY <1>1, <1>2, PTL DEF Spec

\* Type correctness, for every instance.
THEOREM RegistryTypeCorrect == Spec => []TypeOK
BY TypedMapInvariant, PTL DEF TypedMap

----------------------------------------------------------------------------
(* The safety invariants.  HistoryExplainsStatus, AbortedIffCancelled and   *)
(* LiveTasksStayRegistered become inductive together once it is also known  *)
(* that no entry is held under two ids and that an entry not yet created    *)
(* has no history.                                                          *)

OneIdPerEntry ==
  \A id, other \in TaskId : tasks[id] \in Ref /\ tasks[id] = tasks[other] => id = other

AbsentIsBlank ==
  \A r \in Ref : entry[r].status = "absent" =>
    /\ transitions[r] = <<>>
    /\ ~entry[r].aborted
    /\ \A id \in TaskId : tasks[id] # r

LiveIsMapped ==
  \A r \in Ref : entry[r].status \in TaskStatus \ TERMINAL_STATES =>
    \E id \in TaskId : tasks[id] = r

RegistryInv ==
  /\ TypedMap
  /\ OneIdPerEntry
  /\ AbsentIsBlank
  /\ LiveIsMapped
  /\ AbortedIffCancelled
  /\ HistoryExplainsStatus

LEMMA MapInvariants ==
  ASSUME RegistryInv, StepKind
  PROVE  OneIdPerEntry' /\ AbsentIsBlank' /\ LiveIsMapped' /\ AbortedIffCancelled'
<1> DEFINE Goal == OneIdPerEntry' /\ AbsentIsBlank' /\ LiveIsMapped' /\ AbortedIffCancelled'
<1> USE NoRefAssumption
    DEF RegistryInv, TypedMap, TypeOK, MapSound,
        OneIdPerEntry, AbsentIsBlank, LiveIsMapped, AbortedIffCancelled
<1>1. ASSUME NEW id \in TaskId, NEW r \in Ref, Created(id, r) PROVE Goal
  <2>1. /\ createTaskEntry.status = "pending" /\ createTaskEntry.aborted = FALSE
        /\ "pending" # "absent" /\ "pending" # "cancelled"
    BY DEF createTaskEntry, NoEntryYet
  <2>2. OneIdPerEntry'
    BY <1>1 DEF Created
  <2>3. AbsentIsBlank'
    BY <1>1, <2>1 DEF Created
  <2>4. LiveIsMapped'
    BY <1>1 DEF Created
  <2>5. AbortedIffCancelled'
    BY <1>1, <2>1 DEF Created
  <2>6. QED
    BY <2>2, <2>3, <2>4, <2>5
<1>2. ASSUME NEW r \in Ref, NEW to \in TaskStatus, Moved(r, to) PROVE Goal
  <2>1. PICK e \in TaskEntry :
          /\ entry' = [entry EXCEPT ![r] = e]
          /\ e.status = to
          /\ e.aborted = (entry[r].aborted \/ to = "cancelled")
    BY <1>2 DEF Moved
  <2>2. tasks' = tasks /\ (\E id \in TaskId : tasks[id] = r)
    BY <1>2 DEF Moved
  <2>3. /\ entry[r].status \in TaskStatus
        /\ entry[r].status \notin TERMINAL_STATES
        /\ to # "absent"
    BY <1>2, <2>2, TransitionTable DEF Moved
  <2>4. ~entry[r].aborted
    BY <2>3 DEF TERMINAL_STATES
  <2>5. entry'[r] = e /\ \A q \in Ref \ {r} : entry'[q] = entry[q] /\ transitions'[q] = transitions[q]
    BY <1>2, <2>1 DEF Moved
  <2>6. OneIdPerEntry'
    BY <2>2
  <2>7. AbsentIsBlank'
    BY <2>1, <2>2, <2>3, <2>5
  <2>8. LiveIsMapped'
    BY <2>2, <2>5
  <2>9. AbortedIffCancelled'
    <3>1. entry'[r].aborted <=> entry'[r].status = "cancelled"
      BY <2>1, <2>4, <2>5
    <3>2. ASSUME NEW q \in Ref, q # r
          PROVE  entry'[q].aborted <=> entry'[q].status = "cancelled"
      BY <2>5, <3>2
    <3>3. QED
      BY <3>1, <3>2
  <2>10. QED
    BY <2>6, <2>7, <2>8, <2>9
<1>3. CASE Kept
  <2>1. \A r \in Ref : /\ entry'[r].status = entry[r].status
                       /\ entry'[r].aborted = entry[r].aborted
    BY <1>3 DEF Kept
  <2>2. tasks' = tasks /\ transitions' = transitions
    BY <1>3 DEF Kept
  <2>3. OneIdPerEntry' /\ LiveIsMapped'
    BY <2>1, <2>2
  <2>4. AbsentIsBlank'
    BY <2>1, <2>2
  <2>5. AbortedIffCancelled'
    BY <2>1
  <2>6. QED
    BY <2>3, <2>4, <2>5
<1>4. CASE Dropped
  BY <1>4 DEF Dropped
<1>5. QED
  BY <1>1, <1>2, <1>3, <1>4 DEF StepKind

\* HistoryExplainsStatus, one entry at a time.
ExplainedBy(now, h) ==
  /\ IF h = <<>> THEN now = "pending"
     ELSE h[1].from = "pending" /\ h[Len(h)].to = now
  /\ \A i \in 1..Len(h) : isValidTransition(h[i].from, h[i].to)
  /\ \A i \in 1..Len(h) - 1 : h[i].to = h[i + 1].from

\* Appending a valid step from the explained status explains the new status.
LEMMA AppendExplains ==
  ASSUME NEW h \in Seq(Transition), NEW from \in TaskStatus, NEW to \in TaskStatus,
         ExplainedBy(from, h), isValidTransition(from, to)
  PROVE  ExplainedBy(to, Append(h, [from |-> from, to |-> to]))
<1> DEFINE t == [from |-> from, to |-> to]
           g == Append(h, t)
<1>1. t \in Transition /\ t.from = from /\ t.to = to
  BY DEF Transition
<1> HIDE DEF t
<1>2. g \in Seq(Transition) /\ Len(g) = Len(h) + 1 /\ Len(h) \in Nat
  BY <1>1
<1>3. g[Len(g)] = t /\ \A i \in 1..Len(h) : g[i] = h[i]
  BY <1>1, <1>2
<1>4. g # <<>>
  BY <1>2
<1>5. g[1].from = "pending"
  <2>1. CASE h = <<>>
    BY <1>1, <1>2, <1>3, <2>1 DEF ExplainedBy
  <2>2. CASE h # <<>>
    <3>1. 1 \in 1..Len(h)
      BY <1>2, <2>2
    <3>2. QED
      BY <1>3, <2>2, <3>1 DEF ExplainedBy
  <2>3. QED
    BY <2>1, <2>2
<1>6. \A i \in 1..Len(g) : isValidTransition(g[i].from, g[i].to)
  BY <1>1, <1>2, <1>3 DEF ExplainedBy
<1>7. \A i \in 1..Len(g) - 1 : g[i].to = g[i + 1].from
  <2> SUFFICES ASSUME NEW i \in 1..Len(g) - 1 PROVE g[i].to = g[i + 1].from
    OBVIOUS
  <2>1. i \in 1..Len(h) /\ g[i] = h[i] /\ h # <<>>
    BY <1>2, <1>3
  <2>2. CASE i = Len(h)
    BY <1>1, <1>2, <1>3, <2>1, <2>2 DEF ExplainedBy
  <2>3. CASE i # Len(h)
    <3>1. i \in 1..Len(h) - 1 /\ i + 1 \in 1..Len(h)
      BY <1>2, <2>1, <2>3
    <3>2. QED
      BY <1>3, <2>1, <3>1 DEF ExplainedBy
  <2>4. QED
    BY <2>2, <2>3
<1>8. g[Len(g)].to = to
  BY <1>1, <1>3
<1> HIDE DEF g
<1>9. ExplainedBy(to, g)
  BY <1>4, <1>5, <1>6, <1>7, <1>8 DEF ExplainedBy
<1>10. QED
  BY <1>9 DEF g, t

LEMMA HistoryStaysExplained ==
  ASSUME RegistryInv, StepKind
  PROVE  HistoryExplainsStatus'
<1>1. \A r \in Registered : ExplainedBy(entry[r].status, transitions[r])
  BY DEF RegistryInv, HistoryExplainsStatus, ExplainedBy
<1> SUFFICES \A r \in Registered' : ExplainedBy(entry'[r].status, transitions'[r])
  BY DEF HistoryExplainsStatus, ExplainedBy
<1> USE DEF RegistryInv, TypedMap, TypeOK, Registered
<1>2. ASSUME NEW id \in TaskId, NEW q \in Ref, Created(id, q), NEW r \in Registered'
      PROVE  ExplainedBy(entry'[r].status, transitions'[r])
  <2>1. CASE r = q
    <3>1. transitions'[r] = <<>>
      BY <1>2, <2>1 DEF Created, AbsentIsBlank
    <3>2. entry'[r].status = "pending"
      BY <1>2, <2>1 DEF Created, createTaskEntry, NoEntryYet
    <3>3. QED
      BY <3>1, <3>2 DEF ExplainedBy
  <2>2. CASE r # q
    BY <1>1, <1>2, <2>2 DEF Created
  <2>3. QED
    BY <2>1, <2>2
<1>3. ASSUME NEW q \in Ref, NEW to \in TaskStatus, Moved(q, to), NEW r \in Registered'
      PROVE  ExplainedBy(entry'[r].status, transitions'[r])
  <2>1. CASE r = q
    <3>1. entry[r].status \in TaskStatus /\ isValidTransition(entry[r].status, to)
      BY <1>3, <2>1 DEF Moved, MapSound
    <3>2. ExplainedBy(entry[r].status, transitions[r]) /\ transitions[r] \in Seq(Transition)
      BY <1>1, <2>1, <3>1 DEF TaskStatus
    <3>3. ExplainedBy(to, Append(transitions[r], [from |-> entry[r].status, to |-> to]))
      BY <3>1, <3>2, AppendExplains
    <3>4. entry'[r].status = to
      BY <1>3, <2>1 DEF Moved
    <3>5. transitions'[r] = Append(transitions[r], [from |-> entry[r].status, to |-> to])
      BY <1>3, <2>1 DEF Moved
    <3>6. QED
      BY <3>3, <3>4, <3>5
  <2>2. CASE r # q
    <3>1. entry'[r] = entry[r] /\ transitions'[r] = transitions[r] /\ r \in Registered
      BY <1>3, <2>2 DEF Moved
    <3>2. QED
      BY <1>1, <3>1
  <2>3. QED
    BY <2>1, <2>2
<1>4. ASSUME Kept, NEW r \in Registered'
      PROVE  ExplainedBy(entry'[r].status, transitions'[r])
  BY <1>1, <1>4 DEF Kept
<1>5. ASSUME Dropped, NEW r \in Registered'
      PROVE  ExplainedBy(entry'[r].status, transitions'[r])
  BY <1>1, <1>5 DEF Dropped
<1>6. QED
  BY <1>2, <1>3, <1>4, <1>5 DEF StepKind

\* Init establishes the invariant and every step keeps it.
LEMMA RegistryInvariant == Spec => []RegistryInv
<1>1. Init => RegistryInv
  BY NoRefAssumption
  DEF Init, RegistryInv, TypedMap, TypeOK, MapSound, OneIdPerEntry, AbsentIsBlank,
      LiveIsMapped, AbortedIffCancelled, HistoryExplainsStatus, Registered,
      NoEntryYet, TaskEntry, TaskStatus
<1>2. RegistryInv /\ [Next]_vars => RegistryInv'
  <2> SUFFICES ASSUME RegistryInv, [Next]_vars PROVE RegistryInv'
    OBVIOUS
  <2>1. StepKind
    BY StepKinds DEF RegistryInv
  <2>2. TypedMap'
    BY <2>1, MapStaysTyped, EventsStayTyped DEF RegistryInv, TypedMap, TypeOK
  <2>3. QED
    BY <2>1, <2>2, MapInvariants, HistoryStaysExplained DEF RegistryInv
<1>3. QED
  BY <1>1, <1>2, PTL DEF Spec

\* The recorded history always explains the status.
THEOREM HistoryIsSound == Spec => []HistoryExplainsStatus
BY RegistryInvariant, PTL DEF RegistryInv

\* A signal has fired exactly when its task was cancelled.
THEOREM AbortMeansCancelled == Spec => []AbortedIffCancelled
BY RegistryInvariant, PTL DEF RegistryInv

\* No call, no cleanup and no second registration loses a task that has not
\* ended.
THEOREM NoLiveTaskIsLost == Spec => []LiveTasksStayRegistered
<1>1. RegistryInv => LiveTasksStayRegistered
  <2> SUFFICES ASSUME RegistryInv, NEW r \in Registered, isActive(entry[r].status)
               PROVE  \E id \in TaskId :
                        tasks[id] = r /\ \A other \in TaskId \ {id} : tasks[other] # r
    BY DEF LiveTasksStayRegistered
  <2>1. r \in Ref /\ entry[r].status \in TaskStatus \ TERMINAL_STATES
    BY DEF Registered, isActive
  <2>2. PICK id \in TaskId : tasks[id] = r
    BY <2>1 DEF RegistryInv, LiveIsMapped
  <2>3. \A other \in TaskId \ {id} : tasks[other] # r
    BY <2>1, <2>2 DEF RegistryInv, OneIdPerEntry
  <2>4. QED
    BY <2>2, <2>3
<1>2. QED
  BY <1>1, RegistryInvariant, PTL

----------------------------------------------------------------------------
(* Ended tasks, and the contract.                                           *)

\* Nothing about an ended task changes any more.
THEOREM EndedTasksStayFrozen == Spec => EndedTasksAreFrozen
<1>1. RegistryInv /\ [Next]_vars =>
        [\A r \in Ref : isTerminal(entry[r].status) =>
           /\ [entry'[r] EXCEPT !.idle = 0] = [entry[r] EXCEPT !.idle = 0]
           /\ transitions'[r] = transitions[r]]_vars
  <2> SUFFICES ASSUME RegistryInv, [Next]_vars, NEW r \in Ref,
                      entry[r].status \in TERMINAL_STATES
               PROVE  /\ [entry'[r] EXCEPT !.idle = 0] = [entry[r] EXCEPT !.idle = 0]
                      /\ transitions'[r] = transitions[r]
    BY DEF isTerminal
  <2> USE DEF RegistryInv, TypedMap, TypeOK
  <2>1. StepKind
    BY StepKinds
  <2>2. ASSUME NEW id \in TaskId, NEW q \in Ref, Created(id, q)
        PROVE  entry'[r] = entry[r] /\ transitions'[r] = transitions[r]
    BY <2>2 DEF Created, TERMINAL_STATES
  <2>3. ASSUME NEW q \in Ref, NEW to \in TaskStatus, Moved(q, to)
        PROVE  entry'[r] = entry[r] /\ transitions'[r] = transitions[r]
    <3>1. entry[q].status \in TaskStatus /\ isValidTransition(entry[q].status, to)
      BY <2>3 DEF Moved, MapSound
    <3>2. entry[q].status \notin TERMINAL_STATES
      BY <3>1, TransitionTable
    <3>3. QED
      BY <2>3, <3>2 DEF Moved
  <2>4. ASSUME Kept
        PROVE  /\ [entry'[r] EXCEPT !.idle = 0] = [entry[r] EXCEPT !.idle = 0]
               /\ transitions'[r] = transitions[r]
    <3>1. entry[r] \in TaskEntry /\ entry'[r] \in TaskEntry
      BY <2>4 DEF Kept
    <3>2. /\ entry'[r].status = entry[r].status
          /\ entry'[r].checkpoint = entry[r].checkpoint
          /\ entry'[r].aborted = entry[r].aborted
          /\ transitions'[r] = transitions[r]
      BY <2>4 DEF Kept
    <3>3. QED
      BY <3>1, <3>2 DEF TaskEntry
  <2>5. ASSUME Dropped
        PROVE  entry'[r] = entry[r] /\ transitions'[r] = transitions[r]
    BY <2>5 DEF Dropped
  <2>6. QED
    BY <2>1, <2>2, <2>3, <2>4, <2>5 DEF StepKind
<1>2. QED
  BY <1>1, RegistryInvariant, PTL DEF Spec, EndedTasksAreFrozen

\* The step of the contract that a move of the registry takes.
LEMMA MovedImplements ==
  ASSUME RegistryInv, NEW r \in Ref, NEW to \in TaskStatus, Moved(r, to)
  PROVE  Contract!Move(r)
<1> DEFINE statuses == [q \in Ref |-> entry[q].status]
           aborted  == {q \in Ref : entry[q].aborted}
<1> USE DEF RegistryInv, TypedMap, TypeOK
<1>1. PICK e \in TaskEntry :
        /\ entry' = [entry EXCEPT ![r] = e]
        /\ e.status = to
        /\ e.aborted = (entry[r].aborted \/ to = "cancelled")
  BY DEF Moved
<1>2. entry[r].status \in TaskStatus /\ isValidTransition(entry[r].status, to)
  BY DEF Moved, MapSound
<1>3. Contract!Becomes(r, to)
  BY <1>1 DEF Contract!Becomes
<1>4. ~entry[r].aborted
  BY <1>2, TransitionTable DEF AbortedIffCancelled, TERMINAL_STATES
<1>5. CASE to = "cancelled"
  <2>1. {q \in Ref : entry'[q].aborted} = aborted \cup {r}
    BY <1>1, <1>5
  <2>2. entry[r].status \in Contract!Active
    BY <1>2, TransitionTable DEF TaskStatus, TERMINAL_STATES, Contract!Active, Contract!Waiting
  <2>3. Contract!Cancel(r)
    BY <1>3, <1>5, <2>1, <2>2 DEF Contract!Cancel
  <2>4. QED
    BY <2>3 DEF Contract!Move
<1>6. CASE to # "cancelled"
  <2>1. {q \in Ref : entry'[q].aborted} = aborted
    BY <1>1, <1>4, <1>6
  <2>2. entry[r].status = statuses[r]
    OBVIOUS
  <2>3. \/ entry[r].status = "pending"   /\ to \in {"accepted", "failed"}
        \/ entry[r].status = "accepted"  /\ to \in {"running", "failed"}
        \/ entry[r].status = "running"   /\ to \in {"completed", "failed", "suspended"}
        \/ entry[r].status = "suspended" /\ to \in {"running", "failed"}
    BY <1>2, <1>6, TableWithoutCancel
  <2>4. QED
    BY <1>3, <2>1, <2>3
    DEF Contract!Move, Contract!Accept, Contract!Start, Contract!Suspend, Contract!Resume,
        Contract!Complete, Contract!Fail, Contract!Active, Contract!Waiting
<1>7. QED
  BY <1>5, <1>6

\* The registry implements the lifecycle contract.
THEOREM RegistryImplementsContract == Spec => ImplementsContract
<1>1. Init => Contract!ContractInit
  BY DEF Init, Contract!ContractInit, NoEntryYet
<1>2. RegistryInv /\ [Next]_vars => [Contract!ContractNext]_(Contract!contractVars)
  <2> SUFFICES ASSUME RegistryInv, [Next]_vars
               PROVE  Contract!ContractNext \/ UNCHANGED Contract!contractVars
    OBVIOUS
  <2>1. StepKind
    BY StepKinds DEF RegistryInv
  <2>2. ASSUME NEW id \in TaskId, NEW r \in Ref, Created(id, r) PROVE Contract!ContractNext
    <3>1. Contract!Becomes(r, "pending")
      BY <2>2 DEF Created, createTaskEntry, NoEntryYet, Contract!Becomes,
                  RegistryInv, TypedMap, TypeOK
    <3>2. {q \in Ref : entry'[q].aborted} = {q \in Ref : entry[q].aborted}
      BY <2>2 DEF Created, createTaskEntry, NoEntryYet, RegistryInv, TypedMap, TypeOK,
                  AbsentIsBlank
    <3>3. Contract!Create(r)
      BY <2>2, <3>1, <3>2 DEF Contract!Create, Created
    <3>4. QED
      BY <3>3 DEF Contract!ContractNext, Contract!Move
  <2>3. ASSUME NEW r \in Ref, NEW to \in TaskStatus, Moved(r, to) PROVE Contract!ContractNext
    BY <2>3, MovedImplements DEF Contract!ContractNext
  <2>4. ASSUME Kept PROVE UNCHANGED Contract!contractVars
    BY <2>4 DEF Kept, Contract!contractVars
  <2>5. ASSUME Dropped PROVE UNCHANGED Contract!contractVars
    BY <2>5 DEF Dropped, Contract!contractVars
  <2>6. QED
    BY <2>1, <2>2, <2>3, <2>4, <2>5 DEF StepKind
<1>3. QED
  BY <1>1, <1>2, RegistryInvariant, PTL DEF Spec, ImplementsContract, Contract!ContractSpec

----------------------------------------------------------------------------
(* What subscribers are told.  FollowersSeeHistory speaks of the listeners  *)
(* that are subscribed and of the entries that exist; it is inductive once  *)
(* it also says that nothing is queued for, or known to, a listener that    *)
(* has yet to subscribe, nor of an entry that has yet to be created.  An    *)
(* entry that does not exist has had no status, so that one predicate,      *)
(* Follows, says it of every entry.                                         *)

\* A follower with the events q queued and told v last knows the history h of r.
Follows(q, r, h, v) ==
  /\ NewsAfter(q, r, 0) <= Len(h)
  /\ \A i \in News(q, r) : q[i].announces = h[Len(h) - NewsAfter(q, r, i)]
  /\ v # "unseen" => NewsAfter(q, r, 0) < Len(h) /\ v = h[Len(h) - NewsAfter(q, r, 0)]

\* The statuses r has had, none before it is created.
Statuses(r) == IF entry[r].status = "absent" THEN <<>> ELSE StatusesOf(r)

FollowInv ==
  /\ \A l \in Listener : listening[l] = "new" =>
       inbox[l] = <<>> /\ \A r \in Ref : view[l][r] = "unseen"
  /\ \A l \in Listener, r \in Ref : listening[l] = "on" =>
       Follows(inbox[l], r, Statuses(r), view[l][r])

\* Whether the event e announces a status of r.
IsNews(e, r) == e.ref = r /\ e.announces # "none"

LEMMA NewsCounts ==
  ASSUME NEW q, Len(q) \in Nat, NEW r, NEW i \in Nat
  PROVE  /\ IsFiniteSet({j \in News(q, r) : j > i})
         /\ NewsAfter(q, r, i) \in Nat
         /\ i \in News(q, r) => NewsAfter(q, r, i) < NewsAfter(q, r, 0)
<1> DEFINE Rest(m) == {j \in News(q, r) : j > m}
<1>1. IsFiniteSet(1..Len(q)) /\ \A m \in Nat : Rest(m) \subseteq 1..Len(q)
  BY FS_Interval DEF News
<1>2. \A m \in Nat : IsFiniteSet(Rest(m)) /\ Cardinality(Rest(m)) \in Nat
  <2> HIDE DEF Rest
  <2>1. QED
    BY <1>1, FS_Subset, FS_CardinalityType
<1>3. i \in News(q, r) => Cardinality(Rest(i)) < Cardinality(Rest(0))
  <2> SUFFICES ASSUME i \in News(q, r) PROVE Cardinality(Rest(i)) < Cardinality(Rest(0))
    OBVIOUS
  <2>1. Rest(i) \subseteq Rest(0) /\ i \in Rest(0) /\ i \notin Rest(i)
    BY DEF News
  <2> HIDE DEF Rest
  <2>2. Cardinality(Rest(i)) <= Cardinality(Rest(0)) /\ Cardinality(Rest(i)) # Cardinality(Rest(0))
    BY <1>2, <2>1, FS_Subset
  <2>3. QED
    BY <1>2, <2>2
<1>4. QED
  BY <1>2, <1>3 DEF NewsAfter

\* Events that announce nothing of r change nothing for a follower of r.
LEMMA QuietFollows ==
  ASSUME NEW q \in Seq(Events), NEW evs \in Seq(Events), NEW r, NEW h, NEW v,
         \A i \in 1..Len(evs) : ~IsNews(evs[i], r), Follows(q, r, h, v)
  PROVE  Follows(q \o evs, r, h, v)
<1> DEFINE p == q \o evs
           n == Len(q)
           m == Len(evs)
<1>1. /\ n \in Nat /\ m \in Nat /\ Len(p) = n + m
      /\ \A i \in 1..n + m : p[i] = IF i <= n THEN q[i] ELSE evs[i - n]
  BY ConcatProperties
<1> HIDE DEF p
<1>2. News(p, r) = News(q, r)
  <2>1. ASSUME NEW i \in 1..n + m, ~(i <= n) PROVE ~IsNews(p[i], r)
    <3>1. i - n \in 1..m /\ p[i] = evs[i - n]
      BY <1>1, <2>1
    <3>2. QED
      BY <3>1
  <2>2. \A i \in 1..n : i \in 1..n + m /\ p[i] = q[i]
    BY <1>1
  <2>3. QED
    BY <1>1, <2>1, <2>2 DEF News, IsNews
<1>3. \A i \in News(q, r) : p[i] = q[i]
  BY <1>1 DEF News
<1>4. QED
  BY <1>2, <1>3 DEF Follows, NewsAfter, p

\* A call that moves r on announces it last.
LEMMA NewsFollows ==
  ASSUME NEW q \in Seq(Events), NEW evs \in Seq(Events), NEW r, NEW S, NEW h \in Seq(S), NEW v,
         NEW s \in S, Len(evs) > 0, IsNews(evs[Len(evs)], r), evs[Len(evs)].announces = s,
         \A i \in 1..Len(evs) - 1 : ~IsNews(evs[i], r), Follows(q, r, h, v)
  PROVE  Follows(q \o evs, r, Append(h, s), v)
<1> DEFINE p == q \o evs
           g == Append(h, s)
           n == Len(q)
           m == Len(evs)
<1>1. /\ n \in Nat /\ m \in Nat /\ m > 0 /\ Len(p) = n + m
      /\ \A i \in 1..n + m : p[i] = IF i <= n THEN q[i] ELSE evs[i - n]
  BY ConcatProperties
<1>2. Len(h) \in Nat /\ Len(g) = Len(h) + 1 /\ g[Len(h) + 1] = s /\ \A i \in 1..Len(h) : g[i] = h[i]
  BY AppendProperties
<1> HIDE DEF p, g
<1>3. /\ n + m \in 1..n + m /\ n + m > n /\ p[n + m] = evs[m]
      /\ n + m \notin 1..n
  <2>1. (n + m) - n = m /\ n + m \in 1..n + m /\ ~(n + m <= n)
    BY <1>1
  <2>2. QED
    BY <1>1, <2>1
<1>4. News(p, r) = News(q, r) \cup {n + m}
  <2>1. ASSUME NEW i \in 1..n + m, ~(i <= n), i # n + m PROVE ~IsNews(p[i], r)
    <3>1. i - n \in 1..m - 1 /\ p[i] = evs[i - n]
      BY <1>1, <2>1
    <3>2. QED
      BY <3>1
  <2>2. \A i \in 1..n : i \in 1..n + m /\ p[i] = q[i]
    BY <1>1
  <2>3. IsNews(p[n + m], r)
    BY <1>3
  <2>4. QED
    BY <1>1, <1>3, <2>1, <2>2, <2>3 DEF News, IsNews
<1>5. ASSUME NEW i \in 0..n PROVE NewsAfter(p, r, i) = NewsAfter(q, r, i) + 1
  <2> DEFINE Rest == {j \in News(q, r) : j > i}
  <2>1. {j \in News(p, r) : j > i} = Rest \cup {n + m}
    BY <1>1, <1>4
  <2>2. n + m \notin Rest
    BY <1>3 DEF News
  <2>3. IsFiniteSet(Rest)
    <3>1. i \in Nat
      BY <1>1
    <3>2. QED
      BY <1>1, <3>1, NewsCounts
  <2> HIDE DEF Rest
  <2>4. Cardinality(Rest \cup {n + m}) = Cardinality(Rest) + 1
    BY <2>2, <2>3, FS_AddElement
  <2>5. QED
    BY <2>1, <2>4 DEF NewsAfter, Rest
<1>6. NewsAfter(p, r, n + m) = 0
  <2>1. {j \in News(p, r) : j > n + m} = {}
    BY <1>1, <1>4 DEF News
  <2>2. QED
    BY <2>1, FS_EmptySet DEF NewsAfter
<1>7. NewsAfter(q, r, 0) \in Nat /\ NewsAfter(q, r, 0) <= Len(h)
  BY <1>1, NewsCounts DEF Follows
<1>8. NewsAfter(p, r, 0) = NewsAfter(q, r, 0) + 1
  BY <1>1, <1>5
<1>9. ASSUME NEW i \in News(p, r) PROVE p[i].announces = g[Len(g) - NewsAfter(p, r, i)]
  <2>1. CASE i = n + m
    <3>1. Len(g) - NewsAfter(p, r, i) = Len(h) + 1
      BY <1>2, <1>6, <2>1
    <3>2. QED
      BY <1>2, <1>3, <2>1, <3>1
  <2>2. CASE i # n + m
    <3>1. i \in News(q, r) /\ i \in 1..n
      BY <1>4, <2>2 DEF News
    <3>2. NewsAfter(q, r, i) \in Nat /\ NewsAfter(q, r, i) < NewsAfter(q, r, 0)
      <4>1. i \in Nat
        BY <1>1, <3>1
      <4>2. QED
        BY <1>1, <3>1, <4>1, NewsCounts
    <3>3. q[i].announces = h[Len(h) - NewsAfter(q, r, i)] /\ p[i] = q[i]
      BY <1>1, <3>1 DEF Follows
    <3>4. /\ Len(g) - NewsAfter(p, r, i) = Len(h) - NewsAfter(q, r, i)
          /\ Len(h) - NewsAfter(q, r, i) \in 1..Len(h)
      <4>1. NewsAfter(p, r, i) = NewsAfter(q, r, i) + 1
        BY <1>1, <1>5, <3>1
      <4>2. Len(h) \in Nat /\ Len(g) = Len(h) + 1
        BY <1>2
      <4>3. \A a, b, l \in Nat : a < b /\ b <= l => (l + 1) - (a + 1) = l - a /\ l - a \in 1..l
        OBVIOUS
      <4>4. QED
        BY <1>7, <3>2, <4>1, <4>2, <4>3
    <3>5. QED
      BY <1>2, <3>3, <3>4
  <2>3. QED
    BY <2>1, <2>2
<1>10. ASSUME v # "unseen"
       PROVE  NewsAfter(p, r, 0) < Len(g) /\ v = g[Len(g) - NewsAfter(p, r, 0)]
  <2>1. NewsAfter(q, r, 0) < Len(h) /\ v = h[Len(h) - NewsAfter(q, r, 0)]
    BY <1>10 DEF Follows
  <2>2. /\ Len(g) - NewsAfter(p, r, 0) = Len(h) - NewsAfter(q, r, 0)
        /\ Len(h) - NewsAfter(q, r, 0) \in 1..Len(h)
    BY <1>2, <1>7, <1>8, <2>1
  <2>3. QED
    BY <1>2, <1>7, <1>8, <2>1, <2>2
<1>11. NewsAfter(p, r, 0) <= Len(g)
  BY <1>2, <1>7, <1>8
<1>12. QED
  BY <1>9, <1>10, <1>11 DEF Follows, p, g

\* The event that is delivered is the next of the history.
LEMMA TailFollows ==
  ASSUME NEW q \in Seq(Events), q # <<>>, NEW r, NEW h, Len(h) \in Nat, NEW v, Follows(q, r, h, v)
  PROVE  Follows(Tail(q), r, h, IF IsNews(Head(q), r) THEN Head(q).announces ELSE v)
<1> DEFINE p == Tail(q)
           n == Len(q)
           w == IF IsNews(Head(q), r) THEN Head(q).announces ELSE v
<1>1. n \in Nat \ {0} /\ Len(p) = n - 1 /\ \A i \in 1..n - 1 : p[i] = q[i + 1]
  BY HeadTailProperties
<1>2. Head(q) = q[1]
  OBVIOUS
<1> HIDE DEF p
<1>3. \A i \in 1..n - 1 : i \in News(p, r) <=> i + 1 \in News(q, r)
  <2> TAKE i \in 1..n - 1
  <2>1. i + 1 \in 1..n /\ p[i] = q[i + 1]
    BY <1>1
  <2>2. QED
    BY <1>1, <2>1 DEF News
<1>4. ASSUME NEW i \in 0..n - 1 PROVE NewsAfter(p, r, i) = NewsAfter(q, r, i + 1)
  <2> DEFINE A == {j \in News(p, r) : j > i}
             B == {j \in News(q, r) : j > i + 1}
             f == [j \in A |-> j + 1]
  <2>1. \A j \in A : j \in 1..n - 1 /\ j + 1 \in B
    BY <1>1, <1>3 DEF News
  <2>2. \A k \in B : k - 1 \in A /\ (k - 1) + 1 = k
    <3> TAKE k \in B
    <3>1. k \in 1..n /\ k > i + 1
      BY DEF News
    <3>2. k - 1 \in 1..n - 1 /\ (k - 1) + 1 = k /\ k - 1 > i
      BY <1>1, <3>1
    <3>3. QED
      BY <1>3, <3>2
  <2>3. \A j \in A : j \in Int
    BY <1>1, <2>1
  <2> HIDE DEF A, B
  <2>4. f \in Bijection(A, B)
    <3>1. f \in [A -> B]
      BY <2>1
    <3>2. \A j, k \in A : f[j] = f[k] => j = k
      BY <2>3
    <3>3. \A k \in B : \E j \in A : f[j] = k
      BY <2>2
    <3>4. QED
      BY <3>1, <3>2, <3>3 DEF Bijection, Injection, IsInjective, Surjection
  <2>5. IsFiniteSet(A)
    <3>1. i \in Nat /\ Len(p) \in Nat
      BY <1>1
    <3>2. QED
      BY <3>1, NewsCounts DEF A
  <2>6. Cardinality(A) = Cardinality(B)
    BY <2>4, <2>5, FS_Bijection DEF ExistsBijection
  <2>7. QED
    BY <2>6 DEF NewsAfter, A, B
<1>5. /\ NewsAfter(p, r, 0) = NewsAfter(q, r, 1)
      /\ NewsAfter(q, r, 0) \in Nat /\ NewsAfter(q, r, 1) \in Nat
  <2>1. 0 \in 0..n - 1 /\ 0 + 1 = 1
    BY <1>1
  <2>2. NewsAfter(p, r, 0) = NewsAfter(q, r, 1)
    BY <1>4, <2>1
  <2>3. Len(q) \in Nat /\ 0 \in Nat /\ 1 \in Nat
    BY <1>1
  <2>4. QED
    BY <2>2, <2>3, NewsCounts
<1>6. NewsAfter(q, r, 0) = IF IsNews(Head(q), r) THEN NewsAfter(q, r, 1) + 1 ELSE NewsAfter(q, r, 1)
  <2> DEFINE All == {j \in News(q, r) : j > 0}
             Rest == {j \in News(q, r) : j > 1}
  <2>1. 1 \in News(q, r) <=> IsNews(Head(q), r)
    BY <1>1, <1>2 DEF News, IsNews
  <2>2. All = IF IsNews(Head(q), r) THEN Rest \cup {1} ELSE Rest
    BY <2>1 DEF News
  <2>3. IsFiniteSet(Rest) /\ 1 \notin Rest
    <3>1. Len(q) \in Nat /\ 1 \in Nat
      BY <1>1
    <3>2. IsFiniteSet({j \in News(q, r) : j > 1})
      BY <3>1, NewsCounts
    <3>3. QED
      BY <3>2
  <2> HIDE DEF All, Rest
  <2>4. Cardinality(Rest \cup {1}) = Cardinality(Rest) + 1
    BY <2>3, FS_AddElement
  <2>5. NewsAfter(q, r, 0) = Cardinality(All) /\ NewsAfter(q, r, 1) = Cardinality(Rest)
    BY DEF NewsAfter, All, Rest
  <2>6. QED
    BY <2>2, <2>4, <2>5
<1>7. NewsAfter(q, r, 0) <= Len(h)
  BY DEF Follows
<1>8. ASSUME NEW i \in News(p, r) PROVE p[i].announces = h[Len(h) - NewsAfter(p, r, i)]
  <2>1. i \in 1..n - 1 /\ i \in 0..n - 1
    BY <1>1, <1>8 DEF News
  <2>2. i + 1 \in News(q, r) /\ p[i] = q[i + 1] /\ NewsAfter(p, r, i) = NewsAfter(q, r, i + 1)
    BY <1>1, <1>3, <1>4, <1>8, <2>1
  <2>3. QED
    BY <2>2 DEF Follows
<1>9. ASSUME w # "unseen"
      PROVE  NewsAfter(p, r, 0) < Len(h) /\ w = h[Len(h) - NewsAfter(p, r, 0)]
  <2>1. CASE IsNews(Head(q), r)
    <3>1. 1 \in News(q, r)
      BY <1>1, <1>2, <2>1 DEF News, IsNews
    <3>2. q[1].announces = h[Len(h) - NewsAfter(q, r, 1)]
      BY <3>1 DEF Follows
    <3>3. w = q[1].announces
      BY <1>2, <2>1
    <3> HIDE DEF w
    <3>4. QED
      BY <1>5, <1>6, <1>7, <2>1, <3>2, <3>3
  <2>2. CASE ~IsNews(Head(q), r)
    <3>1. w = v
      BY <2>2
    <3> HIDE DEF w
    <3>2. NewsAfter(q, r, 0) < Len(h) /\ w = h[Len(h) - NewsAfter(q, r, 0)]
      BY <1>9, <3>1 DEF Follows
    <3>3. QED
      BY <1>5, <1>6, <2>2, <3>2
  <2>3. QED
    BY <2>1, <2>2
<1>10. NewsAfter(p, r, 0) <= Len(h)
  BY <1>5, <1>6, <1>7
<1> HIDE DEF w
<1>11. Follows(p, r, h, w)
  BY <1>8, <1>9, <1>10 DEF Follows
<1>12. QED
  BY <1>11 DEF p, w

----------------------------------------------------------------------------
(* The statuses an entry has had grow with its history.                     *)

LEMMA StatusSequence ==
  ASSUME NEW h \in Seq(Transition), NEW t \in Transition
  PROVE  LET Had(g) == <<"pending">> \o [i \in 1..Len(g) |-> g[i].to]
         IN  /\ Had(h) \in Seq(TaskStatus)
             /\ Had(Append(h, t)) = Append(Had(h), t.to)
             /\ Had(<<>>) = <<"pending">>
<1> DEFINE To(g) == [i \in 1..Len(g) |-> g[i].to]
           Had(g) == <<"pending">> \o To(g)
           k == Append(h, t)
<1>1. \A u \in Transition : u.to \in TaskStatus
  BY DEF Transition
<1>2. \A g \in Seq(Transition) : To(g) \in Seq(TaskStatus) /\ Len(To(g)) = Len(g)
  <2> TAKE g \in Seq(Transition)
  <2>1. Len(g) \in Nat /\ \A i \in 1..Len(g) : g[i] \in Transition
    OBVIOUS
  <2>2. To(g) \in [1..Len(g) -> TaskStatus]
    BY <1>1, <2>1
  <2>3. QED
    BY <2>1, <2>2
<1>3. /\ k \in Seq(Transition) /\ Len(h) \in Nat /\ Len(k) = Len(h) + 1 /\ k[Len(h) + 1] = t
      /\ \A i \in 1..Len(h) : k[i] = h[i]
  BY AppendProperties
<1> HIDE DEF k
<1>4. To(k) = Append(To(h), t.to)
  <2>1. To(h) \in Seq(TaskStatus) /\ Len(To(h)) = Len(h) /\ t.to \in TaskStatus
    BY <1>1, <1>2
  <2>2. /\ Append(To(h), t.to) \in Seq(TaskStatus)
        /\ Len(Append(To(h), t.to)) = Len(h) + 1
        /\ \A i \in 1..Len(h) : Append(To(h), t.to)[i] = To(h)[i]
        /\ Append(To(h), t.to)[Len(h) + 1] = t.to
    BY <1>3, <2>1, AppendProperties
  <2>3. To(k) \in Seq(TaskStatus) /\ Len(To(k)) = Len(h) + 1
    BY <1>2, <1>3
  <2>4. \A i \in 1..Len(h) + 1 : To(k)[i] = Append(To(h), t.to)[i]
    <3> TAKE i \in 1..Len(h) + 1
    <3>1. CASE i = Len(h) + 1
      BY <1>3, <2>2, <3>1
    <3>2. CASE i # Len(h) + 1
      <4>1. i \in 1..Len(h) /\ i \in 1..Len(k)
        BY <1>3, <3>2
      <4>2. To(k)[i] = h[i].to /\ To(h)[i] = h[i].to
        BY <1>3, <4>1
      <4>3. QED
        BY <2>2, <4>1, <4>2
    <3>3. QED
      BY <3>1, <3>2
  <2> HIDE DEF To
  <2>5. QED
    BY <2>2, <2>3, <2>4, SeqEqual
<1>5. <<"pending">> \in Seq(TaskStatus)
  BY DEF TaskStatus
<1>6. To(<<>>) = <<>>
  OBVIOUS
<1>7. t.to \in TaskStatus
  BY <1>1
<1> HIDE DEF To
<1>8. Had(h) \in Seq(TaskStatus)
  BY <1>2, <1>5
<1>9. Had(k) = Append(Had(h), t.to)
  <2>1. To(h) \in Seq(TaskStatus)
    BY <1>2
  <2>2. <<"pending">> \o Append(To(h), t.to) = Append(<<"pending">> \o To(h), t.to)
    BY <1>5, <1>7, <2>1
  <2>3. QED
    BY <1>4, <2>2
<1>10. Had(<<>>) = <<"pending">>
  <2>1. <<"pending">> \o <<>> = <<"pending">>
    BY <1>5, ConcatEmptySeq
  <2>2. QED
    BY <1>6, <2>1
<1>11. QED
  BY <1>8, <1>9, <1>10 DEF To, k

LEMMA SomeTransition == \E t : t \in Transition
<1>1. [from |-> "pending", to |-> "pending"] \in Transition
  BY DEF Transition, TaskStatus
<1>2. QED
  BY <1>1

LEMMA StatusesTyped ==
  ASSUME TypeOK, NEW r \in Ref
  PROVE  Statuses(r) \in Seq(TaskStatus)
<1>1. CASE entry[r].status = "absent"
  BY <1>1 DEF Statuses
<1>2. CASE entry[r].status # "absent"
  <2>1. transitions[r] \in Seq(Transition)
    BY DEF TypeOK
  <2>2. PICK t : t \in Transition
    BY SomeTransition
  <2>3. StatusesOf(r) \in Seq(TaskStatus)
    BY <2>1, <2>2, StatusSequence DEF StatusesOf
  <2>4. QED
    BY <1>2, <2>3 DEF Statuses
<1>3. QED
  BY <1>1, <1>2

LEMMA StatusesBegin ==
  ASSUME RegistryInv, NEW id \in TaskId, NEW r \in Ref, Created(id, r)
  PROVE  /\ Statuses(r)' = Append(Statuses(r), "pending")
         /\ \A p \in Ref \ {r} : Statuses(p)' = Statuses(p)
<1> USE DEF RegistryInv, TypedMap, TypeOK
<1>1. entry[r].status = "absent" /\ transitions[r] = <<>> /\ transitions' = transitions
  BY DEF Created, AbsentIsBlank
<1>2. entry'[r].status = "pending"
  BY DEF Created, createTaskEntry, NoEntryYet
<1>3. StatusesOf(r)' = <<"pending">>
  <2>1. PICK t : t \in Transition
    BY SomeTransition
  <2>2. <<>> \in Seq(Transition)
    OBVIOUS
  <2>3. <<"pending">> \o [i \in 1..Len(<<>>) |-> <<>>[i].to] = <<"pending">>
    BY <2>1, <2>2, StatusSequence
  <2>4. QED
    BY <1>1, <2>3 DEF StatusesOf
<1>4. Statuses(r)' = Append(Statuses(r), "pending")
  BY <1>1, <1>2, <1>3 DEF Statuses
<1>5. ASSUME NEW p \in Ref \ {r} PROVE Statuses(p)' = Statuses(p)
  <2>1. entry'[p] = entry[p] /\ transitions'[p] = transitions[p]
    BY DEF Created
  <2>2. QED
    BY <2>1 DEF Statuses, StatusesOf
<1>6. QED
  BY <1>4, <1>5

LEMMA StatusesGrow ==
  ASSUME RegistryInv, NEW r \in Ref, NEW to \in TaskStatus, Moved(r, to)
  PROVE  /\ Statuses(r)' = Append(Statuses(r), to)
         /\ \A p \in Ref \ {r} : Statuses(p)' = Statuses(p)
<1> USE DEF RegistryInv, TypedMap, TypeOK
<1> DEFINE t == [from |-> entry[r].status, to |-> to]
<1>1. entry[r].status \in TaskStatus /\ entry'[r].status = to
  BY DEF Moved, MapSound
<1>2. entry[r].status # "absent" /\ entry'[r].status # "absent"
  BY <1>1 DEF TaskStatus
<1>3. t \in Transition /\ t.to = to
  BY <1>1 DEF Transition
<1>4. transitions'[r] = Append(transitions[r], t)
  BY DEF Moved
<1>5. \A p \in Ref \ {r} : entry'[p] = entry[p] /\ transitions'[p] = transitions[p]
  BY DEF Moved
<1> HIDE DEF t
<1>6. StatusesOf(r)' = Append(StatusesOf(r), to)
  <2>1. transitions[r] \in Seq(Transition)
    OBVIOUS
  <2> DEFINE h == transitions[r]
             k == Append(h, t)
  <2>2. <<"pending">> \o [i \in 1..Len(k) |-> k[i].to] =
          Append(<<"pending">> \o [i \in 1..Len(h) |-> h[i].to], to)
    BY <1>3, <2>1, StatusSequence
  <2>3. QED
    BY <1>4, <2>2 DEF StatusesOf
<1>7. Statuses(r)' = Append(Statuses(r), to)
  BY <1>2, <1>6 DEF Statuses
<1>8. ASSUME NEW p \in Ref \ {r} PROVE Statuses(p)' = Statuses(p)
  BY <1>5 DEF Statuses, StatusesOf
<1>9. QED
  BY <1>7, <1>8

LEMMA StatusesStay ==
  ASSUME RegistryInv, Kept \/ Dropped, NEW r \in Ref
  PROVE  Statuses(r)' = Statuses(r)
<1>1. entry'[r].status = entry[r].status /\ transitions' = transitions
  BY DEF Kept, Dropped
<1>2. QED
  BY <1>1 DEF Statuses, StatusesOf

(* A call that emits. *)
LEMMA AnnouncedFollows ==
  ASSUME TypeOK, FollowInv, NEW evs \in Seq(Events), emit(evs), UNCHANGED <<listening, view>>,
         NEW r \in Ref, NEW s \in TaskStatus, Len(evs) > 0,
         IsNews(evs[Len(evs)], r), evs[Len(evs)].announces = s,
         \A i \in 1..Len(evs) - 1 : evs[i].announces = "none",
         Statuses(r)' = Append(Statuses(r), s),
         \A p \in Ref \ {r} : Statuses(p)' = Statuses(p)
  PROVE  FollowInv'
<1>1. ASSUME NEW l \in Listener, listening'[l] = "new"
      PROVE  inbox'[l] = <<>> /\ \A p \in Ref : view'[l][p] = "unseen"
  BY <1>1 DEF FollowInv, emit
<1>2. ASSUME NEW l \in Listener, NEW p \in Ref, listening'[l] = "on"
      PROVE  Follows(inbox'[l], p, Statuses(p)', view'[l][p])
  <2>1. /\ inbox'[l] = inbox[l] \o evs /\ inbox[l] \in Seq(Events) /\ view'[l][p] = view[l][p]
        /\ Follows(inbox[l], p, Statuses(p), view[l][p])
    BY <1>2 DEF TypeOK, FollowInv, emit
  <2>2. CASE p = r
    <3>1. Statuses(r) \in Seq(TaskStatus)
      BY StatusesTyped
    <3>2. \A i \in 1..Len(evs) - 1 : ~IsNews(evs[i], r)
      BY DEF IsNews
    <3>3. Follows(inbox[l] \o evs, r, Append(Statuses(r), s), view[l][r])
      BY <2>1, <2>2, <3>1, <3>2, NewsFollows
    <3>4. QED
      BY <2>1, <2>2, <3>3
  <2>3. CASE p # r
    <3>1. \A i \in 1..Len(evs) : ~IsNews(evs[i], p)
      <4>1. \A i \in 1..Len(evs) : i = Len(evs) \/ i \in 1..Len(evs) - 1
        OBVIOUS
      <4>2. QED
        BY <2>3, <4>1 DEF IsNews
    <3>2. QED
      BY <2>1, <2>3, <3>1, QuietFollows
  <2>4. QED
    BY <2>2, <2>3
<1>3. QED
  BY <1>1, <1>2 DEF FollowInv

LEMMA QuietStepFollows ==
  ASSUME TypeOK, FollowInv, NEW evs \in Seq(Events), emit(evs), UNCHANGED <<listening, view>>,
         \A i \in 1..Len(evs) : evs[i].announces = "none",
         \A p \in Ref : Statuses(p)' = Statuses(p)
  PROVE  FollowInv'
<1>1. ASSUME NEW l \in Listener, listening'[l] = "new"
      PROVE  inbox'[l] = <<>> /\ \A p \in Ref : view'[l][p] = "unseen"
  BY <1>1 DEF FollowInv, emit
<1>2. ASSUME NEW l \in Listener, NEW p \in Ref, listening'[l] = "on"
      PROVE  Follows(inbox'[l], p, Statuses(p)', view'[l][p])
  <2>1. /\ inbox'[l] = inbox[l] \o evs /\ inbox[l] \in Seq(Events) /\ view'[l][p] = view[l][p]
        /\ Follows(inbox[l], p, Statuses(p), view[l][p])
    BY <1>2 DEF TypeOK, FollowInv, emit
  <2>2. \A i \in 1..Len(evs) : ~IsNews(evs[i], p)
    BY DEF IsNews
  <2>3. QED
    BY <2>1, <2>2, QuietFollows
<1>3. QED
  BY <1>1, <1>2 DEF FollowInv

\* One event, and nothing before it.
LEMMA OneEvent ==
  ASSUME NEW type \in EventType, NEW r \in Ref \cup {NoRef}, NEW s \in TaskStatus \cup {"none"}
  PROVE  LET evs == <<Event(type, r, s)>>
         IN  /\ evs \in Seq(Events) /\ Len(evs) = 1 /\ evs[1].announces = s
             /\ s # "none" => IsNews(evs[1], r)
             /\ \A i \in 1..0 : evs[i].announces = "none"
<1>1. Event(type, r, s) \in Events
  BY EventTyped
<1>2. Event(type, r, s).announces = s /\ Event(type, r, s).ref = r
  BY DEF Event
<1>3. QED
  BY <1>1, <1>2 DEF IsNews

LEMMA SuspendFollows ==
  ASSUME RegistryInv, FollowInv, NEW id \in TaskId, NEW hasData \in BOOLEAN,
         suspend(id, hasData)
  PROVE  FollowInv'
<1>1. /\ TypedMap /\ TypeOK
      /\ "suspended" \in EventType /\ "suspended" \in TaskStatus /\ "checkpoint" \in EventType
      /\ "suspended" # "none"
  BY DEF RegistryInv, TypedMap, EventType, TaskStatus
<1>2. PICK r \in Ref : r = tasks[id]
  BY <1>1 DEF suspend, TypeOK
<1>3. Moved(r, "suspended")
  BY <1>1, <1>2, SuspendIsMoved
<1>4. /\ Statuses(r)' = Append(Statuses(r), "suspended")
      /\ \A p \in Ref \ {r} : Statuses(p)' = Statuses(p)
  BY <1>1, <1>3, StatusesGrow
<1>5. PICK c : c = Event("checkpoint", r, "none")
  OBVIOUS
<1>6. PICK e : e = Event("suspended", r, "suspended")
  OBVIOUS
<1>7. c \in Events /\ e \in Events
  BY <1>1, <1>5, <1>6, EventTyped
<1>8. c.announces = "none" /\ e.announces = "suspended" /\ IsNews(e, r)
  BY <1>1, <1>5, <1>6 DEF Event, IsNews
<1>9. PICK evs : evs = (IF hasData THEN <<c>> ELSE <<>>) \o <<e>>
  OBVIOUS
<1>10. emit(evs) /\ UNCHANGED <<listening, view>>
  BY <1>2, <1>5, <1>6, <1>9 DEF suspend
<1>11. /\ evs \in Seq(Events) /\ Len(evs) > 0 /\ evs[Len(evs)] = e
       /\ \A i \in 1..Len(evs) - 1 : evs[i].announces = "none"
  <2>1. CASE hasData
    <3>1. evs = <<c>> \o <<e>>
      BY <1>9, <2>1
    <3>2. evs \in Seq(Events) /\ Len(evs) = 2 /\ evs[1] = c /\ evs[2] = e
      BY <1>7, <3>1
    <3>3. QED
      BY <1>8, <3>2
  <2>2. CASE ~hasData
    <3>1. evs = <<>> \o <<e>>
      BY <1>9, <2>2
    <3>2. <<e>> \in Seq(Events)
      BY <1>7
    <3>3. evs = <<e>>
      BY <3>1, <3>2, ConcatEmptySeq
    <3>4. evs \in Seq(Events) /\ Len(evs) = 1 /\ evs[1] = e
      BY <1>7, <3>3
    <3>5. QED
      BY <3>4
  <2>3. QED
    BY <2>1, <2>2
<1>12. IsNews(evs[Len(evs)], r) /\ evs[Len(evs)].announces = "suspended"
  BY <1>8, <1>11
<1>13. QED
  BY <1>1, <1>4, <1>10, <1>11, <1>12, AnnouncedFollows

LEMMA CallFollows ==
  ASSUME RegistryInv, FollowInv, NEW id \in TaskId, Call(id)
  PROVE  FollowInv'
<1> DEFINE r == tasks[id]
<1>0. TypedMap /\ TypeOK /\ NoRef \notin Ref /\ (r # NoRef => r \in Ref) /\ "none" \notin TaskStatus
  BY NoRefAssumption DEF RegistryInv, TypedMap, TypeOK, TaskStatus
<1> HIDE DEF r
<1>1. ASSUME NEW type \in EventType, NEW p \in Ref, NEW s \in TaskStatus,
             emit(<<Event(type, p, s)>>), UNCHANGED <<listening, view>>,
             Statuses(p)' = Append(Statuses(p), s),
             \A other \in Ref \ {p} : Statuses(other)' = Statuses(other)
      PROVE  FollowInv'
  <2> DEFINE evs == <<Event(type, p, s)>>
  <2>1. /\ evs \in Seq(Events) /\ Len(evs) = 1 /\ evs[1].announces = s
        /\ IsNews(evs[1], p) /\ \A i \in 1..0 : evs[i].announces = "none"
    BY <1>0, OneEvent
  <2>2. emit(evs)
    BY <1>1
  <2> HIDE DEF evs
  <2>3. \A i \in 1..Len(evs) - 1 : evs[i].announces = "none"
    BY <2>1
  <2>4. Len(evs) > 0 /\ IsNews(evs[Len(evs)], p) /\ evs[Len(evs)].announces = s
    BY <2>1
  <2>5. QED
    BY <1>0, <1>1, <2>1, <2>2, <2>3, <2>4, AnnouncedFollows
<1>2. ASSUME NEW q \in Ref, register(id, q) PROVE FollowInv'
  <2>1. Created(id, q)
    BY <1>2 DEF register, Put, Created
  <2>2. "registered" \in EventType /\ "pending" \in TaskStatus
    BY DEF EventType, TaskStatus
  <2>3. QED
    BY <1>1, <1>2, <2>1, <2>2, StatusesBegin DEF register
<1>3. ASSUME NEW to \in TaskStatus, transition(id, to) PROVE FollowInv'
  <2>1. r \in Ref /\ Moved(r, to)
    BY <1>0, <1>3, MoveIsMoved DEF transition, r
  <2>2. emit(<<Event("transitioned", r, to)>>) /\ UNCHANGED <<listening, view>>
    BY <1>3 DEF transition, r
  <2>3. "transitioned" \in EventType
    BY DEF EventType
  <2>4. QED
    BY <1>1, <2>1, <2>2, <2>3, StatusesGrow
<1>4. CASE cancel(id)
  <2>0. "cancelled" \in EventType /\ "cancelled" \in TaskStatus
    BY DEF EventType, TaskStatus
  <2>1. r \in Ref /\ Moved(r, "cancelled")
    BY <1>0, <1>4, <2>0, MoveIsMoved DEF cancel, r
  <2>2. emit(<<Event("cancelled", r, "cancelled")>>) /\ UNCHANGED <<listening, view>>
    BY <1>4 DEF cancel, r
  <2>3. QED
    BY <1>1, <2>0, <2>1, <2>2, StatusesGrow
<1>5. ASSUME NEW hasData \in BOOLEAN, suspend(id, hasData) PROVE FollowInv'
  BY <1>5, SuspendFollows
<1>6. CASE resume(id)
  <2>0. "resumed" \in EventType /\ "running" \in TaskStatus
    BY DEF EventType, TaskStatus
  <2>1. r \in Ref /\ Moved(r, "running")
    BY <1>0, <1>6, <2>0, MoveIsMoved DEF resume, r
  <2>2. emit(<<Event("resumed", r, "running")>>) /\ UNCHANGED <<listening, view>>
    BY <1>6 DEF resume, r
  <2>3. QED
    BY <1>1, <2>0, <2>1, <2>2, StatusesGrow
<1>7. CASE checkpoint(id)
  <2>1. r \in Ref /\ "checkpoint" \in EventType
    BY <1>0, <1>7 DEF checkpoint, r, EventType
  <2> DEFINE evs == <<Event("checkpoint", r, "none")>>
  <2>2. evs \in Seq(Events) /\ Len(evs) = 1 /\ evs[1].announces = "none"
    BY <2>1, OneEvent
  <2>3. emit(evs) /\ UNCHANGED <<listening, view>>
    BY <1>7 DEF checkpoint, r
  <2> HIDE DEF evs
  <2>4. \A i \in 1..Len(evs) : evs[i].announces = "none"
    BY <2>2
  <2>5. \A p \in Ref : Statuses(p)' = Statuses(p)
    <3>1. entry[r] \in TaskEntry /\ entry \in [Ref -> TaskEntry]
      BY <1>0, <2>1 DEF TypeOK
    <3>2. entry' = [entry EXCEPT ![r] = saveCheckpoint(entry[r])] /\ transitions' = transitions
      BY <1>7 DEF checkpoint, Put, r
    <3>3. saveCheckpoint(entry[r]).status = entry[r].status
      BY <3>1, EntryFunctions DEF TaskStatus
    <3>4. \A p \in Ref : entry'[p].status = entry[p].status
      BY <3>1, <3>2, <3>3
    <3>5. QED
      BY <3>2, <3>4 DEF Statuses, StatusesOf
  <2>6. QED
    BY <1>0, <2>2, <2>3, <2>4, <2>5, QuietStepFollows
<1>8. QED
  BY <1>2, <1>3, <1>4, <1>5, <1>6, <1>7 DEF Call

LEMMA DeliverFollows ==
  ASSUME RegistryInv, FollowInv, NEW l \in Listener, Deliver(l)
  PROVE  FollowInv'
<1> DEFINE e == Head(inbox[l])
<1>1. /\ inbox \in [Listener -> Seq(Events)] /\ inbox[l] # <<>>
      /\ view \in [Listener -> [Ref -> TaskStatus \cup {"unseen"}]]
      /\ inbox' = [inbox EXCEPT ![l] = Tail(inbox[l])] /\ listening' = listening
      /\ view' = IF e.announces = "none" THEN view ELSE [view EXCEPT ![l][e.ref] = e.announces]
  BY DEF Deliver, RegistryInv, TypedMap, TypeOK
<1> HIDE DEF e
<1>2. \A p \in Ref : Statuses(p)' = Statuses(p)
  BY DEF Deliver, entryVars, Statuses, StatusesOf
<1>3. \A p \in Ref : view'[l][p] = IF IsNews(e, p) THEN e.announces ELSE view[l][p]
  BY <1>1 DEF IsNews
<1>4. \A k \in Listener \ {l} : inbox'[k] = inbox[k] /\ view'[k] = view[k]
  BY <1>1
<1>5. inbox'[l] = Tail(inbox[l])
  BY <1>1
<1>6. listening[l] # "new"
  BY <1>1 DEF FollowInv
<1>7. ASSUME NEW p \in Ref, listening[l] = "on"
      PROVE  Follows(inbox'[l], p, Statuses(p)', view'[l][p])
  <2>1. Follows(inbox[l], p, Statuses(p), view[l][p])
    BY <1>7 DEF FollowInv
  <2>2. Statuses(p) \in Seq(TaskStatus)
    BY StatusesTyped DEF RegistryInv, TypedMap
  <2>3. Len(Statuses(p)) \in Nat /\ inbox[l] \in Seq(Events)
    BY <1>1, <2>2
  <2>4. Follows(Tail(inbox[l]), p, Statuses(p),
                IF IsNews(e, p) THEN e.announces ELSE view[l][p])
    BY <1>1, <2>1, <2>3, TailFollows DEF e
  <2>5. QED
    BY <1>2, <1>3, <1>5, <2>4
<1>8. QED
  BY <1>1, <1>2, <1>4, <1>6, <1>7 DEF FollowInv

LEMMA EmptyFollows ==
  ASSUME NEW r, NEW h, Len(h) \in Nat
  PROVE  Follows(<<>>, r, h, "unseen")
<1>1. News(<<>>, r) = {}
  BY DEF News
<1>2. NewsAfter(<<>>, r, 0) = 0
  BY <1>1, FS_EmptySet DEF NewsAfter
<1>3. QED
  BY <1>1, <1>2 DEF Follows

LEMMA FollowInvariant == Spec => []FollowInv
<1>1. Init => FollowInv
  BY DEF Init, FollowInv
<1>2. RegistryInv /\ FollowInv /\ [Next]_vars => FollowInv'
  <2> SUFFICES ASSUME RegistryInv, FollowInv, [Next]_vars PROVE FollowInv'
    OBVIOUS
  <2>1. TypedMap /\ TypeOK
    BY DEF RegistryInv, TypedMap
  <2>2. ASSUME NEW id \in TaskId, Call(id) PROVE FollowInv'
    BY <2>2, CallFollows
  <2>3. ASSUME NEW l \in Listener, on(l) PROVE FollowInv'
    <3>1. /\ listening[l] = "new" /\ listening' = [listening EXCEPT ![l] = "on"]
          /\ UNCHANGED <<entry, transitions, inbox, view>>
      BY <2>3 DEF on, entryVars
    <3>2. inbox[l] = <<>> /\ \A p \in Ref : view[l][p] = "unseen"
      BY <3>1 DEF FollowInv
    <3>3. \A p \in Ref : Statuses(p)' = Statuses(p) /\ Len(Statuses(p)) \in Nat
      <4>1. \A p \in Ref : Statuses(p) \in Seq(TaskStatus)
        BY <2>1, StatusesTyped
      <4>2. QED
        BY <3>1, <4>1 DEF Statuses, StatusesOf
    <3>4. \A p \in Ref : Follows(inbox[l], p, Statuses(p), view[l][p])
      BY <3>2, <3>3, EmptyFollows
    <3>5. \A k \in Listener \ {l} : listening'[k] = listening[k]
      BY <2>1, <3>1 DEF TypeOK
    <3>6. listening'[l] = "on"
      BY <2>1, <3>1 DEF TypeOK
    <3>7. QED
      BY <3>1, <3>3, <3>4, <3>5, <3>6 DEF FollowInv
  <2>4. ASSUME UNCHANGED <<entry, transitions, inbox, view>>,
               \A k \in Listener : listening'[k] = listening[k] \/ listening'[k] = "off"
        PROVE  FollowInv'
    <3>1. \A p \in Ref : Statuses(p)' = Statuses(p)
      BY <2>4 DEF Statuses, StatusesOf
    <3>2. QED
      BY <2>4, <3>1 DEF FollowInv
  <2>5. ASSUME NEW l \in Listener, unsubscribe(l) PROVE FollowInv'
    BY <2>1, <2>4, <2>5 DEF unsubscribe, entryVars, TypeOK
  <2>6. ASSUME NEW l \in Listener, Deliver(l) PROVE FollowInv'
    BY <2>6, DeliverFollows
  <2>7. ASSUME NEW maxAge, cleanup(maxAge) PROVE FollowInv'
    <3> DEFINE evs == <<Event("cleaned", NoRef, "none")>>
    <3>1. evs \in Seq(Events) /\ Len(evs) = 1 /\ evs[1].announces = "none"
      BY OneEvent DEF EventType
    <3>2. emit(evs) /\ UNCHANGED <<listening, view>>
      BY <2>7 DEF cleanup
    <3> HIDE DEF evs
    <3>3. \A i \in 1..Len(evs) : evs[i].announces = "none"
      BY <3>1
    <3>4. \A p \in Ref : Statuses(p)' = Statuses(p)
      BY <2>1, <2>7, CleanupIsDropped, StatusesStay
    <3>5. QED
      BY <2>1, <3>1, <3>2, <3>3, <3>4, QuietStepFollows
  <2>8. CASE dispose
    BY <2>1, <2>4, <2>8 DEF dispose, entryVars, TypeOK
  <2>9. CASE Tick
    <3>1. /\ entry \in [Ref -> TaskEntry] /\ AgeCap \in Nat
          /\ entry' = [r \in Ref |-> Older(entry[r], AgeCap)]
      BY <2>1, <2>9, BoundsAssumption DEF Tick, TypeOK, AgeCap
    <3>2. \A p \in Ref : entry'[p].status = entry[p].status
      BY <3>1, OlderKeeps
    <3>3. \A p \in Ref : Statuses(p)' = Statuses(p)
      BY <2>9, <3>2 DEF Tick, Statuses, StatusesOf
    <3>4. QED
      BY <2>9, <3>3 DEF Tick, FollowInv
  <2>10. CASE UNCHANGED vars
    BY <2>4, <2>10 DEF vars
  <2>11. QED
    BY <2>2, <2>3, <2>5, <2>6, <2>7, <2>8, <2>9, <2>10 DEF Next, CleanupTimer
<1>3. QED
  BY <1>1, <1>2, RegistryInvariant, PTL DEF Spec

\* What a subscriber was told last and what is queued for it are the end of the entry's
\* history, in order and without a gap (task-registry.ts, emit), for any number of tasks,
\* subscribers and pending microtasks.
THEOREM FollowersKnowTheEnd == Spec => []FollowersSeeHistory
<1>1. RegistryInv /\ FollowInv => FollowersSeeHistory
  <2> SUFFICES ASSUME RegistryInv, FollowInv, NEW l \in Listener, NEW r \in Registered,
                      listening[l] = "on"
               PROVE  LET h    == StatusesOf(r)
                          told == Len(h) - NewsAfter(inbox[l], r, 0)
                      IN  /\ told >= 0
                          /\ \A i \in News(inbox[l], r) :
                               inbox[l][i].announces = h[Len(h) - NewsAfter(inbox[l], r, i)]
                          /\ view[l][r] # "unseen" => told > 0 /\ view[l][r] = h[told]
    BY DEF FollowersSeeHistory
  <2>1. r \in Ref /\ Statuses(r) = StatusesOf(r)
    BY DEF Registered, Statuses
  <2>2. Statuses(r) \in Seq(TaskStatus) /\ inbox[l] \in Seq(Events)
    BY <2>1, StatusesTyped DEF RegistryInv, TypedMap, TypeOK
  <2>3. Len(StatusesOf(r)) \in Nat /\ NewsAfter(inbox[l], r, 0) \in Nat
    <3>0. Len(inbox[l]) \in Nat
      BY <2>2
    <3>1. Len(Statuses(r)) \in Nat
      BY <2>2
    <3>2. 0 \in Nat
      OBVIOUS
    <3>3. NewsAfter(inbox[l], r, 0) \in Nat
      BY <3>0, <3>2, NewsCounts
    <3>4. QED
      BY <2>1, <3>1, <3>3
  <2>4. Follows(inbox[l], r, StatusesOf(r), view[l][r])
    BY <2>1 DEF FollowInv
  <2>5. QED
    BY <2>3, <2>4 DEF Follows
<1>2. QED
  BY <1>1, RegistryInvariant, FollowInvariant, PTL

-----------------------------------------------------------------------------
(* What the contract itself guarantees, proved once for every module that     *)
(* implements it: this one and Delegation.                                    *)

ContractInv == ContractTypeOK /\ SignalledIffCancelled

\* The contract's type invariant and its signal invariant are inductive
\* together: only Cancel touches either side of the equivalence.
LEMMA ContractInvariant == ContractSpec => []ContractInv
<1>1. ContractInit => ContractInv
  BY DEF ContractInit, ContractInv, ContractTypeOK, SignalledIffCancelled
<1>2. ContractInv /\ [ContractNext]_contractVars => ContractInv'
  <2> SUFFICES ASSUME ContractInv, [ContractNext]_contractVars PROVE ContractInv'
    OBVIOUS
  <2> USE DEF ContractInv, ContractTypeOK, SignalledIffCancelled, Becomes,
              Waiting, Active, Ended
  <2>1. ASSUME NEW t \in Task, Create(t) PROVE ContractInv'
    BY <2>1 DEF Create
  <2>2. ASSUME NEW t \in Task, Accept(t) \/ Start(t) PROVE ContractInv'
    BY <2>2 DEF Accept, Start
  <2>3. ASSUME NEW t \in Task, Suspend(t) \/ Resume(t) PROVE ContractInv'
    BY <2>3 DEF Suspend, Resume
  <2>4. ASSUME NEW t \in Task, Complete(t) \/ Fail(t) PROVE ContractInv'
    BY <2>4 DEF Complete, Fail
  <2>5. ASSUME NEW t \in Task, Cancel(t) PROVE ContractInv'
    BY <2>5 DEF Cancel
  <2>6. CASE UNCHANGED contractVars
    BY <2>6 DEF contractVars
  <2>7. QED
    BY <2>1, <2>2, <2>3, <2>4, <2>5, <2>6 DEF ContractNext, Move
<1>3. QED
  BY <1>1, <1>2, PTL DEF ContractSpec

\* The abort signal fires with cancellation and for no other reason, in
\* every implementation of the contract.
THEOREM SignalsAreCancellations == ContractSpec => []SignalledIffCancelled
BY ContractInvariant, PTL DEF ContractInv

\* A task that has ended keeps its status for good: no Move starts from an
\* ended status.
THEOREM EndsOnce == ContractSpec => EndedForGood
<1>1. ContractTypeOK /\ [ContractNext]_contractVars =>
        [\A t \in Task : status[t] \in Ended => status'[t] = status[t]]_contractVars
  <2> SUFFICES ASSUME ContractTypeOK, NEW t \in Task, Move(t),
                      NEW u \in Task, status[u] \in Ended
               PROVE  status'[u] = status[u]
    BY DEF ContractNext, contractVars
  <2> USE DEF ContractTypeOK, Becomes, Waiting, Active, Ended
  <2>1. CASE Create(t) BY <2>1 DEF Create
  <2>2. CASE Accept(t) \/ Start(t) BY <2>2 DEF Accept, Start
  <2>3. CASE Suspend(t) \/ Resume(t) BY <2>3 DEF Suspend, Resume
  <2>4. CASE Complete(t) \/ Fail(t) BY <2>4 DEF Complete, Fail
  <2>5. CASE Cancel(t) BY <2>5 DEF Cancel
  <2>6. QED BY <2>1, <2>2, <2>3, <2>4, <2>5 DEF Move
<1>2. QED
  BY <1>1, ContractInvariant, PTL DEF ContractSpec, EndedForGood, ContractInv

=============================================================================
