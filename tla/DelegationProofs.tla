-------------------------- MODULE DelegationProofs --------------------------
(***************************************************************************)
(* Theorems about Delegation, for every number of calls and ids.            *)
(*                                                                         *)
(* The heart is DelegationInv: an unsettled call that was not aborted holds *)
(* its id, and a task that has not ended has an unsettled call.  From it,   *)
(* every step is of one of six kinds (StepKinds), and the invariant         *)
(* survives each.  The knot is in Settled: the transport moves "the task    *)
(* registered under params.task.id", and only the invariant says that this  *)
(* is its own.                                                              *)
(***************************************************************************)
EXTENDS Delegation, TLAPS

AbortedIffCancelled ==
  \A c \in Call : entry[c].aborted <=> entry[c].status = "cancelled"

\* The map holds entries that exist, each under the id its call named.
MapSound ==
  \A id \in TaskId : tasks[id] \in Call =>
    taskOf[tasks[id]] = id /\ entry[tasks[id]].status # "absent"

\* Exactly the calls that were accepted have an entry.
EntryIffAccepted ==
  \A c \in Call :
    /\ entry[c].status = "absent" <=> handler[c] \in {"idle", "refused"}
    /\ entry[c].status # "absent" => taskOf[c] \in TaskId

DelegationInv ==
  /\ TypeOK
  /\ AbortedIffCancelled
  /\ MapSound
  /\ EntryIffAccepted
  /\ LiveTaskHasItsCall
  /\ UnabortedCallOwnsItsId

----------------------------------------------------------------------------
(* The kinds of step.                                                       *)

Started(c, id) ==
  /\ tasks[id] = NoCall
  /\ handler[c] = "idle"
  /\ tasks' = [tasks EXCEPT ![id] = c]
  /\ taskOf' = [taskOf EXCEPT ![c] = id]
  /\ handler' = [handler EXCEPT ![c] = "live"]
  /\ \E e \in TaskEntry :
       /\ entry' = [entry EXCEPT ![c] = e]
       /\ e.status = "running"
       /\ e.aborted = FALSE

Refused(c) ==
  /\ handler[c] = "idle"
  /\ handler' = [handler EXCEPT ![c] = "refused"]
  /\ \E id \in TaskId : taskOf' = [taskOf EXCEPT ![c] = id]
  /\ UNCHANGED <<tasks, entry>>

\* A registered task moves to a status that is not an outcome, or is cancelled.
Moved(c, to) ==
  /\ \E id \in TaskId : tasks[id] = c
  /\ to \in {"running", "suspended", "cancelled"}
  /\ isValidTransition(entry[c].status, to)
  /\ \E e \in TaskEntry :
       /\ entry' = [entry EXCEPT ![c] = e]
       /\ e.status = to
       /\ e.aborted = (entry[c].aborted \/ to = "cancelled")
  /\ UNCHANGED <<tasks, taskOf, handler>>

\* No status, id or signal changes; a live handler may settle.
Kept ==
  /\ entry' \in [Call -> TaskEntry]
  /\ \A c \in Call :
       /\ entry'[c].status = entry[c].status
       /\ entry'[c].aborted = entry[c].aborted
  /\ handler' \in [Call -> HandlerState]
  /\ \A c \in Call :
       \/ handler'[c] = handler[c]
       \/ handler[c] = "live" /\ handler'[c] \in {"returned", "threw"}
  /\ UNCHANGED <<tasks, taskOf>>

\* The transport of c finishes; the only entry it may touch is entry[c].
Settled(c) ==
  /\ handler[c] \in {"returned", "threw"}
  /\ handler' = [handler EXCEPT ![c] = "over"]
  /\ UNCHANGED <<tasks, taskOf>>
  /\ \/ entry[c].aborted /\ entry' = entry
     \/ /\ ~entry[c].aborted
        /\ \E e \in TaskEntry, to \in {"completed", "failed"} :
             /\ entry' = [entry EXCEPT ![c] = e]
             /\ isValidTransition(entry[c].status, to)
             /\ e.status = to
             /\ e.aborted = FALSE

Dropped ==
  /\ UNCHANGED <<entry, taskOf, handler>>
  /\ tasks' \in [TaskId -> Call \cup {NoCall}]
  /\ \A id \in TaskId :
       \/ tasks'[id] = tasks[id]
       \/ /\ tasks'[id] = NoCall
          /\ tasks[id] \in Call
          /\ entry[tasks[id]].status \in TERMINAL_STATES

StepKind ==
  \/ \E c \in Call, id \in TaskId : Started(c, id)
  \/ \E c \in Call : Refused(c)
  \/ \E c \in Call, to \in TaskStatus : Moved(c, to)
  \/ Kept
  \/ \E c \in Call : Settled(c)
  \/ Dropped

----------------------------------------------------------------------------
(* Entries and streams.                                                     *)

\* What the entry functions return.
LEMMA EntryFunctions ==
  ASSUME NEW e \in TaskEntry, NEW to \in TaskStatus
  PROVE  /\ transitionTask(e, to) \in TaskEntry
         /\ transitionTask(e, to).status = to
         /\ transitionTask(e, to).aborted = (e.aborted \/ to = "cancelled")
         /\ saveCheckpoint(e) \in TaskEntry
         /\ saveCheckpoint(e).status = e.status
         /\ saveCheckpoint(e).aborted = e.aborted
BY DEF transitionTask, saveCheckpoint, TaskEntry, TaskStatus

\* The entry a delegation starts with.
LEMMA StartEntry ==
  LET e == transitionTask(transitionTask(createTaskEntry, "accepted"), "running")
  IN  e \in TaskEntry /\ e.status = "running" /\ e.aborted = FALSE
BY DEF transitionTask, createTaskEntry, NoEntryYet, TaskEntry, TaskStatus

\* Time passing changes nothing but the age of an entry.
LEMMA OlderKeeps ==
  ASSUME NEW e \in TaskEntry, NEW cap \in Nat
  PROVE  /\ Older(e, cap) \in TaskEntry
         /\ Older(e, cap).status = e.status
         /\ Older(e, cap).aborted = e.aborted
BY DEF Older, TaskEntry

\* A valid transition starts from a status that has not ended; and a task that
\* has not ended may always fail.
LEMMA TransitionTable ==
  ASSUME NEW from \in TaskStatus
  PROVE  /\ \A to : isValidTransition(from, to) => from \notin TERMINAL_STATES
         /\ isActive(from) => isValidTransition(from, "failed")
         /\ isActive(from) <=> from \notin TERMINAL_STATES
BY DEF isValidTransition, TASK_TRANSITIONS, TaskStatus, TERMINAL_STATES, isActive

\* Moving the entry registered under id, by transitionTask and perhaps a
\* checkpoint, is a step of kind Moved when the rest stays put.
LEMMA MoveTaskIsMoved ==
  ASSUME TypeOK, NEW id \in TaskId, tasks[id] # NoCall,
         NEW to \in {"running", "suspended", "cancelled"},
         isValidTransition(entry[tasks[id]].status, to),
         NEW save \in BOOLEAN,
         entry' = [entry EXCEPT ![tasks[id]] =
                     IF save THEN saveCheckpoint(transitionTask(entry[tasks[id]], to))
                     ELSE transitionTask(entry[tasks[id]], to)],
         UNCHANGED <<tasks, taskOf, handler>>
  PROVE  StepKind
<1> DEFINE c == tasks[id]
           t == transitionTask(entry[c], to)
           e == IF save THEN saveCheckpoint(t) ELSE t
<1>1. c \in Call /\ entry[c] \in TaskEntry /\ to \in TaskStatus
  BY DEF TypeOK, TaskStatus
<1>2. t \in TaskEntry /\ t.status = to /\ t.aborted = (entry[c].aborted \/ to = "cancelled")
  BY <1>1, EntryFunctions
<1>3. e \in TaskEntry /\ e.status = to /\ e.aborted = (entry[c].aborted \/ to = "cancelled")
  <2>1. /\ saveCheckpoint(t) \in TaskEntry
        /\ saveCheckpoint(t).status = t.status
        /\ saveCheckpoint(t).aborted = t.aborted
    BY <1>1, <1>2, EntryFunctions
  <2>2. QED
    BY <1>2, <2>1
<1>4. entry' = [entry EXCEPT ![c] = e]
  OBVIOUS
<1> HIDE DEF e, t
<1>5. \E x \in TaskEntry :
        /\ entry' = [entry EXCEPT ![c] = x]
        /\ x.status = to
        /\ x.aborted = (entry[c].aborted \/ to = "cancelled")
  BY <1>3, <1>4
<1>6. Moved(c, to)
  BY <1>5 DEF Moved
<1>7. QED
  BY <1>1, <1>6 DEF StepKind

----------------------------------------------------------------------------
(* Every step is of one of the six kinds.                                   *)

LEMMA DelegateKinds ==
  ASSUME DelegationInv, NEW c \in Call, NEW id \in TaskId, NEW wire, Delegate(c, id, wire)
  PROVE  StepKind
<1>1. CASE Refuse(c, id, wire)
  BY <1>1 DEF Delegate, Refuse, Enter, registryVars, StepKind, Refused
<1>2. CASE Start(c, id)
  <2> DEFINE e == transitionTask(transitionTask(createTaskEntry, "accepted"), "running")
  <2>1. e \in TaskEntry /\ e.status = "running" /\ e.aborted = FALSE
    BY StartEntry
  <2>2. entry' = [entry EXCEPT ![c] = e]
    BY <1>2 DEF Start
  <2> HIDE DEF e
  <2>3. Started(c, id)
    BY <1>2, <2>1, <2>2 DEF Delegate, Start, Started, Enter
  <2>4. QED
    BY <2>3 DEF StepKind
<1>3. QED
  BY <1>1, <1>2 DEF Delegate

LEMMA HandlerKinds ==
  ASSUME DelegationInv, NEW c \in Call, HandlerStep(c)
  PROVE  StepKind
<1> USE DEF DelegationInv, TypeOK
<1>1. ASSUME UNCHANGED <<tasks, entry, taskOf>>,
             \/ handler' = handler
             \/ handler[c] = "live" /\ Enter(c, "returned")
             \/ handler[c] = "live" /\ Enter(c, "threw")
      PROVE  StepKind
  BY <1>1 DEF Enter, HandlerState, Kept, StepKind
<1>2. CASE HandlerSends(c)
  BY <1>1, <1>2 DEF HandlerSends, registryVars
<1>3. ASSUME NEW f \in EndFrame, HandlerEndsStream(c, f) PROVE StepKind
  BY <1>1, <1>3 DEF HandlerEndsStream, registryVars
<1>9. CASE HandlerCloses(c)
  BY <1>1, <1>9 DEF HandlerCloses, registryVars
<1>4. ASSUME NEW hasData \in BOOLEAN, HandlerSuspends(c, hasData) PROVE StepKind
  <2>1. taskOf[c] \in TaskId
    BY <1>4 DEF HandlerSuspends, EntryIffAccepted
  <2>2. /\ tasks[taskOf[c]] # NoCall
        /\ isValidTransition(entry[tasks[taskOf[c]]].status, "suspended")
        /\ UNCHANGED <<tasks, taskOf, handler>>
    BY <1>4 DEF HandlerSuspends, CanMove
  <2>3. entry' = [entry EXCEPT ![tasks[taskOf[c]]] =
           IF hasData THEN saveCheckpoint(transitionTask(entry[tasks[taskOf[c]]], "suspended"))
           ELSE transitionTask(entry[tasks[taskOf[c]]], "suspended")]
    BY <1>4 DEF HandlerSuspends
  <2>4. QED
    BY <2>1, <2>2, <2>3, MoveTaskIsMoved
<1>5. CASE HandlerCheckpoints(c)
  <2> DEFINE d == tasks[taskOf[c]]
  <2>1. d \in Call /\ entry[d] \in TaskEntry
    BY <1>5 DEF HandlerCheckpoints, EntryIffAccepted
  <2>2. /\ saveCheckpoint(entry[d]) \in TaskEntry
        /\ saveCheckpoint(entry[d]).status = entry[d].status
        /\ saveCheckpoint(entry[d]).aborted = entry[d].aborted
    BY <2>1, EntryFunctions DEF TaskStatus
  <2>3. /\ entry' = [entry EXCEPT ![d] = saveCheckpoint(entry[d])]
        /\ UNCHANGED <<tasks, taskOf, handler>>
    BY <1>5 DEF HandlerCheckpoints
  <2>4. Kept
    BY <2>1, <2>2, <2>3 DEF Kept
  <2>5. QED
    BY <2>4 DEF StepKind
<1>6. CASE HandlerReturns(c)
  BY <1>1, <1>6 DEF HandlerReturns, registryVars
<1>7. CASE HandlerThrows(c)
  BY <1>1, <1>7 DEF HandlerThrows, registryVars
<1>8. QED
  BY <1>2, <1>3, <1>4, <1>5, <1>6, <1>7, <1>9 DEF HandlerStep

\* The transition a settling, unaborted call makes is one of its own entry.
LEMMA OwnMove ==
  ASSUME DelegationInv, NEW c \in Call, handler[c] \in Unsettled, ~entry[c].aborted,
         NEW to \in {"completed", "failed"}, CanMove(taskOf[c], to), MoveTask(taskOf[c], to)
  PROVE  \E e \in TaskEntry :
           /\ entry' = [entry EXCEPT ![c] = e]
           /\ isValidTransition(entry[c].status, to)
           /\ e.status = to
           /\ e.aborted = FALSE
<1> DEFINE e == transitionTask(entry[c], to)
<1>1. tasks[taskOf[c]] = c
  BY DEF DelegationInv, UnabortedCallOwnsItsId
<1>2. entry[c] \in TaskEntry /\ to \in TaskStatus
  BY DEF DelegationInv, TypeOK, TaskStatus
<1>3. e \in TaskEntry /\ e.status = to /\ e.aborted = (entry[c].aborted \/ to = "cancelled")
  BY <1>2, EntryFunctions
<1>4. entry' = [entry EXCEPT ![c] = e]
  BY <1>1 DEF MoveTask
<1>5. isValidTransition(entry[c].status, to)
  BY <1>1 DEF CanMove
<1> HIDE DEF e
<1>6. e.aborted = FALSE
  BY <1>3
<1>7. QED
  BY <1>3, <1>4, <1>5, <1>6

\* The catch block of an unaborted call always fails the call's own task.
LEMMA FailsItsOwn ==
  ASSUME DelegationInv, NEW c \in Call, handler[c] \in Unsettled, ~entry[c].aborted,
         SettleFailed(c)
  PROVE  \E e \in TaskEntry :
           /\ entry' = [entry EXCEPT ![c] = e]
           /\ isValidTransition(entry[c].status, "failed")
           /\ e.status = "failed"
           /\ e.aborted = FALSE
<1>1. tasks[taskOf[c]] = c /\ isActive(entry[c].status)
  BY DEF DelegationInv, UnabortedCallOwnsItsId
<1>2. entry[c].status \in TaskStatus
  BY <1>1 DEF isActive
<1>3. CanMove(taskOf[c], "failed")
  BY <1>1, <1>2, NoCallAssumption, TransitionTable DEF CanMove
<1>4. MoveTask(taskOf[c], "failed")
  BY <1>3 DEF SettleFailed
<1>5. QED
  BY <1>3, <1>4, OwnMove

LEMMA SettleKinds ==
  ASSUME DelegationInv, NEW c \in Call, Settle(c)
  PROVE  StepKind
<1>1. handler[c] \in {"returned", "threw"} /\ handler[c] \in Unsettled
  BY DEF Settle, SettleReturned, SettleThrown, Unsettled
<1>2. handler' = [handler EXCEPT ![c] = "over"] /\ UNCHANGED <<tasks, taskOf>>
  BY DEF Settle, SettleReturned, SettleThrown, Enter
<1>3. CASE entry[c].aborted
  <2>1. entry' = entry
    BY <1>3 DEF Settle, SettleReturned, SettleThrown
  <2>2. QED
    BY <1>1, <1>2, <1>3, <2>1 DEF Settled, StepKind
<1>4. CASE ~entry[c].aborted
  <2>1. \/ CanMove(taskOf[c], "completed") /\ MoveTask(taskOf[c], "completed")
        \/ SettleFailed(c)
    BY <1>4 DEF Settle, SettleReturned, SettleThrown
  <2>2. \E e \in TaskEntry, to \in {"completed", "failed"} :
          /\ entry' = [entry EXCEPT ![c] = e]
          /\ isValidTransition(entry[c].status, to)
          /\ e.status = to
          /\ e.aborted = FALSE
    BY <1>1, <1>4, <2>1, OwnMove, FailsItsOwn
  <2>3. QED
    BY <1>1, <1>2, <1>4, <2>2 DEF Settled, StepKind
<1>5. QED
  BY <1>3, <1>4

LEMMA StepKinds ==
  ASSUME DelegationInv, [Next]_vars
  PROVE  StepKind
<1>1. ASSUME NEW c \in Call, NEW id \in TaskId, NEW wire, Delegate(c, id, wire) PROVE StepKind
  BY <1>1, DelegateKinds
<1>2. ASSUME NEW c \in Call, HandlerStep(c) \/ Settle(c) PROVE StepKind
  BY <1>2, HandlerKinds, SettleKinds
<1>3. ASSUME NEW id \in TaskId, TaskCancel(id) PROVE StepKind
  <2>1. isValidTransition(entry[tasks[id]].status, "cancelled")
    BY <1>3 DEF TaskCancel, isCancellable, CANCELLABLE_STATES, isValidTransition, TASK_TRANSITIONS
  <2>2. entry' = [entry EXCEPT ![tasks[id]] =
           IF FALSE THEN saveCheckpoint(transitionTask(entry[tasks[id]], "cancelled"))
           ELSE transitionTask(entry[tasks[id]], "cancelled")]
    BY <1>3 DEF TaskCancel, MoveTask
  <2>3. QED
    BY <1>3, <2>1, <2>2, MoveTaskIsMoved DEF TaskCancel, DelegationInv
<1>4. ASSUME NEW id \in TaskId, TaskResume(id) PROVE StepKind
  <2>1. isValidTransition(entry[tasks[id]].status, "running")
    BY <1>4 DEF TaskResume, isResumable, RESUMABLE_STATES, isValidTransition, TASK_TRANSITIONS
  <2>2. entry' = [entry EXCEPT ![tasks[id]] =
           IF FALSE THEN saveCheckpoint(transitionTask(entry[tasks[id]], "running"))
           ELSE transitionTask(entry[tasks[id]], "running")]
    BY <1>4 DEF TaskResume, MoveTask
  <2>3. QED
    BY <1>4, <2>1, <2>2, MoveTaskIsMoved DEF TaskResume, DelegationInv
<1>5. CASE Tick
  <2>1. AgeCap \in Nat
    BY BoundsAssumption DEF AgeCap
  <2>2. Kept
    BY <1>5, <2>1, OlderKeeps DEF Tick, Kept, DelegationInv, TypeOK
  <2>3. QED
    BY <2>2 DEF StepKind
<1>6. CASE Cleanup
  <2>1. Dropped
    BY <1>6 DEF Cleanup, Dropped, Stale, isStale, isTerminal, DelegationInv, TypeOK
  <2>2. QED
    BY <2>1 DEF StepKind
<1>7. CASE UNCHANGED vars
  BY <1>7 DEF vars, StepKind, Dropped, DelegationInv, TypeOK
<1>8. QED
  BY <1>1, <1>2, <1>3, <1>4, <1>5, <1>6, <1>7 DEF Next

----------------------------------------------------------------------------
(* The invariant survives every step.                                       *)

LEMMA MapStaysTyped ==
  ASSUME DelegationInv, StepKind
  PROVE  /\ tasks' \in [TaskId -> Call \cup {NoCall}]
         /\ entry' \in [Call -> TaskEntry]
         /\ taskOf' \in [Call -> TaskId \cup {NoCall}]
         /\ handler' \in [Call -> HandlerState]
<1> USE DEF DelegationInv, TypeOK, HandlerState
<1>1. ASSUME NEW c \in Call, NEW id \in TaskId, Started(c, id)
      PROVE  /\ tasks' \in [TaskId -> Call \cup {NoCall}]
             /\ entry' \in [Call -> TaskEntry]
             /\ taskOf' \in [Call -> TaskId \cup {NoCall}]
             /\ handler' \in [Call -> HandlerState]
  BY <1>1 DEF Started
<1>2. ASSUME NEW c \in Call, Refused(c)
      PROVE  /\ tasks' \in [TaskId -> Call \cup {NoCall}]
             /\ entry' \in [Call -> TaskEntry]
             /\ taskOf' \in [Call -> TaskId \cup {NoCall}]
             /\ handler' \in [Call -> HandlerState]
  BY <1>2 DEF Refused
<1>3. ASSUME NEW c \in Call, NEW to \in TaskStatus, Moved(c, to)
      PROVE  /\ tasks' \in [TaskId -> Call \cup {NoCall}]
             /\ entry' \in [Call -> TaskEntry]
             /\ taskOf' \in [Call -> TaskId \cup {NoCall}]
             /\ handler' \in [Call -> HandlerState]
  BY <1>3 DEF Moved
<1>4. ASSUME NEW c \in Call, Settled(c)
      PROVE  /\ tasks' \in [TaskId -> Call \cup {NoCall}]
             /\ entry' \in [Call -> TaskEntry]
             /\ taskOf' \in [Call -> TaskId \cup {NoCall}]
             /\ handler' \in [Call -> HandlerState]
  BY <1>4 DEF Settled
<1>5. QED
  BY <1>1, <1>2, <1>3, <1>4 DEF StepKind, Kept, Dropped

LEMMA SendTyped ==
  ASSUME TypeOK, NEW c \in Call, NEW f \in Frame, send(c, f)
  PROVE  frames' \in [Call -> Seq(Frame)]
BY DEF send, TypeOK

LEMMA StreamsStayTyped ==
  ASSUME TypeOK, [Next]_vars
  PROVE  /\ frames' \in [Call -> Seq(Frame)]
         /\ stream' \in [Call -> {"none", "open", "closed"}]
         /\ up' \in BOOLEAN
<1> USE DEF TypeOK
<1> DEFINE Goal == /\ frames' \in [Call -> Seq(Frame)]
                   /\ stream' \in [Call -> {"none", "open", "closed"}]
                   /\ up' \in BOOLEAN
<1>1. ASSUME NEW c \in Call, NEW f \in EndFrame, EndStream(c, f), UNCHANGED up PROVE Goal
  <2>1. f \in Frame
    BY DEF Frame
  <2>2. QED
    BY <1>1, <2>1, SendTyped DEF EndStream, close
<1>2. ASSUME NEW c \in Call, close(c), UNCHANGED <<frames, up>> PROVE Goal
  BY <1>2 DEF close
<1>3. ASSUME NEW c \in Call, NEW id \in TaskId, NEW wire, Delegate(c, id, wire) PROVE Goal
  BY <1>3 DEF Delegate, Refuse, Start
<1>4. ASSUME NEW c \in Call, HandlerStep(c) PROVE Goal
  <2>1. CASE HandlerSends(c)
    BY <2>1, SendTyped DEF HandlerSends, Frame
  <2>2. ASSUME NEW f \in EndFrame, HandlerEndsStream(c, f) PROVE Goal
    BY <1>1, <2>2 DEF HandlerEndsStream
  <2>4. CASE HandlerCloses(c)
    BY <1>2, <2>4 DEF HandlerCloses
  <2>3. QED
    BY <1>4, <2>1, <2>2, <2>4 DEF HandlerStep, HandlerSuspends, HandlerCheckpoints,
       HandlerReturns, HandlerThrows, streamVars
<1>5. ASSUME NEW c \in Call, Settle(c) PROVE Goal
  <2>1. UNCHANGED up
    BY <1>5 DEF Settle, SettleReturned, SettleThrown
  <2>2. \/ close(c) /\ UNCHANGED frames
        \/ EndStream(c, "error")
    BY <1>5 DEF Settle, SettleReturned, SettleThrown, SettleFailed
  <2>3. QED
    BY <1>1, <1>2, <2>1, <2>2 DEF EndFrame
<1>6. QED
  BY <1>3, <1>4, <1>5 DEF Next, TaskCancel, TaskResume, Tick, Cleanup, streamVars, vars

LEMMA InvSurvives ==
  ASSUME DelegationInv, StepKind
  PROVE  /\ AbortedIffCancelled' /\ MapSound' /\ EntryIffAccepted'
         /\ LiveTaskHasItsCall' /\ UnabortedCallOwnsItsId'
<1> DEFINE Goal == /\ AbortedIffCancelled' /\ MapSound' /\ EntryIffAccepted'
                   /\ LiveTaskHasItsCall' /\ UnabortedCallOwnsItsId'
<1> USE NoCallAssumption
<1>a. /\ tasks \in [TaskId -> Call \cup {NoCall}]
      /\ entry \in [Call -> TaskEntry]
      /\ taskOf \in [Call -> TaskId \cup {NoCall}]
      /\ handler \in [Call -> HandlerState]
  BY DEF DelegationInv, TypeOK
<1>b. AbortedIffCancelled /\ MapSound /\ EntryIffAccepted
      /\ LiveTaskHasItsCall /\ UnabortedCallOwnsItsId
  BY DEF DelegationInv
<1>c. \A c \in Call : entry[c].status \in TaskStatus \cup {"absent"}
  BY <1>a DEF TaskEntry
<1>1. ASSUME NEW c \in Call, NEW id \in TaskId, Started(c, id) PROVE Goal
  <2>1. PICK e \in TaskEntry :
          entry' = [entry EXCEPT ![c] = e] /\ e.status = "running" /\ e.aborted = FALSE
    BY <1>1 DEF Started
  <2>2. entry'[c] = e /\ \A d \in Call \ {c} : entry'[d] = entry[d]
    BY <1>a, <2>1
  <2>3. /\ handler'[c] = "live" /\ taskOf'[c] = id /\ tasks'[id] = c
        /\ \A d \in Call \ {c} : handler'[d] = handler[d] /\ taskOf'[d] = taskOf[d]
        /\ \A i \in TaskId \ {id} : tasks'[i] = tasks[i]
        /\ tasks[id] = NoCall /\ handler[c] = "idle"
    BY <1>1, <1>a DEF Started
  <2>4. entry[c].status = "absent" /\ \A i \in TaskId : tasks[i] # c
    BY <1>b, <2>3 DEF MapSound, EntryIffAccepted
  <2>5. AbortedIffCancelled'
    BY <1>b, <2>1, <2>2 DEF AbortedIffCancelled
  <2>6. MapSound'
    <3> SUFFICES ASSUME NEW i \in TaskId, tasks'[i] \in Call
                 PROVE  taskOf'[tasks'[i]] = i /\ entry'[tasks'[i]].status # "absent"
      BY DEF MapSound
    <3>1. CASE i = id
      BY <2>1, <2>2, <2>3, <3>1
    <3>2. CASE i # id
      <4>1. tasks'[i] = tasks[i] /\ tasks[i] \in Call \ {c}
        BY <2>3, <2>4, <3>2
      <4>2. QED
        BY <1>b, <2>2, <2>3, <4>1 DEF MapSound
    <3>3. QED
      BY <3>1, <3>2
  <2>7. EntryIffAccepted'
    BY <1>b, <2>1, <2>2, <2>3 DEF EntryIffAccepted
  <2>8. LiveTaskHasItsCall'
    BY <1>b, <2>1, <2>2, <2>3 DEF LiveTaskHasItsCall, Unsettled
  <2>9. UnabortedCallOwnsItsId'
    <3> SUFFICES ASSUME NEW d \in Call, handler'[d] \in Unsettled, ~entry'[d].aborted
                 PROVE  tasks'[taskOf'[d]] = d /\ isActive(entry'[d].status)
      BY DEF UnabortedCallOwnsItsId
    <3>1. CASE d = c
      BY <2>1, <2>2, <2>3, <3>1 DEF isActive, TaskStatus, TERMINAL_STATES
    <3>2. CASE d # c
      <4>1. handler[d] \in Unsettled /\ ~entry[d].aborted
        BY <2>2, <2>3, <3>2
      <4>2. tasks[taskOf[d]] = d /\ isActive(entry[d].status)
        BY <1>b, <4>1 DEF UnabortedCallOwnsItsId
      <4>3. taskOf[d] \in TaskId
        BY <1>b, <4>1 DEF EntryIffAccepted, Unsettled
      <4>4. taskOf[d] # id
        BY <2>3, <4>2
      <4>5. QED
        BY <2>2, <2>3, <3>2, <4>2, <4>3, <4>4
    <3>3. QED
      BY <3>1, <3>2
  <2>10. QED
    BY <2>5, <2>6, <2>7, <2>8, <2>9
<1>2. ASSUME NEW c \in Call, Refused(c) PROVE Goal
  <2>1. /\ handler'[c] = "refused" /\ handler[c] = "idle"
        /\ \A d \in Call \ {c} : handler'[d] = handler[d] /\ taskOf'[d] = taskOf[d]
        /\ tasks' = tasks /\ entry' = entry
    BY <1>2, <1>a DEF Refused
  <2>2. entry[c].status = "absent" /\ \A i \in TaskId : tasks[i] # c
    BY <1>b, <2>1 DEF MapSound, EntryIffAccepted
  <2>3. AbortedIffCancelled'
    BY <1>b, <2>1 DEF AbortedIffCancelled
  <2>4. MapSound'
    BY <1>b, <2>1, <2>2 DEF MapSound
  <2>5. EntryIffAccepted'
    BY <1>b, <2>1, <2>2 DEF EntryIffAccepted
  <2>6. LiveTaskHasItsCall'
    BY <1>b, <2>1, <2>2 DEF LiveTaskHasItsCall, isActive, TaskStatus
  <2>7. UnabortedCallOwnsItsId'
    BY <1>b, <2>1 DEF UnabortedCallOwnsItsId, Unsettled
  <2>8. QED
    BY <2>3, <2>4, <2>5, <2>6, <2>7
<1>3. ASSUME NEW c \in Call, NEW to \in TaskStatus, Moved(c, to) PROVE Goal
  <2>1. PICK e \in TaskEntry :
          /\ entry' = [entry EXCEPT ![c] = e]
          /\ e.status = to
          /\ e.aborted = (entry[c].aborted \/ to = "cancelled")
    BY <1>3 DEF Moved
  <2>2. entry'[c] = e /\ \A d \in Call \ {c} : entry'[d] = entry[d]
    BY <1>a, <2>1
  <2>3. /\ UNCHANGED <<tasks, taskOf, handler>>
        /\ to \in {"running", "suspended", "cancelled"}
        /\ isValidTransition(entry[c].status, to)
    BY <1>3 DEF Moved
  <2>4. entry[c].status \in TaskStatus
    BY <1>3, <1>b, <1>c DEF Moved, MapSound
  <2>5. isActive(entry[c].status)
    BY <2>3, <2>4, TransitionTable
  <2>6. ~entry[c].aborted
    BY <1>b, <2>5 DEF AbortedIffCancelled, isActive, TERMINAL_STATES
  <2>7. e.aborted <=> to = "cancelled"
    BY <2>1, <2>6
  <2>8. AbortedIffCancelled'
    BY <1>b, <2>1, <2>2, <2>7 DEF AbortedIffCancelled
  <2>9. e.status # "absent" /\ entry[c].status # "absent"
    BY <2>1, <2>3, <2>4 DEF TaskStatus
  <2>10. MapSound'
    BY <1>b, <2>2, <2>3, <2>9 DEF MapSound
  <2>11. EntryIffAccepted'
    BY <1>b, <2>2, <2>3, <2>9 DEF EntryIffAccepted
  <2>12. LiveTaskHasItsCall'
    BY <1>b, <2>2, <2>3, <2>5 DEF LiveTaskHasItsCall
  <2>13. e.aborted \/ isActive(e.status)
    BY <2>1, <2>3, <2>7 DEF isActive, TaskStatus, TERMINAL_STATES
  <2>14. UnabortedCallOwnsItsId'
    BY <1>b, <2>2, <2>3, <2>6, <2>13 DEF UnabortedCallOwnsItsId
  <2>15. QED
    BY <2>8, <2>10, <2>11, <2>12, <2>14
<1>4. CASE Kept
  <2>1. \A c \in Call : /\ entry'[c].status = entry[c].status
                        /\ entry'[c].aborted = entry[c].aborted
    BY <1>4 DEF Kept
  <2>2. \A c \in Call : \/ handler'[c] = handler[c]
                        \/ handler[c] = "live" /\ handler'[c] \in {"returned", "threw"}
    BY <1>4 DEF Kept
  <2>3. tasks' = tasks /\ taskOf' = taskOf
    BY <1>4 DEF Kept
  <2>4. \A c \in Call : handler'[c] \in Unsettled <=> handler[c] \in Unsettled
    BY <2>2 DEF Unsettled
  <2>5. AbortedIffCancelled'
    BY <1>b, <2>1 DEF AbortedIffCancelled
  <2>6. MapSound'
    BY <1>b, <2>1, <2>3 DEF MapSound
  <2>7. EntryIffAccepted'
    BY <1>b, <2>1, <2>2, <2>3 DEF EntryIffAccepted
  <2>8. LiveTaskHasItsCall'
    BY <1>b, <2>1, <2>4 DEF LiveTaskHasItsCall
  <2>9. UnabortedCallOwnsItsId'
    BY <1>b, <2>1, <2>3, <2>4 DEF UnabortedCallOwnsItsId
  <2>10. QED
    BY <2>5, <2>6, <2>7, <2>8, <2>9
<1>5. ASSUME NEW c \in Call, Settled(c) PROVE Goal
  <2>1. /\ handler[c] \in {"returned", "threw"} /\ handler'[c] = "over"
        /\ \A d \in Call \ {c} : handler'[d] = handler[d]
        /\ tasks' = tasks /\ taskOf' = taskOf
    BY <1>5, <1>a DEF Settled
  <2>2. \E e \in TaskEntry :
          /\ entry' = [entry EXCEPT ![c] = e]
          /\ e.status \in TERMINAL_STATES
          /\ e.aborted <=> e.status = "cancelled"
    <3>1. CASE entry[c].aborted /\ entry' = entry
      <4>1. entry[c].status = "cancelled" /\ entry[c] \in TaskEntry
        BY <1>a, <1>b, <3>1 DEF AbortedIffCancelled
      <4>2. entry' = [entry EXCEPT ![c] = entry[c]]
        BY <1>a, <3>1
      <4>3. QED
        BY <3>1, <4>1, <4>2 DEF TERMINAL_STATES
    <3>2. CASE ~entry[c].aborted
      <4>1. PICK e \in TaskEntry, to \in {"completed", "failed"} :
              /\ entry' = [entry EXCEPT ![c] = e]
              /\ e.status = to
              /\ e.aborted = FALSE
        BY <1>5, <3>2 DEF Settled
      <4>2. QED
        BY <4>1 DEF TERMINAL_STATES
    <3>3. QED
      BY <1>5, <3>1, <3>2 DEF Settled
  <2>3. PICK e \in TaskEntry :
          /\ entry' = [entry EXCEPT ![c] = e]
          /\ e.status \in TERMINAL_STATES
          /\ e.aborted <=> e.status = "cancelled"
    BY <2>2
  <2>4. entry'[c] = e /\ \A d \in Call \ {c} : entry'[d] = entry[d]
    BY <1>a, <2>3
  <2>5. ~isActive(e.status) /\ e.status # "absent"
    BY <2>3 DEF isActive, TERMINAL_STATES
  <2>6. entry[c].status # "absent"
    BY <1>b, <2>1 DEF EntryIffAccepted
  <2>7. AbortedIffCancelled'
    BY <1>b, <2>3, <2>4 DEF AbortedIffCancelled
  <2>8. MapSound'
    BY <1>b, <2>1, <2>4, <2>5 DEF MapSound
  <2>9. EntryIffAccepted'
    BY <1>b, <2>1, <2>4, <2>5, <2>6 DEF EntryIffAccepted
  <2>10. LiveTaskHasItsCall'
    BY <1>b, <2>1, <2>4, <2>5 DEF LiveTaskHasItsCall
  <2>11. UnabortedCallOwnsItsId'
    BY <1>b, <2>1, <2>4 DEF UnabortedCallOwnsItsId, Unsettled
  <2>12. QED
    BY <2>7, <2>8, <2>9, <2>10, <2>11
<1>6. CASE Dropped
  <2>1. entry' = entry /\ taskOf' = taskOf /\ handler' = handler
    BY <1>6 DEF Dropped
  <2>2. \A id \in TaskId :
          \/ tasks'[id] = tasks[id]
          \/ tasks'[id] = NoCall /\ tasks[id] \in Call /\ entry[tasks[id]].status \in TERMINAL_STATES
    BY <1>6 DEF Dropped
  <2>3. AbortedIffCancelled' /\ EntryIffAccepted' /\ LiveTaskHasItsCall'
    BY <1>b, <2>1 DEF AbortedIffCancelled, EntryIffAccepted, LiveTaskHasItsCall
  <2>4. MapSound'
    BY <1>b, <2>1, <2>2 DEF MapSound
  <2>5. UnabortedCallOwnsItsId'
    <3> SUFFICES ASSUME NEW d \in Call, handler[d] \in Unsettled, ~entry[d].aborted
                 PROVE  tasks'[taskOf[d]] = d /\ isActive(entry[d].status)
      BY <2>1 DEF UnabortedCallOwnsItsId
    <3>1. tasks[taskOf[d]] = d /\ isActive(entry[d].status)
      BY <1>b DEF UnabortedCallOwnsItsId
    <3>2. taskOf[d] \in TaskId
      BY <1>b DEF EntryIffAccepted, Unsettled
    <3>3. entry[d].status \notin TERMINAL_STATES
      BY <3>1 DEF isActive
    <3>4. QED
      BY <2>2, <3>1, <3>2, <3>3
  <2>6. QED
    BY <2>3, <2>4, <2>5
<1>7. QED
  BY <1>1, <1>2, <1>3, <1>4, <1>5, <1>6 DEF StepKind

\* Init establishes the invariant and every step keeps it.
LEMMA DelegationInvariant == Spec => []DelegationInv
<1>1. Init => DelegationInv
  BY NoCallAssumption
  DEF Init, DelegationInv, TypeOK, AbortedIffCancelled, MapSound, EntryIffAccepted,
      LiveTaskHasItsCall, UnabortedCallOwnsItsId, NoEntryYet, TaskEntry, TaskStatus,
      HandlerState, Unsettled, isActive
<1>2. DelegationInv /\ [Next]_vars => DelegationInv'
  <2> SUFFICES ASSUME DelegationInv, [Next]_vars PROVE DelegationInv'
    OBVIOUS
  <2>1. StepKind
    BY StepKinds
  <2>2. TypeOK'
    BY <2>1, MapStaysTyped, StreamsStayTyped DEF DelegationInv, TypeOK
  <2>3. QED
    BY <2>1, <2>2, InvSurvives DEF DelegationInv
<1>3. QED
  BY <1>1, <1>2, PTL DEF Spec

----------------------------------------------------------------------------
(* The theorems.                                                            *)

\* Type correctness, for every set of calls and ids: checked by delegation.
THEOREM DelegationTypeCorrect == Spec => []TypeOK
BY DelegationInvariant, PTL DEF DelegationInv

\* No delegated task is left without a handler or a transport that will end
\* it: checked by delegation.
THEOREM NoOrphans == Spec => []LiveTaskHasItsCall
BY DelegationInvariant, PTL DEF DelegationInv

\* A call that was not aborted still owns its id when the transport resumes
\* after the handler: checked by delegation.
THEOREM CallsOwnTheirIds == Spec => []UnabortedCallOwnsItsId
BY DelegationInvariant, PTL DEF DelegationInv

\* Only a step of kind Settled makes a call "over", and it is that call's.
LEMMA OverBySettling ==
  ASSUME DelegationInv, StepKind, NEW c \in Call, handler[c] # "over", handler'[c] = "over"
  PROVE  Settled(c)
<1>1. handler \in [Call -> HandlerState]
  BY DEF DelegationInv, TypeOK
<1>2. ASSUME NEW d \in Call, Settled(d) PROVE d = c
  BY <1>1, <1>2 DEF Settled
<1>3. QED
  BY <1>1, <1>2 DEF StepKind, Started, Refused, Moved, Kept, Dropped

\* A late settlement touches no task but its own: checked by delegation.
THEOREM SettlementIsLocal == Spec => SettlesOnlyItsOwnTask
<1>1. DelegationInv /\ [Next]_vars =>
        [\A c, d \in Call :
           handler[c] # "over" /\ handler'[c] = "over" /\ entry'[d] # entry[d] => c = d]_vars
  <2> SUFFICES ASSUME DelegationInv, [Next]_vars, NEW c \in Call, NEW d \in Call,
                      handler[c] # "over", handler'[c] = "over", c # d
               PROVE  entry'[d] = entry[d]
    OBVIOUS
  <2>1. Settled(c)
    BY StepKinds, OverBySettling
  <2>2. entry \in [Call -> TaskEntry]
    BY DEF DelegationInv, TypeOK
  <2>3. QED
    BY <2>1, <2>2 DEF Settled
<1>2. QED
  BY <1>1, DelegationInvariant, PTL DEF Spec, SettlesOnlyItsOwnTask

\* An entry that makes a valid transition, or is created running, takes the
\* step the contract has for it.
LEMMA ContractStep ==
  ASSUME DelegationInv, NEW c \in Call, NEW to \in TaskStatus, NEW e \in TaskEntry,
         entry' = [entry EXCEPT ![c] = e], e.status = to,
         e.aborted = (entry[c].aborted \/ to = "cancelled"),
         \/ isValidTransition(entry[c].status, to) /\ entry[c].status \in TaskStatus
         \/ entry[c].status = "absent" /\ to = "running"
  PROVE  Contract!Move(c)
<1> DEFINE status    == [q \in Call |-> entry[q].status]
           signalled == {q \in Call : entry[q].aborted}
<1>a. entry \in [Call -> TaskEntry] /\ AbortedIffCancelled
  BY DEF DelegationInv, TypeOK
<1>1. Contract!Becomes(c, to)
  BY <1>a DEF Contract!Becomes
<1>2. status[c] = entry[c].status
  OBVIOUS
<1>3. ~entry[c].aborted
  BY <1>a, TransitionTable DEF AbortedIffCancelled, TERMINAL_STATES
<1>4. CASE to = "cancelled"
  <2>1. {q \in Call : entry'[q].aborted} = signalled \cup {c}
    BY <1>a, <1>4
  <2>2. entry[c].status \in Contract!Active
    BY <1>4, TransitionTable DEF TaskStatus, TERMINAL_STATES, Contract!Active, Contract!Waiting
  <2>3. QED
    BY <1>1, <1>4, <2>1, <2>2 DEF Contract!Cancel, Contract!Move
<1>5. CASE to # "cancelled"
  <2>1. {q \in Call : entry'[q].aborted} = signalled
    BY <1>a, <1>3, <1>5
  <2>2. \/ entry[c].status = "absent"    /\ to = "running"
        \/ entry[c].status = "pending"   /\ to \in {"accepted", "failed"}
        \/ entry[c].status = "accepted"  /\ to \in {"running", "failed"}
        \/ entry[c].status = "running"   /\ to \in {"completed", "failed", "suspended"}
        \/ entry[c].status = "suspended" /\ to \in {"running", "failed"}
    BY <1>5 DEF isValidTransition, TASK_TRANSITIONS, TaskStatus
  <2>3. QED
    BY <1>1, <2>1, <2>2
    DEF Contract!Move, Contract!Create, Contract!Accept, Contract!Start, Contract!Suspend,
        Contract!Resume, Contract!Complete, Contract!Fail, Contract!Active, Contract!Waiting
<1>6. QED
  BY <1>4, <1>5

\* Delegation implements the lifecycle contract: checked by delegation.
THEOREM DelegationImplementsContract == Spec => ImplementsContract
<1>1. Init => Contract!ContractInit
  BY DEF Init, Contract!ContractInit, NoEntryYet
<1>2. DelegationInv /\ [Next]_vars => [Contract!ContractNext]_(Contract!contractVars)
  <2> SUFFICES ASSUME DelegationInv, [Next]_vars
               PROVE  Contract!ContractNext \/ UNCHANGED Contract!contractVars
    OBVIOUS
  <2>a. /\ entry \in [Call -> TaskEntry]
        /\ \A c \in Call : entry[c].status = "cancelled" <=> entry[c].aborted
        /\ \A c \in Call : entry[c].status = "absent" <=> handler[c] \in {"idle", "refused"}
    BY DEF DelegationInv, TypeOK, AbortedIffCancelled, EntryIffAccepted
  <2>1. StepKind
    BY StepKinds
  <2>2. ASSUME NEW c \in Call, NEW id \in TaskId, Started(c, id) PROVE Contract!ContractNext
    <3>1. PICK e \in TaskEntry :
            entry' = [entry EXCEPT ![c] = e] /\ e.status = "running" /\ e.aborted = FALSE
      BY <2>2 DEF Started
    <3>2. entry[c].status = "absent" /\ ~entry[c].aborted
      BY <2>2, <2>a DEF Started
    <3>3. e.aborted = (entry[c].aborted \/ "running" = "cancelled")
      BY <3>1, <3>2
    <3>4. Contract!Move(c)
      BY <3>1, <3>2, <3>3, ContractStep DEF TaskStatus
    <3>5. QED
      BY <3>4 DEF Contract!ContractNext
  <2>3. ASSUME NEW c \in Call PROVE entry[c].status \in TaskStatus \cup {"absent"}
    BY <2>a DEF TaskEntry
  <2>4. ASSUME NEW c \in Call, NEW to \in TaskStatus, Moved(c, to) PROVE Contract!ContractNext
    <3>1. PICK e \in TaskEntry :
            /\ entry' = [entry EXCEPT ![c] = e]
            /\ e.status = to
            /\ e.aborted = (entry[c].aborted \/ to = "cancelled")
      BY <2>4 DEF Moved
    <3>2. isValidTransition(entry[c].status, to) /\ entry[c].status \in TaskStatus
      BY <2>4, <2>3 DEF Moved, DelegationInv, MapSound
    <3>3. Contract!Move(c)
      BY <3>1, <3>2, ContractStep
    <3>4. QED
      BY <3>3 DEF Contract!ContractNext
  <2>5. ASSUME NEW c \in Call, Settled(c), ~entry[c].aborted PROVE Contract!ContractNext
    <3>1. PICK e \in TaskEntry, to \in {"completed", "failed"} :
            /\ entry' = [entry EXCEPT ![c] = e]
            /\ isValidTransition(entry[c].status, to)
            /\ e.status = to
            /\ e.aborted = FALSE
      BY <2>5 DEF Settled
    <3>2. entry[c].status \in TaskStatus
      BY <2>3, <2>5, <2>a DEF Settled
    <3>3. e.aborted = (entry[c].aborted \/ to = "cancelled")
      BY <3>1, <2>5
    <3>4. Contract!Move(c)
      BY <3>1, <3>2, <3>3, ContractStep DEF TaskStatus
    <3>5. QED
      BY <3>4 DEF Contract!ContractNext
  <2>6. ASSUME entry' = entry PROVE UNCHANGED Contract!contractVars
    BY <2>6 DEF Contract!contractVars
  <2>7. ASSUME Kept PROVE UNCHANGED Contract!contractVars
    BY <2>7 DEF Kept, Contract!contractVars
  <2>8. QED
    BY <2>1, <2>2, <2>4, <2>5, <2>6, <2>7 DEF StepKind, Settled, Refused, Dropped
<1>3. QED
  BY <1>1, <1>2, DelegationInvariant, PTL DEF Spec, ImplementsContract, Contract!ContractSpec

----------------------------------------------------------------------------
(* The streams.  A frame that ends a stream is last because it is written   *)
(* to an open stream only and closes it.                                    *)

StreamInv ==
  /\ EndFrameIsLast
  /\ \A c \in Call :
       /\ handler[c] \in Unsettled => stream[c] # "none"
       /\ handler[c] = "idle" => frames[c] = <<>>

\* What one step does to the stream of one call.
Opened(c) ==
  /\ handler[c] = "idle"
  /\ handler'[c] \in {"live", "refused"}
  /\ frames'[c] = frames[c]
  /\ handler'[c] = "live" => stream'[c] = "open"

Sent(c) ==
  /\ handler[c] \in Unsettled
  /\ stream[c] = "open"
  /\ \/ frames'[c] = Append(frames[c], "progress") /\ stream'[c] = "open"
     \/ \E f \in EndFrame :
          frames'[c] = Append(frames[c], f) /\ stream'[c] = "closed"

ClosedSilently(c) ==
  /\ handler[c] \in Unsettled
  /\ handler'[c] # "idle"
  /\ frames'[c] = frames[c]
  /\ stream'[c] = "closed"

Untouched(c) ==
  /\ frames'[c] = frames[c]
  /\ stream'[c] = stream[c]
  /\ handler'[c] = handler[c] \/ handler[c] \in Unsettled

\* What FailureIsReported says of one call.
TellsTheEnd(c) ==
  /\ handler[c] # "over" /\ handler'[c] = "over" /\ stream[c] = "open" =>
       frames'[c] = IF entry'[c].status = "failed" THEN Append(frames[c], "error")
                    ELSE frames[c]
  /\ entry[c].status # "failed" /\ entry'[c].status = "failed" => stream'[c] = "closed"

StreamStep(c) == Opened(c) \/ Sent(c) \/ ClosedSilently(c) \/ Untouched(c)

\* Ending the stream of an unsettled call.
LEMMA EndingAStream ==
  ASSUME TypeOK, StreamInv, NEW c \in Call, handler[c] \in Unsettled,
         NEW f \in EndFrame, EndStream(c, f)
  PROVE  /\ StreamStep(c) /\ stream'[c] = "closed"
         /\ frames'[c] = IF stream[c] = "open" THEN Append(frames[c], f) ELSE frames[c]
         /\ \A d \in Call \ {c} : frames'[d] = frames[d] /\ stream'[d] = stream[d]
<1>1. frames \in [Call -> Seq(Frame)] /\ stream \in [Call -> {"none", "open", "closed"}]
      /\ handler \in [Call -> HandlerState]
  BY DEF TypeOK
<1>2. stream' = [stream EXCEPT ![c] = "closed"]
  BY DEF EndStream, close
<1>3. CASE stream[c] = "open"
  <2>1. frames' = [frames EXCEPT ![c] = Append(@, f)]
    BY <1>3 DEF EndStream, send
  <2>2. frames'[c] = Append(frames[c], f) /\ stream'[c] = "closed"
    BY <1>1, <1>2, <2>1
  <2>3. Sent(c)
    BY <1>3, <2>2 DEF Sent
  <2>4. \A d \in Call \ {c} : frames'[d] = frames[d] /\ stream'[d] = stream[d]
    BY <1>1, <1>2, <2>1
  <2>5. QED
    BY <1>3, <2>2, <2>3, <2>4 DEF StreamStep
<1>4. CASE stream[c] # "open"
  <2>1. frames' = frames
    BY <1>4 DEF EndStream, send
  <2>2. stream[c] = "closed"
    BY <1>1, <1>4 DEF StreamInv
  <2>3. Untouched(c)
    BY <1>1, <1>2, <2>1, <2>2 DEF Untouched
  <2>4. QED
    BY <1>1, <1>2, <2>1, <2>2, <2>3 DEF StreamStep
<1>5. QED
  BY <1>3, <1>4

\* Every step leaves each stream in one of the four ways, and tells the end of a
\* task whose stream it ends.
LEMMA StreamSteps ==
  ASSUME DelegationInv, StreamInv, [Next]_vars
  PROVE  \A c \in Call : StreamStep(c) /\ TellsTheEnd(c)
<1> DEFINE Goal == \A c \in Call : StreamStep(c) /\ TellsTheEnd(c)
           NoneFails == \A c \in Call : entry'[c].status = "failed" => entry[c].status = "failed"
<1>a. /\ tasks \in [TaskId -> Call \cup {NoCall}]
      /\ entry \in [Call -> TaskEntry]
      /\ handler \in [Call -> HandlerState]
      /\ frames \in [Call -> Seq(Frame)]
      /\ stream \in [Call -> {"none", "open", "closed"}]
      /\ TypeOK
  BY DEF DelegationInv, TypeOK
<1>b. /\ \A c, d \in Call : Settled(c) /\ d # c => entry'[d] = entry[d]
      /\ \A c, d \in Call : Settled(c) /\ d # c => handler'[d] = handler[d]
  BY <1>a DEF Settled
<1>d. ASSUME \A c \in Call : handler'[c] # "over" \/ handler[c] = "over"
      PROVE  \A c \in Call : TellsTheEnd(c)
  <2>1. StepKind
    BY StepKinds
  <2>2. ASSUME NEW c \in Call, NEW id \in TaskId, Started(c, id) PROVE NoneFails
    BY <1>a, <2>2 DEF Started
  <2>3. ASSUME NEW c \in Call, NEW to \in TaskStatus, Moved(c, to) PROVE NoneFails
    BY <1>a, <2>3 DEF Moved
  <2>4. ASSUME NEW c \in Call, Settled(c) PROVE NoneFails
    BY <1>a, <1>d, <2>4 DEF Settled
  <2>5. NoneFails
    BY <2>1, <2>2, <2>3, <2>4 DEF StepKind, Refused, Kept, Dropped
  <2>6. QED
    BY <1>d, <2>5 DEF TellsTheEnd
<1>1. ASSUME NEW c \in Call, NEW id \in TaskId, NEW wire, Delegate(c, id, wire) PROVE Goal
  <2>1. /\ handler[c] = "idle" /\ handler'[c] \in {"live", "refused"}
        /\ frames' = frames
        /\ handler'[c] = "live" => stream'[c] = "open"
        /\ \A d \in Call \ {c} : handler'[d] = handler[d] /\ stream'[d] = stream[d]
    BY <1>1, <1>a DEF Delegate, Refuse, Start, Enter
  <2>2. Opened(c) /\ \A d \in Call \ {c} : Untouched(d)
    BY <2>1 DEF Opened, Untouched
  <2>3. \A d \in Call : TellsTheEnd(d)
    BY <1>d, <2>1
  <2>4. QED
    BY <2>2, <2>3 DEF StreamStep
<1>2. ASSUME NEW c \in Call, HandlerStep(c) PROVE Goal
  <2>1. handler[c] = "live" /\ handler[c] \in Unsettled
    BY <1>2 DEF HandlerStep, HandlerSends, HandlerEndsStream, HandlerCloses, HandlerSuspends,
                HandlerCheckpoints, HandlerReturns, HandlerThrows, Unsettled
  <2>2. /\ \A d \in Call \ {c} : handler'[d] = handler[d]
        /\ handler'[c] \in {"live", "returned", "threw"}
    BY <1>2, <1>a, <2>1 DEF HandlerStep, HandlerSends, HandlerEndsStream, HandlerCloses, HandlerSuspends,
                HandlerCheckpoints, HandlerReturns, HandlerThrows, Enter
  <2>3. \A d \in Call : TellsTheEnd(d)
    BY <1>d, <2>2
  <2>4. CASE HandlerSends(c)
    <3>1. /\ stream' = stream
          /\ \/ frames' = frames
             \/ stream[c] = "open" /\ frames' = [frames EXCEPT ![c] = Append(@, "progress")]
      BY <2>4 DEF HandlerSends, send
    <3>2. Untouched(c) \/ Sent(c)
      BY <1>a, <2>1, <3>1 DEF Untouched, Sent
    <3>3. \A d \in Call \ {c} : Untouched(d)
      BY <1>a, <2>2, <3>1 DEF Untouched
    <3>4. QED
      BY <2>3, <3>2, <3>3 DEF StreamStep
  <2>5. ASSUME NEW f \in EndFrame, HandlerEndsStream(c, f) PROVE Goal
    <3>1. /\ StreamStep(c)
          /\ \A d \in Call \ {c} : frames'[d] = frames[d] /\ stream'[d] = stream[d]
      BY <1>a, <2>1, <2>5, EndingAStream DEF HandlerEndsStream
    <3>2. \A d \in Call \ {c} : Untouched(d)
      BY <2>2, <3>1 DEF Untouched
    <3>3. QED
      BY <2>3, <3>1, <3>2 DEF StreamStep
  <2>8. CASE HandlerCloses(c)
    <3>1. frames' = frames /\ stream' = [stream EXCEPT ![c] = "closed"]
      BY <2>8 DEF HandlerCloses, close
    <3>2. ClosedSilently(c) /\ \A d \in Call \ {c} : Untouched(d)
      BY <1>a, <2>1, <2>2, <3>1 DEF ClosedSilently, Untouched
    <3>3. QED
      BY <2>3, <3>2 DEF StreamStep
  <2>6. ASSUME UNCHANGED streamVars PROVE Goal
    <3>1. \A d \in Call : Untouched(d)
      BY <2>1, <2>2, <2>6 DEF Untouched, streamVars
    <3>2. QED
      BY <2>3, <3>1 DEF StreamStep
  <2>7. QED
    BY <1>2, <2>4, <2>5, <2>6, <2>8 DEF HandlerStep, HandlerSuspends, HandlerCheckpoints,
       HandlerReturns, HandlerThrows
<1>3. ASSUME NEW c \in Call, Settle(c) PROVE Goal
  <2>1. /\ handler[c] \in Unsettled
        /\ handler'[c] = "over"
        /\ \A d \in Call \ {c} : handler'[d] = handler[d]
    BY <1>3, <1>a DEF Settle, SettleReturned, SettleThrown, Enter, Unsettled
  <2>2. Settled(c)
    BY <1>3, StepKinds, <2>1, OverBySettling DEF Unsettled
  <2>3. \A d \in Call \ {c} : entry'[d] = entry[d]
    BY <1>b, <2>2
  <2>9. \A d \in Call \ {c} : TellsTheEnd(d)
    BY <2>1, <2>3 DEF TellsTheEnd
  <2>4. ASSUME SettleFailed(c), ~entry[c].aborted PROVE Goal
    <3>1. /\ StreamStep(c) /\ stream'[c] = "closed"
          /\ frames'[c] = IF stream[c] = "open" THEN Append(frames[c], "error") ELSE frames[c]
          /\ \A d \in Call \ {c} : frames'[d] = frames[d] /\ stream'[d] = stream[d]
      BY <1>a, <2>1, <2>4, EndingAStream DEF SettleFailed, EndFrame
    <3>2. \A d \in Call \ {c} : Untouched(d)
      BY <2>1, <3>1 DEF Untouched
    <3>3. \A d \in Call : StreamStep(d)
      BY <3>1, <3>2 DEF StreamStep
    <3>4. entry'[c].status = "failed"
      BY <1>a, <2>1, <2>4, FailsItsOwn DEF DelegationInv
    <3>5. TellsTheEnd(c)
      BY <3>1, <3>4 DEF TellsTheEnd
    <3>6. QED
      BY <2>9, <3>3, <3>5
  <2>5. CASE close(c) /\ frames' = frames /\ entry'[c].status # "failed"
    <3>1. ClosedSilently(c)
      BY <1>a, <2>1, <2>5 DEF ClosedSilently, close
    <3>2. \A d \in Call \ {c} : Untouched(d)
      BY <1>a, <2>1, <2>5 DEF Untouched, close
    <3>3. TellsTheEnd(c)
      BY <2>5 DEF TellsTheEnd
    <3>4. QED
      BY <2>9, <3>1, <3>2, <3>3 DEF StreamStep
  <2>6. ASSUME entry[c].aborted, entry' = entry PROVE entry'[c].status # "failed"
    BY <2>6 DEF DelegationInv, AbortedIffCancelled
  <2>7. ASSUME ~entry[c].aborted, CanMove(taskOf[c], "completed"), MoveTask(taskOf[c], "completed")
        PROVE  entry'[c].status # "failed"
    <3>1. PICK e \in TaskEntry : entry' = [entry EXCEPT ![c] = e] /\ e.status = "completed"
      BY <2>1, <2>7, OwnMove
    <3>2. QED
      BY <1>a, <3>1
  <2>8. QED
    BY <1>3, <2>4, <2>5, <2>6, <2>7 DEF Settle, SettleReturned, SettleThrown
<1>4. ASSUME UNCHANGED <<handler, frames, stream>> PROVE Goal
  <2>1. \A d \in Call : TellsTheEnd(d)
    BY <1>4, <1>d
  <2>2. QED
    BY <1>4, <2>1 DEF StreamStep, Untouched
<1>5. QED
  BY <1>1, <1>2, <1>3, <1>4 DEF Next, TaskCancel, TaskResume, Tick, Cleanup,
     streamVars, vars

LEMMA StreamInvSurvives ==
  ASSUME DelegationInv, StreamInv, [Next]_vars
  PROVE  StreamInv'
<1>a. /\ frames \in [Call -> Seq(Frame)]
      /\ stream \in [Call -> {"none", "open", "closed"}]
      /\ handler \in [Call -> HandlerState]
  BY DEF DelegationInv, TypeOK
<1>b. \A c \in Call : StreamStep(c)
  BY StreamSteps
<1> SUFFICES ASSUME NEW c \in Call
             PROVE  /\ \A i \in 1..Len(frames'[c]) :
                         frames'[c][i] \in EndFrame => i = Len(frames'[c]) /\ stream'[c] = "closed"
                    /\ handler'[c] \in Unsettled => stream'[c] # "none"
                    /\ handler'[c] = "idle" => frames'[c] = <<>>
  BY <1>b DEF StreamInv, EndFrameIsLast
<1>c. /\ \A i \in 1..Len(frames[c]) :
           frames[c][i] \in EndFrame => i = Len(frames[c]) /\ stream[c] = "closed"
      /\ handler[c] \in Unsettled => stream[c] # "none"
      /\ handler[c] = "idle" => frames[c] = <<>>
  BY DEF StreamInv, EndFrameIsLast
<1>d. frames[c] \in Seq(Frame)
  BY <1>a
<1>f. handler[c] = "idle" => handler[c] \notin Unsettled
  BY DEF Unsettled
<1>1. CASE Opened(c)
  BY <1>1, <1>c, <1>d, <1>f DEF Opened, Unsettled
<1>2. CASE Sent(c)
  <2>1. PICK f \in Frame : /\ frames'[c] = Append(frames[c], f)
                           /\ f \in EndFrame <=> stream'[c] = "closed"
                           /\ stream'[c] \in {"open", "closed"}
    BY <1>2 DEF Sent, Frame, EndFrame
  <2>2. stream[c] = "open" /\ handler[c] \in Unsettled
    BY <1>2 DEF Sent
  <2>3. \A i \in 1..Len(frames[c]) : frames[c][i] \notin EndFrame
    BY <1>c, <2>2
  <2>4. /\ Len(frames'[c]) = Len(frames[c]) + 1
        /\ frames'[c][Len(frames[c]) + 1] = f
        /\ \A i \in 1..Len(frames[c]) : frames'[c][i] = frames[c][i]
        /\ Len(frames[c]) \in Nat
    BY <1>d, <2>1
  <2>6. ASSUME NEW i \in 1..Len(frames'[c]), frames'[c][i] \in EndFrame
        PROVE  i = Len(frames'[c]) /\ stream'[c] = "closed"
    <3>1. i \in 1..Len(frames[c]) \/ i = Len(frames[c]) + 1
      BY <2>4
    <3>2. QED
      BY <2>1, <2>3, <2>4, <2>6, <3>1
  <2>7. handler'[c] # "idle"
    BY <1>a, <2>2, StepKinds DEF StepKind, Started, Refused, Moved, Kept, Settled, Dropped,
                                Unsettled
  <2>8. QED
    BY <2>1, <2>6, <2>7
<1>3. CASE ClosedSilently(c)
  BY <1>3, <1>c DEF ClosedSilently
<1>4. CASE Untouched(c)
  <2>1. handler'[c] \in Unsettled => handler[c] \in Unsettled
    BY <1>4 DEF Untouched
  <2>2. handler'[c] = "idle" => handler[c] = "idle"
    BY <1>a, StepKinds DEF StepKind, Started, Refused, Moved, Kept, Settled, Dropped
  <2>3. QED
    BY <1>4, <1>c, <2>1, <2>2 DEF Untouched
<1>5. QED
  BY <1>1, <1>2, <1>3, <1>4, <1>b DEF StreamStep

LEMMA StreamInvariant == Spec => []StreamInv
<1>1. Init => StreamInv
  BY DEF Init, StreamInv, EndFrameIsLast, Unsettled
<1>2. DelegationInv /\ StreamInv /\ [Next]_vars => StreamInv'
  BY StreamInvSurvives
<1>3. QED
  BY <1>1, <1>2, DelegationInvariant, PTL DEF Spec

\* Nothing follows the frame that ends a stream: checked by delegation.
THEOREM NothingFollowsTheEnd == Spec => []EndFrameIsLast
BY StreamInvariant, PTL DEF StreamInv

\* The transport ends the stream of a failed task, and of no other, with an error
\* frame: checked by delegation.
THEOREM FailuresAreTold == Spec => FailureIsReported
<1>1. DelegationInv /\ StreamInv /\ [Next]_vars => [\A c \in Call : TellsTheEnd(c)]_vars
  BY StreamSteps
<1>2. Spec => [][\A c \in Call : TellsTheEnd(c)]_vars
  BY <1>1, DelegationInvariant, StreamInvariant, PTL DEF Spec
<1>3. QED
  BY <1>2 DEF FailureIsReported, TellsTheEnd

=============================================================================
