---------------------------- MODULE TaskRegistry ----------------------------
(***************************************************************************)
(* packages/server/src/task-registry.ts: the map from task ids to mutable   *)
(* entries, the calls that change them, the events they emit, the cleanup   *)
(* timer and dispose.                                                      *)
(*                                                                         *)
(* An entry is an object: callers and queued events keep a reference to it  *)
(* after the map has dropped it, and the same id may be registered again    *)
(* as a new object.  `Ref` is therefore the set of entry objects, `tasks`   *)
(* the map.  A call that throws changes nothing and is a stuttering step.   *)
(* Every call runs to its end in one JavaScript turn, so each is one        *)
(* action; a listener runs later, in a microtask, between any two calls.    *)
(***************************************************************************)
EXTENDS TaskLifecycle, Sequences, FiniteSets

CONSTANTS
  TaskId,          \* ids the callers use
  Ref,             \* entry objects that may be created
  NoRef,           \* "not in the map"
  Listener,        \* subscriptions, each used once
  StaleMaxAge,     \* staleMaxAgeMs, in ticks of the clock
  MaxTransitions,  \* bound of the model: transitions of one entry
  MaxInbox         \* bound of the model: undelivered events per listener

ASSUME NoRefAssumption == NoRef \notin Ref
ASSUME BoundsAssumption ==
  StaleMaxAge \in Nat /\ MaxTransitions \in Nat /\ MaxInbox \in Nat

VARIABLES
  tasks,        \* tasks[id]: the entry registered under id, or NoRef
  entry,        \* entry[r]: the contents of entry object r
  transitions,  \* transitions[r]: its recorded history
  listening,    \* listening[l]: "new", "on" or "off"
  inbox,        \* inbox[l]: microtasks queued to call l, in order
  view,         \* view[l][r]: the last status of r that l was told
  timer         \* whether the cleanup interval is running

vars == <<tasks, entry, transitions, listening, inbox, view, timer>>
entryVars == <<tasks, entry, transitions>>

Registered == {r \in Ref : entry[r].status # "absent"}

Transition == [from : TaskStatus, to : TaskStatus]

\* What an event tells: its type, its entry, and the status it announces
\* ("none" for checkpoints and for the count of a cleanup).
Event(type, r, status) == [type |-> type, ref |-> r, announces |-> status]

EventType ==
  {"registered", "transitioned", "cancelled", "suspended", "resumed",
   "checkpoint", "cleaned"}

Events ==
  [type : EventType, ref : Ref \cup {NoRef}, announces : TaskStatus \cup {"none"}]

\* The values of the entries, their histories and the events under way.
TypeOK ==
  /\ tasks \in [TaskId -> Ref \cup {NoRef}]
  /\ entry \in [Ref -> TaskEntry]
  /\ transitions \in [Ref -> Seq(Transition)]
  /\ listening \in [Listener -> {"new", "on", "off"}]
  /\ inbox \in [Listener -> Seq(Events)]
  /\ view \in [Listener -> [Ref -> TaskStatus \cup {"unseen"}]]
  /\ timer \in BOOLEAN

\* cleanupIntervalMs = 0 disables the timer.
Init ==
  /\ tasks = [id \in TaskId |-> NoRef]
  /\ entry = [r \in Ref |-> NoEntryYet]
  /\ transitions = [r \in Ref |-> <<>>]
  /\ listening = [l \in Listener |-> "new"]
  /\ inbox = [l \in Listener |-> <<>>]
  /\ view = [l \in Listener |-> [r \in Ref |-> "unseen"]]
  /\ timer \in BOOLEAN

----------------------------------------------------------------------------
(* The event system.                                                        *)

\* emit with a bug: the events of one call are queued last-first.
emit_LastFirst(events) ==
  inbox' = [l \in Listener |->
    IF listening[l] # "on" THEN inbox[l]
    ELSE [i \in 1..Len(events) |-> events[Len(events) + 1 - i]] \o inbox[l]]

\* One microtask per event and per listener subscribed at that moment.
emit(events) ==
  inbox' = [l \in Listener |->
    IF listening[l] = "on" THEN inbox[l] \o events ELSE inbox[l]]

\* A call that emits n events is taken only while they fit in the bound.  The
\* event of a cleanup needs no bound: an entry is removed at most once.
RoomFor(n) ==
  \A l \in Listener : listening[l] = "on" => Len(inbox[l]) + n <= MaxInbox

on(l) ==
  /\ listening[l] = "new"
  /\ listening' = [listening EXCEPT ![l] = "on"]
  /\ UNCHANGED <<entryVars, inbox, view, timer>>

\* The function `on` returns; events already queued still reach l.
unsubscribe(l) ==
  /\ listening[l] = "on"
  /\ listening' = [listening EXCEPT ![l] = "off"]
  /\ UNCHANGED <<entryVars, inbox, view, timer>>

\* Deliver with a bug: a listener that has unsubscribed misses its queued events.
Deliver_SkipWhenOff(l) ==
  /\ inbox[l] # <<>>
  /\ LET e == Head(inbox[l])
     IN  view' = IF e.announces = "none" \/ listening[l] = "off" THEN view
                 ELSE [view EXCEPT ![l][e.ref] = e.announces]
  /\ inbox' = [inbox EXCEPT ![l] = Tail(@)]
  /\ UNCHANGED <<entryVars, listening, timer>>

\* The microtask that calls l with its oldest event.
Deliver(l) ==
  /\ inbox[l] # <<>>
  /\ LET e == Head(inbox[l])
     IN  view' = IF e.announces = "none" THEN view
                 ELSE [view EXCEPT ![l][e.ref] = e.announces]
  /\ inbox' = [inbox EXCEPT ![l] = Tail(@)]
  /\ UNCHANGED <<entryVars, listening, timer>>

----------------------------------------------------------------------------
(* Calls that change an entry.                                              *)

Put(r, e) == entry' = [entry EXCEPT ![r] = e]

\* move with a bug: a resumed task keeps no record of having been resumed.
move_ForgetResume(r, to) ==
  /\ isValidTransition(entry[r].status, to)
  /\ Len(transitions[r]) < MaxTransitions
  /\ Put(r, transitionTask(entry[r], to))
  /\ transitions' = IF entry[r].status = "suspended" THEN transitions
       ELSE [transitions EXCEPT ![r] = Append(@, [from |-> entry[r].status, to |-> to])]

\* transitionTask on the entry object r, history included.
move(r, to) ==
  /\ isValidTransition(entry[r].status, to)
  /\ Len(transitions[r]) < MaxTransitions
  /\ Put(r, transitionTask(entry[r], to))
  /\ transitions' =
       [transitions EXCEPT ![r] = Append(@, [from |-> entry[r].status, to |-> to])]

register(id, r) ==
  /\ tasks[id] = NoRef
  /\ entry[r].status = "absent"
  /\ RoomFor(1)
  /\ tasks' = [tasks EXCEPT ![id] = r]
  /\ Put(r, createTaskEntry)
  /\ emit(<<Event("registered", r, "pending")>>)
  /\ UNCHANGED <<transitions, listening, view, timer>>

transition(id, to) ==
  LET r == tasks[id]
  IN  /\ r # NoRef
      /\ RoomFor(1)
      /\ move(r, to)
      /\ emit(<<Event("transitioned", r, to)>>)
      /\ UNCHANGED <<tasks, listening, view, timer>>

cancel(id) ==
  LET r == tasks[id]
  IN  /\ r # NoRef
      /\ isCancellable(entry[r].status)
      /\ RoomFor(1)
      /\ move(r, "cancelled")
      /\ emit(<<Event("cancelled", r, "cancelled")>>)
      /\ UNCHANGED <<tasks, listening, view, timer>>

\* Suspending saves the checkpoint, when one is given, in the same call and
\* announces it first.
suspend(id, hasData) ==
  LET r == tasks[id]
  IN  /\ r # NoRef
      /\ isValidTransition(entry[r].status, "suspended")
      /\ Len(transitions[r]) < MaxTransitions
      /\ RoomFor(IF hasData THEN 2 ELSE 1)
      /\ LET e == transitionTask(entry[r], "suspended")
         IN  Put(r, IF hasData THEN saveCheckpoint(e) ELSE e)
      /\ transitions' =
           [transitions EXCEPT
             ![r] = Append(@, [from |-> entry[r].status, to |-> "suspended"])]
      /\ emit((IF hasData THEN <<Event("checkpoint", r, "none")>> ELSE <<>>)
              \o <<Event("suspended", r, "suspended")>>)
      /\ UNCHANGED <<tasks, listening, view, timer>>

resume(id) ==
  LET r == tasks[id]
  IN  /\ r # NoRef
      /\ isResumable(entry[r].status)
      /\ RoomFor(1)
      /\ move(r, "running")
      /\ emit(<<Event("resumed", r, "running")>>)
      /\ UNCHANGED <<tasks, listening, view, timer>>

checkpoint(id) ==
  LET r == tasks[id]
  IN  /\ r # NoRef
      /\ canCheckpoint(entry[r])
      /\ RoomFor(1)
      /\ Put(r, saveCheckpoint(entry[r]))
      /\ emit(<<Event("checkpoint", r, "none")>>)
      /\ UNCHANGED <<tasks, transitions, listening, view, timer>>

----------------------------------------------------------------------------
(* Time, cleanup and disposal.                                              *)

AgeCap == StaleMaxAge + 1

\* The clock advances by one tick for every entry.
Tick ==
  /\ entry' = [r \in Ref |-> Older(entry[r], AgeCap)]
  /\ UNCHANGED <<tasks, transitions, listening, inbox, view, timer>>

\* isStale with a bug: any entry nobody touched for long enough goes.
isStale_AnyStatus(r, maxAge) == entry[r].idle > maxAge

\* updatedAt < now - maxAge, for a terminal entry.
isStale(r, maxAge) == isTerminal(entry[r].status) /\ entry[r].idle > maxAge

Stale(maxAge) == {id \in TaskId : tasks[id] # NoRef /\ isStale(tasks[id], maxAge)}

\* Removing nothing emits nothing, and is a stuttering step.
cleanup(maxAge) ==
  /\ Stale(maxAge) # {}
  /\ tasks' = [id \in TaskId |-> IF id \in Stale(maxAge) THEN NoRef ELSE tasks[id]]
  /\ emit(<<Event("cleaned", NoRef, "none")>>)
  /\ UNCHANGED <<entry, transitions, listening, view, timer>>

\* The interval callback the constructor installs.
CleanupTimer == timer /\ cleanup(StaleMaxAge)

\* Stops the timer and forgets the listeners, not their queued events.
dispose ==
  /\ timer' = FALSE
  /\ listening' = [l \in Listener |-> IF listening[l] = "on" THEN "off" ELSE listening[l]]
  /\ UNCHANGED <<entryVars, inbox, view>>

----------------------------------------------------------------------------

Call(id) ==
  \/ \E r \in Ref : register(id, r)
  \/ \E to \in TaskStatus : transition(id, to)
  \/ cancel(id)
  \/ \E hasData \in BOOLEAN : suspend(id, hasData)
  \/ resume(id)
  \/ checkpoint(id)

Next ==
  \/ \E id \in TaskId : Call(id)
  \/ \E l \in Listener : on(l) \/ unsubscribe(l) \/ Deliver(l)
  \/ \E maxAge \in 0..StaleMaxAge : cleanup(maxAge)
  \/ CleanupTimer
  \/ dispose
  \/ Tick

Spec == Init /\ [][Next]_vars

\* The event loop runs every microtask, the clock advances, and an interval
\* that has not been cleared keeps firing.
Fairness ==
  /\ \A l \in Listener : WF_vars(Deliver(l))
  /\ WF_vars(Tick)
  /\ WF_vars(CleanupTimer)

FairSpec == Spec /\ Fairness

----------------------------------------------------------------------------
(* What the registry has to get right.                                      *)

\* The history of an entry, as task.verify reads it, is a path of the
\* lifecycle from "pending" to the status the entry has now: no call changes
\* a status behind the history's back, and none records a step not taken.
HistoryExplainsStatus ==
  \A r \in Registered :
    LET h == transitions[r]
    IN  /\ IF h = <<>> THEN entry[r].status = "pending"
           ELSE h[1].from = "pending" /\ h[Len(h)].to = entry[r].status
        /\ \A i \in 1..Len(h) : isValidTransition(h[i].from, h[i].to)
        /\ \A i \in 1..Len(h) - 1 : h[i].to = h[i + 1].from

\* A handler's signal has fired exactly when its own task was cancelled,
\* whichever call cancelled it and from whichever status.
AbortedIffCancelled ==
  \A r \in Ref : entry[r].aborted <=> entry[r].status = "cancelled"

\* A task that has not ended can always be found: it is in the map, under one
\* id and no other, so neither cleanup nor a second registration loses it.
LiveTasksStayRegistered ==
  \A r \in Registered : isActive(entry[r].status) =>
    \E id \in TaskId : tasks[id] = r /\ \A other \in TaskId \ {id} : tasks[other] # r

\* The statuses an entry has had, oldest first.
StatusesOf(r) ==
  <<"pending">> \o [i \in 1..Len(transitions[r]) |-> transitions[r][i].to]

\* The places in the queue q of the events that announce a status of r, and how many of
\* them come after place i.
News(q, r) == {i \in 1..Len(q) : q[i].ref = r /\ q[i].announces # "none"}
NewsAfter(q, r, i) == Cardinality({j \in News(q, r) : j > i})

\* Events are handed over in microtasks, after the entry has moved on.  Still,
\* what a subscriber has been told last and what is queued for it are, put
\* together, the end of the entry's history, in order and without a gap.
FollowersSeeHistory ==
  \A l \in Listener, r \in Registered : listening[l] = "on" =>
    LET h    == StatusesOf(r)
        told == Len(h) - NewsAfter(inbox[l], r, 0)
    IN  /\ told >= 0
        /\ \A i \in News(inbox[l], r) :
             inbox[l][i].announces = h[Len(h) - NewsAfter(inbox[l], r, i)]
        /\ view[l][r] # "unseen" => told > 0 /\ view[l][r] = h[told]

\* Nothing about an ended task changes any more: not its status, its history,
\* its signal or its checkpoint.
EndedTasksAreFrozen ==
  [][\A r \in Ref : isTerminal(entry[r].status) =>
        /\ [entry'[r] EXCEPT !.idle = 0] = [entry[r] EXCEPT !.idle = 0]
        /\ transitions'[r] = transitions[r]]_vars

\* Once a final status is queued for a listener, the listener is told it, and
\* told nothing else about the task afterwards, subscribed or not.
FinalStatusIsDelivered ==
  \A l \in Listener, r \in Ref :
    (\E i \in 1..Len(inbox[l]) : inbox[l][i].ref = r /\ inbox[l][i].announces \in TERMINAL_STATES)
      ~> [](view[l][r] \in TERMINAL_STATES)

\* While the interval runs, every ended task is dropped from the map in time:
\* nothing a caller does can keep renewing its age.
EndedTasksAreDropped ==
  \A id \in TaskId, r \in Ref :
    (tasks[id] = r /\ isTerminal(entry[r].status)) ~> (tasks[id] # r \/ ~timer)

\* The lifecycle contract, kept by the entries.
Contract == INSTANCE TaskContract WITH
  Task      <- Ref,
  status    <- [r \in Ref |-> entry[r].status],
  signalled <- {r \in Ref : entry[r].aborted}

\* Whatever the callers do, entries obey the lifecycle of SPEC section 5.
ImplementsContract == Contract!ContractSpec

=============================================================================
