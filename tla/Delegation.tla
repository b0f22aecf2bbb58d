----------------------------- MODULE Delegation -----------------------------
(***************************************************************************)
(* A delegated task from the request that starts it to the end of its       *)
(* stream: the nekte.delegate branches of packages/server/src/              *)
(* http-transport.ts and grpc-transport.ts, with the registry and the       *)
(* streams they drive, the handler the application supplies, and the        *)
(* lifecycle requests of server.ts and grpc-transport.ts.                   *)
(*                                                                         *)
(* A call of nekte.delegate creates at most one entry object, so the entry  *)
(* created by call c is entry[c] and the map holds calls.  Everything       *)
(* between two awaits is one action: registration, acceptance and start of  *)
(* the handler are one turn; the handler's promise settling and the code    *)
(* after the await are two.  No transport subscribes to registry events,    *)
(* which are left to TaskRegistry.                                          *)
(***************************************************************************)
EXTENDS TaskLifecycle, Sequences

CONSTANTS
  TaskId,       \* ids the clients use
  Call,         \* nekte.delegate requests that may arrive
  NoCall,       \* "no entry under this id"
  StaleMaxAge,  \* staleMaxAgeMs, in ticks of the clock
  MaxProgress   \* bound of the model: frames a handler sends before the last

ASSUME NoCallAssumption == NoCall \notin Call
ASSUME BoundsAssumption == StaleMaxAge \in Nat /\ MaxProgress \in Nat

VARIABLES
  tasks,    \* tasks[id]: the call whose entry is registered under id
  entry,    \* entry[c]: the entry object call c created
  taskOf,   \* taskOf[c]: params.task.id of call c
  handler,  \* handler[c]: how far call c has got
  frames,   \* frames[c]: the frames written to the response of call c
  stream,   \* stream[c]: whether that response is open
  up        \* the server process runs; one that is down takes no step

vars == <<tasks, entry, taskOf, handler, frames, stream, up>>
registryVars == <<tasks, entry>>
streamVars == <<frames, stream>>

\* "idle": not arrived; "live": the handler's promise is pending; "returned",
\* "threw": it has settled and the transport has not been resumed yet;
\* "over": the transport is done; "refused": the id was taken.
HandlerState == {"idle", "live", "returned", "threw", "over", "refused"}
Unsettled == {"live", "returned", "threw"}

\* The frames that complete, error and cancelled write before they close the
\* stream.  "progress" stands for every frame that leaves it open: progress,
\* partial, suspended, resumed, status_change, and whatever is given to send itself.
EndFrame == {"complete", "error", "cancelled"}
Frame == EndFrame \cup {"progress"}

\* The values of the calls, the streams and the tasks behind them.
TypeOK ==
  /\ tasks \in [TaskId -> Call \cup {NoCall}]
  /\ entry \in [Call -> TaskEntry]
  /\ taskOf \in [Call -> TaskId \cup {NoCall}]
  /\ handler \in [Call -> HandlerState]
  /\ frames \in [Call -> Seq(Frame)]
  /\ stream \in [Call -> {"none", "open", "closed"}]
  /\ up \in BOOLEAN

Init ==
  /\ tasks = [id \in TaskId |-> NoCall]
  /\ entry = [c \in Call |-> NoEntryYet]
  /\ taskOf = [c \in Call |-> NoCall]
  /\ handler = [c \in Call |-> "idle"]
  /\ frames = [c \in Call |-> <<>>]
  /\ stream = [c \in Call |-> "none"]
  /\ up = TRUE

----------------------------------------------------------------------------
(* What the calls on the registry and on a stream do.                       *)

\* transition(id, to) would succeed.
CanMove(id, to) ==
  tasks[id] # NoCall /\ isValidTransition(entry[tasks[id]].status, to)

\* transition(id, to), by id: the entry moved is the one registered now.
MoveTask(id, to) ==
  entry' = [entry EXCEPT ![tasks[id]] = transitionTask(@, to)]

Enter(c, s) == handler' = [handler EXCEPT ![c] = s]

\* send with a bug: `closed` is not looked at.
send_AfterClose(c, f) == frames' = [frames EXCEPT ![c] = Append(@, f)]

\* SseStream.send and GrpcDelegateStream.send: ignored once closed.
send(c, f) ==
  frames' = IF stream[c] = "open" THEN [frames EXCEPT ![c] = Append(@, f)] ELSE frames

close(c) == stream' = [stream EXCEPT ![c] = "closed"]

\* complete, error and cancelled: one last frame, then close.
EndStream(c, f) == send(c, f) /\ close(c)

----------------------------------------------------------------------------
(* The request.                                                             *)

\* register throws for an id in the map.  Over HTTP the stream has written its
\* head by then, the 500 reply throws in its turn, and the rejection goes
\* unhandled: the response is never ended, and the process goes down unless
\* the application listens for unhandled rejections.  Over gRPC the call ends.
Refuse(c, id, wire) ==
  /\ tasks[id] # NoCall
  /\ Enter(c, "refused")
  /\ stream' = [stream EXCEPT ![c] = IF wire = "http" THEN "open" ELSE "closed"]
  /\ up' \in IF wire = "http" THEN BOOLEAN ELSE {TRUE}
  /\ UNCHANGED <<registryVars, frames>>

\* register, accepted, running and the call of the handler, in one turn.
Start(c, id) ==
  /\ tasks[id] = NoCall
  /\ Enter(c, "live")
  /\ tasks' = [tasks EXCEPT ![id] = c]
  /\ entry' = [entry EXCEPT ![c] =
       transitionTask(transitionTask(createTaskEntry, "accepted"), "running")]
  /\ stream' = [stream EXCEPT ![c] = "open"]
  /\ UNCHANGED <<frames, up>>

Delegate(c, id, wire) ==
  /\ up
  /\ handler[c] = "idle"
  /\ taskOf' = [taskOf EXCEPT ![c] = id]
  /\ Refuse(c, id, wire) \/ Start(c, id)

----------------------------------------------------------------------------
(* The handler.  It is the application's code: it may do any of this, in    *)
(* any order, whether or not it looks at its signal.                        *)

HandlerSends(c) ==
  /\ up
  /\ handler[c] = "live"
  /\ Len(frames[c]) < MaxProgress
  /\ send(c, "progress")
  /\ UNCHANGED <<registryVars, taskOf, handler, stream, up>>

\* stream.close(), without a word on how the task went.
HandlerCloses(c) ==
  /\ up
  /\ handler[c] = "live"
  /\ close(c)
  /\ UNCHANGED <<registryVars, taskOf, handler, frames, up>>

\* stream.complete, stream.error or stream.cancelled
HandlerEndsStream(c, f) ==
  /\ up
  /\ handler[c] = "live"
  /\ EndStream(c, f)
  /\ UNCHANGED <<registryVars, taskOf, handler, up>>

\* server.tasks.suspend(task.id, data): by id, whoever holds the id by now.
HandlerSuspends(c, hasData) ==
  /\ up
  /\ handler[c] = "live"
  /\ CanMove(taskOf[c], "suspended")
  /\ LET e == transitionTask(entry[tasks[taskOf[c]]], "suspended")
     IN  entry' = [entry EXCEPT ![tasks[taskOf[c]]] =
                     IF hasData THEN saveCheckpoint(e) ELSE e]
  /\ UNCHANGED <<tasks, taskOf, handler, streamVars, up>>

\* server.tasks.saveCheckpoint(task.id, data)
HandlerCheckpoints(c) ==
  /\ up
  /\ handler[c] = "live"
  /\ tasks[taskOf[c]] # NoCall
  /\ canCheckpoint(entry[tasks[taskOf[c]]])
  /\ entry' = [entry EXCEPT ![tasks[taskOf[c]]] = saveCheckpoint(@)]
  /\ UNCHANGED <<tasks, taskOf, handler, streamVars, up>>

HandlerReturns(c) ==
  /\ up
  /\ handler[c] = "live"
  /\ Enter(c, "returned")
  /\ UNCHANGED <<registryVars, taskOf, streamVars, up>>

HandlerThrows(c) ==
  /\ up
  /\ handler[c] = "live"
  /\ Enter(c, "threw")
  /\ UNCHANGED <<registryVars, taskOf, streamVars, up>>

----------------------------------------------------------------------------
(* The transport after the await.                                           *)

\* SettleFailed with a bug: the stream is closed without saying why.
SettleFailed_Silent(c) ==
  /\ close(c)
  /\ UNCHANGED frames
  /\ IF CanMove(taskOf[c], "failed") THEN MoveTask(taskOf[c], "failed")
     ELSE UNCHANGED entry

\* SettleFailed with a bug: a task that is not running is left as it is.
SettleFailed_RunningOnly(c) ==
  /\ EndStream(c, "error")
  /\ IF CanMove(taskOf[c], "completed") THEN MoveTask(taskOf[c], "failed")
     ELSE UNCHANGED entry

\* The catch block of a handler that was not aborted: an error frame if the
\* stream is open, then "failed" unless that transition is invalid.
SettleFailed(c) ==
  /\ EndStream(c, "error")
  /\ IF CanMove(taskOf[c], "failed") THEN MoveTask(taskOf[c], "failed")
     ELSE UNCHANGED entry

\* SettleReturned with a bug: the signal is not looked at.
SettleReturned_IgnoreSignal(c) ==
  /\ up
  /\ handler[c] = "returned"
  /\ \/ /\ CanMove(taskOf[c], "completed")
        /\ MoveTask(taskOf[c], "completed")
        /\ close(c)
        /\ UNCHANGED frames
     \/ /\ ~CanMove(taskOf[c], "completed")
        /\ SettleFailed(c)
  /\ Enter(c, "over")
  /\ UNCHANGED <<tasks, taskOf, up>>

\* A completed transition that is refused lands in the catch block.
SettleReturned(c) ==
  /\ up
  /\ handler[c] = "returned"
  /\ \/ /\ entry[c].aborted
        /\ close(c)
        /\ UNCHANGED <<entry, frames>>
     \/ /\ ~entry[c].aborted
        /\ CanMove(taskOf[c], "completed")
        /\ MoveTask(taskOf[c], "completed")
        /\ close(c)
        /\ UNCHANGED frames
     \/ /\ ~entry[c].aborted
        /\ ~CanMove(taskOf[c], "completed")
        /\ SettleFailed(c)
  /\ Enter(c, "over")
  /\ UNCHANGED <<tasks, taskOf, up>>

SettleThrown(c) ==
  /\ up
  /\ handler[c] = "threw"
  /\ \/ /\ entry[c].aborted
        /\ close(c)
        /\ UNCHANGED <<entry, frames>>
     \/ /\ ~entry[c].aborted
        /\ SettleFailed(c)
  /\ Enter(c, "over")
  /\ UNCHANGED <<tasks, taskOf, up>>

Settle(c) == SettleReturned(c) \/ SettleThrown(c)

----------------------------------------------------------------------------
(* Lifecycle requests, from any client or from code in the process.         *)
(* nekte.task.status only reads.                                            *)

\* TaskCancel with a bug: the entry is marked, its signal is not fired.
TaskCancel_NoSignal(id) ==
  /\ up
  /\ tasks[id] # NoCall
  /\ isCancellable(entry[tasks[id]].status)
  /\ entry' = [entry EXCEPT ![tasks[id]].status = "cancelled", ![tasks[id]].idle = 0]
  /\ UNCHANGED <<tasks, taskOf, handler, streamVars, up>>

TaskCancel(id) ==
  /\ up
  /\ tasks[id] # NoCall
  /\ isCancellable(entry[tasks[id]].status)
  /\ MoveTask(id, "cancelled")
  /\ UNCHANGED <<tasks, taskOf, handler, streamVars, up>>

\* The task becomes running; nothing else happens.
TaskResume(id) ==
  /\ up
  /\ tasks[id] # NoCall
  /\ isResumable(entry[tasks[id]].status)
  /\ MoveTask(id, "running")
  /\ UNCHANGED <<tasks, taskOf, handler, streamVars, up>>

----------------------------------------------------------------------------
(* Time and cleanup.                                                        *)

AgeCap == StaleMaxAge + 1

Tick ==
  /\ up
  /\ entry' = [c \in Call |-> Older(entry[c], AgeCap)]
  /\ UNCHANGED <<tasks, taskOf, handler, streamVars, up>>

\* isStale with a bug: a suspended task counts as ended.
isStale_Suspended(c) ==
  (isTerminal(entry[c].status) \/ entry[c].status = "suspended") /\ entry[c].idle > StaleMaxAge

isStale(c) == isTerminal(entry[c].status) /\ entry[c].idle > StaleMaxAge

Stale == {id \in TaskId : tasks[id] # NoCall /\ isStale(tasks[id])}

Cleanup ==
  /\ up
  /\ tasks' = [id \in TaskId |-> IF id \in Stale THEN NoCall ELSE tasks[id]]
  /\ UNCHANGED <<entry, taskOf, handler, streamVars, up>>

----------------------------------------------------------------------------

HandlerStep(c) ==
  \/ HandlerSends(c)
  \/ HandlerCloses(c)
  \/ \E f \in EndFrame : HandlerEndsStream(c, f)
  \/ \E hasData \in BOOLEAN : HandlerSuspends(c, hasData)
  \/ HandlerCheckpoints(c)
  \/ HandlerReturns(c)
  \/ HandlerThrows(c)

Next ==
  \/ \E c \in Call, id \in TaskId, wire \in {"http", "grpc"} : Delegate(c, id, wire)
  \/ \E c \in Call : HandlerStep(c) \/ Settle(c)
  \/ \E id \in TaskId : TaskCancel(id) \/ TaskResume(id)
  \/ Tick
  \/ Cleanup

Spec == Init /\ [][Next]_vars

\* Every handler's promise settles in the end, the event loop resumes the
\* transport when it has, the clock advances and the interval fires.
Fairness ==
  /\ \A c \in Call : WF_vars(HandlerReturns(c) \/ HandlerThrows(c))
  /\ \A c \in Call : WF_vars(Settle(c))
  /\ WF_vars(Tick)
  /\ WF_vars(Cleanup)

FairSpec == Spec /\ Fairness

----------------------------------------------------------------------------
(* What delegation has to get right.                                        *)

\* No orphans: a delegated task that has not ended still has a handler, or a
\* transport about to act on its outcome, that will end it.  Nothing leaves a
\* task pending, running or suspended with nobody left to move it.
LiveTaskHasItsCall ==
  \A c \in Call : isActive(entry[c].status) => handler[c] \in Unsettled

\* While a call is unsettled and not aborted, its id is its own: the id still
\* names its entry, which has not ended.  This is what makes it safe for the
\* transport to move the task by id after the await.
UnabortedCallOwnsItsId ==
  \A c \in Call : handler[c] \in Unsettled /\ ~entry[c].aborted =>
    tasks[taskOf[c]] = c /\ isActive(entry[c].status)

\* A call that settles late, after its task was cancelled and cleaned up and
\* its id given to a new task, leaves that new task alone.
SettlesOnlyItsOwnTask ==
  [][\A c, d \in Call :
       handler[c] # "over" /\ handler'[c] = "over" /\ entry'[d] # entry[d] => c = d]_vars

\* Once complete, error or cancelled has said how the task ended the stream says
\* nothing more, whatever the handler and the transport go on to send.
EndFrameIsLast ==
  \A c \in Call : \A i \in 1..Len(frames[c]) :
    frames[c][i] \in EndFrame => i = Len(frames[c]) /\ stream[c] = "closed"

\* A stream that the handler left open tells what the registry says: its transport
\* ends it with an error frame if the task has failed, and without one if it has
\* completed or was cancelled.  And no task fails, whoever moves it, behind a stream
\* that stays open.  (A handler that closes its stream and then throws has taken
\* from the transport the means to say so.)
FailureIsReported ==
  [][\A c \in Call :
       /\ handler[c] # "over" /\ handler'[c] = "over" /\ stream[c] = "open" =>
            frames'[c] = IF entry'[c].status = "failed" THEN Append(frames[c], "error")
                         ELSE frames[c]
       /\ entry[c].status # "failed" /\ entry'[c].status = "failed" =>
            stream'[c] = "closed"]_vars

\* Every delegation that was accepted ends: its transport finishes, its stream is closed
\* and its task has ended, unless the process goes down.  And no task holds its id for
\* ever, so a client can try again under the same id.
DelegationEnds ==
  /\ \A c \in Call : handler[c] = "live" ~>
        \/ handler[c] = "over" /\ stream[c] = "closed" /\ isTerminal(entry[c].status)
        \/ ~up
  /\ \A c \in Call, id \in TaskId : tasks[id] = c ~> (tasks[id] # c \/ ~up)

Contract == INSTANCE TaskContract WITH
  Task      <- Call,
  status    <- [c \in Call |-> entry[c].status],
  signalled <- {c \in Call : entry[c].aborted}

\* Delegated tasks obey the lifecycle of SPEC section 5 under every
\* interleaving of handlers, transports and lifecycle requests.
ImplementsContract == Contract!ContractSpec

=============================================================================
