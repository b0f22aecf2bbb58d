-------------------------------- MODULE WsSession -------------------------------
(***************************************************************************)
(* One WebSocket connection and what NekteServer.handleRequest does for    *)
(* its requests (server/src/ws-transport.ts, server.ts): the lifecycle     *)
(* calls and the verification read the tasks that HTTP and gRPC clients    *)
(* run meanwhile, and a delegation is one invocation of the best matching  *)
(* capability.                                                             *)
(*                                                                         *)
(* Each message is handled up to its first await at once; verifications    *)
(* wait for the import of node:crypto, holding the entry they looked up,   *)
(* and delegations wait for the strategy and the capability.               *)
(***************************************************************************)
EXTENDS TaskLifecycle, Sequences

CONSTANTS Call,       \* JSON-RPC ids
          TaskId,
          Checks,     \* the lists of checks that clients verify with, in any order
          MaxEntries, \* bounds the tasks ever registered
          MaxMoves    \* bounds the transitions of one task

Check == {"hash", "sample", "source"}

ASSUME WsSessionAssumption ==
    /\ Checks \subseteq Seq(Check)
    /\ MaxEntries \in Nat /\ MaxMoves \in Nat

VARIABLES entry,   \* every TaskEntry made: [status, transitions]
          tasks,   \* TaskRegistry.tasks: an index of entry, or 0
          calls,   \* the requests of the connection
          socket   \* "open", "closing" or "closed", its readyState

wsVars == <<entry, tasks, calls, socket>>

(***************************************************************************)
(* A request is new, waits in "verify" (with the entry it holds, the       *)
(* checks it asks for and the parts of them that are done) or in           *)
(* "delegate", or is over with its reply.                                  *)
(***************************************************************************)
New == [at |-> "new", id |-> "none", held |-> 0, checks |-> <<>>, parts |-> <<>>,
        reply |-> "none"]

\* What a reply can say of an entry, or of none.
Look(ref) ==
    IF ref = 0 THEN [ref |-> 0, status |-> "absent", transitions |-> 0]
    ELSE [ref |-> ref, status |-> entry[ref].status,
          transitions |-> entry[ref].transitions]

WsInit ==
    /\ entry = <<>>
    /\ tasks = [id \in TaskId |-> 0]
    /\ calls = [c \in Call |-> New]
    /\ socket = "open"

(***************************************************************************)
(* The other transports and the registry's timer.                          *)
(***************************************************************************)
register(id) ==
    /\ tasks[id] = 0 /\ Len(entry) < MaxEntries
    /\ entry' = Append(entry, [status |-> "pending", transitions |-> 0])
    /\ tasks' = [tasks EXCEPT ![id] = Len(entry) + 1]
    /\ UNCHANGED <<calls, socket>>

Move(ref, to) ==
    entry' = [entry EXCEPT ![ref] = [status |-> to, transitions |-> @.transitions + 1]]

transition(id, to) ==
    /\ tasks[id] # 0
    /\ isValidTransition(entry[tasks[id]].status, to)
    /\ entry[tasks[id]].transitions < MaxMoves
    /\ Move(tasks[id], to)
    /\ UNCHANGED <<tasks, calls, socket>>

cleanup(id) ==
    /\ tasks[id] # 0 /\ isTerminal(entry[tasks[id]].status)
    /\ tasks' = [tasks EXCEPT ![id] = 0]
    /\ UNCHANGED <<entry, calls, socket>>

(***************************************************************************)
(* Requests of the connection.  The reply to a socket that is not open any *)
(* more goes nowhere.                                                      *)
(***************************************************************************)
Over(r, reply) == [r EXCEPT !.at = "over", !.reply = IF socket = "open" THEN reply ELSE "none"]

Message(c) == calls[c].at = "new" /\ socket # "closed"

handleTaskStatus(c, id) ==
    /\ Message(c)
    /\ calls' = [calls EXCEPT ![c] =
         Over(New, IF tasks[id] = 0 THEN "TASK_NOT_FOUND" ELSE "result")]
    /\ UNCHANGED <<entry, tasks, socket>>

handleTaskCancel(c, id) ==
    /\ Message(c)
    /\ \/ /\ tasks[id] = 0
          /\ calls' = [calls EXCEPT ![c] = Over(New, "TASK_NOT_FOUND")]
          /\ UNCHANGED entry
       \/ /\ tasks[id] # 0 /\ ~isCancellable(entry[tasks[id]].status)
          /\ calls' = [calls EXCEPT ![c] = Over(New, "TASK_NOT_CANCELLABLE")]
          /\ UNCHANGED entry
       \/ /\ tasks[id] # 0 /\ isCancellable(entry[tasks[id]].status)
          /\ calls' = [calls EXCEPT ![c] = Over(New, "result")]
          /\ Move(tasks[id], "cancelled")
    /\ UNCHANGED <<tasks, socket>>

handleTaskResume(c, id) ==
    /\ Message(c)
    /\ \/ /\ tasks[id] = 0
          /\ calls' = [calls EXCEPT ![c] = Over(New, "TASK_NOT_FOUND")]
          /\ UNCHANGED entry
       \/ /\ tasks[id] # 0 /\ ~isResumable(entry[tasks[id]].status)
          /\ calls' = [calls EXCEPT ![c] = Over(New, "TASK_NOT_RESUMABLE")]
          /\ UNCHANGED entry
       \/ /\ tasks[id] # 0 /\ isResumable(entry[tasks[id]].status)
          /\ calls' = [calls EXCEPT ![c] = Over(New, "result")]
          /\ Move(tasks[id], "running")
    /\ UNCHANGED <<tasks, socket>>

\* A hash check of a task that was found imports node:crypto before it reads the task.
Imports(r, i) == r.held # 0 /\ r.checks[i] = "hash"

Waits(r) == Len(r.parts) < Len(r.checks) /\ Imports(r, Len(r.parts) + 1)

Reach(r, n) ==
    [r EXCEPT !.parts = [i \in 1..n |-> IF i <= Len(@) THEN @[i] ELSE Look(r.held)]]

Answered(r) == IF Len(r.parts) = Len(r.checks) THEN Over(r, "verified") ELSE r

\* The checks are answered in their order up to the next import, the first `done` without
\* waiting.
RunsOn(c, r, done) ==
    \E n \in done..Len(r.checks) :
        /\ \A i \in done + 1..n : ~Imports(r, i)
        /\ n < Len(r.checks) => Imports(r, n + 1)
        /\ calls' = [calls EXCEPT ![c] = Answered(Reach(r, n))]

handleVerify(c, id, list) ==
    /\ Message(c)
    /\ RunsOn(c, [New EXCEPT !.at = "verify", !.id = id, !.held = tasks[id], !.checks = list], 0)
    /\ UNCHANGED <<entry, tasks, socket>>

\* The rest of handleVerify, looking the task up again after the import.
Imported_ByName(c) ==
    /\ calls[c].at = "verify" /\ Waits(calls[c])
    /\ LET r == Reach(calls[c], Len(calls[c].parts) + 1)
       IN  RunsOn(c, [r EXCEPT !.held = tasks[r.id]], Len(r.parts))
    /\ UNCHANGED <<entry, tasks, socket>>

Imported(c) ==
    /\ calls[c].at = "verify" /\ Waits(calls[c])
    /\ RunsOn(c, calls[c], Len(calls[c].parts) + 1)
    /\ UNCHANGED <<entry, tasks, socket>>

\* No delegateHandler, no TaskRegistry: the task is the input of a capability.
handleDelegate(c, id) ==
    /\ Message(c)
    /\ calls' = [calls EXCEPT ![c] = [New EXCEPT !.at = "delegate", !.id = id]]
    /\ UNCHANGED <<entry, tasks, socket>>

\* No capability matches, the handler returns, or something throws.
DelegateEnds(c) ==
    /\ calls[c].at = "delegate"
    /\ \E reply \in {"failed", "completed", "error"} :
          calls' = [calls EXCEPT ![c] = Over(@, reply)]
    /\ UNCHANGED <<entry, tasks, socket>>

\* A message that is no JSON, or names no method.
Unreadable(c) ==
    /\ Message(c)
    /\ calls' = [calls EXCEPT ![c] = Over(New, "error")]
    /\ UNCHANGED <<entry, tasks, socket>>

\* The transport closes its sockets: messages come until the client has closed too.
closeSockets ==
    /\ socket = "open"
    /\ socket' = "closing"
    /\ UNCHANGED <<entry, tasks, calls>>

\* What is being handled goes on.
Disconnected ==
    /\ socket # "closed"
    /\ socket' = "closed"
    /\ UNCHANGED <<entry, tasks, calls>>

WsNext ==
    \/ \E id \in TaskId : register(id) \/ cleanup(id)
    \/ \E id \in TaskId, to \in TaskStatus : transition(id, to)
    \/ \E c \in Call, id \in TaskId :
          \/ handleTaskStatus(c, id)
          \/ handleTaskCancel(c, id)
          \/ handleTaskResume(c, id)
          \/ \E list \in Checks : handleVerify(c, id, list)
          \/ handleDelegate(c, id)
    \/ \E c \in Call : Imported(c) \/ DelegateEnds(c) \/ Unreadable(c)
    \/ closeSockets
    \/ Disconnected

WsSpec == WsInit /\ [][WsNext]_wsVars

-----------------------------------------------------------------------------
\* Look p is at the task of look q, and not later.
NotAfter(p, q) == p.ref = q.ref /\ (p = q \/ p.transitions < q.transitions)

\* A verification is of one task, although that one runs on, ends, is dropped and its id
\* registered again while node:crypto is imported (server.ts:499): each check sees it as the
\* checks before did or later, and between two hash checks nothing moves.  So all is of one
\* moment when the hash is asked for first, as NekteClient.verify does by default, or not at
\* all; asked for later, it may be of a later state than the checks before it.
VerifyLooksForward ==
    \A c \in Call :
        LET parts == calls[c].parts
        IN  \A i, j \in DOMAIN parts :
                i < j => /\ NotAfter(parts[i], parts[j])
                         /\ (\A k \in i + 1..j : calls[c].checks[k] # "hash") => parts[i] = parts[j]

\* A verification that is waiting waits for the import before its hash check.
WsTypeOK ==
    /\ \A i \in DOMAIN entry : entry[i].status \in TaskStatus
    /\ \A id \in TaskId : tasks[id] \in 0..Len(entry)
    /\ \A c \in Call : /\ calls[c].at \in {"new", "verify", "delegate", "over"}
                       /\ calls[c].at = "verify" => Waits(calls[c])

\* A request is waiting only where the code awaits, and what it says is of one task, in the
\* order of its checks (server.ts:484-542).
VerifyInv == WsTypeOK /\ VerifyLooksForward
=============================================================================
