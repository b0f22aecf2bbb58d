------------------------------ MODULE StdioSession ------------------------------
(***************************************************************************)
(* The bridge's sessions with MCP servers that are child processes         *)
(* (bridge/src/mcp-connector.ts, stdioSession): spawn, initialize, one     *)
(* request, signal.  Several sessions run at once, each with a child of    *)
(* its own; they share the bridge's process.                               *)
(*                                                                         *)
(* The children are external: they answer in their own time, with a result *)
(* or an error, ask the client something of their own under any id, or     *)
(* exit.  The signal at the end of a session asks its child to terminate:  *)
(* the child may print on, exit later, or ignore it for good.  A line that *)
(* is no JSON is skipped and is not modelled.                              *)
(***************************************************************************)
EXTENDS Naturals, Sequences

CONSTANTS Session,
          MaxLines   \* bounds the lines a child prints

ASSUME StdioAssumption == MaxLines \in Nat

VARIABLES process,  \* of the bridge: "up" or "down"
          step,     \* what each session awaits
          child,
          asked,    \* the requests the child was sent
          lines,    \* what the child printed and the session has not read
          printed,  \* how many lines it printed
          pending,  \* the ids with a promise in the Map
          value     \* what the session made of the reply to its request

sessionVars == <<process, step, child, asked, lines, printed, pending, value>>

RequestId == {1, 2}           \* initialize, and tools/list or tools/call
Kind == {"result", "error", "request"}
Over == {"resolved", "rejected"}

SessionInit ==
    /\ process = "up"
    /\ step = [s \in Session |-> "new"]
    /\ child = [s \in Session |-> "none"]
    /\ asked = [s \in Session |-> {}]
    /\ lines = [s \in Session |-> <<>>]
    /\ printed = [s \in Session |-> 0]
    /\ pending = [s \in Session |-> {}]
    /\ value = [s \in Session |-> "none"]

(***************************************************************************)
(* The session.                                                            *)
(***************************************************************************)
\* spawn does not throw when the command cannot be run: it emits an error later.
stdioSession(s) ==
    /\ process = "up" /\ step[s] = "new"
    /\ \E c \in {"running", "missing"} : child' = [child EXCEPT ![s] = c]
    /\ step' = [step EXCEPT ![s] = "initialize"]
    /\ asked' = [asked EXCEPT ![s] = {1}]
    /\ pending' = [pending EXCEPT ![s] = {1}]
    /\ UNCHANGED <<process, lines, printed, value>>

\* Nobody listens for the error.
SpawnError(s) ==
    /\ process = "up" /\ child[s] = "missing"
    /\ process' = "down"
    /\ UNCHANGED <<step, child, asked, lines, printed, pending, value>>

End_NoKill(s, outcome) ==
    /\ step' = [step EXCEPT ![s] = outcome]
    /\ UNCHANGED child

\* The finally of stdioSession: kill sends SIGTERM to a child that runs.
End(s, outcome) ==
    /\ step' = [step EXCEPT ![s] = outcome]
    /\ child' = [child EXCEPT ![s] = IF @ = "running" THEN "signalled" ELSE @]

\* The notification and the request are written to a child that may have exited: the
\* error of the pipe, when there is one, has no listener either.
SendRequest(s) ==
    /\ step' = [step EXCEPT ![s] = "request"]
    /\ asked' = [asked EXCEPT ![s] = @ \cup {2}]
    /\ pending' = [pending EXCEPT ![s] = {2}]
    /\ process' \in IF child[s] = "exited" THEN {"up", "down"} ELSE {"up"}
    /\ UNCHANGED <<child, value>>

\* The reply's result is undefined unless the line is a result.
Finish(s, kind) ==
    /\ value' = [value EXCEPT ![s] = IF kind = "result" THEN "result" ELSE "nothing"]
    /\ pending' = [pending EXCEPT ![s] = {}]
    /\ End(s, "resolved")
    /\ UNCHANGED <<process, asked>>

OnLine_AnyId(s) ==
    /\ process = "up" /\ lines[s] # <<>>
    /\ lines' = [lines EXCEPT ![s] = Tail(@)]
    /\ \/ step[s] = "initialize" /\ SendRequest(s)
       \/ step[s] = "request" /\ Finish(s, Head(lines[s]).kind)
       \/ /\ step[s] \in Over
          /\ UNCHANGED <<process, step, child, asked, pending, value>>
    /\ UNCHANGED printed

\* A line whose id has a promise resolves it, whatever the line is; others are ignored.
OnLine(s) ==
    /\ process = "up" /\ lines[s] # <<>>
    /\ lines' = [lines EXCEPT ![s] = Tail(@)]
    /\ \/ /\ Head(lines[s]).id \in pending[s]
          /\ \/ step[s] = "initialize" /\ SendRequest(s)
             \/ step[s] = "request" /\ Finish(s, Head(lines[s]).kind)
       \/ /\ Head(lines[s]).id \notin pending[s]
          /\ UNCHANGED <<process, step, child, asked, pending, value>>
    /\ UNCHANGED printed

Timeout_Forgets(s) ==
    /\ process = "up" /\ pending[s] # {}
    /\ pending' = [pending EXCEPT ![s] = {}]
    /\ UNCHANGED <<process, step, child, asked, lines, printed, value>>

\* 10 s after the request; the timer of an answered request does nothing.
Timeout(s) ==
    /\ process = "up" /\ pending[s] # {}
    /\ pending' = [pending EXCEPT ![s] = {}]
    /\ End(s, "rejected")
    /\ UNCHANGED <<process, asked, lines, printed, value>>

(***************************************************************************)
(* The child.                                                              *)
(***************************************************************************)
Alive == {"running", "signalled"}

Prints(s, id, kind) ==
    /\ child[s] \in Alive /\ printed[s] < MaxLines
    /\ kind = "request" \/ id \in asked[s]
    /\ lines' = [lines EXCEPT ![s] = Append(@, [id |-> id, kind |-> kind])]
    /\ printed' = [printed EXCEPT ![s] = @ + 1]
    /\ UNCHANGED <<process, step, child, asked, pending, value>>

ChildExits(s) ==
    /\ child[s] \in Alive
    /\ child' = [child EXCEPT ![s] = "exited"]
    /\ UNCHANGED <<process, step, asked, lines, printed, pending, value>>

SessionNext ==
    \E s \in Session :
        \/ stdioSession(s) \/ SpawnError(s) \/ OnLine(s) \/ Timeout(s)
        \/ \E id \in RequestId, kind \in Kind : Prints(s, id, kind)
        \/ ChildExits(s)

SessionSpec == SessionInit /\ [][SessionNext]_sessionVars

\* The timer of every request fires; the child need not do anything.
FairSessionSpec == SessionSpec /\ \A s \in Session : WF_sessionVars(Timeout(s))

(***************************************************************************)
(* Properties.                                                             *)
(***************************************************************************)
SessionTypeOK ==
    /\ process \in {"up", "down"}
    /\ step \in [Session -> {"new", "initialize", "request"} \cup Over]
    /\ child \in [Session -> {"none", "running", "missing", "exited", "signalled"}]
    /\ asked \in [Session -> SUBSET RequestId]
    /\ lines \in [Session -> Seq([id: RequestId, kind: Kind])]
    /\ printed \in [Session -> 0..MaxLines]
    /\ pending \in [Session -> SUBSET RequestId]
    /\ value \in [Session -> {"none", "result", "nothing"}]
    /\ \A s \in Session : pending[s] = CASE step[s] = "initialize" -> {1}
                                         [] step[s] = "request" -> {2}
                                         [] OTHER -> {}

\* However a session ends, by its reply, an error or the timeout of either request, a
\* child that still runs has been told to terminate (mcp-connector.ts:417-419).
NoChildLeftRunning ==
    \A s \in Session : step[s] \in Over => child[s] # "running"

\* A session waits for the one request it has sent and for nothing once it is over, what
\* its child prints on included, and every child it leaves has had its signal.
SessionInv == SessionTypeOK /\ NoChildLeftRunning

\* What a session returns as a result is a result its child gave to the session's request:
\* a late or repeated reply to initialize is never taken for it (mcp-connector.ts:387).
ResultAnswersTheRequest ==
    [][\A s \in Session : value'[s] = "result" /\ value[s] # "result" =>
          2 \in asked[s] /\ Head(lines[s]) = [id |-> 2, kind |-> "result"]]_sessionVars

\* A session that was started ends although its child never answers, unless the whole
\* process is gone (mcp-connector.ts:406-411).
SessionEnds ==
    \A s \in Session : step[s] = "initialize" ~> step[s] \in Over \/ process = "down"
================================================================================
