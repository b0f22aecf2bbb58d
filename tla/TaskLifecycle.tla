--------------------------- MODULE TaskLifecycle ---------------------------
(***************************************************************************)
(* The task aggregate of packages/core/src/task.ts: the statuses, the      *)
(* transition table, the predicates over them, and what each domain        *)
(* function does to a TaskEntry.                                           *)
(*                                                                         *)
(* An entry keeps what the rest of the system can observe: its status,     *)
(* whether a checkpoint was saved, whether the signal of its               *)
(* AbortController fired, and `idle`, the time since updatedAt.  The       *)
(* history of transitions is a variable of TaskRegistry.                   *)
(***************************************************************************)
EXTENDS Naturals

TaskStatus ==
  {"pending", "accepted", "running", "suspended",
   "completed", "failed", "cancelled"}

\* The table with a bug: a suspended task may complete without resuming.
TASK_TRANSITIONS_CompleteSuspended ==
  [pending   |-> {"accepted", "cancelled", "failed"},
   accepted  |-> {"running", "cancelled", "failed"},
   running   |-> {"completed", "failed", "cancelled", "suspended"},
   suspended |-> {"running", "completed", "cancelled", "failed"},
   completed |-> {},
   failed    |-> {},
   cancelled |-> {}]

\* The single source of truth for valid transitions.
TASK_TRANSITIONS ==
  [pending   |-> {"accepted", "cancelled", "failed"},
   accepted  |-> {"running", "cancelled", "failed"},
   running   |-> {"completed", "failed", "cancelled", "suspended"},
   suspended |-> {"running", "cancelled", "failed"},
   completed |-> {},
   failed    |-> {},
   cancelled |-> {}]

CANCELLABLE_STATES == {"pending", "accepted", "running", "suspended"}
RESUMABLE_STATES   == {"suspended"}
TERMINAL_STATES    == {"completed", "failed", "cancelled"}

isValidTransition(from, to) == to \in TASK_TRANSITIONS[from]
isTerminal(status)    == status \in TERMINAL_STATES
isActive(status)      == status \in TaskStatus \ TERMINAL_STATES
isCancellable(status) == status \in CANCELLABLE_STATES
isResumable(status)   == status \in RESUMABLE_STATES

----------------------------------------------------------------------------
(* Entries.  "absent" is the status of an entry nobody has created yet.     *)

TaskEntry ==
  [status : TaskStatus \cup {"absent"}, checkpoint : BOOLEAN,
   aborted : BOOLEAN, idle : Nat]

NoEntryYet ==
  [status |-> "absent", checkpoint |-> FALSE, aborted |-> FALSE, idle |-> 0]

createTaskEntry == [NoEntryYet EXCEPT !.status = "pending"]

\* What transitionTask leaves in an entry it accepts; its guard is
\* isValidTransition(e.status, to), and cancelling fires the abort signal.
transitionTask(e, to) ==
  [e EXCEPT !.status = to, !.idle = 0, !.aborted = @ \/ to = "cancelled"]

\* canCheckpoint with a bug: the status is not looked at.
canCheckpoint_Always(e) == e.status # "absent"

\* The status test at the head of saveCheckpoint.
canCheckpoint(e) == e.status \in {"running", "suspended"}

saveCheckpoint(e) == [e EXCEPT !.checkpoint = TRUE, !.idle = 0]

\* One unit of wall-clock time passes for an entry; ages beyond the cap are
\* not told apart, since cleanup compares with nothing larger.
Older(e, cap) ==
  IF e.status = "absent" \/ e.idle >= cap THEN e ELSE [e EXCEPT !.idle = @ + 1]

=============================================================================
