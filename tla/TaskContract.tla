---------------------------- MODULE TaskContract ----------------------------
(***************************************************************************)
(* What the task lifecycle promises to everyone who looks at it, as the    *)
(* protocol states it (docs/SPEC.md, section 5): a task is created once,    *)
(* moves along the lifecycle, ends exactly once, and its abort signal fires *)
(* with its cancellation and for no other reason.  The detailed modules     *)
(* TaskRegistry and Delegation implement this one.                          *)
(***************************************************************************)

CONSTANT Task

VARIABLES status,     \* the status of each task, "absent" before creation
          signalled   \* the tasks whose AbortSignal has fired

contractVars == <<status, signalled>>

Waiting == {"pending", "accepted", "suspended"}
Active  == Waiting \cup {"running"}
Ended   == {"completed", "failed", "cancelled"}

ContractTypeOK ==
  /\ status \in [Task -> Active \cup Ended \cup {"absent"}]
  /\ signalled \in SUBSET Task

ContractInit ==
  /\ status = [t \in Task |-> "absent"]
  /\ signalled = {}

----------------------------------------------------------------------------

Becomes(t, s) == status' = [status EXCEPT ![t] = s]

\* A task comes into view when it is registered, or, when a transport
\* accepts and starts it in the same breath, already running.
Create(t) ==
  /\ status[t] = "absent"
  /\ Becomes(t, "pending") \/ Becomes(t, "running")
  /\ UNCHANGED signalled

Accept(t)   == status[t] = "pending"   /\ Becomes(t, "accepted")  /\ UNCHANGED signalled
Start(t)    == status[t] = "accepted"  /\ Becomes(t, "running")   /\ UNCHANGED signalled
Suspend(t)  == status[t] = "running"   /\ Becomes(t, "suspended") /\ UNCHANGED signalled
Resume(t)   == status[t] = "suspended" /\ Becomes(t, "running")   /\ UNCHANGED signalled
Complete(t) == status[t] = "running"   /\ Becomes(t, "completed") /\ UNCHANGED signalled
Fail(t)     == status[t] \in Active    /\ Becomes(t, "failed")    /\ UNCHANGED signalled

Cancel(t) ==
  /\ status[t] \in Active
  /\ Becomes(t, "cancelled")
  /\ signalled' = signalled \cup {t}

Move(t) ==
  \/ Create(t) \/ Accept(t) \/ Start(t) \/ Suspend(t) \/ Resume(t)
  \/ Complete(t) \/ Fail(t) \/ Cancel(t)

ContractNext == \E t \in Task : Move(t)

ContractSpec == ContractInit /\ [][ContractNext]_contractVars

----------------------------------------------------------------------------

\* The abort signal of a task has fired exactly when the task was cancelled:
\* a handler that sees signal.aborted may conclude that, and only that.
SignalledIffCancelled == \A t \in Task : t \in signalled <=> status[t] = "cancelled"

\* A task that has ended keeps its status for good.
EndedForGood ==
  [][\A t \in Task : status[t] \in Ended => status'[t] = status[t]]_contractVars

=============================================================================
