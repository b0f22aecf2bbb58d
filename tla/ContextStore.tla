---------------------------- MODULE ContextStore ----------------------------
(***************************************************************************)
(* The context envelopes a server keeps: the maps contexts and              *)
(* contextTimestamps of packages/server/src/server.ts, the nekte.context    *)
(* requests and the nekte.delegate request that write them, and the timer   *)
(* that cleans them up.  No handler awaits between reading and writing the  *)
(* maps, so each is one action.                                             *)
(*                                                                         *)
(* Date.now() - storedAt is kept as an age.  `written` and `byShare` are   *)
(* history: how long ago the content of an id was really stored, and        *)
(* whether by share.                                                        *)
(***************************************************************************)
EXTENDS Naturals

CONSTANTS
  ContextId,  \* envelope.id
  NoContext,  \* "nothing under this id"
  MaxTtl      \* bound: the largest ttl_s, in ticks of the clock

\* Of an envelope: its time to live and whether it may be forwarded.
Envelope == [ttl_s : 0..MaxTtl, forward : BOOLEAN]

ASSUME NoContextAssumption == NoContext \notin Envelope
ASSUME MaxTtlAssumption == MaxTtl \in Nat

VARIABLES
  contexts,  \* contexts[id]: the envelope stored under id
  stamped,   \* the ids in contextTimestamps
  age,       \* age[id]: how old the timestamp of a stamped id is
  reply,     \* what the last request was answered, and about which id
  written,   \* written[id]: how long ago the content of id was stored
  byShare    \* the ids whose content was last stored by share

contextVars == <<contexts, stamped, age, reply, written, byShare>>

\* A missing timestamp reads as 0: an age of decades, beyond every ttl_s.
AgeCap == MaxTtl + 1
Age == 0..AgeCap

ContextAnswer == {"none", "stored", "not_found", "expired", "denied", "context", "revoked"}

\* The values of the stored contexts, the clock and the last answer.
ContextTypeOK ==
  /\ contexts \in [ContextId -> Envelope \cup {NoContext}]
  /\ stamped \in SUBSET ContextId
  /\ age \in [ContextId -> Age]
  /\ reply \in [answer : ContextAnswer, id : ContextId]
  /\ written \in [ContextId -> Age]
  /\ byShare \in SUBSET ContextId

ContextInit ==
  /\ contexts = [id \in ContextId |-> NoContext]
  /\ stamped = {}
  /\ age = [id \in ContextId |-> 0]
  /\ reply \in [answer : {"none"}, id : ContextId]
  /\ written = [id \in ContextId |-> 0]
  /\ byShare = {}

Stored == {id \in ContextId : contexts[id] # NoContext}

\* storedAge with a bug: a context without a timestamp counts as new.
storedAge_MissingIsNew(id) == IF id \in stamped THEN age[id] ELSE 0

storedAge(id) == IF id \in stamped THEN age[id] ELSE AgeCap

isExpired(id) == storedAge(id) > contexts[id].ttl_s

Answers(a, id) == reply' = [answer |-> a, id |-> id]

\* Both maps forget these ids.
Drop(ids) ==
  /\ contexts' = [id \in ContextId |-> IF id \in ids THEN NoContext ELSE contexts[id]]
  /\ stamped' = stamped \ ids
  /\ byShare' = byShare \ ids
  /\ UNCHANGED <<age, written>>

----------------------------------------------------------------------------
(* nekte.context.                                                           *)

\* Share with a bug: only the first share of an id is timestamped.
Share_StampOnce(id, env) ==
  /\ contexts' = [contexts EXCEPT ![id] = env]
  /\ stamped' = stamped \cup {id}
  /\ age' = IF id \in stamped THEN age ELSE [age EXCEPT ![id] = 0]
  /\ written' = [written EXCEPT ![id] = 0]
  /\ byShare' = byShare \cup {id}
  /\ Answers("stored", id)

Share(id, env) ==
  /\ contexts' = [contexts EXCEPT ![id] = env]
  /\ stamped' = stamped \cup {id}
  /\ age' = [age EXCEPT ![id] = 0]
  /\ written' = [written EXCEPT ![id] = 0]
  /\ byShare' = byShare \cup {id}
  /\ Answers("stored", id)

\* wantsForward: the request carries permissions.forward.
Request(id, wantsForward) ==
  \/ /\ id \notin Stored
     /\ Answers("not_found", id)
     /\ UNCHANGED <<contexts, stamped, age, written, byShare>>
  \/ /\ id \in Stored
     /\ isExpired(id)
     /\ Drop({id})
     /\ Answers("expired", id)
  \/ /\ id \in Stored
     /\ ~isExpired(id)
     /\ Answers(IF wantsForward /\ ~contexts[id].forward THEN "denied" ELSE "context", id)
     /\ UNCHANGED <<contexts, stamped, age, written, byShare>>

Revoke(id) == Drop({id}) /\ Answers("revoked", id)

----------------------------------------------------------------------------
(* nekte.delegate, answered by the server itself: the context that comes    *)
(* with the task is stored, and no timestamp is.                            *)

DelegateStores(id, env) ==
  /\ contexts' = [contexts EXCEPT ![id] = env]
  /\ written' = [written EXCEPT ![id] = 0]
  /\ byShare' = byShare \ {id}
  /\ Answers("none", id)
  /\ UNCHANGED <<stamped, age>>

----------------------------------------------------------------------------
(* Time and cleanup.                                                        *)

OneOlder(a) == IF a < AgeCap THEN a + 1 ELSE a

Tick ==
  /\ age' = [id \in ContextId |-> OneOlder(age[id])]
  /\ written' = [id \in ContextId |-> OneOlder(written[id])]
  /\ reply' = [reply EXCEPT !.answer = "none"]
  /\ UNCHANGED <<contexts, stamped, byShare>>

\* cleanupExpiredContexts with a bug: it goes over the timestamps.
cleanupExpiredContexts_ByStamp ==
  /\ Drop({id \in Stored \cap stamped : isExpired(id)})
  /\ reply' = [reply EXCEPT !.answer = "none"]

cleanupExpiredContexts ==
  /\ Drop({id \in Stored : isExpired(id)})
  /\ reply' = [reply EXCEPT !.answer = "none"]

----------------------------------------------------------------------------

ContextNext ==
  \/ \E id \in ContextId, env \in Envelope : Share(id, env) \/ DelegateStores(id, env)
  \/ \E id \in ContextId, wantsForward \in BOOLEAN : Request(id, wantsForward)
  \/ \E id \in ContextId : Revoke(id)
  \/ Tick
  \/ cleanupExpiredContexts

ContextSpec == ContextInit /\ [][ContextNext]_contextVars

\* The clock advances and the interval of the constructor fires.
FairContextSpec == ContextSpec /\ WF_contextVars(Tick) /\ WF_contextVars(cleanupExpiredContexts)

----------------------------------------------------------------------------
(* What the store has to get right.                                         *)

\* A request is never served a context whose time to live has passed since
\* its content was stored, whichever of share and delegate stored it, over
\* whatever was there before.
ServedWithinTtl ==
  reply.answer = "context" =>
    reply.id \in Stored /\ written[reply.id] <= contexts[reply.id].ttl_s

\* A timestamp is kept only for a context that is stored: none leaks, and none
\* is left for the next context under the id to inherit.
StampsHaveContexts == stamped \subseteq Stored

\* The owner of a context that was shared can count on it: nothing but a revoke
\* or another write of the id takes it away before its time to live has passed.
SharedContextLivesItsTtl ==
  [][\A id \in byShare :
       contexts'[id] = NoContext /\ ~(reply'.answer = "revoked" /\ reply'.id = id)
         => written[id] > contexts[id].ttl_s]_contextVars

\* Expired contexts do not pile up: each is removed or written anew.
ExpiredContextsGo ==
  \A id \in ContextId :
    id \in Stored /\ isExpired(id) ~> (id \notin Stored \/ ~isExpired(id))

=============================================================================
