------------------------------- MODULE GrpcStream -------------------------------
(***************************************************************************)
(* The generator that turns the events of a gRPC server-streaming call     *)
(* into an iteration (client/src/grpc-transport.ts, stream).               *)
(*                                                                         *)
(* The callbacks of the call push frames and wake the generator; the       *)
(* generator runs when the application asks for a frame or when the        *)
(* microtask of the resolved promise does.  Callbacks come between those   *)
(* runs in any number.                                                     *)
(***************************************************************************)
EXTENDS Naturals, Sequences

CONSTANTS Frame,
          MaxFrames   \* bounds the frames the server writes

VARIABLES sent, ended, received,
          wire,       \* frames on their way to the client
          call,       \* the client's end of the call: "open", "failed", "closed"
          events, done, error, resolve,
          generator

vars == <<sent, ended, received, wire, call, events, done, error, resolve, generator>>

Init ==
    /\ sent = <<>> /\ ended = FALSE
    /\ wire = <<>> /\ call = "open"
    /\ events = <<>> /\ done = FALSE /\ error = FALSE /\ resolve = "null"
    /\ received = <<>>
    /\ generator = "new"

(***************************************************************************)
(* The server (GrpcDelegateStream.send and close).                         *)
(***************************************************************************)
send(f) ==
    /\ generator # "new" /\ ~ended /\ Len(sent) < MaxFrames
    /\ sent' = Append(sent, f)
    /\ wire' = IF call = "open" THEN Append(wire, f) ELSE wire
    /\ UNCHANGED <<ended, received, call, events, done, error, resolve, generator>>

close ==
    /\ generator # "new" /\ ~ended
    /\ ended' = TRUE
    /\ UNCHANGED <<sent, received, wire, call, events, done, error, resolve, generator>>

(***************************************************************************)
(* The callbacks of the call.  After an error the frames that had already  *)
(* come may still be delivered.                                            *)
(***************************************************************************)
wake == resolve' = IF resolve = "pending" THEN "resolved" ELSE resolve

OnData_NoWake ==
    /\ wire # <<>> /\ call # "closed"
    /\ events' = Append(events, Head(wire))
    /\ wire' = Tail(wire)
    /\ UNCHANGED <<sent, ended, received, call, done, error, resolve, generator>>

OnData ==
    /\ wire # <<>> /\ call # "closed"
    /\ events' = Append(events, Head(wire))
    /\ wire' = Tail(wire)
    /\ wake
    /\ UNCHANGED <<sent, ended, received, call, done, error, generator>>

OnEnd_NoWake ==
    /\ wire = <<>> /\ call # "closed" /\ (ended \/ call = "failed")
    /\ done' = TRUE /\ call' = "closed"
    /\ UNCHANGED <<sent, ended, received, wire, events, error, resolve, generator>>

OnEnd ==
    /\ wire = <<>> /\ call # "closed" /\ (ended \/ call = "failed")
    /\ done' = TRUE /\ call' = "closed"
    /\ wake
    /\ UNCHANGED <<sent, ended, received, wire, events, error, generator>>

\* The network loses some of what is on the wire, always the last frames.
OnError ==
    /\ generator # "new" /\ call = "open"
    /\ error' = TRUE /\ done' = TRUE /\ call' = "failed"
    /\ \E n \in 0..Len(wire) : wire' = SubSeq(wire, 1, n)
    /\ wake
    /\ UNCHANGED <<sent, ended, received, events, generator>>

(***************************************************************************)
(* The generator.                                                          *)
(***************************************************************************)
Loop_ErrorFirst ==
    \/ /\ error
       /\ generator' = "threw" /\ resolve' = "null"
       /\ UNCHANGED <<events, received>>
    \/ /\ events # <<>> /\ ~error
       /\ received' = Append(received, Head(events))
       /\ events' = Tail(events)
       /\ generator' = "yielded" /\ resolve' = "null"
    \/ /\ events = <<>> /\ done /\ ~error
       /\ generator' = "returned" /\ resolve' = "null"
       /\ UNCHANGED <<events, received>>
    \/ /\ events = <<>> /\ ~done
       /\ generator' = "waiting" /\ resolve' = "pending"
       /\ UNCHANGED <<events, received>>

\* One run of the loop, up to the yield, the return, the throw or the await.
Loop ==
    \/ /\ events # <<>>
       /\ received' = Append(received, Head(events))
       /\ events' = Tail(events)
       /\ generator' = "yielded" /\ resolve' = "null"
    \/ /\ events = <<>> /\ done
       /\ generator' = IF error THEN "threw" ELSE "returned"
       /\ resolve' = "null"
       /\ UNCHANGED <<events, received>>
    \/ /\ events = <<>> /\ ~done
       /\ generator' = "waiting" /\ resolve' = "pending"
       /\ UNCHANGED <<events, received>>

\* The application asks for the next frame.  The first request makes the call.
AskNext ==
    /\ generator \in {"new", "yielded"}
    /\ Loop
    /\ UNCHANGED <<sent, ended, wire, call, done, error>>

\* The awaited promise was resolved: its microtask runs.
Resume ==
    /\ generator = "waiting" /\ resolve = "resolved"
    /\ Loop
    /\ UNCHANGED <<sent, ended, wire, call, done, error>>

\* The application leaves the loop: nothing tells the call.
Leave ==
    /\ generator = "yielded"
    /\ generator' = "left"
    /\ UNCHANGED <<sent, ended, received, wire, call, events, done, error, resolve>>

Next ==
    \/ \E f \in Frame : send(f)
    \/ close
    \/ OnData \/ OnEnd \/ OnError
    \/ AskNext \/ Resume \/ Leave

(***************************************************************************)
(* Properties.                                                             *)
(***************************************************************************)
TypeOK ==
    /\ sent \in Seq(Frame) /\ received \in Seq(Frame)
    /\ wire \in Seq(Frame) /\ events \in Seq(Frame)
    /\ ended \in BOOLEAN /\ done \in BOOLEAN /\ error \in BOOLEAN
    /\ call \in {"open", "failed", "closed"}
    /\ resolve \in {"null", "pending", "resolved"}
    /\ generator \in {"new", "yielded", "waiting", "returned", "threw", "left"}
    /\ generator = "waiting" <=> resolve # "null"

\* No wake-up is lost: a generator that sleeps has nothing to take and nothing to report,
\* whichever callbacks came between its last look and its await (grpc-transport.ts:231-244).
SleepsOnlyWhenIdle ==
    generator = "waiting" /\ resolve = "pending" => events = <<>> /\ ~done

\* What EventStream shows of it: how many frames have come, whether the call failed, and how
\* the iteration stands.
Arrived == Len(received) + Len(events)
Connection == IF error THEN "failed" ELSE "open"
Outcome == IF generator \in {"new", "yielded", "waiting"} THEN "open" ELSE generator
================================================================================
