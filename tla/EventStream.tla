------------------------------ MODULE EventStream ------------------------------
(***************************************************************************)
(* What Transport.stream promises to the application that iterates it      *)
(* (client/src/transport.ts:22-23): the frames of one delegation come in   *)
(* order, none twice and none left out; the iteration returns when all     *)
(* have come; it throws only when the connection has failed, and only once *)
(* everything that had come before is given.                               *)
(*                                                                         *)
(* GrpcStream and SseReader implement this module.                         *)
(***************************************************************************)
EXTENDS Naturals, Sequences

CONSTANT Frame

VARIABLES sent,      \* the frames the server wrote
          ended,     \* the server ended the stream
          arrived,   \* how many of the frames have come to the iteration
          connection, \* "open", or "failed": it broke or ran out of time
          received,  \* the frames the application was given
          outcome    \* of the iteration: "open", "returned", "threw", "left"

streamVars == <<sent, ended, arrived, connection, received, outcome>>

Init ==
    /\ sent = <<>> /\ ended = FALSE
    /\ arrived = 0 /\ connection = "open"
    /\ received = <<>> /\ outcome = "open"

Write(f) ==
    /\ ~ended
    /\ sent' = Append(sent, f)
    /\ UNCHANGED <<ended, arrived, connection, received, outcome>>

End ==
    /\ ~ended
    /\ ended' = TRUE
    /\ UNCHANGED <<sent, arrived, connection, received, outcome>>

Arrive ==
    /\ arrived' \in arrived + 1..Len(sent)
    /\ UNCHANGED <<sent, ended, connection, received, outcome>>

Fail ==
    /\ connection = "open"
    /\ connection' = "failed"
    /\ UNCHANGED <<sent, ended, arrived, received, outcome>>

\* The frames of one read arrive and the first of them is given in one step.
Yield ==
    /\ outcome = "open"
    /\ arrived' \in arrived..Len(sent) /\ Len(received) < arrived'
    /\ received' = Append(received, sent[Len(received) + 1])
    /\ UNCHANGED <<sent, ended, connection, outcome>>

Return ==
    /\ outcome = "open" /\ ended /\ received = sent
    /\ outcome' = "returned"
    /\ UNCHANGED <<sent, ended, arrived, connection, received>>

Throw ==
    /\ outcome = "open" /\ connection = "failed" /\ Len(received) = arrived
    /\ outcome' = "threw"
    /\ UNCHANGED <<sent, ended, arrived, connection, received>>

\* The application stops iterating.
Leave ==
    /\ outcome = "open"
    /\ outcome' = "left"
    /\ UNCHANGED <<sent, ended, arrived, connection, received>>

Next == (\E f \in Frame : Write(f)) \/ End \/ Arrive \/ Fail \/ Yield \/ Return \/ Throw \/ Leave

Spec == Init /\ [][Next]_streamVars
================================================================================
