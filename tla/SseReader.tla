------------------------------- MODULE SseReader -------------------------------
(***************************************************************************)
(* The generator that reads the Server-Sent Events of a delegation         *)
(* (client/src/http-transport.ts, stream; core/src/sse.ts).                *)
(*                                                                         *)
(* The body arrives in chunks that end anywhere, so a frame is three       *)
(* tokens: its two lines and the empty line that separates it from the     *)
(* next.  The generator runs when the application asks and when a read     *)
(* settles.  A timer, set when the request is made and never again, aborts *)
(* it.                                                                     *)
(***************************************************************************)
EXTENDS Naturals, Sequences, SequencesExt

CONSTANTS Frame,
          NoFrame,     \* null, what parseSseEvent gives for an incomplete block
          MaxFrames    \* bounds the frames the server writes

VARIABLES sent, ended, received,
          wire,        \* tokens on their way to the client
          connection,  \* "open", "broken", "aborted" by the timer
          buffer,      \* tokens not split off yet
          parts,       \* frames split off and not yielded yet
          generator

vars == <<sent, ended, received, wire, connection, buffer, parts, generator>>

Token == [frame: Frame, part: {"event", "data", "blank"}]
encodeSseEvent(f) ==
    << [frame |-> f, part |-> "event"], [frame |-> f, part |-> "data"],
       [frame |-> f, part |-> "blank"] >>

\* Both lines are needed: a block that lost one is no event.
parseSseEvent(block) ==
    IF [i \in DOMAIN block |-> block[i].part] = <<"event", "data">> THEN block[1].frame
    ELSE NoFrame

Blanks(text) == {i \in DOMAIN text : text[i].part = "blank"}
BlankBefore(text, i) == Max({0} \cup {j \in Blanks(text) : j < i})
BlockBefore(text, i) == SubSeq(text, BlankBefore(text, i) + 1, i - 1)

\* The blank lines that end an event, and the k-th of them.
Ends(text) == {i \in Blanks(text) : parseSseEvent(BlockBefore(text, i)) # NoFrame}
NthEnd(text, k) ==
    CHOOSE i \in Ends(text) : Cardinality({j \in Ends(text) : j < i}) = k - 1

\* buffer.split: the events of the blocks a blank line ends, and what is left.
Split(text) ==
    [k \in 1..Cardinality(Ends(text)) |-> parseSseEvent(BlockBefore(text, NthEnd(text, k)))]
Rest(text) == SubSeq(text, BlankBefore(text, Len(text) + 1) + 1, Len(text))

Over == {"returned", "threw", "left"}

Init ==
    /\ sent = <<>> /\ ended = FALSE /\ received = <<>>
    /\ wire = <<>> /\ connection = "open"
    /\ buffer = <<>> /\ parts = <<>>
    /\ generator = "new"

(***************************************************************************)
(* The server (SseStream.send and close).                                  *)
(***************************************************************************)
send(f) ==
    /\ generator # "new" /\ ~ended /\ Len(sent) < MaxFrames
    /\ sent' = Append(sent, f)
    /\ wire' = IF connection = "open" THEN wire \o encodeSseEvent(f) ELSE wire
    /\ UNCHANGED <<ended, received, connection, buffer, parts, generator>>

close ==
    /\ generator # "new" /\ ~ended
    /\ ended' = TRUE
    /\ UNCHANGED <<sent, received, wire, connection, buffer, parts, generator>>

(***************************************************************************)
(* The connection.                                                         *)
(***************************************************************************)
ConnectionBreaks ==
    /\ generator # "new" /\ connection = "open"
    /\ connection' = "broken"
    /\ \E n \in 0..Len(wire) : wire' = SubSeq(wire, 1, n)
    /\ UNCHANGED <<sent, ended, received, buffer, parts, generator>>

\* timeoutMs * 2 after the request was made, however much has come since.
Timeout ==
    /\ generator \notin Over \cup {"new"} /\ connection # "aborted"
    /\ connection' = "aborted"
    /\ wire' = <<>>
    /\ UNCHANGED <<sent, ended, received, buffer, parts, generator>>

(***************************************************************************)
(* The generator.                                                          *)
(***************************************************************************)
\* The application asks: the next frame of the last chunk, or the next chunk (the first
\* time, the request and then the first chunk).
AskNext ==
    /\ generator \in {"new", "yielded"}
    /\ \/ /\ parts # <<>>
          /\ received' = Append(received, Head(parts))
          /\ parts' = Tail(parts)
          /\ UNCHANGED generator
       \/ /\ parts = <<>>
          /\ generator' = "reading"
          /\ UNCHANGED <<received, parts>>
    /\ UNCHANGED <<sent, ended, wire, connection, buffer>>

Take(frames) ==
    IF frames = <<>> THEN UNCHANGED <<received, parts, generator>>
    ELSE /\ received' = Append(received, Head(frames))
         /\ parts' = Tail(frames)
         /\ generator' = "yielded"

ReadChunk_ForgetRest ==
    /\ generator = "reading"
    /\ \E n \in 1..Len(wire) :
          /\ Take(Split(buffer \o SubSeq(wire, 1, n)))
          /\ buffer' = <<>>
          /\ wire' = SubSeq(wire, n + 1, Len(wire))
    /\ UNCHANGED <<sent, ended, connection>>

ReadChunk ==
    /\ generator = "reading"
    /\ \E n \in 1..Len(wire) :
          /\ Take(Split(buffer \o SubSeq(wire, 1, n)))
          /\ buffer' = Rest(buffer \o SubSeq(wire, 1, n))
          /\ wire' = SubSeq(wire, n + 1, Len(wire))
    /\ UNCHANGED <<sent, ended, connection>>

\* done: what is left in the buffer is parsed once more.
ReadDone ==
    /\ generator = "reading"
    /\ ended /\ wire = <<>> /\ connection = "open"
    /\ generator' = IF parseSseEvent(buffer) = NoFrame THEN "returned" ELSE "yielded"
    /\ received' = IF parseSseEvent(buffer) = NoFrame THEN received
                   ELSE Append(received, parseSseEvent(buffer))
    /\ buffer' = <<>>
    /\ UNCHANGED <<sent, ended, wire, connection, parts>>

\* The request, or a read, rejects.
ReadFails ==
    /\ generator = "reading" /\ connection # "open"
    /\ generator' = "threw"
    /\ UNCHANGED <<sent, ended, received, wire, connection, buffer, parts>>

\* The application leaves the loop: the timer is cleared, the body is not cancelled.
Leave ==
    /\ generator = "yielded"
    /\ generator' = "left"
    /\ UNCHANGED <<sent, ended, received, wire, connection, buffer, parts>>

Next ==
    \/ \E f \in Frame : send(f)
    \/ close
    \/ ConnectionBreaks \/ Timeout
    \/ AskNext \/ ReadChunk \/ ReadDone \/ ReadFails \/ Leave

(***************************************************************************)
(* Properties.                                                             *)
(***************************************************************************)
TypeOK ==
    /\ sent \in Seq(Frame) /\ received \in Seq(Frame) /\ parts \in Seq(Frame)
    /\ wire \in Seq(Token) /\ buffer \in Seq(Token)
    /\ ended \in BOOLEAN
    /\ connection \in {"open", "broken", "aborted"}
    /\ generator \in Over \cup {"new", "yielded", "reading"}
    /\ generator = "reading" => parts = <<>>

\* A generator that waits for the network holds no whole frame back, however the chunks
\* cut the text (http-transport.ts:100-108).
NoFrameHeldBack ==
    generator = "reading" => Blanks(buffer) = {} /\ Len(buffer) <= 2

\* What EventStream shows of it: how many frames have come, whether the connection failed,
\* and how the iteration stands.
Arrived == Len(received) + Len(parts)
Connection == IF connection = "open" THEN "open" ELSE "failed"
Outcome == IF generator \in Over THEN generator ELSE "open"
================================================================================
