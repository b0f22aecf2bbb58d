---------------------------- MODULE TransportStream ----------------------------
(***************************************************************************)
(* Transport.stream (client/src/transport.ts): NekteClient.delegateStream  *)
(* iterates over whichever transport the client was made with, and relies  *)
(* on one promise for both, EventStream.  The transport is chosen once,    *)
(* and SseReader or GrpcStream takes every step from there.                *)
(***************************************************************************)
EXTENDS Naturals, Sequences

CONSTANTS Frame,
          NoFrame,     \* null, what parseSseEvent gives for an incomplete block
          MaxFrames    \* bounds the frames the server writes

ASSUME TransportAssumption == MaxFrames \in Nat /\ NoFrame \notin Frame

VARIABLES transport,                                    \* "http" or "grpc"
          sent, ended, received, wire, generator,       \* of both
          connection, buffer, parts,                    \* of SseReader
          call, events, done, error, resolve            \* of GrpcStream

both == <<sent, ended, received, wire, generator>>
sseOnly == <<connection, buffer, parts>>
grpcOnly == <<call, events, done, error, resolve>>
vars == <<transport, both, sseOnly, grpcOnly>>

Sse == INSTANCE SseReader
Grpc == INSTANCE GrpcStream

Init == transport \in {"http", "grpc"} /\ Sse!Init /\ Grpc!Init

OverHttp(step) == transport = "http" /\ step /\ UNCHANGED <<transport, grpcOnly>>
OverGrpc(step) == transport = "grpc" /\ step /\ UNCHANGED <<transport, sseOnly>>

Next == OverHttp(Sse!Next) \/ OverGrpc(Grpc!Next)

Spec == Init /\ [][Next]_vars

(***************************************************************************)
(* Over HTTP the timer fires and a read that can settle does; over gRPC    *)
(* the network delivers or fails and microtasks run; the application goes  *)
(* on asking.  The server need not end.                                    *)
(***************************************************************************)
FairSpec ==
    /\ Spec
    /\ WF_vars(OverHttp(Sse!Timeout)) /\ WF_vars(OverHttp(Sse!AskNext))
    /\ WF_vars(OverHttp(Sse!ReadChunk \/ Sse!ReadDone \/ Sse!ReadFails))
    /\ WF_vars(OverGrpc(Grpc!OnData)) /\ WF_vars(OverGrpc(Grpc!OnEnd))
    /\ WF_vars(OverGrpc(Grpc!AskNext)) /\ WF_vars(OverGrpc(Grpc!Resume))

(***************************************************************************)
(* Properties.                                                             *)
(***************************************************************************)
TypeOK ==
    /\ transport = "http" => Sse!TypeOK
    /\ transport = "grpc" => Grpc!TypeOK

\* Over gRPC no wake-up is lost: a generator that sleeps has nothing to take and nothing
\* to report, whichever callbacks came between its last look and its await
\* (grpc-transport.ts:231-244).
SleepsOnlyWhenIdle == transport = "grpc" => Grpc!SleepsOnlyWhenIdle

\* Over HTTP a generator that waits for the network holds no whole frame back, however
\* the chunks cut the text (http-transport.ts:100-108).
NoFrameHeldBack == transport = "http" => Sse!NoFrameHeldBack

\* A generator that waits keeps nothing from the application, over either transport.
StreamInv == TypeOK /\ SleepsOnlyWhenIdle /\ NoFrameHeldBack

\* The frames reach the application in order, none twice and none left out, although
\* chunks end in the middle of them and callbacks outrun the iteration; it returns only
\* after the last, and throws only for a connection that failed and only when every frame
\* that is queued or split off has been given (EventStream; grpc-transport.ts:231-239,
\* http-transport.ts:93-116).
Stream == INSTANCE EventStream WITH
    arrived <- IF transport = "http" THEN Sse!Arrived ELSE Grpc!Arrived,
    connection <- IF transport = "http" THEN Sse!Connection ELSE Grpc!Connection,
    outcome <- IF transport = "http" THEN Sse!Outcome ELSE Grpc!Outcome
ImplementsEventStream == Stream!Spec

\* An application that goes on asking is not left waiting: over HTTP not even by a server
\* that never ends the stream, thanks to the timer (http-transport.ts:74); over gRPC, which
\* has none, once the server has ended it (grpc-transport.ts:218-244).
IterationEnds ==
    /\ (transport = "http" /\ generator = "reading") ~> generator \in Sse!Over
    /\ (transport = "grpc" /\ ended) ~> generator \in Sse!Over
================================================================================
