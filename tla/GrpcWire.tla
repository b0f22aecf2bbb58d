-------------------------------- MODULE GrpcWire --------------------------------
(***************************************************************************)
(* What a message is by the time the other side of a gRPC connection       *)
(* reads it: the converters of core/src/grpc-types.ts, the handlers of     *)
(* server/src/grpc-transport.ts that call them, toProtoParams of the       *)
(* client, and between them proto3 with the loader's `defaults: true`,     *)
(* under which a field that was not set reads as its zero.                 *)
(*                                                                         *)
(* A field is Absent (undefined), Zero ("", 0 or no bytes) or Set; a Set   *)
(* number that the wire has at 32 bits comes out Rounded.  One delegated   *)
(* task streams its events while unary calls come and go.                  *)
(***************************************************************************)
EXTENDS Naturals, Sequences, FiniteSets

CONSTANTS Results,      \* what handlers complete with: [minimal, compact, full]
          Filters,      \* what clients discover with: [query, top_k, threshold]
          Budgets,      \* what clients invoke, delegate and resume with
          taskRegistry, \* whether GrpcTransportConfig.taskRegistry is given
          MaxEvents     \* bounds the events the handler sends

Absent == "absent"
Zero == "zero"
Set == "set"
Rounded == "rounded"
Field == {Absent, Zero, Set}
Json == "json"     \* a JSON value of the program
Bytes == "bytes"   \* its encoding in a bytes field

MultiLevelResult ==
    [minimal : {Absent, Set}, compact : {Absent, Json}, full : {Absent, Json}]
DiscoverFilter == [{"query", "top_k", "threshold"} -> Field]
None == [f \in {} |-> Absent]   \* no field, or no message
TokenBudget == [max_tokens : {Zero, Set}, detail_level : {Set}]

ASSUME GrpcWireAssumption ==
    /\ Results \subseteq MultiLevelResult
    /\ Filters \subseteq DiscoverFilter \cup {None}
    /\ Budgets \subseteq TokenBudget \cup {None}
    /\ taskRegistry \in BOOLEAN
    /\ MaxEvents \in Nat

VARIABLES sent,     \* the events the handler's stream was given
          closed,   \* GrpcDelegateStream.closed
          wire,     \* serialised events on their way
          got,      \* the events the client's iteration can yield
          client,   \* "new", "reading", "ended", "down" (a callback threw)
          context,  \* the data of the one context the server may hold
          shared,   \* the data the clients last shared, and did not revoke
          last      \* the latest unary call: [method, asked, seen, answer]

wireVars == <<sent, closed, wire, got, client, context, shared, last>>
stream == <<sent, closed, wire, got, client>>
unary == <<context, shared, last>>

(***************************************************************************)
(* Proto3 with keepCase, defaults and oneofs: an unset scalar or bytes     *)
(* field comes out as its zero.                                            *)
(***************************************************************************)
Wired(r) == [f \in DOMAIN r |-> IF r[f] = Absent THEN Zero ELSE r[f]]

\* `x || undefined`
OrUndefined(r) == [f \in DOMAIN r |-> IF r[f] = Zero THEN Absent ELSE r[f]]

(***************************************************************************)
(* Events.  `strings` has the one optional string of an event: its         *)
(* message, reason, resolved_level or task_id, which the named methods of  *)
(* the stream leave out when it is empty, or the minimal result; `json`    *)
(* has what goes into bytes fields.                                        *)
(***************************************************************************)
FinalEvents == {"complete", "error", "cancelled"}
Text == [{"text"} -> {Absent, Set}]

SseEvents ==
    [event : {"progress", "error", "cancelled", "status_change"},
     strings : Text, json : {None}]
    \cup [event : {"partial"}, strings : Text, json : [{"output"} -> {Json}]]
    \cup [event : {"suspended", "resumed"}, strings : {None}, json : {None}]
    \cup {[event |-> "complete", strings |-> [minimal |-> out.minimal],
           json |-> [compact |-> out.compact, full |-> out.full]] : out \in Results}

jsonToBytes(r) == [f \in DOMAIN r |-> IF r[f] = Json THEN Bytes ELSE Absent]

\* The conversion below with the full result forgotten.
toProtoDelegateEvent_NoFull(e) ==
    [e EXCEPT !.json = jsonToBytes([f \in DOMAIN @ \ {"full"} |-> @[f]])]

toProtoDelegateEvent(e) == [e EXCEPT !.json = jsonToBytes(@)]

Serialised(p) == [p EXCEPT !.strings = Wired(@), !.json = Wired(@)]

\* JSON.parse of no bytes throws; a Buffer of no bytes is truthy, so the
\* tests `c.output.compact ?` and `c.output.full ?` do not keep it away.
Throws(p) == \E f \in DOMAIN p.json : p.json[f] = Zero

bytesToJson(r) == [f \in DOMAIN r |-> Json]

fromProtoDelegateEvent(p) == [p EXCEPT !.json = bytesToJson(@)]

WireInit ==
    /\ sent = <<>> /\ closed = FALSE /\ wire = <<>>
    /\ got = <<>> /\ client = "new"
    /\ context = Absent /\ shared = Absent
    /\ last = [method |-> "none"]

(***************************************************************************)
(* Calls.  What the client asks with and what the handler at the server    *)
(* sees: optional fields, and a budget.                                    *)
(***************************************************************************)
Asks(fields, budget) == [fields |-> fields, budget |-> budget]

fromProtoTokenBudget_ZeroIsUnset(budget) == OrUndefined(Wired(budget))

\* A message that was not sent is no message at the other side either.
fromProtoTokenBudget(budget) == Wired(budget)

Sees(ask) == Asks(OrUndefined(Wired(ask.fields)), fromProtoTokenBudget(ask.budget))

Answer(m, asked, seen, answer) ==
    last' = [method |-> m, asked |-> asked, seen |-> seen, answer |-> answer]

(***************************************************************************)
(* The stream of one delegated task.                                       *)
(***************************************************************************)
\* The task comes with its budget, which it always has, and with the data of a context envelope.
Delegate(budget) ==
    /\ client = "new"
    /\ client' = "reading"
    /\ Answer("delegate", Asks([data |-> Json], budget),
              [fields |-> bytesToJson(Wired(jsonToBytes([data |-> Json]))),
               budget |-> fromProtoTokenBudget(budget)], "stream")
    /\ UNCHANGED <<sent, closed, wire, got, context, shared>>

send(e) ==
    /\ client # "new" /\ ~closed /\ Len(sent) < MaxEvents
    /\ sent' = Append(sent, e)
    /\ wire' = Append(wire, Serialised(toProtoDelegateEvent(e)))
    /\ closed' = (e.event \in FinalEvents)
    /\ UNCHANGED <<got, client>> /\ UNCHANGED unary

\* The transport closes a stream its handler left open.
close ==
    /\ client # "new" /\ ~closed
    /\ closed' = TRUE
    /\ UNCHANGED <<sent, wire, got, client>> /\ UNCHANGED unary

OnData ==
    /\ client = "reading" /\ wire # <<>> /\ ~Throws(Head(wire))
    /\ got' = Append(got, fromProtoDelegateEvent(Head(wire)))
    /\ wire' = Tail(wire)
    /\ UNCHANGED <<sent, closed, client>> /\ UNCHANGED unary

\* The exception leaves an event emitter: it takes the process down unless the
\* application catches what nobody caught, and then only the event is lost.
OnDataThrows ==
    /\ client = "reading" /\ wire # <<>> /\ Throws(Head(wire))
    /\ wire' = Tail(wire)
    /\ client' \in {"reading", "down"}
    /\ UNCHANGED <<sent, closed, got>> /\ UNCHANGED unary

OnEnd ==
    /\ client = "reading" /\ wire = <<>> /\ closed
    /\ client' = "ended"
    /\ UNCHANGED <<sent, closed, wire, got>> /\ UNCHANGED unary

(***************************************************************************)
(* Unary calls.                                                            *)
(***************************************************************************)
\* The threshold is the one float of the protocol.
AsFloat(f) == [k \in DOMAIN f |-> IF k = "threshold" /\ f[k] = Set THEN Rounded ELSE f[k]]

\* The conversion below with top_k forgotten.
fromProtoDiscoverRequest_NoTopK(f) ==
    OrUndefined(Wired(AsFloat([f EXCEPT !.top_k = Absent])))

fromProtoDiscoverRequest(f) == OrUndefined(Wired(AsFloat(f)))

Discover(filter) ==
    /\ Answer("discover", Asks(filter, None), Asks(fromProtoDiscoverRequest(filter), None), "result")
    /\ UNCHANGED stream /\ UNCHANGED <<context, shared>>

\* The field is the version hash.  An error of the protocol is answered as
\* INTERNAL, with the protocol's data but not its code.
Invoke(h, budget) ==
    /\ \E answer \in {"result", "INTERNAL"} :
          Answer("invoke", Asks(h, budget), Sees(Asks(h, budget)), answer)
    /\ UNCHANGED stream /\ UNCHANGED <<context, shared>>

\* Only TaskCancel has a reason, and only TaskResume a budget.
TaskLifecycle(m, reason, budget) ==
    /\ client # "new"
    /\ Answer(m, Asks(reason, budget), Sees(Asks(reason, budget)),
              IF taskRegistry THEN "served" ELSE "UNIMPLEMENTED")
    /\ UNCHANGED stream /\ UNCHANGED <<context, shared>>

\* toProtoParams leaves nekte.context as it is, and a plain object where the
\* message has bytes is serialised as no bytes.
ContextShare ==
    /\ context' = Zero /\ shared' = Json
    /\ Answer("share", Json, Zero, "result")
    /\ UNCHANGED stream

\* The envelope found is the result itself; of ContextResponse it has the id
\* only, and the field `envelope` stays unset.
ContextRequest ==
    /\ Answer("request", shared, Absent, "result")
    /\ UNCHANGED stream /\ UNCHANGED <<context, shared>>

ContextRevoke ==
    /\ context' = Absent /\ shared' = Absent
    /\ Answer("revoke", Absent, Absent, "result")
    /\ UNCHANGED stream

WireNext ==
    \/ \E b \in Budgets \ {None} : Delegate(b)
    \/ \E e \in SseEvents : send(e)
    \/ close
    \/ OnData
    \/ OnDataThrows
    \/ OnEnd
    \/ \E f \in Filters : Discover(f)
    \/ \E h \in [{"h"} -> {Absent, Set}], b \in Budgets : Invoke(h, b)
    \/ \E r \in [{"reason"} -> Field] : TaskLifecycle("cancel", r, None)
    \/ \E b \in Budgets : TaskLifecycle("resume", None, b)
    \/ TaskLifecycle("status", None, None)
    \/ ContextShare
    \/ ContextRequest
    \/ ContextRevoke

WireSpec == WireInit /\ [][WireNext]_wireVars

-----------------------------------------------------------------------------
\* What a reader of proto3 is told of an event: an unset string is empty.
Told(e) == [e EXCEPT !.strings = Wired(@)]

\* An event whose result has all its levels, and so no bytes field without bytes.
Whole(e) == \A f \in DOMAIN e.json : e.json[f] # Absent

\* Which of the first n events are whole: the i-th of all events that is whole is
\* the Cardinality(WholeAmong(events, i))-th of the whole ones.
WholeAmong(events, n) == {i \in 1..n : Whole(events[i])}

\* What the iteration of a task delegated over gRPC yields is what its handler
\* sent, in order, none twice and with its results (grpc-stream.ts: handlers
\* work identically whether the transport is HTTP/SSE or gRPC), whatever an
\* event that cannot be read does to the client; and one that ends has had
\* every event but those, results without a compact or full level.
WholeEventsArrive ==
    /\ \A i \in WholeAmong(sent, Len(sent)) :
          LET k == Cardinality(WholeAmong(sent, i))
          IN  k <= Len(got) => got[k] = Told(sent[i])
    /\ Len(got) <= Cardinality(WholeAmong(sent, Len(sent)))
    /\ client = "ended" => Len(got) = Cardinality(WholeAmong(sent, Len(sent)))

\* What a field asked for may be read as: itself, to float precision if it is the
\* threshold, and only a field without a value as not given.
ReadsAs(k, asked, seen) ==
    /\ seen = Absent <=> asked \in {Absent, Zero}
    /\ seen # Absent => seen = IF k = "threshold" THEN Rounded ELSE asked

\* Whatever a call leaves out, the handler at the server sees the call that was made: the
\* budget exactly, with no tokens or none at all, and of hash, reason and filter every field
\* that has a value (grpc-types.ts:341-406).  A field that is empty or zero reads as not
\* given, so a threshold or top_k of 0 becomes the default (grpc-types.ts:374-375), and a
\* threshold is read to the precision of 32 bits (nekte.proto:132).  Of the contexts only a
\* delegated one arrives.
ServedAsAsked ==
    last.method \notin {"none", "share", "request", "revoke"} =>
        LET asked == last.asked.fields
            seen  == last.seen.fields
        IN  /\ last.seen.budget = last.asked.budget
            /\ DOMAIN seen = DOMAIN asked
            /\ \A k \in DOMAIN asked : ReadsAs(k, asked[k], seen[k])
=============================================================================
