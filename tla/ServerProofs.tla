------------------------- MODULE ServerProofs -------------------------
(***************************************************************************)
(* Theorems about three parts a server has besides its tasks: the context  *)
(* store, the messages of a gRPC connection and the requests of a          *)
(* WebSocket.  Of the contexts the invariant relates the age the server    *)
(* computes to the age the content really has: never younger, and exact    *)
(* after a share.                                                          *)
(***************************************************************************)
EXTENDS ContextStore, GrpcWire, WsSession, Integers, FiniteSetTheorems, SequenceTheorems, TLAPS

AgesAreSafe ==
  /\ byShare \subseteq stamped
  /\ \A id \in Stored \cap stamped : written[id] <= age[id]
  /\ \A id \in byShare : written[id] = age[id]

ContextInv ==
  /\ ContextTypeOK
  /\ StampsHaveContexts
  /\ AgesAreSafe
  /\ ServedWithinTtl

\* What has not expired by the server's reckoning is within its time to live.
LEMMA NotExpired ==
  ASSUME ContextTypeOK, AgesAreSafe, NEW id \in Stored, ~isExpired(id)
  PROVE  written[id] <= contexts[id].ttl_s
<1>1. contexts[id] \in Envelope
  BY DEF ContextTypeOK, Stored
<1>2. contexts[id].ttl_s \in 0..MaxTtl
  BY <1>1 DEF Envelope
<1>3. storedAge(id) <= contexts[id].ttl_s
  BY <1>2, MaxTtlAssumption DEF isExpired, storedAge, ContextTypeOK, Age, AgeCap, Stored
<1>4. id \in stamped
  BY <1>2, <1>3, MaxTtlAssumption DEF storedAge, AgeCap
<1>5. written[id] <= age[id] /\ storedAge(id) = age[id]
  BY <1>4 DEF AgesAreSafe, storedAge
<1>6. written[id] \in Int /\ age[id] \in Int
  BY MaxTtlAssumption DEF ContextTypeOK, Age, AgeCap, Stored
<1>7. QED
  BY <1>2, <1>3, <1>5, <1>6

\* Forgetting ids, with an answer that serves nothing, keeps the invariant.
LEMMA DropKeeps ==
  ASSUME ContextInv, NEW ids \in SUBSET ContextId, Drop(ids),
         reply' \in [answer : ContextAnswer \ {"context"}, id : ContextId]
  PROVE  ContextInv'
<1> USE DEF ContextInv
<1>1. ContextTypeOK'
  BY DEF ContextTypeOK, Drop
<1>2. Stored' = Stored \ ids
  BY DEF Stored, Drop
<1>3. StampsHaveContexts' /\ AgesAreSafe'
  BY <1>2 DEF StampsHaveContexts, AgesAreSafe, Drop
<1>4. reply'.answer # "context"
  OBVIOUS
<1>5. ServedWithinTtl'
  BY <1>4 DEF ServedWithinTtl
<1>6. QED
  BY <1>1, <1>3, <1>5

LEMMA ContextStepKeeps ==
  ASSUME ContextInv, [ContextNext]_contextVars
  PROVE  ContextInv'
<1>a. ContextTypeOK /\ StampsHaveContexts /\ AgesAreSafe /\ ServedWithinTtl
  BY DEF ContextInv
<1>b. 0 \in Age /\ \A a \in Age : OneOlder(a) \in Age /\ a <= OneOlder(a)
  BY MaxTtlAssumption DEF Age, AgeCap, OneOlder
<1>c. \A a, b \in Age : a <= b => OneOlder(a) <= OneOlder(b)
  BY MaxTtlAssumption DEF Age, AgeCap, OneOlder
<1>d. \A a \in ContextAnswer, id \in ContextId : Answers(a, id) =>
        reply' \in [answer : ContextAnswer, id : ContextId] /\ reply'.answer = a /\ reply'.id = id
  BY DEF Answers
<1>1. ASSUME NEW id \in ContextId, NEW env \in Envelope, Share(id, env) PROVE ContextInv'
  <2>1. reply' \in [answer : ContextAnswer, id : ContextId] /\ reply'.answer = "stored"
    BY <1>1, <1>d DEF Share, ContextAnswer
  <2>2. ContextTypeOK'
    BY <1>1, <1>a, <1>b, <2>1 DEF Share, ContextTypeOK
  <2>3. Stored' = Stored \cup {id}
    BY <1>1, <1>a, NoContextAssumption DEF Share, Stored, ContextTypeOK
  <2>4. StampsHaveContexts'
    BY <1>1, <1>a, <2>3 DEF Share, StampsHaveContexts
  <2>5. AgesAreSafe'
    BY <1>1, <1>a, <2>3 DEF Share, AgesAreSafe, ContextTypeOK, Stored
  <2>6. QED
    BY <2>1, <2>2, <2>4, <2>5 DEF ContextInv, ServedWithinTtl
<1>2. ASSUME NEW id \in ContextId, NEW env \in Envelope, DelegateStores(id, env) PROVE ContextInv'
  <2>1. reply' \in [answer : ContextAnswer, id : ContextId] /\ reply'.answer = "none"
    BY <1>2, <1>d DEF DelegateStores, ContextAnswer
  <2>2. ContextTypeOK'
    BY <1>2, <1>a, <1>b, <2>1 DEF DelegateStores, ContextTypeOK
  <2>3. Stored' = Stored \cup {id}
    BY <1>2, <1>a, NoContextAssumption DEF DelegateStores, Stored, ContextTypeOK
  <2>4. StampsHaveContexts'
    BY <1>2, <1>a, <2>3 DEF DelegateStores, StampsHaveContexts
  <2>5. AgesAreSafe'
    <3>1. \A x \in Stored' \cap stamped : written'[x] <= age[x]
      BY <1>2, <1>a, <2>3, MaxTtlAssumption
      DEF DelegateStores, AgesAreSafe, StampsHaveContexts, ContextTypeOK, Stored, Age, AgeCap
    <3>2. \A x \in byShare' : written'[x] = age[x]
      BY <1>2, <1>a DEF DelegateStores, AgesAreSafe, ContextTypeOK
    <3>3. QED
      BY <1>2, <1>a, <3>1, <3>2 DEF DelegateStores, AgesAreSafe
  <2>6. QED
    BY <2>1, <2>2, <2>4, <2>5 DEF ContextInv, ServedWithinTtl
<1>3. ASSUME NEW id \in ContextId, NEW wantsForward \in BOOLEAN, Request(id, wantsForward)
      PROVE  ContextInv'
  <2>1. CASE id \in Stored /\ isExpired(id) /\ Drop({id}) /\ Answers("expired", id)
    BY <2>1, DropKeeps, <1>d DEF ContextAnswer, Answers
  <2>2. ASSUME NEW a \in ContextAnswer \ {"context"}, Answers(a, id),
               UNCHANGED <<contexts, stamped, age, written, byShare>>
        PROVE  ContextInv'
    <3>1. reply' \in [answer : ContextAnswer, id : ContextId] /\ reply'.answer # "context"
      BY <1>d, <2>2
    <3>2. QED
      BY <1>a, <2>2, <3>1
      DEF ContextInv, ContextTypeOK, StampsHaveContexts, AgesAreSafe, ServedWithinTtl, Stored
  <2>3. CASE /\ id \in Stored /\ ~isExpired(id) /\ Answers("context", id)
             /\ UNCHANGED <<contexts, stamped, age, written, byShare>>
    <3>1. reply' \in [answer : ContextAnswer, id : ContextId] /\ reply'.id = id
      BY <1>d, <2>3 DEF ContextAnswer
    <3>2. written[id] <= contexts[id].ttl_s
      BY <1>a, <2>3, NotExpired
    <3>3. QED
      BY <1>a, <2>3, <3>1, <3>2
      DEF ContextInv, ContextTypeOK, StampsHaveContexts, AgesAreSafe, ServedWithinTtl, Stored
  <2>4. QED
    BY <1>3, <2>1, <2>2, <2>3 DEF Request, ContextAnswer
<1>4. ASSUME NEW id \in ContextId, Revoke(id) PROVE ContextInv'
  BY <1>4, DropKeeps, <1>d DEF Revoke, ContextAnswer, Answers
<1>5. CASE Tick
  <2>1. reply' \in [answer : ContextAnswer, id : ContextId] /\ reply'.answer = "none"
    BY <1>5, <1>a DEF Tick, ContextTypeOK, ContextAnswer
  <2>2. /\ \A id \in ContextId : age'[id] = OneOlder(age[id]) /\ written'[id] = OneOlder(written[id])
        /\ age' = [id \in ContextId |-> OneOlder(age[id])]
        /\ written' = [id \in ContextId |-> OneOlder(written[id])]
        /\ contexts' = contexts /\ stamped' = stamped /\ byShare' = byShare
    BY <1>5 DEF Tick
  <2>3. \A id \in ContextId : age[id] \in Age /\ written[id] \in Age
    BY <1>a DEF ContextTypeOK
  <2>4. ContextTypeOK'
    BY <1>a, <1>b, <2>1, <2>2, <2>3 DEF ContextTypeOK
  <2>5. AgesAreSafe'
    BY <1>a, <1>c, <2>2, <2>3 DEF AgesAreSafe, Stored, ContextTypeOK
  <2>6. QED
    BY <1>a, <2>1, <2>2, <2>4, <2>5 DEF ContextInv, StampsHaveContexts, ServedWithinTtl, Stored
<1>6. CASE cleanupExpiredContexts
  <2>1. reply' \in [answer : ContextAnswer \ {"context"}, id : ContextId]
    BY <1>6, <1>a DEF cleanupExpiredContexts, ContextTypeOK, ContextAnswer
  <2>2. {id \in Stored : isExpired(id)} \in SUBSET ContextId
    BY DEF Stored
  <2>3. QED
    BY <1>6, <2>1, <2>2, DropKeeps DEF cleanupExpiredContexts
<1>7. CASE UNCHANGED contextVars
  BY <1>7 DEF contextVars, ContextInv, ContextTypeOK, StampsHaveContexts, AgesAreSafe, ServedWithinTtl, Stored
<1>8. QED
  BY <1>1, <1>2, <1>3, <1>4, <1>5, <1>6, <1>7 DEF ContextNext

LEMMA ContextInvariant == ContextSpec => []ContextInv
<1>1. ContextInit => ContextInv
  BY MaxTtlAssumption DEF ContextInit, ContextInv, ContextTypeOK, StampsHaveContexts, AgesAreSafe,
     ServedWithinTtl, Stored, Age, AgeCap, ContextAnswer
<1>2. ContextInv /\ [ContextNext]_contextVars => ContextInv'
  BY ContextStepKeeps
<1>3. QED
  BY <1>1, <1>2, PTL DEF ContextSpec

\* Nothing is served later than its time to live allows, whichever way it was
\* stored: checked by context_store.
THEOREM NothingIsServedLate == ContextSpec => []ServedWithinTtl
BY ContextInvariant, PTL DEF ContextInv

\* No timestamp outlives its context.
THEOREM NoStampLeaks == ContextSpec => []StampsHaveContexts
BY ContextInvariant, PTL DEF ContextInv

\* A shared context is there until its time to live has passed, unless it is
\* revoked or written again: checked by context_store.
THEOREM SharedContextsLast == ContextSpec => SharedContextLivesItsTtl
<1>1. ContextInv /\ [ContextNext]_contextVars =>
        [\A id \in byShare :
           contexts'[id] = NoContext /\ ~(reply'.answer = "revoked" /\ reply'.id = id)
             => written[id] > contexts[id].ttl_s]_contextVars
  <2> SUFFICES ASSUME ContextInv, [ContextNext]_contextVars, NEW id \in byShare,
                      contexts'[id] = NoContext,
                      ~(reply'.answer = "revoked" /\ reply'.id = id)
               PROVE  written[id] > contexts[id].ttl_s
    OBVIOUS
  <2>a. ContextTypeOK /\ AgesAreSafe /\ StampsHaveContexts
    BY DEF ContextInv
  <2>b. id \in ContextId /\ id \in stamped /\ contexts[id] # NoContext
    BY <2>a DEF ContextTypeOK, AgesAreSafe, StampsHaveContexts, Stored
  <2>1. ASSUME NEW ids, Drop(ids), \A x \in ids : isExpired(x)
        PROVE  written[id] > contexts[id].ttl_s
    <3>1. isExpired(id)
      BY <2>1, <2>b DEF Drop
    <3>2. QED
      BY <2>a, <2>b, <3>1 DEF isExpired, storedAge, AgesAreSafe
  <2>2. ASSUME NEW x \in ContextId, NEW env \in Envelope, Share(x, env) \/ DelegateStores(x, env)
        PROVE  FALSE
    BY <2>2, <2>a, <2>b, NoContextAssumption DEF Share, DelegateStores, ContextTypeOK
  <2>3. ASSUME NEW x \in ContextId, NEW w \in BOOLEAN, Request(x, w)
        PROVE  written[id] > contexts[id].ttl_s
    BY <2>1, <2>3, <2>b DEF Request
  <2>4. ASSUME NEW x \in ContextId, Revoke(x) PROVE FALSE
    BY <2>4, <2>b DEF Revoke, Drop, Answers
  <2>5. CASE cleanupExpiredContexts
    BY <2>1, <2>5 DEF cleanupExpiredContexts
  <2>6. QED
    BY <2>b, <2>2, <2>3, <2>4, <2>5 DEF ContextNext, Tick, contextVars
<1>2. QED
  BY <1>1, ContextInvariant, PTL DEF ContextSpec, SharedContextLivesItsTtl

----------------------------------------------------------------------------
(* The messages of a gRPC connection.                                       *)

\* The parts of an event.
EventParts(e, ev, st, js) ==
  /\ e = [event |-> ev, strings |-> st, json |-> js]
  /\ js \in [DOMAIN js -> {Absent, Json}]

LEMMA EventsHaveParts ==
  ASSUME NEW e \in SseEvents
  PROVE  \E ev, st, js : EventParts(e, ev, st, js)
<1>1. CASE e \in [event : {"progress", "error", "cancelled", "status_change"},
                  strings : Text, json : {None}]
  <2>1. e = [event |-> e.event, strings |-> e.strings, json |-> None]
    BY <1>1
  <2>2. None \in [DOMAIN None -> {Absent, Json}]
    BY DEF None
  <2>3. QED
    BY <2>1, <2>2 DEF EventParts
<1>2. CASE e \in [event : {"partial"}, strings : Text, json : [{"output"} -> {Json}]]
  <2>1. e = [event |-> e.event, strings |-> e.strings, json |-> e.json]
    BY <1>2
  <2>2. e.json \in [DOMAIN e.json -> {Absent, Json}]
    BY <1>2
  <2>3. QED
    BY <2>1, <2>2 DEF EventParts
<1>3. CASE e \in [event : {"suspended", "resumed"}, strings : {None}, json : {None}]
  <2>1. e = [event |-> e.event, strings |-> e.strings, json |-> None]
    BY <1>3
  <2>2. None \in [DOMAIN None -> {Absent, Json}]
    BY DEF None
  <2>3. QED
    BY <2>1, <2>2 DEF EventParts
<1>4. ASSUME NEW out \in Results,
             e = [event |-> "complete", strings |-> [minimal |-> out.minimal],
                  json |-> [compact |-> out.compact, full |-> out.full]]
      PROVE  \E ev, st, js : EventParts(e, ev, st, js)
  <2>1. out.compact \in {Absent, Json} /\ out.full \in {Absent, Json}
    BY GrpcWireAssumption DEF MultiLevelResult
  <2>2. PICK js : js = [compact |-> out.compact, full |-> out.full]
    OBVIOUS
  <2>3. js \in [DOMAIN js -> {Absent, Json}]
    BY <2>1, <2>2
  <2>4. QED
    BY <1>4, <2>2, <2>3 DEF EventParts
<1>5. QED
  BY <1>1, <1>2, <1>3, <1>4 DEF SseEvents

\* What is on the wire for an event, read at the other side: whole events throw
\* nothing and are told, the others throw.
Sent(e) == Serialised(toProtoDelegateEvent(e))

LEMMA WhatArrives ==
  ASSUME NEW e \in SseEvents
  PROVE  /\ Whole(e) => ~Throws(Sent(e)) /\ fromProtoDelegateEvent(Sent(e)) = Told(e)
         /\ ~Whole(e) => Throws(Sent(e))
<1>1. PICK ev, st, js : EventParts(e, ev, st, js)
  BY EventsHaveParts
<1>2. e = [event |-> ev, strings |-> st, json |-> js] /\ js \in [DOMAIN js -> {Absent, Json}]
  BY <1>1 DEF EventParts
<1> HIDE DEF EventParts
<1>3. PICK p : p = Wired(jsonToBytes(js))
  OBVIOUS
<1>4. /\ DOMAIN p = DOMAIN js
      /\ \A f \in DOMAIN js : p[f] = (IF js[f] = Json THEN Bytes ELSE Zero)
  BY <1>3 DEF Wired, jsonToBytes, Absent, Bytes, Zero
<1>5. toProtoDelegateEvent(e) = [event |-> ev, strings |-> st, json |-> jsonToBytes(js)]
  BY <1>2 DEF toProtoDelegateEvent
<1>6. Sent(e) = [event |-> ev, strings |-> Wired(st), json |-> p]
  <2>1. PICK q : q = jsonToBytes(js)
    OBVIOUS
  <2>2. Sent(e) = Serialised([event |-> ev, strings |-> st, json |-> q])
    BY <1>5, <2>1 DEF Sent
  <2>3. PICK r : r = [event |-> ev, strings |-> st, json |-> q]
    OBVIOUS
  <2>4. PICK t, u : t = Wired(st) /\ u = Wired(q)
    OBVIOUS
  <2>5. r.strings = st /\ r.json = q
    BY <2>3
  <2>6. Serialised(r) = [r EXCEPT !.strings = t, !.json = u]
    BY <2>4, <2>5 DEF Serialised
  <2>7. Serialised(r) = [event |-> ev, strings |-> t, json |-> u]
    BY <2>3, <2>6
  <2>8. QED
    BY <1>3, <2>1, <2>2, <2>3, <2>4, <2>7
<1>7. Throws(Sent(e)) <=> \E f \in DOMAIN js : js[f] # Json
  BY <1>4, <1>6 DEF Throws, Zero, Bytes
<1>8. Whole(e) <=> \A f \in DOMAIN js : js[f] = Json
  BY <1>2 DEF Whole, Absent, Json
<1>9. ASSUME Whole(e) PROVE fromProtoDelegateEvent(Sent(e)) = Told(e)
  <2>1. fromProtoDelegateEvent(Sent(e)) = [event |-> ev, strings |-> Wired(st), json |-> bytesToJson(p)]
    BY <1>6 DEF fromProtoDelegateEvent
  <2>2. Told(e) = [event |-> ev, strings |-> Wired(st), json |-> js]
    BY <1>2 DEF Told
  <2>3. bytesToJson(p) = js
    BY <1>2, <1>4, <1>8, <1>9 DEF bytesToJson
  <2>4. QED
    BY <2>1, <2>2, <2>3
<1>10. QED
  BY <1>7, <1>8, <1>9

\* How many events have been read off the wire.
Delivered == Len(sent) - Len(wire)

\* The wire holds the last of the events sent, and the client the whole ones
\* of all before them.
EventsInv ==
  /\ sent \in Seq(SseEvents)
  /\ wire \in Seq({Sent(e) : e \in SseEvents})
  /\ got \in Seq({Told(e) : e \in SseEvents})
  /\ Len(wire) <= Len(sent)
  /\ \A i \in 1..Len(wire) : wire[i] = Sent(sent[Delivered + i])
  /\ Len(got) = Cardinality(WholeAmong(sent, Delivered))
  /\ \A i \in WholeAmong(sent, Delivered) :
       got[Cardinality(WholeAmong(sent, i))] = Told(sent[i])
  /\ client = "ended" => wire = <<>> /\ closed

LEMMA WholeCount ==
  ASSUME NEW s, NEW n \in Nat, NEW m \in Nat, n <= m
  PROVE  /\ IsFiniteSet(WholeAmong(s, n))
         /\ Cardinality(WholeAmong(s, n)) \in Nat
         /\ WholeAmong(s, n) \subseteq WholeAmong(s, m)
         /\ Cardinality(WholeAmong(s, n)) <= Cardinality(WholeAmong(s, m))
<1>1. \A k \in Nat : IsFiniteSet(WholeAmong(s, k))
  <2> SUFFICES ASSUME NEW k \in Nat PROVE IsFiniteSet(WholeAmong(s, k))
    OBVIOUS
  <2>1. IsFiniteSet(1..k)
    BY FS_Interval
  <2>2. WholeAmong(s, k) \subseteq 1..k
    BY DEF WholeAmong
  <2>3. QED
    BY <2>1, <2>2, FS_Subset
<1>2. WholeAmong(s, n) \subseteq WholeAmong(s, m)
  BY DEF WholeAmong
<1>3. QED
  BY <1>1, <1>2, FS_Subset, FS_CardinalityType

\* A whole event counts one, another none.
LEMMA OneMore ==
  ASSUME NEW s, NEW n \in Nat, NEW m, m = n + 1
  PROVE  /\ Whole(s[m]) => /\ WholeAmong(s, m) = WholeAmong(s, n) \cup {m}
                           /\ Cardinality(WholeAmong(s, m)) = Cardinality(WholeAmong(s, n)) + 1
         /\ ~Whole(s[m]) => WholeAmong(s, m) = WholeAmong(s, n)
<1>0. n <= n
  OBVIOUS
<1>1. IsFiniteSet(WholeAmong(s, n)) /\ m \notin WholeAmong(s, n)
  <2>1. IsFiniteSet(WholeAmong(s, n))
    BY <1>0, WholeCount
  <2>2. m \notin WholeAmong(s, n)
    BY DEF WholeAmong
  <2>3. QED
    BY <2>1, <2>2
<1>2. Whole(s[m]) => WholeAmong(s, m) = WholeAmong(s, n) \cup {m}
  BY DEF WholeAmong
<1>3. ~Whole(s[m]) => WholeAmong(s, m) = WholeAmong(s, n)
  BY DEF WholeAmong
<1>4. Cardinality(WholeAmong(s, n) \cup {m}) = Cardinality(WholeAmong(s, n)) + 1
  BY <1>1, FS_AddElement
<1>5. QED
  BY <1>2, <1>3, <1>4

\* A whole event is at least the first of its kind.
LEMMA CountsItself ==
  ASSUME NEW s, NEW n \in Nat, NEW i \in WholeAmong(s, n)
  PROVE  /\ i \in Nat /\ i \in 1..n
         /\ Cardinality(WholeAmong(s, i)) \in Nat
         /\ 1 <= Cardinality(WholeAmong(s, i))
         /\ Cardinality(WholeAmong(s, i)) <= Cardinality(WholeAmong(s, n))
<1>1. i \in Nat /\ i \in 1..n /\ i \in WholeAmong(s, i)
  BY DEF WholeAmong
<1>2. IsFiniteSet(WholeAmong(s, i)) /\ Cardinality(WholeAmong(s, i)) \in Nat
  BY <1>1, WholeCount
<1>3. Cardinality(WholeAmong(s, i)) # 0
  BY <1>1, <1>2, FS_EmptySet
<1>4. Cardinality(WholeAmong(s, i)) <= Cardinality(WholeAmong(s, n))
  BY <1>1, WholeCount
<1>5. QED
  BY <1>1, <1>2, <1>3, <1>4

LEMMA EventsArrive ==
  ASSUME EventsInv
  PROVE  WholeEventsArrive
<1>1. Len(sent) \in Nat /\ Len(wire) \in Nat /\ Len(got) \in Nat /\ Delivered \in Nat
      /\ Delivered <= Len(sent)
  BY DEF EventsInv, Delivered
<1>2. Len(got) <= Cardinality(WholeAmong(sent, Len(sent)))
  BY <1>1, WholeCount DEF EventsInv
<1>3. ASSUME client = "ended" PROVE Len(got) = Cardinality(WholeAmong(sent, Len(sent)))
  BY <1>1, <1>3 DEF EventsInv, Delivered
<1>4. ASSUME NEW i \in WholeAmong(sent, Len(sent)), Cardinality(WholeAmong(sent, i)) <= Len(got)
      PROVE  got[Cardinality(WholeAmong(sent, i))] = Told(sent[i])
  <2>1. i \in 1..Len(sent) /\ Whole(sent[i])
    BY <1>1 DEF WholeAmong
  <2>2. CASE i <= Delivered
    <3>1. i \in WholeAmong(sent, Delivered)
      BY <1>1, <2>1, <2>2 DEF WholeAmong
    <3>2. \A m \in WholeAmong(sent, Delivered) :
             got[Cardinality(WholeAmong(sent, m))] = Told(sent[m])
      BY DEF EventsInv
    <3>3. QED
      BY <3>1, <3>2
  <2>3. CASE i > Delivered
    <3>1. PICK n \in Nat : i = n + 1 /\ Delivered <= n
      BY <1>1, <2>1, <2>3
    <3>2. Cardinality(WholeAmong(sent, i)) = Cardinality(WholeAmong(sent, n)) + 1
      BY <2>1, <3>1, OneMore
    <3>3. Cardinality(WholeAmong(sent, n)) \in Nat /\ Cardinality(WholeAmong(sent, Delivered)) \in Nat
          /\ Cardinality(WholeAmong(sent, Delivered)) <= Cardinality(WholeAmong(sent, n))
      BY <1>1, <3>1, WholeCount
    <3>4. QED
      BY <1>4, <3>2, <3>3 DEF EventsInv
  <2>4. QED
    BY <1>1, <2>1, <2>2, <2>3
<1>5. QED
  BY <1>2, <1>3, <1>4 DEF WholeEventsArrive

\* The event read first is the first not delivered.
LEMMA HeadIsNext ==
  ASSUME EventsInv, wire # <<>>, wire' = Tail(wire), sent' = sent
  PROVE  \E n \in Nat : /\ n = Delivered + 1 /\ n \in 1..Len(sent)
                        /\ Delivered \in Nat /\ Delivered' = n
                        /\ Head(wire) = Sent(sent[n]) /\ sent[n] \in SseEvents
                        /\ wire' \in Seq({Sent(e) : e \in SseEvents})
                        /\ Len(wire') <= Len(sent)
                        /\ \A i \in 1..Len(wire') : wire'[i] = Sent(sent[n + i])
<1>1. sent \in Seq(SseEvents) /\ wire \in Seq({Sent(e) : e \in SseEvents})
  BY DEF EventsInv
<1>2. PICK a \in Nat, b \in Nat : a = Len(sent) /\ b = Len(wire)
  BY <1>1
<1>3. 0 < b /\ b <= a
  BY <1>1, <1>2 DEF EventsInv
<1>4. PICK n \in Nat : n = a - b + 1
  BY <1>3
<1>5. Delivered \in Nat /\ n = Delivered + 1 /\ n \in 1..Len(sent)
  BY <1>2, <1>3, <1>4 DEF Delivered
<1>6. /\ wire' \in Seq({Sent(e) : e \in SseEvents}) /\ Len(wire') = b - 1
      /\ \A i \in 1..Len(wire') : wire'[i] = wire[i + 1]
      /\ Head(wire) = wire[1]
  BY <1>1, <1>2, <1>3
<1>7. Delivered' = n
  BY <1>2, <1>3, <1>4, <1>6 DEF Delivered
<1>8. \A i \in 1..b : wire[i] = Sent(sent[Delivered + i])
  BY <1>2 DEF EventsInv
<1>9. \A i \in 1..Len(wire') : i + 1 \in 1..b /\ Delivered + (i + 1) = n + i
  BY <1>2, <1>3, <1>5, <1>6
<1>10. \A i \in 1..Len(wire') : wire'[i] = Sent(sent[n + i])
  BY <1>6, <1>8, <1>9
<1>11. 1 \in 1..b /\ sent[n] \in SseEvents
  BY <1>1, <1>3, <1>5
<1>12. Head(wire) = Sent(sent[n])
  BY <1>5, <1>6, <1>8, <1>11
<1>13. Len(wire') <= Len(sent)
  BY <1>2, <1>3, <1>6
<1>14. QED
  BY <1>5, <1>6, <1>7, <1>10, <1>11, <1>12, <1>13

LEMMA SendKeeps ==
  ASSUME EventsInv, NEW e \in SseEvents, send(e)
  PROVE  EventsInv'
<1>1. /\ sent' = Append(sent, e) /\ got' = got /\ client' = client
      /\ wire' = Append(wire, Sent(e)) /\ closed = FALSE
  BY DEF send, Sent
<1>2. /\ sent \in Seq(SseEvents) /\ wire \in Seq({Sent(x) : x \in SseEvents})
      /\ got \in Seq({Told(x) : x \in SseEvents})
  BY DEF EventsInv
<1>3. PICK a \in Nat, b \in Nat : a = Len(sent) /\ b = Len(wire) /\ b <= a
  BY <1>2 DEF EventsInv
<1>4. /\ sent' \in Seq(SseEvents) /\ Len(sent') = a + 1
      /\ \A i \in 1..a : sent'[i] = sent[i]
      /\ sent'[a + 1] = e
  BY <1>1, <1>2, <1>3
<1>5. /\ wire' \in Seq({Sent(x) : x \in SseEvents}) /\ Len(wire') = b + 1
      /\ \A i \in 1..b : wire'[i] = wire[i]
      /\ wire'[b + 1] = Sent(e)
  BY <1>1, <1>2, <1>3
<1>6. PICK d \in Nat : d = a - b
  BY <1>3
<1>7. d = Delivered /\ Delivered' = d
  BY <1>3, <1>4, <1>5, <1>6 DEF Delivered
<1>8. \A n \in 0..d : WholeAmong(sent', n) = WholeAmong(sent, n)
  <2> SUFFICES ASSUME NEW n \in 0..d PROVE WholeAmong(sent', n) = WholeAmong(sent, n)
    OBVIOUS
  <2>1. \A i \in 1..n : sent'[i] = sent[i]
    BY <1>3, <1>4, <1>6
  <2>2. QED
    BY <2>1 DEF WholeAmong
<1>9. ASSUME NEW i \in 1..b + 1 PROVE wire'[i] = Sent(sent'[d + i])
  <2>1. CASE i \in 1..b
    <3>1. d + i \in 1..a
      BY <1>3, <1>6, <2>1
    <3>2. wire[i] = Sent(sent[d + i])
      BY <1>3, <1>7, <2>1 DEF EventsInv
    <3>3. QED
      BY <1>4, <1>5, <2>1, <3>1, <3>2
  <2>2. CASE i = b + 1
    <3>1. d + i = a + 1
      BY <1>3, <1>6, <2>2
    <3>2. QED
      BY <1>4, <1>5, <2>2, <3>1
  <2>3. QED
    BY <1>3, <2>1, <2>2
<1>10. d \in 0..d
  BY <1>6
<1>11. Len(got) = Cardinality(WholeAmong(sent', d))
  BY <1>7, <1>8, <1>10 DEF EventsInv
<1>12. ASSUME NEW i \in WholeAmong(sent', d)
       PROVE  got[Cardinality(WholeAmong(sent', i))] = Told(sent'[i])
  <2>1. i \in WholeAmong(sent, d) /\ i \in 1..d /\ i \in 0..d /\ i \in 1..a
    BY <1>3, <1>6, <1>8, <1>10 DEF WholeAmong
  <2>2. got[Cardinality(WholeAmong(sent, i))] = Told(sent[i])
    BY <1>7, <2>1 DEF EventsInv
  <2>3. QED
    BY <1>4, <1>8, <2>1, <2>2
<1>13. client # "ended"
  BY <1>1 DEF EventsInv
<1>14. Len(wire') <= Len(sent')
  BY <1>3, <1>4, <1>5
<1>15. \A i \in 1..Len(wire') : wire'[i] = Sent(sent'[Delivered' + i])
  BY <1>5, <1>7, <1>9
<1>16. /\ Len(got') = Cardinality(WholeAmong(sent', Delivered'))
       /\ \A i \in WholeAmong(sent', Delivered') :
            got'[Cardinality(WholeAmong(sent', i))] = Told(sent'[i])
  BY <1>1, <1>7, <1>11, <1>12
<1>17. QED
  BY <1>1, <1>2, <1>4, <1>5, <1>13, <1>14, <1>15, <1>16 DEF EventsInv

LEMMA OnDataKeeps ==
  ASSUME EventsInv, OnData
  PROVE  EventsInv'
<1>1. /\ client = "reading" /\ client' = client /\ sent' = sent /\ closed' = closed
      /\ wire # <<>> /\ wire' = Tail(wire) /\ ~Throws(Head(wire))
      /\ got' = Append(got, fromProtoDelegateEvent(Head(wire)))
  BY DEF OnData
<1>2. PICK n \in Nat : /\ n = Delivered + 1 /\ n \in 1..Len(sent)
                       /\ Delivered \in Nat /\ Delivered' = n
                       /\ Head(wire) = Sent(sent[n]) /\ sent[n] \in SseEvents
                       /\ wire' \in Seq({Sent(e) : e \in SseEvents})
                       /\ Len(wire') <= Len(sent)
                       /\ \A i \in 1..Len(wire') : wire'[i] = Sent(sent[n + i])
  BY <1>1, HeadIsNext
<1>3. Whole(sent[n]) /\ fromProtoDelegateEvent(Head(wire)) = Told(sent[n])
  BY <1>1, <1>2, WhatArrives
<1>4. /\ WholeAmong(sent, n) = WholeAmong(sent, Delivered) \cup {n}
      /\ Cardinality(WholeAmong(sent, n)) = Cardinality(WholeAmong(sent, Delivered)) + 1
  BY <1>2, <1>3, OneMore
<1>5. PICK g \in Nat : g = Len(got)
  BY DEF EventsInv
<1>6. /\ got' \in Seq({Told(e) : e \in SseEvents}) /\ Len(got') = g + 1
      /\ \A k \in 1..g : got'[k] = got[k]
      /\ got'[g + 1] = Told(sent[n])
  BY <1>1, <1>2, <1>3, <1>5 DEF EventsInv
<1>7. g = Cardinality(WholeAmong(sent, Delivered))
  BY <1>5 DEF EventsInv
<1>8. ASSUME NEW i \in WholeAmong(sent, n)
      PROVE  got'[Cardinality(WholeAmong(sent, i))] = Told(sent[i])
  <2>1. CASE i = n
    BY <1>4, <1>6, <1>7, <2>1
  <2>2. CASE i \in WholeAmong(sent, Delivered)
    <3>1. Cardinality(WholeAmong(sent, i)) \in 1..g
      BY <1>2, <1>5, <1>7, <2>2, CountsItself
    <3>2. got[Cardinality(WholeAmong(sent, i))] = Told(sent[i])
      BY <2>2 DEF EventsInv
    <3>3. QED
      BY <1>6, <3>1, <3>2
  <2>3. QED
    BY <1>4, <2>1, <2>2
<1>9. Len(got') = Cardinality(WholeAmong(sent, n))
  BY <1>4, <1>6, <1>7
<1>10. sent \in Seq(SseEvents)
  BY DEF EventsInv
<1>11. QED
  BY <1>1, <1>2, <1>6, <1>8, <1>9, <1>10 DEF EventsInv

LEMMA OnDataThrowsKeeps ==
  ASSUME EventsInv, OnDataThrows
  PROVE  EventsInv'
<1>1. /\ client' # "ended" /\ sent' = sent /\ got' = got
      /\ wire # <<>> /\ wire' = Tail(wire) /\ Throws(Head(wire))
  BY DEF OnDataThrows
<1>2. PICK n \in Nat : /\ n = Delivered + 1 /\ n \in 1..Len(sent)
                       /\ Delivered \in Nat /\ Delivered' = n
                       /\ Head(wire) = Sent(sent[n]) /\ sent[n] \in SseEvents
                       /\ wire' \in Seq({Sent(e) : e \in SseEvents})
                       /\ Len(wire') <= Len(sent)
                       /\ \A i \in 1..Len(wire') : wire'[i] = Sent(sent[n + i])
  BY <1>1, HeadIsNext
<1>3. ~Whole(sent[n])
  BY <1>1, <1>2, WhatArrives
<1>4. WholeAmong(sent, n) = WholeAmong(sent, Delivered)
  BY <1>2, <1>3, OneMore
<1>5. QED
  BY <1>1, <1>2, <1>4 DEF EventsInv

LEMMA EventsStepKeeps ==
  ASSUME EventsInv, [WireNext]_wireVars
  PROVE  EventsInv'
<1>1. ASSUME UNCHANGED <<sent, wire, got>>, closed => closed',
             client' = "ended" => client = "ended" \/ (wire = <<>> /\ closed)
      PROVE  EventsInv'
  BY <1>1 DEF EventsInv, Delivered
<1>2. ASSUME NEW e \in SseEvents, send(e) PROVE EventsInv'
  BY <1>2, SendKeeps
<1>3. CASE OnData
  BY <1>3, OnDataKeeps
<1>4. CASE OnDataThrows
  BY <1>4, OnDataThrowsKeeps
<1>5. CASE close \/ OnEnd \/ \E b \in Budgets : Delegate(b)
  BY <1>1, <1>5 DEF close, OnEnd, Delegate, unary
<1>6. CASE UNCHANGED stream
  BY <1>1, <1>6 DEF stream
<1>7. QED
  <2>1. ASSUME NEW f, Discover(f) PROVE UNCHANGED stream
    BY <2>1 DEF Discover
  <2>2. ASSUME NEW h, NEW b, Invoke(h, b) PROVE UNCHANGED stream
    BY <2>2 DEF Invoke
  <2>3. ASSUME NEW m, NEW r, NEW b, TaskLifecycle(m, r, b) PROVE UNCHANGED stream
    BY <2>3 DEF TaskLifecycle
  <2>4. ContextShare \/ ContextRequest \/ ContextRevoke => UNCHANGED stream
    BY DEF ContextShare, ContextRequest, ContextRevoke
  <2>5. UNCHANGED wireVars => UNCHANGED stream
    BY DEF wireVars, stream
  <2>6. QED
    BY <1>2, <1>3, <1>4, <1>5, <1>6, <2>1, <2>2, <2>3, <2>4, <2>5 DEF WireNext

\* What the iteration of a task delegated over gRPC yields is what its handler sent:
\* checked by grpc_wire.
THEOREM EventsArriveWhole == WireSpec => []WholeEventsArrive
<1>1. WireInit => EventsInv
  <2> SUFFICES ASSUME WireInit PROVE EventsInv
    OBVIOUS
  <2>1. sent = <<>> /\ wire = <<>> /\ got = <<>> /\ client = "new"
    BY DEF WireInit
  <2>2. Delivered = 0 /\ Len(sent) = 0 /\ Len(got) = 0 /\ Len(wire) = 0
    BY <2>1 DEF Delivered
  <2>3. WholeAmong(sent, Delivered) = {}
    BY <2>2 DEF WholeAmong
  <2>4. Cardinality(WholeAmong(sent, Delivered)) = 0
    BY <2>3, FS_EmptySet
  <2>5. QED
    BY <2>1, <2>2, <2>3, <2>4 DEF EventsInv
<1>2. EventsInv /\ [WireNext]_wireVars => EventsInv'
  BY EventsStepKeeps
<1>3. EventsInv => WholeEventsArrive
  BY EventsArrive
<1>4. QED
  BY <1>1, <1>2, <1>3, PTL DEF WireSpec

\* What a field without a value, and what a field with one, is at the other side.
LEMMA FieldsArrive ==
  ASSUME NEW S, NEW f, DOMAIN f = S
  PROVE  /\ DOMAIN OrUndefined(Wired(f)) = S
         /\ \A k \in S : OrUndefined(Wired(f))[k] = IF f[k] \in {Absent, Zero} THEN Absent ELSE f[k]
<1>1. PICK g : g = Wired(f)
  OBVIOUS
<1>2. DOMAIN g = S /\ \A k \in S : g[k] = (IF f[k] = Absent THEN Zero ELSE f[k])
  BY <1>1 DEF Wired
<1>3. PICK h : h = OrUndefined(g)
  OBVIOUS
<1>4. h = [k \in S |-> IF g[k] = Zero THEN Absent ELSE g[k]]
  BY <1>2, <1>3 DEF OrUndefined
<1>5. \A k \in S : h[k] = IF f[k] \in {Absent, Zero} THEN Absent ELSE f[k]
  BY <1>2, <1>4 DEF Absent, Zero
<1>6. QED
  BY <1>1, <1>3, <1>4, <1>5

\* A field that comes out with its value, or without one as not given, reads as it may.
LEMMA ReadAsAsked ==
  ASSUME NEW asked, NEW seen, NEW b, NEW m, NEW a, Answer(m, Asks(asked, b), Asks(seen, b), a),
         DOMAIN seen = DOMAIN asked, \A k \in DOMAIN asked : ReadsAs(k, asked[k], seen[k])
  PROVE  ServedAsAsked'
<1>1. PICK x, y : x = Asks(asked, b) /\ y = Asks(seen, b)
  OBVIOUS
<1>2. x.fields = asked /\ y.fields = seen /\ x.budget = b /\ y.budget = b
  BY <1>1 DEF Asks
<1>3. last'.asked = x /\ last'.seen = y
  BY <1>1 DEF Answer
<1>4. QED
  BY <1>2, <1>3 DEF ServedAsAsked

LEMMA NoneIsNoFields == DOMAIN None = {} /\ None \in [{} -> Field]
BY DEF None

LEMMA BudgetArrives ==
  ASSUME NEW b \in TokenBudget \cup {None}
  PROVE  fromProtoTokenBudget(b) = b
<1>1. \A k \in DOMAIN b : b[k] # Absent
  BY DEF TokenBudget, None, Absent, Set, Zero
<1>2. b = [k \in DOMAIN b |-> b[k]]
  BY DEF TokenBudget, None
<1>3. Wired(b) = [k \in DOMAIN b |-> b[k]]
  BY <1>1 DEF Wired
<1>4. QED
  BY <1>2, <1>3 DEF fromProtoTokenBudget

LEMMA ServedStep ==
  ASSUME ServedAsAsked, [WireNext]_wireVars
  PROVE  ServedAsAsked'
<1>0. Budgets \subseteq TokenBudget \cup {None} /\ Filters \subseteq DiscoverFilter \cup {None}
  BY GrpcWireAssumption
<1>1. ASSUME last' = last PROVE ServedAsAsked'
  BY <1>1 DEF ServedAsAsked
<1>2. ASSUME NEW b \in Budgets, Delegate(b) PROVE ServedAsAsked'
  <2>1. PICK d : d = [data |-> Json]
    OBVIOUS
  <2>2. PICK w : w = Wired(jsonToBytes(d))
    OBVIOUS
  <2>3. DOMAIN w = {"data"} /\ DOMAIN d = {"data"} /\ \A k \in {"data"} : d[k] = Json
    BY <2>1, <2>2 DEF Wired, jsonToBytes
  <2>4. bytesToJson(w) = d
    BY <2>1, <2>3 DEF bytesToJson
  <2>5. fromProtoTokenBudget(b) = b
    BY <1>0, BudgetArrives
  <2>6. Answer("delegate", Asks(d, b), [fields |-> bytesToJson(w), budget |-> fromProtoTokenBudget(b)],
               "stream")
    BY <1>2, <2>1, <2>2 DEF Delegate
  <2>7. Answer("delegate", Asks(d, b), Asks(d, b), "stream")
    BY <2>4, <2>5, <2>6 DEF Asks
  <2>8. \A k \in DOMAIN d : ReadsAs(k, d[k], d[k])
    BY <2>3 DEF ReadsAs, Json, Absent, Zero
  <2>9. QED
    BY <2>7, <2>8, ReadAsAsked
<1>3. ASSUME NEW f \in Filters, Discover(f) PROVE ServedAsAsked'
  <2>1. PICK g : g = AsFloat(f)
    OBVIOUS
  <2>2. /\ DOMAIN g = DOMAIN f
        /\ \A k \in DOMAIN f : g[k] = IF k = "threshold" /\ f[k] = Set THEN Rounded ELSE f[k]
    BY <2>1 DEF AsFloat
  <2>3. PICK seen : seen = fromProtoDiscoverRequest(f)
    OBVIOUS
  <2>4. seen = OrUndefined(Wired(g))
    BY <2>1, <2>3 DEF fromProtoDiscoverRequest
  <2>5. /\ DOMAIN seen = DOMAIN f
        /\ \A k \in DOMAIN f : seen[k] = IF g[k] \in {Absent, Zero} THEN Absent ELSE g[k]
    BY <2>2, <2>4, FieldsArrive
  <2>6. \A k \in DOMAIN f : f[k] \in Field
    BY <1>0 DEF DiscoverFilter, None
  <2>7. \A k \in DOMAIN f : ReadsAs(k, f[k], seen[k])
    BY <2>2, <2>5, <2>6 DEF ReadsAs, Field, Absent, Zero, Set, Rounded
  <2>8. Answer("discover", Asks(f, None), Asks(seen, None), "result")
    BY <1>3, <2>3 DEF Discover
  <2>9. QED
    BY <2>5, <2>7, <2>8, ReadAsAsked
<1>4. ASSUME NEW m, NEW a, NEW S, "threshold" \notin S, NEW f \in [S -> Field],
             NEW b \in TokenBudget \cup {None}, Answer(m, Asks(f, b), Sees(Asks(f, b)), a)
      PROVE  ServedAsAsked'
  <2>1. PICK seen : seen = OrUndefined(Wired(f))
    OBVIOUS
  <2>2. /\ DOMAIN seen = DOMAIN f
        /\ \A k \in DOMAIN f : seen[k] = IF f[k] \in {Absent, Zero} THEN Absent ELSE f[k]
    BY <2>1, FieldsArrive
  <2>3. \A k \in DOMAIN f : ReadsAs(k, f[k], seen[k])
    BY <1>4, <2>2 DEF ReadsAs, Field, Absent, Zero, Set
  <2>4. Sees(Asks(f, b)) = Asks(seen, b)
    BY <2>1, BudgetArrives DEF Sees, Asks
  <2>5. QED
    BY <1>4, <2>2, <2>3, <2>4, ReadAsAsked
<1>5. ASSUME NEW h \in [{"h"} -> {Absent, Set}], NEW b \in Budgets, Invoke(h, b) PROVE ServedAsAsked'
  <2>1. h \in [{"h"} -> Field] /\ "threshold" \notin {"h"}
    BY DEF Field
  <2>2. QED
    BY <1>0, <1>4, <1>5, <2>1 DEF Invoke
<1>6. CASE \/ \E e \in SseEvents : send(e)
           \/ close \/ OnData \/ OnDataThrows \/ OnEnd
           \/ UNCHANGED wireVars
  BY <1>1, <1>6 DEF send, close, OnData, OnDataThrows, OnEnd, wireVars, unary
<1>7. CASE ContextShare \/ ContextRequest \/ ContextRevoke
  BY <1>7 DEF ContextShare, ContextRequest, ContextRevoke, Answer, ServedAsAsked
<1>8. ASSUME NEW r \in [{"reason"} -> Field], TaskLifecycle("cancel", r, None) PROVE ServedAsAsked'
  <2>1. "threshold" \notin {"reason"} /\ None \in TokenBudget \cup {None}
    OBVIOUS
  <2>2. QED
    BY <1>4, <1>8, <2>1 DEF TaskLifecycle
<1>9. CASE (\E b \in Budgets : TaskLifecycle("resume", None, b)) \/ TaskLifecycle("status", None, None)
  <2>1. "threshold" \notin {} /\ None \in [{} -> Field] /\ None \in TokenBudget \cup {None}
    BY NoneIsNoFields
  <2>2. QED
    BY <1>0, <1>4, <1>9, <2>1 DEF TaskLifecycle
<1>10. QED
  BY <1>2, <1>3, <1>5, <1>6, <1>7, <1>8, <1>9 DEF WireNext

\* The handler at the server sees the call the client made: its budget, and every field that
\* has a value, a threshold to the precision of 32 bits; what is empty or zero reads as not
\* given (grpc-types.ts:341-406), whatever filters, reasons and budgets there are.
THEOREM CallsArriveAsAsked == WireSpec => []ServedAsAsked
<1>1. WireInit => ServedAsAsked
  BY DEF WireInit, ServedAsAsked
<1>2. ServedAsAsked /\ [WireNext]_wireVars => ServedAsAsked'
  BY ServedStep
<1>3. QED
  BY <1>1, <1>2, PTL DEF WireSpec

----------------------------------------------------------------------------
(* The requests of a WebSocket.                                             *)

Entry == [status : TaskStatus, transitions : Nat]
Part == [ref : Nat, status : TaskStatus \cup {"absent"}, transitions : Nat]
Reply == {"none", "result", "TASK_NOT_FOUND", "TASK_NOT_CANCELLABLE", "TASK_NOT_RESUMABLE",
          "verified", "failed", "completed", "error"}
WsRequest == [at : {"new", "verify", "delegate", "over"}, id : TaskId \cup {"none"}, held : Nat,
            checks : Seq(Check), parts : Seq(Part), reply : Reply]

\* What a request was told goes forward, and between two hash checks nothing moves.
Forward(parts, list) ==
  \A i, j \in 1..Len(parts) :
    i < j => /\ NotAfter(parts[i], parts[j])
             /\ (\A k \in i + 1..j : list[k] # "hash") => parts[i] = parts[j]

\* Look, with the entries in a parameter.
Seen(es, ref) ==
  IF ref = 0 THEN [ref |-> 0, status |-> "absent", transitions |-> 0]
  ELSE [ref |-> ref, status |-> es[ref].status, transitions |-> es[ref].transitions]

LEMMA LookIsSeen ==
  /\ \A ref : Look(ref) = Seen(entry, ref)
  /\ \A ref : Look(ref)' = Seen(entry', ref)
BY DEF Look, Seen

\* A request, and how what it was told relates to what it would be told of the entries es.
IsCall(r, es) ==
  /\ r \in WsRequest /\ r.held \in 0..Len(es)
  /\ Len(r.parts) <= Len(r.checks)
  /\ Forward(r.parts, r.checks)
  /\ \A i \in 1..Len(r.parts) : NotAfter(r.parts[i], Seen(es, r.held))
  /\ r.at = "verify" => Waits(r)

WsInv ==
  /\ entry \in Seq(Entry)
  /\ tasks \in [TaskId -> 0..Len(entry)]
  /\ DOMAIN calls = Call /\ \A c \in Call : IsCall(calls[c], entry)

LEMMA WsInvImplies == WsInv => VerifyInv
<1> SUFFICES ASSUME WsInv PROVE VerifyInv
  OBVIOUS
<1>1. \A i \in DOMAIN entry : entry[i].status \in TaskStatus
  <2>1. \A i \in DOMAIN entry : entry[i] \in Entry
    BY DEF WsInv
  <2>2. QED
    BY <2>1 DEF Entry
<1>2. VerifyLooksForward
  <2> SUFFICES ASSUME NEW c \in Call
               PROVE  \A i, j \in DOMAIN calls[c].parts :
                        i < j => /\ NotAfter(calls[c].parts[i], calls[c].parts[j])
                                 /\ (\A k \in i + 1..j : calls[c].checks[k] # "hash")
                                      => calls[c].parts[i] = calls[c].parts[j]
    BY DEF VerifyLooksForward
  <2>1. calls[c] \in WsRequest /\ Forward(calls[c].parts, calls[c].checks)
    BY DEF WsInv, IsCall
  <2>2. DOMAIN calls[c].parts = 1..Len(calls[c].parts)
    BY <2>1 DEF WsRequest
  <2>3. QED
    BY <2>1, <2>2 DEF Forward
<1>3. WsTypeOK
  <2>1. ASSUME NEW c \in Call
        PROVE  /\ calls[c].at \in {"new", "verify", "delegate", "over"}
               /\ calls[c].at = "verify" => Waits(calls[c])
    BY DEF WsInv, IsCall, WsRequest
  <2>2. \A id \in TaskId : tasks[id] \in 0..Len(entry)
    BY DEF WsInv
  <2>3. QED
    BY <1>1, <2>1, <2>2 DEF WsTypeOK
<1>4. QED
  BY <1>2, <1>3 DEF VerifyInv

LEMMA SeenIsPart ==
  ASSUME NEW es \in Seq(Entry), NEW ref \in 0..Len(es)
  PROVE  Seen(es, ref) \in Part
<1>1. CASE ref = 0
  BY <1>1 DEF Seen, Part
<1>2. CASE ref # 0
  <2>1. es[ref] \in Entry
    BY <1>2
  <2>2. QED
    BY <1>2, <2>1 DEF Seen, Part, Entry
<1>3. QED
  BY <1>1, <1>2

LEMMA NotAfterEither ==
  ASSUME NEW p \in Part, NEW q \in Part, NEW s \in Part, NotAfter(p, q), NotAfter(q, s)
  PROVE  NotAfter(p, s)
BY DEF NotAfter, Part

\* A request that was told something is told more: the same for each of the next checks, the
\* first of them after an import unless nothing was told yet.
LEMMA MoreIsTold ==
  ASSUME entry \in Seq(Entry), NEW r \in WsRequest, r.held \in 0..Len(entry),
         Forward(r.parts, r.checks), \A i \in 1..Len(r.parts) : NotAfter(r.parts[i], Seen(entry, r.held)),
         NEW m \in Nat, m = Len(r.parts), m = 0 \/ r.checks[m + 1] = "hash",
         NEW n \in Nat, m <= n, n <= Len(r.checks)
  PROVE  LET q == Reach(r, n)
         IN  /\ q \in WsRequest /\ Len(q.parts) = n
             /\ q.at = r.at /\ q.held = r.held /\ q.checks = r.checks
             /\ Forward(q.parts, q.checks)
             /\ \A i \in 1..n : NotAfter(q.parts[i], Seen(entry, r.held))
<1>1. PICK look \in Part : look = Seen(entry, r.held) /\ look = Look(r.held)
  BY SeenIsPart, LookIsSeen
<1>2. PICK p : p = r.parts
  OBVIOUS
<1>3. p \in Seq(Part) /\ Len(p) = m /\ \A i \in 1..m : p[i] \in Part
  BY <1>2 DEF WsRequest
<1>4. PICK s : s = [i \in 1..n |-> IF i <= m THEN p[i] ELSE look]
  OBVIOUS
<1>5. s \in Seq(Part) /\ Len(s) = n
  <2>1. \A i \in 1..n : s[i] \in Part
    BY <1>3, <1>4
  <2>2. QED
    BY <1>4, <2>1
<1>6. PICK q : q = [r EXCEPT !.parts = s]
  OBVIOUS
<1>7. Reach(r, n) = q
  BY <1>1, <1>2, <1>3, <1>4, <1>6 DEF Reach
<1>8. q \in WsRequest /\ q.parts = s /\ q.at = r.at /\ q.held = r.held /\ q.checks = r.checks
  BY <1>5, <1>6 DEF WsRequest
<1>9. \A i \in 1..n : NotAfter(s[i], look)
  <2>1. \A i \in 1..m : NotAfter(p[i], look)
    BY <1>1, <1>2, <1>3
  <2>2. NotAfter(look, look)
    BY DEF NotAfter
  <2>3. QED
    BY <1>4, <2>1, <2>2
<1>10. Forward(s, r.checks)
  <2> SUFFICES ASSUME NEW i \in 1..n, NEW j \in 1..n, i < j
               PROVE  /\ NotAfter(s[i], s[j])
                      /\ (\A k \in i + 1..j : r.checks[k] # "hash") => s[i] = s[j]
    BY <1>5 DEF Forward
  <2>1. CASE j <= m
    <3>1. i \in 1..m /\ j \in 1..m /\ s[i] = p[i] /\ s[j] = p[j]
      BY <1>4, <2>1
    <3>2. QED
      BY <1>2, <1>3, <3>1 DEF Forward
  <2>2. CASE i <= m /\ m < j
    <3>1. s[j] = look
      BY <1>4, <2>2
    <3>2. m + 1 \in i + 1..j /\ r.checks[m + 1] = "hash"
      BY <2>2
    <3>3. QED
      BY <1>9, <3>1, <3>2
  <2>3. CASE m < i
    <3>1. s[i] = look /\ s[j] = look
      BY <1>4, <2>3
    <3>2. QED
      BY <3>1 DEF NotAfter
  <2>4. QED
    BY <2>1, <2>2, <2>3
<1>11. QED
  BY <1>1, <1>5, <1>7, <1>8, <1>9, <1>10

LEMMA OverIsCall ==
  ASSUME NEW r \in WsRequest, r.held \in 0..Len(entry), Len(r.parts) <= Len(r.checks),
         Forward(r.parts, r.checks), \A i \in 1..Len(r.parts) : NotAfter(r.parts[i], Seen(entry, r.held)),
         NEW ans \in Reply
  PROVE  IsCall(Over(r, ans), entry)
<1>1. PICK s \in Reply : s = IF socket = "open" THEN ans ELSE "none"
  BY DEF Reply
<1>2. PICK o : o = [r EXCEPT !.at = "over", !.reply = s]
  OBVIOUS
<1>3. /\ o \in WsRequest /\ o.at = "over"
      /\ o.held = r.held /\ o.parts = r.parts /\ o.checks = r.checks
  BY <1>2 DEF WsRequest
<1>4. Over(r, ans) = o
  BY <1>1, <1>2 DEF Over
<1>5. IsCall(o, entry)
  BY <1>3 DEF IsCall
<1>6. QED
  BY <1>4, <1>5

\* A request that runs on to its next import, or to its end.
LEMMA RunsOnIsCall ==
  ASSUME entry \in Seq(Entry), NEW c, NEW r \in WsRequest, r.held \in 0..Len(entry),
         Forward(r.parts, r.checks), \A i \in 1..Len(r.parts) : NotAfter(r.parts[i], Seen(entry, r.held)),
         NEW done \in Nat,
         \/ Len(r.parts) = 0 /\ done = 0
         \/ done = Len(r.parts) + 1 /\ r.checks[done] = "hash",
         RunsOn(c, r, done)
  PROVE  \E q : IsCall(q, entry) /\ calls' = [calls EXCEPT ![c] = q]
<1>1. PICK n \in done..Len(r.checks) :
        /\ n < Len(r.checks) => Imports(r, n + 1)
        /\ calls' = [calls EXCEPT ![c] = Answered(Reach(r, n))]
  BY DEF RunsOn
<1>2. PICK m \in Nat : m = Len(r.parts)
  BY DEF WsRequest
<1>3. Len(r.checks) \in Nat
  BY DEF WsRequest
<1>4. n \in Nat /\ m <= n /\ n <= Len(r.checks) /\ (m = 0 \/ r.checks[m + 1] = "hash")
  BY <1>1, <1>2, <1>3
<1>5. PICK q : q = Reach(r, n)
  OBVIOUS
<1>6. /\ q \in WsRequest /\ Len(q.parts) = n
      /\ q.at = r.at /\ q.held = r.held /\ q.checks = r.checks
      /\ Forward(q.parts, q.checks)
      /\ \A i \in 1..n : NotAfter(q.parts[i], Seen(entry, r.held))
  BY <1>2, <1>4, <1>5, MoreIsTold
<1>7. CASE n = Len(r.checks)
  <2>1. IsCall(Over(q, "verified"), entry)
    <3>1. "verified" \in Reply
      BY DEF Reply
    <3>2. q.held \in 0..Len(entry) /\ Len(q.parts) <= Len(q.checks)
      BY <1>4, <1>6
    <3>3. \A i \in 1..Len(q.parts) : NotAfter(q.parts[i], Seen(entry, q.held))
      BY <1>6
    <3>4. QED
      BY <1>6, <3>1, <3>2, <3>3, OverIsCall
  <2>2. Answered(q) = Over(q, "verified")
    BY <1>6, <1>7 DEF Answered
  <2>3. QED
    BY <1>1, <1>5, <2>1, <2>2
<1>8. CASE n < Len(r.checks)
  <2>1. Waits(q)
    BY <1>1, <1>6, <1>8 DEF Waits, Imports
  <2>2. IsCall(q, entry)
    BY <1>4, <1>6, <2>1 DEF IsCall
  <2>3. Answered(q) = q
    BY <1>4, <1>3, <1>6, <1>8 DEF Answered
  <2>4. QED
    BY <1>1, <1>5, <2>2, <2>3
<1>9. QED
  BY <1>3, <1>4, <1>7, <1>8

\* A request that is new, or delegated, has been told nothing.
LEMMA NothingTold ==
  ASSUME NEW r \in WsRequest, r.held = 0, r.parts = <<>>, r.at # "verify", Len(entry) \in Nat
  PROVE  IsCall(r, entry)
<1>1. Len(r.checks) \in Nat /\ Len(r.parts) = 0
  BY DEF WsRequest
<1>2. Forward(r.parts, r.checks) /\ \A i \in 1..Len(r.parts) : NotAfter(r.parts[i], Seen(entry, r.held))
  BY <1>1 DEF Forward
<1>3. QED
  BY <1>1, <1>2 DEF IsCall

LEMMA NewIsRequest == New \in WsRequest /\ New.held = 0 /\ New.parts = <<>> /\ New.at = "new"
<1>1. <<>> \in Seq(Check) /\ <<>> \in Seq(Part) /\ "none" \in Reply
  BY DEF Reply
<1>2. QED
  BY <1>1 DEF New, WsRequest

\* When the entries only grow and move forward, requests stay what they were.
LEMMA EntriesMove ==
  ASSUME NEW es \in Seq(Entry), NEW fs \in Seq(Entry), Len(es) <= Len(fs),
         \A ref \in 0..Len(es) : NotAfter(Seen(es, ref), Seen(fs, ref)),
         NEW r, IsCall(r, es)
  PROVE  IsCall(r, fs)
<1>1. /\ r.held \in 0..Len(es) /\ r.held \in 0..Len(fs)
      /\ r.parts \in Seq(Part) /\ Len(r.parts) \in Nat
  BY DEF IsCall, WsRequest
<1>2. ASSUME NEW i \in 1..Len(r.parts) PROVE NotAfter(r.parts[i], Seen(fs, r.held))
  <2>1. NotAfter(r.parts[i], Seen(es, r.held)) /\ NotAfter(Seen(es, r.held), Seen(fs, r.held))
    BY <1>1 DEF IsCall
  <2>2. r.parts[i] \in Part /\ Seen(es, r.held) \in Part /\ Seen(fs, r.held) \in Part
    BY <1>1, SeenIsPart
  <2>3. QED
    BY <2>1, <2>2, NotAfterEither
<1>3. QED
  BY <1>1, <1>2 DEF IsCall

LEMMA MoveKeeps ==
  ASSUME WsInv, NEW ref \in 1..Len(entry), NEW to \in TaskStatus, Move(ref, to)
  PROVE  /\ entry' \in Seq(Entry) /\ Len(entry') = Len(entry)
         /\ \A r : IsCall(r, entry) => IsCall(r, entry')
<1>1. entry \in Seq(Entry) /\ entry[ref] \in Entry
  BY DEF WsInv
<1>2. PICK n \in Nat : n = entry[ref].transitions + 1
  BY <1>1 DEF Entry
<1>3. PICK e : e = [status |-> to, transitions |-> n]
  OBVIOUS
<1>4. e \in Entry
  BY <1>3 DEF Entry
<1>5. entry' = [entry EXCEPT ![ref] = e]
  BY <1>2, <1>3 DEF Move
<1>6. entry' \in Seq(Entry) /\ Len(entry') = Len(entry)
  BY <1>1, <1>4, <1>5
<1>7. ASSUME NEW x \in 0..Len(entry) PROVE NotAfter(Seen(entry, x), Seen(entry', x))
  <2>1. CASE x = ref
    <3>1. entry'[x] = e /\ e.transitions = n /\ x # 0
      BY <1>1, <1>3, <1>5, <2>1
    <3>2. Seen(entry, x).ref = x /\ Seen(entry', x).ref = x
      BY <3>1 DEF Seen
    <3>3. Seen(entry, x).transitions = entry[x].transitions /\ Seen(entry', x).transitions = n
      BY <3>1 DEF Seen
    <3>4. entry[x].transitions \in Nat
      BY <1>1, <2>1 DEF Entry
    <3>5. QED
      BY <1>2, <2>1, <3>2, <3>3, <3>4 DEF NotAfter
  <2>2. CASE x # ref
    <3>1. x # 0 => entry'[x] = entry[x]
      BY <1>1, <1>5, <2>2
    <3>2. Seen(entry', x) = Seen(entry, x)
      BY <3>1 DEF Seen
    <3>3. QED
      BY <3>2 DEF NotAfter
  <2>3. QED
    BY <2>1, <2>2
<1>8. ASSUME NEW r, IsCall(r, entry) PROVE IsCall(r, entry')
  BY <1>1, <1>6, <1>7, <1>8, EntriesMove
<1>9. QED
  BY <1>6, <1>8

LEMMA WsStepKeeps ==
  ASSUME WsInv, [WsNext]_wsVars
  PROVE  WsInv'
<1>a. entry \in Seq(Entry) /\ tasks \in [TaskId -> 0..Len(entry)] /\ Len(entry) \in Nat
  BY DEF WsInv
<1>b. DOMAIN calls = Call /\ \A c \in Call : IsCall(calls[c], entry)
  BY DEF WsInv
<1>c. ASSUME NEW c \in Call, NEW r, IsCall(r, entry), calls' = [calls EXCEPT ![c] = r], tasks' = tasks,
             entry' = entry \/ \E ref \in 1..Len(entry), to \in TaskStatus : Move(ref, to)
      PROVE  WsInv'
  <2>1. /\ entry' \in Seq(Entry) /\ Len(entry') = Len(entry)
        /\ \A x : IsCall(x, entry) => IsCall(x, entry')
    BY <1>a, <1>c, MoveKeeps
  <2>2. DOMAIN calls' = Call /\ \A x \in Call : calls'[x] = IF x = c THEN r ELSE calls[x]
    BY <1>b, <1>c
  <2>3. \A x \in Call : IsCall(calls'[x], entry')
    BY <1>b, <1>c, <2>1, <2>2
  <2>4. QED
    BY <1>a, <1>c, <2>1, <2>2, <2>3 DEF WsInv
<1>d. ASSUME NEW c \in Call, NEW ans \in Reply, calls' = [calls EXCEPT ![c] = Over(New, ans)],
             tasks' = tasks,
             entry' = entry \/ \E ref \in 1..Len(entry), to \in TaskStatus : Move(ref, to)
      PROVE  WsInv'
  <2>1. IsCall(Over(New, ans), entry)
    BY <1>a, NewIsRequest, NothingTold, OverIsCall DEF IsCall
  <2>2. QED
    BY <1>c, <1>d, <2>1
<1>e. \A id \in TaskId : tasks[id] # 0 => tasks[id] \in 1..Len(entry)
  BY <1>a
<1>f. "cancelled" \in TaskStatus /\ "running" \in TaskStatus /\ "pending" \in TaskStatus
  BY DEF TaskStatus
<1>g. /\ "result" \in Reply /\ "error" \in Reply /\ "failed" \in Reply /\ "completed" \in Reply
      /\ "TASK_NOT_FOUND" \in Reply /\ "TASK_NOT_CANCELLABLE" \in Reply
      /\ "TASK_NOT_RESUMABLE" \in Reply
  BY DEF Reply
<1>1. ASSUME NEW id \in TaskId, register(id) PROVE WsInv'
  <2>1. /\ entry' = Append(entry, [status |-> "pending", transitions |-> 0])
        /\ tasks' = [tasks EXCEPT ![id] = Len(entry) + 1] /\ calls' = calls
    BY <1>1 DEF register
  <2>2. [status |-> "pending", transitions |-> 0] \in Entry
    BY <1>f DEF Entry
  <2>3. entry' \in Seq(Entry) /\ Len(entry') = Len(entry) + 1
    BY <1>a, <2>1, <2>2
  <2>4. tasks' \in [TaskId -> 0..Len(entry')]
    BY <1>a, <2>1, <2>3
  <2>5. \A x \in 0..Len(entry) : NotAfter(Seen(entry, x), Seen(entry', x))
    <3>1. \A x \in 1..Len(entry) : entry'[x] = entry[x]
      BY <1>a, <2>1
    <3>2. QED
      BY <1>a, <3>1 DEF Seen, NotAfter
  <2>6. \A c \in Call : IsCall(calls[c], entry')
    BY <1>a, <1>b, <2>3, <2>5, EntriesMove
  <2>7. QED
    BY <1>b, <2>1, <2>3, <2>4, <2>6 DEF WsInv
<1>2. ASSUME NEW id \in TaskId, cleanup(id) PROVE WsInv'
  BY <1>a, <1>2 DEF cleanup, WsInv
<1>3. ASSUME NEW id \in TaskId, NEW to \in TaskStatus, transition(id, to) PROVE WsInv'
  <2>1. PICK ref \in 1..Len(entry) : Move(ref, to)
    BY <1>e, <1>3 DEF transition
  <2>2. /\ entry' \in Seq(Entry) /\ Len(entry') = Len(entry)
        /\ \A x : IsCall(x, entry) => IsCall(x, entry')
    BY <2>1, MoveKeeps
  <2>3. calls' = calls /\ tasks' = tasks
    BY <1>3 DEF transition
  <2>4. QED
    BY <1>a, <1>b, <2>2, <2>3 DEF WsInv
<1>4. ASSUME NEW c \in Call, NEW id \in TaskId, handleTaskStatus(c, id) PROVE WsInv'
  <2>1. \E ans \in Reply : calls' = [calls EXCEPT ![c] = Over(New, ans)]
    BY <1>4, <1>g DEF handleTaskStatus
  <2>2. tasks' = tasks /\ entry' = entry
    BY <1>4 DEF handleTaskStatus
  <2>3. QED
    BY <1>d, <2>1, <2>2
<1>5. ASSUME NEW c \in Call, NEW id \in TaskId, handleTaskCancel(c, id) PROVE WsInv'
  <2>1. \E ans \in Reply : calls' = [calls EXCEPT ![c] = Over(New, ans)]
    BY <1>5, <1>g DEF handleTaskCancel
  <2>2. tasks' = tasks /\ (entry' = entry \/ \E ref \in 1..Len(entry), to \in TaskStatus : Move(ref, to))
    BY <1>5, <1>e, <1>f DEF handleTaskCancel
  <2>3. QED
    BY <1>d, <2>1, <2>2
<1>6. ASSUME NEW c \in Call, NEW id \in TaskId, handleTaskResume(c, id) PROVE WsInv'
  <2>1. \E ans \in Reply : calls' = [calls EXCEPT ![c] = Over(New, ans)]
    BY <1>6, <1>g DEF handleTaskResume
  <2>2. tasks' = tasks /\ (entry' = entry \/ \E ref \in 1..Len(entry), to \in TaskStatus : Move(ref, to))
    BY <1>6, <1>e, <1>f DEF handleTaskResume
  <2>3. QED
    BY <1>d, <2>1, <2>2
<1>7. ASSUME NEW c \in Call, NEW id \in TaskId, NEW list \in Checks, handleVerify(c, id, list)
      PROVE  WsInv'
  <2>1. PICK r : r = [New EXCEPT !.at = "verify", !.id = id, !.held = tasks[id], !.checks = list]
    OBVIOUS
  <2>2. list \in Seq(Check) /\ tasks[id] \in 0..Len(entry)
    BY <1>a, WsSessionAssumption
  <2>3. r \in WsRequest /\ r.held \in 0..Len(entry) /\ r.parts = <<>> /\ Len(r.parts) = 0
    <3>1. New \in WsRequest /\ New.parts = <<>> /\ tasks[id] \in Nat
      BY <1>a, <2>2, NewIsRequest
    <3>2. r = [at |-> "verify", id |-> id, held |-> tasks[id], checks |-> list, parts |-> <<>>,
               reply |-> "none"]
      BY <2>1 DEF New
    <3>3. <<>> \in Seq(Part) /\ "none" \in Reply /\ Len(<<>>) = 0
      BY DEF Reply
    <3>4. QED
      BY <2>2, <3>1, <3>2, <3>3 DEF WsRequest
  <2>4. Forward(r.parts, r.checks) /\ \A i \in 1..Len(r.parts) : NotAfter(r.parts[i], Seen(entry, r.held))
    BY <2>3 DEF Forward
  <2>5. RunsOn(c, r, 0) /\ UNCHANGED <<entry, tasks>>
    BY <1>7, <2>1 DEF handleVerify
  <2>6. PICK q : IsCall(q, entry) /\ calls' = [calls EXCEPT ![c] = q]
    BY <1>a, <2>3, <2>4, <2>5, RunsOnIsCall
  <2>7. QED
    BY <1>c, <2>5, <2>6
<1>8. ASSUME NEW c \in Call, Imported(c) PROVE WsInv'
  <2>1. PICK r : r = calls[c]
    OBVIOUS
  <2>2. IsCall(r, entry) /\ Waits(r)
    BY <1>b, <1>8, <2>1 DEF Imported
  <2>3. r \in WsRequest /\ r.held \in 0..Len(entry) /\ Len(r.parts) \in Nat
    BY <2>2 DEF IsCall, WsRequest
  <2>4. Forward(r.parts, r.checks) /\ \A i \in 1..Len(r.parts) : NotAfter(r.parts[i], Seen(entry, r.held))
    BY <2>2 DEF IsCall
  <2>5. PICK done \in Nat : done = Len(r.parts) + 1
    BY <2>3
  <2>6. r.checks[done] = "hash"
    BY <2>2, <2>5 DEF Waits, Imports
  <2>7. RunsOn(c, r, done) /\ UNCHANGED <<entry, tasks>>
    BY <1>8, <2>1, <2>5 DEF Imported
  <2>8. PICK q : IsCall(q, entry) /\ calls' = [calls EXCEPT ![c] = q]
    BY <1>a, <2>3, <2>4, <2>5, <2>6, <2>7, RunsOnIsCall
  <2>9. QED
    BY <1>c, <2>7, <2>8
<1>9. ASSUME NEW c \in Call, NEW id \in TaskId, handleDelegate(c, id) PROVE WsInv'
  <2>1. PICK r : r = [New EXCEPT !.at = "delegate", !.id = id]
    OBVIOUS
  <2>2. r \in WsRequest /\ r.held = 0 /\ r.parts = <<>> /\ r.at = "delegate"
    BY <2>1, NewIsRequest DEF WsRequest
  <2>3. IsCall(r, entry)
    BY <1>a, <2>2, NothingTold
  <2>4. QED
    BY <1>9, <1>c, <2>1, <2>3 DEF handleDelegate
<1>10. ASSUME NEW c \in Call, DelegateEnds(c) PROVE WsInv'
  <2>1. PICK ans \in Reply : calls' = [calls EXCEPT ![c] = Over(calls[c], ans)]
    BY <1>10, <1>g DEF DelegateEnds
  <2>2. IsCall(calls[c], entry)
    BY <1>b
  <2>3. IsCall(Over(calls[c], ans), entry)
    BY <2>2, OverIsCall DEF IsCall
  <2>4. QED
    BY <1>10, <1>c, <2>1, <2>3 DEF DelegateEnds
<1>11. ASSUME NEW c \in Call, Unreadable(c) PROVE WsInv'
  BY <1>d, <1>g, <1>11 DEF Unreadable
<1>12. CASE closeSockets \/ Disconnected \/ UNCHANGED wsVars
  BY <1>12 DEF closeSockets, Disconnected, wsVars, WsInv
<1>13. QED
  BY <1>1, <1>2, <1>3, <1>4, <1>5, <1>6, <1>7, <1>8, <1>9, <1>10, <1>11, <1>12 DEF WsNext

\* All that one verification says is of one task, and goes forward in the order of its checks
\* with nothing moving between two hash checks (server.ts:484-542), however many requests a
\* connection has and in whatever order they ask.
THEOREM VerificationsLookForward == WsSpec => []VerifyInv
<1>1. WsInit => WsInv
  <2> SUFFICES ASSUME WsInit PROVE WsInv
    OBVIOUS
  <2>1. entry = <<>> /\ Len(entry) = 0
    BY DEF WsInit
  <2>2. tasks \in [TaskId -> 0..Len(entry)]
    BY <2>1 DEF WsInit
  <2>3. IsCall(New, entry)
    BY <2>1, NewIsRequest, NothingTold
  <2>4. DOMAIN calls = Call /\ \A c \in Call : calls[c] = New
    BY DEF WsInit
  <2>5. QED
    BY <2>1, <2>2, <2>3, <2>4 DEF WsInv
<1>2. WsInv /\ [WsNext]_wsVars => WsInv'
  BY WsStepKeeps
<1>3. WsInv => VerifyInv
  BY WsInvImplies
<1>4. QED
  BY <1>1, <1>2, <1>3, PTL DEF WsSpec

=============================================================================
