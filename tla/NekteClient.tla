------------------------------ MODULE NekteClient ------------------------------
(***************************************************************************)
(* Clients of one agent that share a capability cache                      *)
(* (client/src/client.ts, cache.ts, request-coalescer.ts, shared-cache.ts) *)
(* and the part of the server they talk to: its capability registry,       *)
(* discover and invoke (server/src/server.ts, capability.ts).              *)
(*                                                                         *)
(* A version stands for the contents of a schema and for the hash that     *)
(* computeVersionHash derives from them.  A request is sent, answered by   *)
(* the server and arrives back in three steps, so requests overtake each   *)
(* other; the caller may give up on it at any time.  Time is abstracted to *)
(* what it does: an entry ages from fresh to stale to gone, a negative     *)
(* entry and a cooldown run out.  Which entry the store evicts is the      *)
(* business of CacheStore: here any entry may be evicted.                  *)
(***************************************************************************)
EXTENDS Naturals, FiniteSets

CONSTANTS Client,       \* clients constructed with the same sharedCache
          Cap, Version,
          NoVersion,    \* undefined
          AskedLevel,   \* the discovery levels the applications ask for
          DiscoverId,   \* bounds the discover requests in flight
          InvokeId      \* bounds the invoke calls in flight

ASSUME ClientAssumption == /\ NoVersion \notin Version
                           /\ AskedLevel \subseteq 0..2

VARIABLES overGrpc,      \* clients whose transport is gRPC; the others use HTTP
          registry,      \* server: capability -> version registered
          agentKnown,    \* client.agentId is set
          store,         \* the shared store: capability -> entry
          negative,      \* client -> capabilities known not to exist
          revalidating,  \* client -> capabilities in the revalidation cooldown
          inflight,      \* client -> keys of the coalescer
          discovers, invokes

cacheVars == <<store, negative>>
vars == <<overGrpc, registry, agentKnown, store, negative, revalidating, inflight, discovers,
          invokes>>

Level == 0..2
MaybeVersion == Version \cup {NoVersion}

(***************************************************************************)
(* The cache: CapabilityCache over the shared CacheStore.                  *)
(***************************************************************************)
Entry == [hash: MaybeVersion, levels: [Level -> MaybeVersion], freshness: {"fresh", "stale"}]
NoEntry == [hash |-> NoVersion, levels |-> [l \in Level |-> NoVersion], freshness |-> "fresh"]

\* getEntry: before the agent is known the key starts with 'unknown', which holds nothing.
getEntry(cl, c) == IF agentKnown[cl] /\ c \notin negative[cl] THEN store[c] ELSE NoEntry

\* set, once for every capability answered: the other levels are kept.
set(answered, level) ==
    store' = [c \in Cap |->
        IF answered[c] = NoVersion THEN store[c]
        ELSE [hash |-> answered[c],
              levels |-> [store[c].levels EXCEPT ![level] = answered[c]],
              freshness |-> "fresh"]]

Only(c, v) == [d \in Cap |-> IF d = c THEN v ELSE NoVersion]
Answered(answered) == {c \in Cap : answered[c] # NoVersion}

clearNegative(cl, answered) == negative' = [negative EXCEPT ![cl] = @ \ Answered(answered)]

(***************************************************************************)
(* Requests.                                                               *)
(***************************************************************************)
NoCaps == [c \in Cap |-> NoVersion]
DiscoverCall ==
    [phase: {"sent", "answered"}, client: Client, filter: SUBSET Cap, level: Level,
     refresh: BOOLEAN,         \* sent by the revalidation callback
     caps: [Cap -> MaybeVersion]]
Attempt == 1..2
InvokeCall ==
    [phase: {"sent", "answered", "done"}, client: Client, cap: Cap,
     onItsWay: BOOLEAN,        \* a request the server has not handled yet
     h: MaybeVersion,          \* the hash sent
     retried: BOOLEAN, reply: {"none", "ok", "mismatch", "notFound", "lost"},
     version: MaybeVersion,    \* what the server had when it replied
     \* For the properties: the hash of the cached schema that the input was made for, the
     \* version that refused it, and the version that ran each attempt.
     cached: MaybeVersion, refusedBy: MaybeVersion, ran: [Attempt -> MaybeVersion]]
NoCall == [phase |-> "idle"]

Waiting(r) == r.phase \in {"sent", "answered"}
OnItsWay(r) == r.phase # "idle" /\ r.onItsWay
sendDiscover(cl, filter, level, refresh) ==
    [phase |-> "sent", client |-> cl, filter |-> filter, level |-> level,
     refresh |-> refresh, caps |-> NoCaps]

Init ==
    /\ overGrpc \in SUBSET Client
    /\ registry = [c \in Cap |-> NoVersion]
    /\ agentKnown = [cl \in Client |-> FALSE]
    /\ store = [c \in Cap |-> NoEntry]
    /\ negative = [cl \in Client |-> {}]
    /\ revalidating = [cl \in Client |-> {}]
    /\ inflight = [cl \in Client |-> {}]
    /\ discovers = [d \in DiscoverId |-> NoCall]
    /\ invokes = [i \in InvokeId |-> NoCall]

(***************************************************************************)
(* The server's registry.                                                  *)
(***************************************************************************)
register(c, v) ==
    /\ registry' = [registry EXCEPT ![c] = v]
    /\ UNCHANGED <<overGrpc, agentKnown, store, negative, revalidating, inflight, discovers, invokes>>

(***************************************************************************)
(* Discovery.                                                              *)
(***************************************************************************)
agentCard(cl) ==
    /\ agentKnown' = [agentKnown EXCEPT ![cl] = TRUE]
    /\ UNCHANGED <<overGrpc, registry, store, negative, revalidating, inflight, discovers, invokes>>

discover(d, cl, filter, level) ==
    /\ ~Waiting(discovers[d])
    /\ discovers' = [discovers EXCEPT ![d] = sendDiscover(cl, filter, level, FALSE)]
    /\ UNCHANGED <<overGrpc, registry, agentKnown, store, negative, revalidating, inflight, invokes>>

handleDiscover(d) ==
    /\ discovers[d].phase = "sent"
    /\ discovers' = [discovers EXCEPT
           ![d].phase = "answered",
           ![d].caps = [c \in Cap |-> IF c \in discovers[d].filter THEN registry[c]
                                      ELSE NoVersion]]
    /\ UNCHANGED <<overGrpc, registry, agentKnown, store, negative, revalidating, inflight, invokes>>

\* The promise settles: the coalescer forgets a refresh whether it succeeded or not.
settle(d) ==
    LET r == discovers[d] IN
    /\ discovers' = [discovers EXCEPT ![d] = NoCall]
    /\ inflight' = [inflight EXCEPT ![r.client] = IF r.refresh THEN @ \ r.filter ELSE @]

\* The first answer only tells the client who the agent is.
DiscoverIntroduces(d) ==
    LET r == discovers[d] IN
    /\ r.phase = "answered" /\ ~agentKnown[r.client]
    /\ agentKnown' = [agentKnown EXCEPT ![r.client] = TRUE]
    /\ settle(d)
    /\ UNCHANGED <<overGrpc, registry, store, negative, revalidating, invokes>>

DiscoverArrives(d) ==
    LET r == discovers[d] IN
    /\ r.phase = "answered" /\ agentKnown[r.client] /\ r.client \notin overGrpc
    /\ set(r.caps, r.level)
    /\ clearNegative(r.client, r.caps)
    /\ settle(d)
    /\ UNCHANGED <<overGrpc, registry, agentKnown, revalidating, invokes>>

\* Over gRPC the answer is left in its proto form, which has no caps to iterate.
DiscoverRejected(d) ==
    LET r == discovers[d] IN
    /\ r.phase = "answered" /\ agentKnown[r.client] /\ r.client \in overGrpc
    /\ settle(d)
    /\ UNCHANGED <<overGrpc, registry, agentKnown, store, negative, revalidating, invokes>>

DiscoverLost_KeepsTheKey(d) ==
    /\ Waiting(discovers[d])
    /\ discovers' = [discovers EXCEPT ![d] = NoCall]
    /\ UNCHANGED <<overGrpc, registry, agentKnown, store, negative, revalidating, inflight, invokes>>

\* The request fails or runs into timeoutMs.
DiscoverLost(d) ==
    /\ Waiting(discovers[d])
    /\ settle(d)
    /\ UNCHANGED <<overGrpc, registry, agentKnown, store, negative, revalidating, invokes>>

(***************************************************************************)
(* Stale-while-revalidate.                                                 *)
(***************************************************************************)
highestLevel(e) == IF e.levels[2] # NoVersion THEN 2
                   ELSE IF e.levels[1] # NoVersion THEN 1 ELSE 0

coalesce_AlwaysSend(cl, c) ==
    \E d \in DiscoverId :
        /\ ~Waiting(discovers[d])
        /\ discovers' = [discovers EXCEPT
               ![d] = sendDiscover(cl, {c}, highestLevel(getEntry(cl, c)), TRUE)]
        /\ inflight' = [inflight EXCEPT ![cl] = @ \cup {c}]

coalesce(cl, c) ==
    IF c \in inflight[cl] THEN UNCHANGED <<inflight, discovers>>
    ELSE \E d \in DiscoverId :
        /\ ~Waiting(discovers[d])
        /\ discovers' = [discovers EXCEPT
               ![d] = sendDiscover(cl, {c}, highestLevel(getEntry(cl, c)), TRUE)]
        /\ inflight' = [inflight EXCEPT ![cl] = @ \cup {c}]

triggerRevalidation(cl, c) ==
    IF getEntry(cl, c).freshness = "fresh" \/ c \in revalidating[cl]
    THEN UNCHANGED <<revalidating, inflight, discovers>>
    ELSE /\ revalidating' = [revalidating EXCEPT ![cl] = @ \cup {c}]
         /\ coalesce(cl, c)

CooldownEnds(cl, c) ==
    /\ c \in revalidating[cl]
    /\ revalidating' = [revalidating EXCEPT ![cl] = @ \ {c}]
    /\ UNCHANGED <<overGrpc, registry, agentKnown, store, negative, inflight, discovers, invokes>>

(***************************************************************************)
(* Invocation.                                                             *)
(***************************************************************************)
invoke(i, cl, c) ==
    LET e == getEntry(cl, c) IN
    /\ ~Waiting(invokes[i]) /\ ~OnItsWay(invokes[i])
    /\ invokes' = [invokes EXCEPT
           ![i] = [phase |-> "sent", client |-> cl, cap |-> c, onItsWay |-> TRUE, h |-> e.hash,
                   retried |-> FALSE, reply |-> "none", version |-> NoVersion,
                   cached |-> e.hash, refusedBy |-> NoVersion,
                   ran |-> [k \in Attempt |-> NoVersion]]]
    /\ triggerRevalidation(cl, c)
    /\ UNCHANGED <<overGrpc, registry, agentKnown, store, negative>>

verdict_HashIgnored(h, v) == IF v = NoVersion THEN "notFound" ELSE "ok"

verdict(h, v) == IF v = NoVersion THEN "notFound"
                 ELSE IF h # NoVersion /\ h # v THEN "mismatch" ELSE "ok"

\* The request arrives, also when the caller has given up on it in the meantime.
attemptOf(r) == IF r.retried THEN 2 ELSE 1
handled(r, v) == [r EXCEPT !.onItsWay = FALSE,
                           !.ran[attemptOf(r)] = IF verdict(r.h, v) = "ok" THEN v ELSE @]
handleInvoke(i) ==
    LET r == invokes[i]
        v == registry[r.cap] IN
    /\ OnItsWay(r)
    /\ invokes' = [invokes EXCEPT
           ![i] = IF r.phase # "sent" THEN handled(r, v)
                  ELSE [handled(r, v) EXCEPT !.phase = "answered", !.version = v,
                                             !.reply = verdict(r.h, v)]]
    /\ UNCHANGED <<overGrpc, registry, agentKnown, store, negative, revalidating, inflight, discovers>>

\* gRPC maps every error to INTERNAL: isVersionMismatch is false there.
isVersionMismatch(r) == r.reply = "mismatch" /\ r.client \notin overGrpc

sendAgain(i, h) ==
    invokes' = [invokes EXCEPT
        ![i].phase = "sent", ![i].onItsWay = TRUE, ![i].h = h, ![i].retried = TRUE,
        ![i].reply = "none", ![i].version = NoVersion, ![i].refusedBy = invokes[i].version]

Retry_WithTheNewHash(i) ==
    LET r == invokes[i]
        schema == Only(r.cap, r.version) IN
    /\ r.phase = "answered" /\ isVersionMismatch(r) /\ ~r.retried
    /\ set(schema, 2)
    /\ clearNegative(r.client, schema)
    /\ sendAgain(i, r.version)
    /\ UNCHANGED <<overGrpc, registry, agentKnown, revalidating, inflight, discovers>>

Retry_SchemaDropped(i) ==
    LET r == invokes[i] IN
    /\ r.phase = "answered" /\ isVersionMismatch(r) /\ ~r.retried
    /\ sendAgain(i, NoVersion)
    /\ UNCHANGED <<overGrpc, registry, agentKnown, store, negative, revalidating, inflight, discovers>>

\* The second call sends the same input and no hash.
Retry(i) ==
    LET r == invokes[i]
        schema == Only(r.cap, r.version) IN
    /\ r.phase = "answered" /\ isVersionMismatch(r) /\ ~r.retried
    /\ set(schema, 2)
    /\ clearNegative(r.client, schema)
    /\ sendAgain(i, NoVersion)
    /\ UNCHANGED <<overGrpc, registry, agentKnown, revalidating, inflight, discovers>>

InvokeEnds(i) ==
    LET r == invokes[i] IN
    /\ r.phase = "answered" /\ (r.retried \/ ~isVersionMismatch(r))
    /\ invokes' = [invokes EXCEPT ![i].phase = "done"]
    /\ UNCHANGED <<overGrpc, registry, agentKnown, store, negative, revalidating, inflight, discovers>>

InvokeLost_SendsAgain(i) ==
    /\ Waiting(invokes[i])
    /\ \/ ~invokes[i].retried /\ sendAgain(i, NoVersion)
       \/ /\ invokes[i].retried
          /\ invokes' = [invokes EXCEPT ![i].phase = "done", ![i].reply = "lost",
                                        ![i].onItsWay = FALSE]
    /\ UNCHANGED <<overGrpc, registry, agentKnown, store, negative, revalidating, inflight, discovers>>

\* The request fails or runs into timeoutMs; the server may still get it.
InvokeLost(i) ==
    /\ Waiting(invokes[i])
    /\ \E late \in {invokes[i].onItsWay, FALSE} :
           invokes' = [invokes EXCEPT ![i].phase = "done", ![i].reply = "lost",
                                     ![i].onItsWay = late]
    /\ UNCHANGED <<overGrpc, registry, agentKnown, store, negative, revalidating, inflight, discovers>>

(***************************************************************************)
(* The rest of the cache's interface, and time.                            *)
(***************************************************************************)
setNegative(cl, c) ==
    /\ agentKnown[cl]
    /\ negative' = [negative EXCEPT ![cl] = @ \cup {c}]
    /\ UNCHANGED <<overGrpc, registry, agentKnown, store, revalidating, inflight, discovers, invokes>>

NegativeExpires(cl, c) ==
    /\ c \in negative[cl]
    /\ negative' = [negative EXCEPT ![cl] = @ \ {c}]
    /\ UNCHANGED <<overGrpc, registry, agentKnown, store, revalidating, inflight, discovers, invokes>>

\* invalidate, the store's eviction, and the end of the grace period.
Dropped(c) ==
    /\ store[c] # NoEntry
    /\ store' = [store EXCEPT ![c] = NoEntry]
    /\ UNCHANGED <<overGrpc, registry, agentKnown, negative, revalidating, inflight, discovers, invokes>>

invalidateAgent(cl) ==
    /\ store' = [c \in Cap |-> NoEntry]
    /\ negative' = [negative EXCEPT ![cl] = {}]
    /\ UNCHANGED <<overGrpc, registry, agentKnown, revalidating, inflight, discovers, invokes>>

clear(cl) ==
    /\ store' = [c \in Cap |-> NoEntry]
    /\ negative' = [negative EXCEPT ![cl] = {}]
    /\ revalidating' = [revalidating EXCEPT ![cl] = {}]
    /\ UNCHANGED <<overGrpc, registry, agentKnown, inflight, discovers, invokes>>

GoesStale(c) ==
    /\ store[c] # NoEntry /\ store[c].freshness = "fresh"
    /\ store' = [store EXCEPT ![c].freshness = "stale"]
    /\ UNCHANGED <<overGrpc, registry, agentKnown, negative, revalidating, inflight, discovers, invokes>>

Next ==
    \/ \E c \in Cap, v \in Version : register(c, v)
    \/ \E cl \in Client : agentCard(cl)
    \/ \E d \in DiscoverId, cl \in Client, filter \in SUBSET Cap \ {{}}, l \in AskedLevel :
           discover(d, cl, filter, l)
    \/ \E d \in DiscoverId : handleDiscover(d)
    \/ \E d \in DiscoverId : DiscoverIntroduces(d)
    \/ \E d \in DiscoverId : DiscoverArrives(d)
    \/ \E d \in DiscoverId : DiscoverRejected(d)
    \/ \E d \in DiscoverId : DiscoverLost(d)
    \/ \E cl \in Client, c \in Cap : CooldownEnds(cl, c)
    \/ \E i \in InvokeId, cl \in Client, c \in Cap : invoke(i, cl, c)
    \/ \E i \in InvokeId : handleInvoke(i)
    \/ \E i \in InvokeId : Retry(i)
    \/ \E i \in InvokeId : InvokeEnds(i)
    \/ \E i \in InvokeId : InvokeLost(i)
    \/ \E cl \in Client, c \in Cap : setNegative(cl, c)
    \/ \E cl \in Client, c \in Cap : NegativeExpires(cl, c)
    \/ \E c \in Cap : Dropped(c)
    \/ \E cl \in Client : invalidateAgent(cl)
    \/ \E cl \in Client : clear(cl)
    \/ \E c \in Cap : GoesStale(c)

Spec == Init /\ [][Next]_vars

(***************************************************************************)
(* A request over HTTP settles: the server answers or timeoutMs does.  One *)
(* over gRPC has no deadline, so nothing is assumed of it.  The cooldown   *)
(* is a timer.                                                             *)
(***************************************************************************)
OverHttp(r) == Waiting(r) /\ r.client \notin overGrpc
DiscoverSettles(d) ==
    /\ OverHttp(discovers[d])
    /\ \/ handleDiscover(d) \/ DiscoverIntroduces(d) \/ DiscoverArrives(d) \/ DiscoverLost(d)
InvokeSettles(i) ==
    /\ OverHttp(invokes[i])
    /\ handleInvoke(i) \/ Retry(i) \/ InvokeEnds(i) \/ InvokeLost(i)
FairSpec ==
    /\ Spec
    /\ \A d \in DiscoverId : WF_vars(DiscoverSettles(d))
    /\ \A i \in InvokeId : WF_vars(InvokeSettles(i))
    /\ \A cl \in Client, c \in Cap : WF_vars(CooldownEnds(cl, c))

(***************************************************************************)
(* Properties.                                                             *)
(***************************************************************************)
TypeOK ==
    /\ overGrpc \subseteq Client
    /\ registry \in [Cap -> MaybeVersion]
    /\ agentKnown \in [Client -> BOOLEAN]
    /\ store \in [Cap -> Entry]
    /\ negative \in [Client -> SUBSET Cap]
    /\ revalidating \in [Client -> SUBSET Cap]
    /\ inflight \in [Client -> SUBSET Cap]
    /\ discovers \in [DiscoverId -> DiscoverCall \cup {NoCall}]
    /\ invokes \in [InvokeId -> InvokeCall \cup {NoCall}]

Refreshes(cl, c) ==
    {d \in DiscoverId : /\ Waiting(discovers[d])
                        /\ discovers[d].refresh
                        /\ discovers[d].client = cl
                        /\ c \in discovers[d].filter}

\* The coalescer knows exactly the refreshes in flight, and there is at most one per
\* client and capability, although the cooldown may end, or the cache be cleared, while
\* a slow refresh is still out (cache.ts:237, request-coalescer.ts:30).
OneRefreshPerKey ==
    \A cl \in Client, c \in Cap :
        /\ Refreshes(cl, c) # {} <=> c \in inflight[cl]
        /\ \A d, e \in Refreshes(cl, c) : d = e

\* However the server's schemas change while calls and retries are in flight, a call over
\* HTTP never fails because of a version: the second attempt cannot mismatch
\* (client.ts:223).
NoCallFailsByVersion ==
    \A i \in InvokeId : invokes[i].phase = "done" /\ invokes[i].client \notin overGrpc
        => invokes[i].reply # "mismatch"

\* The same over whatever transport: src/docs/RFC.md:451 says that a hash mismatch triggers
\* an inline schema refresh, and names no transport.  Over gRPC the code is lost.
MismatchIsRetried ==
    \A i \in InvokeId : invokes[i].phase = "done" => invokes[i].reply # "mismatch"

\* The input of one client.invoke runs at most once over both attempts, also when a reply is
\* lost or a request arrives after its caller gave up; a schema other than the cached one,
\* which the input was made for, runs it only after a refusal for the version; and an answer
\* tells whether it ran: "ok" that it did, a mismatch or an unknown capability that it did
\* not (client.ts:222-231, server.ts:263-288).
OneRunPerInvoke ==
    \A i \in InvokeId :
        LET r == invokes[i] IN
        r.phase # "idle" =>
            /\ r.ran[1] = NoVersion \/ r.ran[2] = NoVersion
            /\ \A k \in Attempt :
                   r.cached # NoVersion /\ r.ran[k] \notin {NoVersion, r.cached}
                       => r.refusedBy \notin {NoVersion, r.cached}
            /\ r.reply = "ok" => \E k \in Attempt : r.ran[k] = r.version
            /\ r.reply \in {"mismatch", "notFound"} => \A k \in Attempt : r.ran[k] = NoVersion

\* A refresh over HTTP ends and frees its key, whether the request succeeds, fails or times
\* out; over gRPC a server that stays silent keeps it for ever (grpc-transport.ts:148).
RefreshEnds ==
    \A cl \in Client, c \in Cap :
        cl \notin overGrpc /\ c \in inflight[cl] ~> c \notin inflight[cl]

\* Once the server's schemas stand still and calls get through, a client that goes on
\* invoking ends up with the server's hash or none, whatever old answers were still on
\* their way (the retry after VERSION_MISMATCH, client.ts:226).
Looks(cl, c) == \E i \in InvokeId : invoke(i, cl, c) /\ c \notin negative[cl]
HashCatchesUp ==
    \A cl \in Client, c \in Cap :
        (/\ cl \notin overGrpc
         /\ <>[][registry' = registry]_vars
         /\ <>[][\A i \in InvokeId : ~InvokeLost(i)]_vars
         /\ []<><<Looks(cl, c)>>_vars)
        => <>[](store[c].hash \in {NoVersion, registry[c]})
================================================================================
