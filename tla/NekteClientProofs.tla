--------------------------- MODULE NekteClientProofs ---------------------------
(***************************************************************************)
(* Theorems about NekteClient, for any number of clients, capabilities,    *)
(* versions and requests in flight.                                        *)
(***************************************************************************)
EXTENDS NekteClient, TLAPS

\* A refresh asks for one capability, whose key the coalescer holds for it alone.
RefreshesHoldTheirKey ==
  \A d \in DiscoverId : Waiting(discovers[d]) /\ discovers[d].refresh =>
    \E c \in Cap : discovers[d].filter = {c} /\ c \in inflight[discovers[d].client]

\* What the phases of a call say of its fields. A first attempt carries the cached hash, a
\* second none, after a refusal that ran nothing; a request on its way has not run; only a
\* hash can mismatch.
CallIsConsistent(r) ==
  /\ ~r.retried => /\ r.h = r.cached
                   /\ r.ran[2] = NoVersion
                   /\ r.cached # NoVersion => r.ran[1] \in {NoVersion, r.cached}
  /\ r.retried  => /\ r.h = NoVersion
                   /\ r.ran[1] = NoVersion
                   /\ r.refusedBy \notin {NoVersion, r.cached}
  /\ r.phase = "sent" => r.onItsWay
  /\ r.onItsWay => r.ran[attemptOf(r)] = NoVersion /\ r.reply \in {"none", "lost"}
  /\ r.reply = "ok" => r.ran[attemptOf(r)] = r.version
  /\ r.reply \in {"mismatch", "notFound"} => r.ran[attemptOf(r)] = NoVersion
  /\ r.reply = "mismatch" => r.h # NoVersion /\ r.version \notin {NoVersion, r.h}

CallsAreConsistent ==
  \A i \in InvokeId : invokes[i].phase # "idle" => CallIsConsistent(invokes[i])

RefreshInv == TypeOK /\ RefreshesHoldTheirKey /\ OneRefreshPerKey

(***************************************************************************)
(* Types of the operators.                                                 *)
(***************************************************************************)
LEMMA NoEntryTyped == NoEntry \in Entry
BY DEF NoEntry, Entry, MaybeVersion

LEMMA GetEntryTyped ==
  ASSUME TypeOK, NEW cl \in Client, NEW c \in Cap
  PROVE  getEntry(cl, c) \in Entry
BY NoEntryTyped DEF getEntry, TypeOK

LEMMA HighestLevelTyped ==
  ASSUME NEW e PROVE highestLevel(e) \in Level
BY DEF highestLevel, Level

LEMMA SetTyped ==
  ASSUME TypeOK, NEW answered \in [Cap -> MaybeVersion], NEW level \in Level, set(answered, level)
  PROVE  store' \in [Cap -> Entry]
<1> SUFFICES ASSUME NEW c \in Cap, answered[c] # NoVersion
             PROVE  [hash |-> answered[c],
                     levels |-> [store[c].levels EXCEPT ![level] = answered[c]],
                     freshness |-> "fresh"] \in Entry
  BY DEF set, TypeOK
<1>1. store[c].levels \in [Level -> MaybeVersion]
  BY DEF TypeOK, Entry
<1>2. QED
  BY <1>1 DEF Entry

LEMMA ClearNegativeTyped ==
  ASSUME TypeOK, NEW cl \in Client, NEW answered, clearNegative(cl, answered)
  PROVE  negative' \in [Client -> SUBSET Cap]
BY DEF TypeOK, clearNegative

LEMMA SendTyped ==
  ASSUME NEW cl \in Client, NEW filter \in SUBSET Cap, NEW level \in Level, NEW refresh \in BOOLEAN
  PROVE  sendDiscover(cl, filter, level, refresh) \in DiscoverCall
<1>1. NoCaps \in [Cap -> MaybeVersion]
  BY DEF NoCaps, MaybeVersion
<1>2. QED
  BY <1>1 DEF sendDiscover, DiscoverCall

LEMMA WaitingDiscover ==
  ASSUME TypeOK, NEW d \in DiscoverId, Waiting(discovers[d])
  PROVE  discovers[d] \in DiscoverCall
BY DEF TypeOK, Waiting, NoCall

LEMMA LiveInvoke ==
  ASSUME TypeOK, NEW i \in InvokeId, invokes[i].phase # "idle"
  PROVE  invokes[i] \in InvokeCall
BY DEF TypeOK, NoCall

(***************************************************************************)
(* Type correctness.                                                       *)
(***************************************************************************)
LEMMA SettleTyped ==
  ASSUME TypeOK, NEW d \in DiscoverId, Waiting(discovers[d]), settle(d)
  PROVE  /\ inflight' \in [Client -> SUBSET Cap]
         /\ discovers' \in [DiscoverId -> DiscoverCall \cup {NoCall}]
<1>1. discovers[d] \in DiscoverCall
  BY WaitingDiscover
<1>3. discovers' \in [DiscoverId -> DiscoverCall \cup {NoCall}]
  BY DEF TypeOK, settle
<1>4. discovers[d].filter \in SUBSET Cap /\ discovers[d].client \in Client
  BY <1>1 DEF DiscoverCall
<1>5. inflight' \in [Client -> SUBSET Cap]
  BY <1>4 DEF TypeOK, settle
<1>6. QED
  BY <1>3, <1>5

LEMMA CoalesceTyped ==
  ASSUME TypeOK, NEW cl \in Client, NEW c \in Cap, coalesce(cl, c)
  PROVE  /\ inflight' \in [Client -> SUBSET Cap]
         /\ discovers' \in [DiscoverId -> DiscoverCall \cup {NoCall}]
<1>1. CASE c \in inflight[cl]
  BY <1>1 DEF coalesce, TypeOK
<1>2. CASE c \notin inflight[cl]
  <2>1. PICK d \in DiscoverId :
          /\ discovers' = [discovers EXCEPT
                ![d] = sendDiscover(cl, {c}, highestLevel(getEntry(cl, c)), TRUE)]
          /\ inflight' = [inflight EXCEPT ![cl] = @ \cup {c}]
    BY <1>2 DEF coalesce
  <2>2. highestLevel(getEntry(cl, c)) \in Level
    BY HighestLevelTyped
  <2>3. {c} \in SUBSET Cap
    OBVIOUS
  <2>4. sendDiscover(cl, {c}, highestLevel(getEntry(cl, c)), TRUE) \in DiscoverCall
    BY <2>2, <2>3, SendTyped
  <2>5. discovers' \in [DiscoverId -> DiscoverCall \cup {NoCall}]
    BY <2>1, <2>4 DEF TypeOK
  <2>6. inflight' \in [Client -> SUBSET Cap]
    BY <2>1 DEF TypeOK
  <2>7. QED
    BY <2>5, <2>6
<1>3. QED
  BY <1>1, <1>2

LEMMA RevalidationTyped ==
  ASSUME TypeOK, NEW cl \in Client, NEW c \in Cap, triggerRevalidation(cl, c)
  PROVE  /\ revalidating' \in [Client -> SUBSET Cap]
         /\ inflight' \in [Client -> SUBSET Cap]
         /\ discovers' \in [DiscoverId -> DiscoverCall \cup {NoCall}]
<1>1. CASE UNCHANGED <<revalidating, inflight, discovers>>
  BY <1>1 DEF TypeOK
<1>2. CASE coalesce(cl, c) /\ revalidating' = [revalidating EXCEPT ![cl] = @ \cup {c}]
  BY <1>2, CoalesceTyped DEF TypeOK
<1>3. QED
  BY <1>1, <1>2 DEF triggerRevalidation

\* What the server makes of a request: the record keeps its type, and its fields are known.
LEMMA HandledTyped ==
  ASSUME NEW r \in InvokeCall, NEW v \in MaybeVersion
  PROVE  /\ handled(r, v) \in InvokeCall
         /\ [handled(r, v) EXCEPT !.phase = "answered", !.version = v,
                                  !.reply = verdict(r.h, v)] \in InvokeCall
<1>1. attemptOf(r) \in Attempt
  BY DEF attemptOf, Attempt
<1>2. [r.ran EXCEPT ![attemptOf(r)] = IF verdict(r.h, v) = "ok" THEN v ELSE @]
         \in [Attempt -> MaybeVersion]
  BY <1>1 DEF InvokeCall
<1>3. handled(r, v) \in InvokeCall
  BY <1>2 DEF handled, InvokeCall
<1>4. verdict(r.h, v) \in {"ok", "mismatch", "notFound"}
  BY DEF verdict
<1>5. QED
  BY <1>3, <1>4 DEF InvokeCall

LEMMA OnlyTyped ==
  ASSUME NEW c \in Cap, NEW v \in MaybeVersion
  PROVE  Only(c, v) \in [Cap -> MaybeVersion]
BY DEF Only, MaybeVersion

LEMMA TypesHold == Spec => []TypeOK
<1>1. Init => TypeOK
  <2> SUFFICES ASSUME Init PROVE TypeOK
    OBVIOUS
  <2>1. registry \in [Cap -> MaybeVersion]
    BY DEF Init, MaybeVersion
  <2>2. store \in [Cap -> Entry]
    BY NoEntryTyped DEF Init
  <2>3. discovers \in [DiscoverId -> DiscoverCall \cup {NoCall}]
    BY DEF Init
  <2>4. invokes \in [InvokeId -> InvokeCall \cup {NoCall}]
    BY DEF Init
  <2>5. QED
    BY <2>1, <2>2, <2>3, <2>4 DEF Init, TypeOK
<1>2. TypeOK /\ [Next]_vars => TypeOK'
  <2> SUFFICES ASSUME TypeOK, [Next]_vars PROVE TypeOK'
    OBVIOUS
  <2>1. ASSUME NEW c \in Cap, NEW v \in Version, register(c, v) PROVE TypeOK'
    <3>1. registry' \in [Cap -> MaybeVersion]
      BY <2>1 DEF register, TypeOK, MaybeVersion
    <3>2. QED
      BY <2>1, <3>1 DEF register, TypeOK
  <2>2. ASSUME NEW cl \in Client, agentCard(cl) PROVE TypeOK'
    <3>1. agentKnown' \in [Client -> BOOLEAN]
      BY <2>2 DEF agentCard, TypeOK
    <3>2. QED
      BY <2>2, <3>1 DEF agentCard, TypeOK
  <2>3. ASSUME NEW d \in DiscoverId, NEW cl \in Client, NEW filter \in SUBSET Cap,
               NEW l \in AskedLevel, discover(d, cl, filter, l)
        PROVE  TypeOK'
    <3>1. l \in Level
      BY ClientAssumption DEF Level
    <3>2. sendDiscover(cl, filter, l, FALSE) \in DiscoverCall
      BY <3>1, SendTyped
    <3>3. discovers' \in [DiscoverId -> DiscoverCall \cup {NoCall}]
      BY <2>3, <3>2 DEF discover, TypeOK
    <3>4. QED
      BY <2>3, <3>3 DEF discover, TypeOK
  <2>4. ASSUME NEW d \in DiscoverId, handleDiscover(d) PROVE TypeOK'
    <3>1. discovers[d] \in DiscoverCall
      BY <2>4, WaitingDiscover DEF handleDiscover, Waiting
    <3>2. [c \in Cap |-> IF c \in discovers[d].filter THEN registry[c] ELSE NoVersion]
             \in [Cap -> MaybeVersion]
      BY DEF TypeOK, MaybeVersion
    <3>3. discovers'[d] \in DiscoverCall
      BY <2>4, <3>1, <3>2 DEF handleDiscover, DiscoverCall, TypeOK
    <3>4. discovers' \in [DiscoverId -> DiscoverCall \cup {NoCall}]
      BY <2>4, <3>3 DEF handleDiscover, TypeOK
    <3>5. QED
      BY <2>4, <3>4 DEF handleDiscover, TypeOK
  <2>5. ASSUME NEW d \in DiscoverId, DiscoverIntroduces(d) PROVE TypeOK'
    <3>1. Waiting(discovers[d]) /\ settle(d)
      BY <2>5 DEF DiscoverIntroduces, Waiting
    <3>2. agentKnown' \in [Client -> BOOLEAN]
      BY <2>5 DEF DiscoverIntroduces, TypeOK
    <3>3. QED
      BY <2>5, <3>1, <3>2, SettleTyped DEF DiscoverIntroduces, TypeOK
  <2>6. ASSUME NEW d \in DiscoverId, DiscoverArrives(d) PROVE TypeOK'
    <3>1. Waiting(discovers[d]) /\ settle(d)
      BY <2>6 DEF DiscoverArrives, Waiting
    <3>2. discovers[d] \in DiscoverCall
      BY <3>1, WaitingDiscover
    <3>3. /\ discovers[d].caps \in [Cap -> MaybeVersion]
          /\ discovers[d].level \in Level
          /\ discovers[d].client \in Client
      BY <3>2 DEF DiscoverCall
    <3>4. store' \in [Cap -> Entry]
      BY <2>6, <3>3, SetTyped DEF DiscoverArrives
    <3>5. negative' \in [Client -> SUBSET Cap]
      BY <2>6, <3>3, ClearNegativeTyped DEF DiscoverArrives
    <3>6. QED
      BY <2>6, <3>1, <3>4, <3>5, SettleTyped DEF DiscoverArrives, TypeOK
  <2>7. ASSUME NEW d \in DiscoverId, DiscoverRejected(d) PROVE TypeOK'
    <3>1. Waiting(discovers[d]) /\ settle(d)
      BY <2>7 DEF DiscoverRejected, Waiting
    <3>2. QED
      BY <2>7, <3>1, SettleTyped DEF DiscoverRejected, TypeOK
  <2>8. ASSUME NEW d \in DiscoverId, DiscoverLost(d) PROVE TypeOK'
    BY <2>8, SettleTyped DEF DiscoverLost, TypeOK
  <2>9. ASSUME NEW cl \in Client, NEW c \in Cap, CooldownEnds(cl, c) PROVE TypeOK'
    <3>1. revalidating' \in [Client -> SUBSET Cap]
      BY <2>9 DEF CooldownEnds, TypeOK
    <3>2. QED
      BY <2>9, <3>1 DEF CooldownEnds, TypeOK
  <2>10. ASSUME NEW i \in InvokeId, NEW cl \in Client, NEW c \in Cap, invoke(i, cl, c)
         PROVE  TypeOK'
    <3> DEFINE e == getEntry(cl, c)
               call == [phase |-> "sent", client |-> cl, cap |-> c, onItsWay |-> TRUE,
                        h |-> e.hash, retried |-> FALSE, reply |-> "none",
                        version |-> NoVersion, cached |-> e.hash, refusedBy |-> NoVersion,
                        ran |-> [k \in Attempt |-> NoVersion]]
    <3>1. e \in Entry
      BY GetEntryTyped
    <3>2. e.hash \in MaybeVersion /\ e.levels[2] \in MaybeVersion
      BY <3>1 DEF Entry, Level
    <3>3. call \in InvokeCall
      BY <3>2 DEF InvokeCall, MaybeVersion
    <3>4. invokes' = [invokes EXCEPT ![i] = call]
      BY <2>10 DEF invoke
    <3>5. invokes' \in [InvokeId -> InvokeCall \cup {NoCall}]
      BY <3>3, <3>4 DEF TypeOK
    <3>6. triggerRevalidation(cl, c)
      BY <2>10 DEF invoke
    <3>7. QED
      BY <2>10, <3>5, <3>6, RevalidationTyped DEF invoke, TypeOK
  <2>11. ASSUME NEW i \in InvokeId, handleInvoke(i) PROVE TypeOK'
    <3>1. invokes[i] \in InvokeCall
      BY <2>11, LiveInvoke DEF handleInvoke, OnItsWay
    <3>2. registry[invokes[i].cap] \in MaybeVersion
      BY <3>1 DEF InvokeCall, TypeOK
    <3>3. invokes'[i] \in InvokeCall
      BY <2>11, <3>1, <3>2, HandledTyped DEF handleInvoke, TypeOK
    <3>4. invokes' \in [InvokeId -> InvokeCall \cup {NoCall}]
      BY <2>11, <3>3 DEF handleInvoke, TypeOK
    <3>5. QED
      BY <2>11, <3>4 DEF handleInvoke, TypeOK
  <2>12. ASSUME NEW i \in InvokeId, Retry(i) PROVE TypeOK'
    <3> DEFINE schema == Only(invokes[i].cap, invokes[i].version)
    <3>1. invokes[i] \in InvokeCall
      BY <2>12, LiveInvoke DEF Retry
    <3>2. /\ invokes[i].cap \in Cap
          /\ invokes[i].version \in MaybeVersion
          /\ invokes[i].client \in Client
      BY <3>1 DEF InvokeCall
    <3>3. schema \in [Cap -> MaybeVersion]
      BY <3>2, OnlyTyped
    <3>4. 2 \in Level
      BY DEF Level
    <3>5. set(schema, 2) /\ clearNegative(invokes[i].client, schema)
      BY <2>12 DEF Retry
    <3> HIDE DEF schema
    <3>6. store' \in [Cap -> Entry]
      BY <3>3, <3>4, <3>5, SetTyped
    <3>7. negative' \in [Client -> SUBSET Cap]
      BY <3>2, <3>5, ClearNegativeTyped
    <3>8. invokes'[i] \in InvokeCall
      BY <2>12, <3>1 DEF Retry, sendAgain, InvokeCall, TypeOK, MaybeVersion
    <3>9. invokes' \in [InvokeId -> InvokeCall \cup {NoCall}]
      BY <2>12, <3>8 DEF Retry, sendAgain, TypeOK
    <3>10. QED
      BY <2>12, <3>6, <3>7, <3>9 DEF Retry, TypeOK
  <2>13. ASSUME NEW i \in InvokeId, InvokeEnds(i) PROVE TypeOK'
    <3>1. invokes[i] \in InvokeCall
      BY <2>13, LiveInvoke DEF InvokeEnds
    <3>2. invokes'[i] \in InvokeCall
      BY <2>13, <3>1 DEF InvokeEnds, InvokeCall, TypeOK
    <3>3. invokes' \in [InvokeId -> InvokeCall \cup {NoCall}]
      BY <2>13, <3>2 DEF InvokeEnds, TypeOK
    <3>4. QED
      BY <2>13, <3>3 DEF InvokeEnds, TypeOK
  <2>14. ASSUME NEW i \in InvokeId, InvokeLost(i) PROVE TypeOK'
    <3>1. invokes[i] \in InvokeCall
      BY <2>14, LiveInvoke DEF InvokeLost, Waiting
    <3>2. PICK late \in {invokes[i].onItsWay, FALSE} :
            invokes' = [invokes EXCEPT ![i].phase = "done", ![i].reply = "lost",
                                       ![i].onItsWay = late]
      BY <2>14 DEF InvokeLost
    <3>5. late \in BOOLEAN
      BY <3>1, <3>2 DEF InvokeCall
    <3>6. [invokes[i] EXCEPT !.phase = "done", !.reply = "lost", !.onItsWay = late]
             \in InvokeCall
      BY <3>1, <3>5 DEF InvokeCall
    <3>3. invokes' \in [InvokeId -> InvokeCall \cup {NoCall}]
      BY <3>2, <3>6 DEF TypeOK
    <3>4. QED
      BY <2>14, <3>3 DEF InvokeLost, TypeOK
  <2>15. ASSUME NEW cl \in Client, NEW c \in Cap, setNegative(cl, c) \/ NegativeExpires(cl, c)
         PROVE  TypeOK'
    <3>1. negative' \in [Client -> SUBSET Cap]
      BY <2>15 DEF setNegative, NegativeExpires, TypeOK
    <3>2. QED
      BY <2>15, <3>1 DEF setNegative, NegativeExpires, TypeOK
  <2>16. ASSUME NEW c \in Cap, Dropped(c) \/ GoesStale(c) PROVE TypeOK'
    <3>1. store[c] \in Entry
      BY DEF TypeOK
    <3>2. [store[c] EXCEPT !.freshness = "stale"] \in Entry
      BY <3>1 DEF Entry
    <3>3. store' \in [Cap -> Entry]
      BY <2>16, <3>2, NoEntryTyped DEF Dropped, GoesStale, TypeOK
    <3>4. QED
      BY <2>16, <3>3 DEF Dropped, GoesStale, TypeOK
  <2>17. ASSUME NEW cl \in Client, invalidateAgent(cl) \/ clear(cl) PROVE TypeOK'
    <3>1. store' \in [Cap -> Entry]
      BY <2>17, NoEntryTyped DEF invalidateAgent, clear
    <3>2. negative' \in [Client -> SUBSET Cap] /\ revalidating' \in [Client -> SUBSET Cap]
      BY <2>17 DEF invalidateAgent, clear, TypeOK
    <3>3. QED
      BY <2>17, <3>1, <3>2 DEF invalidateAgent, clear, TypeOK
  <2>18. CASE UNCHANGED vars
    BY <2>18 DEF vars, TypeOK
  <2>19. QED
    BY <2>1, <2>2, <2>3, <2>4, <2>5, <2>6, <2>7, <2>8, <2>9, <2>10, <2>11, <2>12, <2>13,
       <2>14, <2>15, <2>16, <2>17, <2>18 DEF Next
<1>3. QED
  BY <1>1, <1>2, PTL DEF Spec

\* TypeOK (NekteClient): whatever is sent, answered, cached or dropped, the state stays in
\* its types: every call is whole, every entry is an entry.
THEOREM ClientTypeCorrect == Spec => []TypeOK
BY TypesHold

(***************************************************************************)
(* The coalescer.                                                          *)
(***************************************************************************)
\* Only the steps that send, settle or coalesce touch the coalescer's state.
LEMMA SettlingFreesTheKey ==
  ASSUME RefreshInv, TypeOK', NEW d \in DiscoverId, Waiting(discovers[d]), settle(d)
  PROVE  (RefreshesHoldTheirKey /\ OneRefreshPerKey)'
<1> DEFINE r == discovers[d]
<1>1. r \in DiscoverCall
  BY WaitingDiscover DEF RefreshInv
<1>2. r.client \in Client /\ r.filter \in SUBSET Cap /\ r.refresh \in BOOLEAN
  BY <1>1 DEF DiscoverCall
<1>3. ~Waiting(discovers'[d])
  BY DEF settle, Waiting, NoCall, RefreshInv, TypeOK
<1>4. \A e \in DiscoverId : e # d => discovers'[e] = discovers[e]
  BY DEF settle, RefreshInv, TypeOK
<1>5. \A cl \in Client, c \in Cap : Refreshes(cl, c)' = Refreshes(cl, c) \ {d}
  BY <1>3, <1>4 DEF Refreshes
<1>6. CASE ~r.refresh
  <2>1. inflight' = inflight
    BY <1>2, <1>6 DEF settle, RefreshInv, TypeOK
  <2>2. \A cl \in Client, c \in Cap : Refreshes(cl, c)' = Refreshes(cl, c)
    BY <1>5, <1>6 DEF Refreshes
  <2>3. OneRefreshPerKey'
    BY <2>1, <2>2 DEF RefreshInv, OneRefreshPerKey
  <2>4. RefreshesHoldTheirKey'
    BY <1>3, <1>4, <2>1 DEF RefreshInv, RefreshesHoldTheirKey
  <2>5. QED
    BY <2>3, <2>4
<1>7. CASE r.refresh
  <2>1. PICK k \in Cap : r.filter = {k} /\ k \in inflight[r.client]
    BY <1>7 DEF RefreshInv, RefreshesHoldTheirKey
  <2>2. /\ inflight' = [inflight EXCEPT ![r.client] = @ \ {k}]
        /\ inflight \in [Client -> SUBSET Cap]
    BY <1>7, <2>1 DEF settle, RefreshInv, TypeOK
  <2>3. \A cl \in Client, c \in Cap :
          c \in inflight'[cl] <=> c \in inflight[cl] /\ ~(cl = r.client /\ c = k)
    BY <1>2, <2>2
  <2>4. d \in Refreshes(r.client, k)
    BY <1>7, <2>1 DEF Refreshes
  <2>5. Refreshes(r.client, k) = {d}
    BY <1>2, <2>4 DEF RefreshInv, OneRefreshPerKey
  <2>6. \A cl \in Client, c \in Cap :
          ~(cl = r.client /\ c = k) => d \notin Refreshes(cl, c)
    BY <2>1 DEF Refreshes
  <2>7. OneRefreshPerKey'
    <3> SUFFICES ASSUME NEW cl \in Client, NEW c \in Cap
                 PROVE  /\ Refreshes(cl, c)' # {} <=> c \in inflight'[cl]
                        /\ \A e, f \in Refreshes(cl, c)' : e = f
      BY DEF OneRefreshPerKey
    <3>1. CASE cl = r.client /\ c = k
      BY <1>5, <2>3, <2>5, <3>1
    <3>2. CASE ~(cl = r.client /\ c = k)
      <4>1. Refreshes(cl, c)' = Refreshes(cl, c)
        BY <1>5, <2>6, <3>2
      <4>2. QED
        BY <2>3, <3>2, <4>1 DEF RefreshInv, OneRefreshPerKey
    <3>3. QED
      BY <3>1, <3>2
  <2>8. RefreshesHoldTheirKey'
    <3> SUFFICES ASSUME NEW e \in DiscoverId, Waiting(discovers'[e]), discovers'[e].refresh
                 PROVE  \E c \in Cap : /\ discovers'[e].filter = {c}
                                       /\ c \in inflight'[discovers'[e].client]
      BY DEF RefreshesHoldTheirKey
    <3>1. e # d /\ discovers'[e] = discovers[e]
      BY <1>3, <1>4
    <3>2. PICK c \in Cap : discovers[e].filter = {c} /\ c \in inflight[discovers[e].client]
      BY <3>1 DEF RefreshInv, RefreshesHoldTheirKey
    <3>3. discovers[e].client \in Client
      BY <3>1, WaitingDiscover DEF RefreshInv, DiscoverCall
    <3>4. e \in Refreshes(discovers[e].client, c)
      BY <3>1, <3>2 DEF Refreshes
    <3>5. ~(discovers[e].client = r.client /\ c = k)
      BY <2>5, <3>1, <3>4
    <3>6. QED
      BY <2>3, <3>1, <3>2, <3>3, <3>5
  <2>9. QED
    BY <2>7, <2>8
<1>8. QED
  BY <1>2, <1>6, <1>7

LEMMA CoalescingTakesTheKey ==
  ASSUME RefreshInv, NEW cl \in Client, NEW c \in Cap, coalesce(cl, c)
  PROVE  (RefreshesHoldTheirKey /\ OneRefreshPerKey)'
<1>1. CASE c \in inflight[cl]
  BY <1>1 DEF coalesce, RefreshInv, RefreshesHoldTheirKey, OneRefreshPerKey, Refreshes
<1>2. CASE c \notin inflight[cl]
  <2>1. PICK d \in DiscoverId :
          /\ ~Waiting(discovers[d])
          /\ discovers' = [discovers EXCEPT
                ![d] = sendDiscover(cl, {c}, highestLevel(getEntry(cl, c)), TRUE)]
          /\ inflight' = [inflight EXCEPT ![cl] = @ \cup {c}]
    BY <1>2 DEF coalesce
  <2>2. highestLevel(getEntry(cl, c)) \in Level /\ {c} \in SUBSET Cap
    BY HighestLevelTyped
  <2>3. /\ discovers'[d].phase = "sent"
        /\ discovers'[d].client = cl
        /\ discovers'[d].filter = {c}
        /\ discovers'[d].refresh = TRUE
    <3> DEFINE request == sendDiscover(cl, {c}, highestLevel(getEntry(cl, c)), TRUE)
    <3>1. /\ request.phase = "sent" /\ request.client = cl
          /\ request.filter = {c} /\ request.refresh = TRUE
      BY DEF sendDiscover
    <3>2. discovers'[d] = request
      BY <2>1 DEF RefreshInv, TypeOK
    <3>3. QED
      BY <3>1, <3>2
  <2>4. \A e \in DiscoverId : e # d => discovers'[e] = discovers[e]
    BY <2>1 DEF RefreshInv, TypeOK
  <2>5. \A x \in Client, k \in Cap :
          k \in inflight'[x] <=> k \in inflight[x] \/ (x = cl /\ k = c)
    BY <2>1 DEF RefreshInv, TypeOK
  <2>6. \A x \in Client, k \in Cap : d \notin Refreshes(x, k)
    BY <2>1 DEF Refreshes
  <2>7. OneRefreshPerKey'
    <3> SUFFICES ASSUME NEW x \in Client, NEW k \in Cap
                 PROVE  /\ Refreshes(x, k)' # {} <=> k \in inflight'[x]
                        /\ \A e, f \in Refreshes(x, k)' : e = f
      BY DEF OneRefreshPerKey
    <3>1. CASE x = cl /\ k = c
      <4>1. Refreshes(x, k) = {}
        BY <1>2, <3>1 DEF RefreshInv, OneRefreshPerKey
      <4>2. Refreshes(x, k)' = {d}
        BY <2>3, <2>4, <3>1, <4>1 DEF Refreshes, Waiting
      <4>3. QED
        BY <2>5, <3>1, <4>2
    <3>2. CASE ~(x = cl /\ k = c)
      <4>1. Refreshes(x, k)' = Refreshes(x, k)
        BY <2>3, <2>4, <2>6, <3>2 DEF Refreshes
      <4>2. QED
        BY <2>5, <3>2, <4>1 DEF RefreshInv, OneRefreshPerKey
    <3>3. QED
      BY <3>1, <3>2
  <2>8. RefreshesHoldTheirKey'
    <3> SUFFICES ASSUME NEW e \in DiscoverId, Waiting(discovers'[e]), discovers'[e].refresh
                 PROVE  \E k \in Cap : /\ discovers'[e].filter = {k}
                                       /\ k \in inflight'[discovers'[e].client]
      BY DEF RefreshesHoldTheirKey
    <3>1. CASE e = d
      BY <2>3, <2>5, <3>1
    <3>2. CASE e # d
      <4>1. discovers'[e] = discovers[e]
        BY <2>4, <3>2
      <4>2. discovers[e].client \in Client
        BY <4>1, WaitingDiscover DEF RefreshInv, DiscoverCall
      <4>3. QED
        BY <2>5, <4>1, <4>2 DEF RefreshInv, RefreshesHoldTheirKey
    <3>3. QED
      BY <3>1, <3>2
  <2>9. QED
    BY <2>7, <2>8
<1>3. QED
  BY <1>1, <1>2

LEMMA CoalescerUntouched ==
  ASSUME RefreshInv, UNCHANGED <<inflight, discovers>>
  PROVE  (RefreshesHoldTheirKey /\ OneRefreshPerKey)'
BY DEF RefreshInv, RefreshesHoldTheirKey, OneRefreshPerKey, Refreshes

\* A discovery asked for by the application, and an answer, involve no key.
LEMMA OtherDiscoveries ==
  ASSUME RefreshInv, NEW d \in DiscoverId, inflight' = inflight,
         \A e \in DiscoverId : e # d => discovers'[e] = discovers[e],
         \/ ~Waiting(discovers[d]) /\ ~discovers'[d].refresh
         \/ /\ Waiting(discovers[d]) /\ Waiting(discovers'[d])
            /\ discovers'[d].client = discovers[d].client
            /\ discovers'[d].filter = discovers[d].filter
            /\ discovers'[d].refresh = discovers[d].refresh
  PROVE  (RefreshesHoldTheirKey /\ OneRefreshPerKey)'
<1>1. \A cl \in Client, c \in Cap : Refreshes(cl, c)' = Refreshes(cl, c)
  BY DEF Refreshes
<1>2. OneRefreshPerKey'
  BY <1>1 DEF RefreshInv, OneRefreshPerKey
<1>3. RefreshesHoldTheirKey'
  BY DEF RefreshInv, RefreshesHoldTheirKey
<1>4. QED
  BY <1>2, <1>3

LEMMA RefreshInvariant == Spec => []RefreshInv
<1>1. Init => RefreshesHoldTheirKey /\ OneRefreshPerKey
  BY DEF Init, RefreshesHoldTheirKey, OneRefreshPerKey, Refreshes, Waiting, NoCall
<1>2. RefreshInv /\ TypeOK' /\ [Next]_vars => (RefreshesHoldTheirKey /\ OneRefreshPerKey)'
  <2> SUFFICES ASSUME RefreshInv, TypeOK', [Next]_vars
               PROVE  (RefreshesHoldTheirKey /\ OneRefreshPerKey)'
    OBVIOUS
  <2>1. ASSUME NEW d \in DiscoverId, NEW cl \in Client, NEW filter \in SUBSET Cap,
               NEW l \in AskedLevel, discover(d, cl, filter, l)
        PROVE  (RefreshesHoldTheirKey /\ OneRefreshPerKey)'
    <3>1. /\ ~Waiting(discovers[d]) /\ inflight' = inflight
          /\ \A e \in DiscoverId : e # d => discovers'[e] = discovers[e]
      BY <2>1 DEF discover, RefreshInv, TypeOK
    <3>2. discovers'[d].refresh = FALSE
      BY <2>1 DEF discover, sendDiscover, RefreshInv, TypeOK
    <3>3. QED
      BY <3>1, <3>2, OtherDiscoveries
  <2>2. ASSUME NEW d \in DiscoverId, handleDiscover(d)
        PROVE  (RefreshesHoldTheirKey /\ OneRefreshPerKey)'
    <3>1. Waiting(discovers[d]) /\ discovers[d] \in DiscoverCall
      BY <2>2, WaitingDiscover DEF handleDiscover, Waiting, RefreshInv
    <3>2. /\ inflight' = inflight
          /\ \A e \in DiscoverId : e # d => discovers'[e] = discovers[e]
      BY <2>2 DEF handleDiscover, RefreshInv, TypeOK
    <3>3. /\ discovers'[d].phase = "answered"
          /\ discovers'[d].client = discovers[d].client
          /\ discovers'[d].filter = discovers[d].filter
          /\ discovers'[d].refresh = discovers[d].refresh
      BY <2>2, <3>1 DEF handleDiscover, RefreshInv, TypeOK, DiscoverCall
    <3>4. QED
      BY <3>1, <3>2, <3>3, OtherDiscoveries DEF Waiting
  <2>3. ASSUME NEW d \in DiscoverId,
               \/ DiscoverIntroduces(d) \/ DiscoverArrives(d)
               \/ DiscoverRejected(d) \/ DiscoverLost(d)
        PROVE  (RefreshesHoldTheirKey /\ OneRefreshPerKey)'
    <3>1. Waiting(discovers[d]) /\ settle(d)
      BY <2>3 DEF DiscoverIntroduces, DiscoverArrives, DiscoverRejected, DiscoverLost, Waiting
    <3>2. QED
      BY <3>1, SettlingFreesTheKey
  <2>4. ASSUME NEW i \in InvokeId, NEW cl \in Client, NEW c \in Cap, invoke(i, cl, c)
        PROVE  (RefreshesHoldTheirKey /\ OneRefreshPerKey)'
    <3>1. UNCHANGED <<inflight, discovers>> \/ coalesce(cl, c)
      BY <2>4 DEF invoke, triggerRevalidation
    <3>2. QED
      BY <3>1, CoalescerUntouched, CoalescingTakesTheKey
  <2>5. CASE UNCHANGED <<inflight, discovers>>
    BY <2>5, CoalescerUntouched
  <2>6. QED
    BY <2>1, <2>2, <2>3, <2>4, <2>5
    DEF Next, vars, register, agentCard, CooldownEnds, handleInvoke, Retry, InvokeEnds,
        InvokeLost, setNegative, NegativeExpires, Dropped, invalidateAgent, clear, GoesStale
<1>3. QED
  BY <1>1, <1>2, TypesHold, PTL DEF Spec, RefreshInv

\* OneRefreshPerKey (request-coalescer.ts:30, cache.ts:237): the coalescer holds a key
\* exactly while one refresh for it is in flight, and never two at once, although the
\* cooldown may end or the cache be cleared while a slow refresh is still out.
THEOREM RefreshesAreCoalesced == Spec => []OneRefreshPerKey
BY RefreshInvariant, PTL DEF RefreshInv

(***************************************************************************)
(* Calls and versions.                                                     *)
(***************************************************************************)
LEMMA AnsweredFields ==
  ASSUME NEW q \in InvokeCall, NEW v, NEW reply
  PROVE  LET told == [q EXCEPT !.phase = "answered", !.version = v, !.reply = reply] IN
           /\ told.phase = "answered" /\ told.version = v /\ told.reply = reply
           /\ told.h = q.h /\ told.retried = q.retried /\ told.cached = q.cached
           /\ told.refusedBy = q.refusedBy /\ told.onItsWay = q.onItsWay /\ told.ran = q.ran
BY DEF InvokeCall

LEMMA HandledConsistently ==
  ASSUME NEW r \in InvokeCall, NEW v \in MaybeVersion, CallIsConsistent(r), r.onItsWay
  PROVE  /\ r.phase # "sent" => CallIsConsistent(handled(r, v))
         /\ CallIsConsistent([handled(r, v) EXCEPT !.phase = "answered", !.version = v,
                                                   !.reply = verdict(r.h, v)])
<1> DEFINE ran == IF verdict(r.h, v) = "ok" THEN v ELSE NoVersion
<1>1. attemptOf(r) \in Attempt /\ attemptOf(r) = IF r.retried THEN 2 ELSE 1
  BY DEF attemptOf, Attempt
<1>2. r.ran[attemptOf(r)] = NoVersion /\ r.reply \in {"none", "lost"}
  BY DEF CallIsConsistent
<1>3. /\ handled(r, v).phase = r.phase /\ handled(r, v).h = r.h
      /\ handled(r, v).retried = r.retried /\ handled(r, v).reply = r.reply
      /\ handled(r, v).version = r.version /\ handled(r, v).cached = r.cached
      /\ handled(r, v).refusedBy = r.refusedBy /\ handled(r, v).onItsWay = FALSE
      /\ handled(r, v).ran = [r.ran EXCEPT ![attemptOf(r)] = ran]
  BY <1>2 DEF handled, InvokeCall
<1>4. \A k \in Attempt :
        handled(r, v).ran[k] = IF k = attemptOf(r) THEN ran ELSE r.ran[k]
  BY <1>1, <1>3 DEF InvokeCall
<1>5. attemptOf(handled(r, v)) = attemptOf(r)
  BY <1>3 DEF attemptOf
<1> DEFINE told == [handled(r, v) EXCEPT !.phase = "answered", !.version = v,
                                         !.reply = verdict(r.h, v)]
<1>6. /\ told.phase = "answered" /\ told.h = r.h /\ told.retried = r.retried
      /\ told.reply = verdict(r.h, v) /\ told.version = v /\ told.cached = r.cached
      /\ told.refusedBy = r.refusedBy /\ told.onItsWay = FALSE
      /\ told.ran = handled(r, v).ran
  <2> DEFINE q == handled(r, v)
  <2>1. q \in InvokeCall
    BY HandledTyped
  <2>2. /\ q.h = r.h /\ q.retried = r.retried /\ q.cached = r.cached
        /\ q.refusedBy = r.refusedBy /\ q.onItsWay = FALSE
    BY <1>3
  <2> HIDE DEF q
  <2>3. /\ told.phase = "answered" /\ told.version = v /\ told.reply = verdict(r.h, v)
        /\ told.h = q.h /\ told.retried = q.retried /\ told.cached = q.cached
        /\ told.refusedBy = q.refusedBy /\ told.onItsWay = q.onItsWay /\ told.ran = q.ran
    BY <2>1, AnsweredFields DEF q
  <2>4. QED
    BY <2>2, <2>3 DEF q
<1>7. attemptOf(told) = attemptOf(r)
  BY <1>6 DEF attemptOf
<1>8. r.h # NoVersion /\ ran # NoVersion => ran = r.h
  BY DEF verdict
<1>9. 1 \in Attempt /\ 2 \in Attempt
  BY DEF Attempt
<1> HIDE DEF told
<1>10. ASSUME r.phase # "sent" PROVE CallIsConsistent(handled(r, v))
  <2>1. CASE r.retried
    BY <1>1, <1>2, <1>3, <1>4, <1>5, <1>9, <1>10, <2>1 DEF CallIsConsistent
  <2>2. CASE ~r.retried
    BY <1>1, <1>2, <1>3, <1>4, <1>5, <1>8, <1>9, <1>10, <2>2 DEF CallIsConsistent, ran
  <2>3. QED
    BY <2>1, <2>2
<1>11. CallIsConsistent(told)
  <2>1. /\ told.reply = "ok" => ran = v
        /\ told.reply \in {"mismatch", "notFound"} => ran = NoVersion
        /\ told.reply = "mismatch" => r.h # NoVersion /\ v \notin {NoVersion, r.h}
    BY <1>6 DEF verdict
  <2>2. CASE r.retried
    BY <1>1, <1>4, <1>6, <1>7, <1>9, <2>1, <2>2 DEF CallIsConsistent
  <2>3. CASE ~r.retried
    BY <1>1, <1>4, <1>6, <1>7, <1>8, <1>9, <2>1, <2>3 DEF CallIsConsistent
  <2>4. QED
    BY <2>2, <2>3
<1>12. QED
  BY <1>10, <1>11 DEF told

LEMMA CallsInvariant == Spec => [](TypeOK /\ CallsAreConsistent)
<1>1. Init => CallsAreConsistent
  BY DEF Init, CallsAreConsistent, NoCall
<1>2. TypeOK /\ CallsAreConsistent /\ [Next]_vars => CallsAreConsistent'
  <2> SUFFICES ASSUME TypeOK, CallsAreConsistent, [Next]_vars PROVE CallsAreConsistent'
    OBVIOUS
  <2>1. ASSUME NEW i \in InvokeId, CallIsConsistent(invokes'[i]),
               \A j \in InvokeId : j # i => invokes'[j] = invokes[j]
        PROVE  CallsAreConsistent'
    BY <2>1 DEF CallsAreConsistent, CallIsConsistent, attemptOf
  <2>2. ASSUME NEW i \in InvokeId, NEW cl \in Client, NEW c \in Cap, invoke(i, cl, c)
        PROVE  CallsAreConsistent'
    <3>1. \A j \in InvokeId : j # i => invokes'[j] = invokes[j]
      BY <2>2 DEF invoke, TypeOK
    <3>2. /\ invokes'[i].retried = FALSE /\ invokes'[i].reply = "none"
          /\ invokes'[i].h = invokes'[i].cached /\ invokes'[i].onItsWay
          /\ invokes'[i].ran = [k \in Attempt |-> NoVersion]
      BY <2>2 DEF invoke, TypeOK
    <3>3. CallIsConsistent(invokes'[i])
      BY <3>2 DEF CallIsConsistent, attemptOf, Attempt
    <3>4. QED
      BY <2>1, <3>1, <3>3
  <2>3. ASSUME NEW i \in InvokeId, handleInvoke(i) PROVE CallsAreConsistent'
    <3>1. \A j \in InvokeId : j # i => invokes'[j] = invokes[j]
      BY <2>3 DEF handleInvoke, TypeOK
    <3>2. invokes[i] \in InvokeCall /\ CallIsConsistent(invokes[i]) /\ invokes[i].onItsWay
      BY <2>3, LiveInvoke DEF handleInvoke, OnItsWay, CallsAreConsistent
    <3>3. registry[invokes[i].cap] \in MaybeVersion
      BY <3>2 DEF TypeOK, InvokeCall
    <3>4. CallIsConsistent(invokes'[i])
      BY <2>3, <3>2, <3>3, HandledConsistently DEF handleInvoke, TypeOK
    <3>5. QED
      BY <2>1, <3>1, <3>4
  <2>4. ASSUME NEW i \in InvokeId, Retry(i) PROVE CallsAreConsistent'
    <3>1. \A j \in InvokeId : j # i => invokes'[j] = invokes[j]
      BY <2>4 DEF Retry, sendAgain, TypeOK
    <3>2. invokes[i] \in InvokeCall /\ CallIsConsistent(invokes[i])
      BY <2>4, LiveInvoke DEF Retry, CallsAreConsistent
    <3>3. ~invokes[i].retried /\ invokes[i].reply = "mismatch"
      BY <2>4 DEF Retry, isVersionMismatch
    <3>4. /\ invokes'[i].h = NoVersion /\ invokes'[i].reply = "none"
          /\ invokes'[i].retried = TRUE /\ invokes'[i].onItsWay
          /\ invokes'[i].cached = invokes[i].cached /\ invokes'[i].ran = invokes[i].ran
          /\ invokes'[i].refusedBy = invokes[i].version
      BY <2>4, <3>2 DEF Retry, sendAgain, TypeOK, InvokeCall
    <3>5. /\ invokes[i].ran[1] = NoVersion /\ invokes[i].ran[2] = NoVersion
          /\ invokes[i].version \notin {NoVersion, invokes[i].cached}
      BY <3>2, <3>3 DEF CallIsConsistent, attemptOf
    <3>6. CallIsConsistent(invokes'[i])
      BY <3>4, <3>5 DEF CallIsConsistent, attemptOf
    <3>7. QED
      BY <2>1, <3>1, <3>6
  <2>5. ASSUME NEW i \in InvokeId, InvokeEnds(i) \/ InvokeLost(i) PROVE CallsAreConsistent'
    <3>1. \A j \in InvokeId : j # i => invokes'[j] = invokes[j]
      BY <2>5 DEF InvokeEnds, InvokeLost, TypeOK
    <3>2. invokes[i] \in InvokeCall /\ CallIsConsistent(invokes[i])
      BY <2>5, LiveInvoke DEF InvokeEnds, InvokeLost, Waiting, CallsAreConsistent
    <3>3. /\ invokes'[i].h = invokes[i].h /\ invokes'[i].retried = invokes[i].retried
          /\ invokes'[i].version = invokes[i].version /\ invokes'[i].ran = invokes[i].ran
          /\ invokes'[i].cached = invokes[i].cached
          /\ invokes'[i].refusedBy = invokes[i].refusedBy
          /\ invokes'[i].reply \in {invokes[i].reply, "lost"}
          /\ invokes'[i].onItsWay \in {invokes[i].onItsWay, FALSE}
          /\ invokes'[i].phase = "done"
      <4>1. CASE InvokeEnds(i)
        BY <3>2, <4>1 DEF InvokeEnds, TypeOK, InvokeCall
      <4>2. CASE InvokeLost(i)
        <5>1. PICK late \in {invokes[i].onItsWay, FALSE} :
                invokes' = [invokes EXCEPT ![i].phase = "done", ![i].reply = "lost",
                                           ![i].onItsWay = late]
          BY <4>2 DEF InvokeLost
        <5>2. QED
          BY <3>2, <5>1 DEF TypeOK, InvokeCall
      <4>3. QED
        BY <2>5, <4>1, <4>2
    <3>4. CallIsConsistent(invokes'[i])
      BY <3>2, <3>3 DEF CallIsConsistent, attemptOf
    <3>5. QED
      BY <2>1, <3>1, <3>4
  <2>6. CASE UNCHANGED invokes
    BY <2>6 DEF CallsAreConsistent, CallIsConsistent, attemptOf
  <2>7. QED
    BY <2>2, <2>3, <2>4, <2>5, <2>6
    DEF Next, vars, register, agentCard, discover, handleDiscover, DiscoverIntroduces,
        DiscoverArrives, DiscoverRejected, DiscoverLost, CooldownEnds, setNegative,
        NegativeExpires, Dropped, invalidateAgent, clear, GoesStale
<1>3. QED
  BY <1>1, <1>2, TypesHold, PTL DEF Spec

\* OneRunPerInvoke (client.ts:222-231, server.ts:263-288): the input of a call runs at most
\* once over both attempts, whatever is lost or late; it runs under another schema than the
\* cached one only after a refusal for the version; and the answer tells whether it ran.
THEOREM CallsRunOnce == Spec => []OneRunPerInvoke
<1>1. TypeOK /\ CallsAreConsistent => OneRunPerInvoke
  <2> SUFFICES ASSUME TypeOK, CallsAreConsistent, NEW i \in InvokeId, invokes[i].phase # "idle"
               PROVE  LET r == invokes[i] IN
                 /\ r.ran[1] = NoVersion \/ r.ran[2] = NoVersion
                 /\ \A k \in Attempt :
                        r.cached # NoVersion /\ r.ran[k] \notin {NoVersion, r.cached}
                            => r.refusedBy \notin {NoVersion, r.cached}
                 /\ r.reply = "ok" => \E k \in Attempt : r.ran[k] = r.version
                 /\ r.reply \in {"mismatch", "notFound"}
                        => \A k \in Attempt : r.ran[k] = NoVersion
    BY DEF OneRunPerInvoke
  <2> DEFINE r == invokes[i]
  <2>1. CallIsConsistent(r)
    BY DEF CallsAreConsistent
  <2>2. /\ r \in InvokeCall /\ attemptOf(r) \in Attempt
        /\ \A k \in Attempt : k = 1 \/ k = 2
    BY LiveInvoke DEF attemptOf, Attempt
  <2>3. CASE r.retried
    BY <2>1, <2>2, <2>3 DEF CallIsConsistent, attemptOf
  <2>4. CASE ~r.retried
    BY <2>1, <2>2, <2>4 DEF CallIsConsistent, attemptOf
  <2>5. QED
    BY <2>2, <2>3, <2>4 DEF InvokeCall
<1>2. QED
  BY <1>1, CallsInvariant, PTL

\* NoCallFailsByVersion (client.ts:223): no call of a client that speaks HTTP fails because
\* of a version, whatever the others that share its cache speak. Over gRPC, which loses the
\* code, the run over MCNekteClientGrpc.cfg shows one that does.
THEOREM RetrySucceedsOverHttp == Spec => []NoCallFailsByVersion
<1>1. Init => NoCallFailsByVersion
  BY DEF Init, NoCallFailsByVersion, NoCall
<1>2. TypeOK /\ CallsAreConsistent /\ NoCallFailsByVersion /\ [Next]_vars
        => NoCallFailsByVersion'
  <2> SUFFICES ASSUME TypeOK, CallsAreConsistent, NoCallFailsByVersion,
                      [Next]_vars, NEW i \in InvokeId, invokes'[i].phase = "done",
                      invokes'[i].client \notin overGrpc'
               PROVE  invokes'[i].reply # "mismatch"
    BY DEF NoCallFailsByVersion
  <2>1. CASE InvokeEnds(i)
    <3>1. /\ invokes[i] \in InvokeCall /\ invokes'[i].reply = invokes[i].reply
          /\ invokes[i].client \notin overGrpc
      BY <2>1, LiveInvoke DEF InvokeEnds, InvokeCall, TypeOK
    <3>2. invokes[i].retried => invokes[i].reply # "mismatch"
      BY <2>1 DEF InvokeEnds, CallsAreConsistent, CallIsConsistent
    <3>3. ~isVersionMismatch(invokes[i]) => invokes[i].reply # "mismatch"
      BY <3>1 DEF isVersionMismatch
    <3>4. QED
      BY <2>1, <3>1, <3>2, <3>3 DEF InvokeEnds
  <2>2. CASE InvokeLost(i)
    <3>1. invokes[i] \in InvokeCall
      BY <2>2, LiveInvoke DEF InvokeLost, Waiting
    <3>2. QED
      BY <2>2, <3>1 DEF InvokeLost, InvokeCall, TypeOK
  <2>0. overGrpc' = overGrpc
    BY DEF Next, vars, register, agentCard, discover, handleDiscover, DiscoverIntroduces,
           DiscoverArrives, DiscoverRejected, DiscoverLost, CooldownEnds, invoke, handleInvoke,
           Retry, InvokeEnds, InvokeLost, setNegative, NegativeExpires, Dropped,
           invalidateAgent, clear, GoesStale
  <2>3. CASE invokes'[i] = invokes[i]
    BY <2>0, <2>3 DEF NoCallFailsByVersion
  <2>4. ASSUME NEW j \in InvokeId, NEW cl \in Client, NEW c \in Cap, invoke(j, cl, c)
        PROVE  invokes'[i] = invokes[i]
    <3>1. j # i
      BY <2>4 DEF invoke, TypeOK
    <3>2. QED
      BY <2>4, <3>1 DEF invoke, TypeOK
  <2>5. ASSUME NEW j \in InvokeId, handleInvoke(j) PROVE invokes'[i].reply # "mismatch"
    <3>1. CASE j # i
      BY <2>3, <2>5, <3>1 DEF handleInvoke, TypeOK
    <3>2. CASE j = i
      <4>1. invokes[i] \in InvokeCall
        BY <2>5, <3>2, LiveInvoke DEF handleInvoke, OnItsWay
      <4>2. invokes[i].phase # "sent"
        BY <2>5, <3>2, <4>1 DEF handleInvoke, InvokeCall, TypeOK
      <4>3. /\ invokes'[i].phase = invokes[i].phase /\ invokes'[i].reply = invokes[i].reply
            /\ invokes'[i].client = invokes[i].client
        BY <2>5, <3>2, <4>1, <4>2 DEF handleInvoke, handled, InvokeCall, TypeOK
      <4>4. QED
        BY <2>0, <4>3 DEF NoCallFailsByVersion
    <3>3. QED
      BY <3>1, <3>2
  <2>6. ASSUME NEW j \in InvokeId, Retry(j) PROVE invokes'[i] = invokes[i]
    <3>1. invokes[j] \in InvokeCall
      BY <2>6, LiveInvoke DEF Retry
    <3>2. j # i
      BY <2>6, <3>1 DEF Retry, sendAgain, InvokeCall, TypeOK
    <3>3. QED
      BY <2>6, <3>2 DEF Retry, sendAgain, TypeOK
  <2>7. ASSUME NEW j \in InvokeId, j # i, InvokeEnds(j) \/ InvokeLost(j)
        PROVE  invokes'[i] = invokes[i]
    BY <2>7 DEF InvokeEnds, InvokeLost, TypeOK
  <2>8. QED
    BY <2>1, <2>2, <2>3, <2>4, <2>5, <2>6, <2>7
    DEF Next, vars, register, agentCard, discover, handleDiscover, DiscoverIntroduces,
        DiscoverArrives, DiscoverRejected, DiscoverLost, CooldownEnds, setNegative,
        NegativeExpires, Dropped, invalidateAgent, clear, GoesStale
<1>3. QED
  BY <1>1, <1>2, CallsInvariant, PTL DEF Spec
================================================================================
