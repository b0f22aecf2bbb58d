----------------------------- MODULE BridgeProofs -----------------------------
(***************************************************************************)
(* Theorems about the bridge, for every set of servers, tools, callbacks,  *)
(* invocations and sessions.                                               *)
(*                                                                         *)
(* BridgeCatalog: the invariant is the conjunction of its three checked    *)
(* invariants, inductive as it stands, because a callback remembers that   *)
(* it changed something until it has built the catalog.                    *)
(*                                                                         *)
(* TokenBudget and BridgeInvoke: the choice of a representation, for every *)
(* result and budget.  BridgeInvoke implements BridgeCatalog: a request at *)
(* the bridge changes nothing of the catalog, so what is shown of the      *)
(* catalog holds here too.                                                 *)
(*                                                                         *)
(* StdioSession: a session knows which request it waits for.               *)
(***************************************************************************)
EXTENDS BridgeInvoke, StdioSession, SequenceTheorems, WellFoundedInduction, TLAPS

(***************************************************************************)
(* The catalog.                                                            *)
(***************************************************************************)
BridgeInv == TypeOK /\ SignatureMatchesTools /\ CatalogFollowsTools

\* A set of positions of a sequence has a last one (the helper of buildFrom).
LEMMA LastPosition ==
  ASSUME NEW n \in Nat, NEW S, S \subseteq 1..n, S # {}
  PROVE  Max(S) \in S
<1> DEFINE D == {d \in Nat : \E k \in S : d + k = n}
           Less == OpToRel(<, Nat)
<1>0. \A k \in S : k \in Nat /\ n - k \in Nat /\ (n - k) + k = n
  OBVIOUS
<1>1. D \subseteq Nat /\ D # {}
  BY <1>0
<1>2. PICK x \in D : \A y \in D : ~(<<y, x>> \in Less)
  BY <1>1, NatLessThanWellFounded, WFMin
<1>3. \A y \in D : ~(y < x)
  BY <1>1, <1>2 DEF OpToRel
<1>4. PICK k \in S : x + k = n
  OBVIOUS
<1>5. \A j \in S : k >= j
  <2> SUFFICES ASSUME NEW j \in S PROVE k >= j
    OBVIOUS
  <2>1. n - j \in D /\ n - j \in Nat
    BY <1>0
  <2>2. ~(n - j < x) /\ x \in Nat
    BY <1>3, <2>1
  <2>3. QED
    BY <1>0, <1>4, <2>2
<1>6. QED
  BY <1>5 DEF Max

\* What buildFrom builds is a catalog (catalog.ts:30).
LEMMA BuildFromTyped ==
  ASSUME NEW conns \in Seq(Server), NEW listings \in [Server -> Listing]
  PROVE  buildFrom(conns, listings)
           \in [Tool -> CatalogEntry \cup {NoTool}]
<1> SUFFICES ASSUME NEW t \in Tool, Offering(conns, listings, t) # {}
             PROVE  LET s == conns[Max(Offering(conns, listings, t))]
                    IN  s \in Server /\ listings[s][t] \in McpTool \ {NoTool}
  BY DEF buildFrom, CatalogEntry
<1> DEFINE k == Max(Offering(conns, listings, t))
<1>1. Offering(conns, listings, t) \subseteq 1..Len(conns) /\ Len(conns) \in Nat
  BY DEF Offering
<1>2. k \in Offering(conns, listings, t)
  BY <1>1, LastPosition
<1>3. k \in 1..Len(conns) /\ listings[conns[k]][t] # NoTool
  BY <1>1, <1>2 DEF Offering
<1>4. conns[k] \in Server
  BY <1>3
<1>5. listings[conns[k]][t] \in McpTool
  BY <1>4 DEF Listing
<1>6. QED
  BY <1>3, <1>4, <1>5

LEMMA SignatureTyped ==
  ASSUME NEW listing \in Listing
  PROVE  toolsSignature(listing) \in [Tool -> Input \cup {NoTool}]
<1>1. \A t \in Tool : listing[t] \in McpTool
  BY DEF Listing
<1>2. \A t \in Tool : listing[t] # NoTool => listing[t].input \in Input
  BY <1>1 DEF McpTool
<1>3. QED
  BY <1>2 DEF toolsSignature

LEMMA BridgeInitOK == Init => BridgeInv
<1> SUFFICES ASSUME Init PROVE BridgeInv
  OBVIOUS
<1>1. NoTools \in Listing
  BY DEF NoTools, Listing, McpTool
<1>2. catalog \in [Tool -> CatalogEntry \cup {NoTool}]
  BY DEF Init, NoTools
<1>3. signatureCache \in [Server -> [Tool -> Input \cup {NoTool}]]
  BY DEF Init, NoTools
<1>4. TypeOK
  BY <1>1, <1>2, <1>3 DEF Init, TypeOK, InFlight, Idle
<1>5. SignatureMatchesTools
  BY DEF Init, SignatureMatchesTools, toolsSignature, NoTools
<1>6. CatalogFollowsTools
  BY DEF Init, CatalogFollowsTools
<1>7. QED
  BY <1>4, <1>5, <1>6 DEF BridgeInv

(***************************************************************************)
(* Type correctness of the steps.                                          *)
(***************************************************************************)
LEMMA FetchedTyped ==
  ASSUME TypeOK, NEW s \in Server
  PROVE  fetchTools(s) \subseteq Listing
BY DEF TypeOK, fetchTools, NoTools, Listing, McpTool

LEMMA ConnectTyped ==
  ASSUME TypeOK, NEW s \in Server, connect(s)
  PROVE  TypeOK'
<1> USE DEF connect
<1>0. PICK listing \in fetchTools(s) :
           /\ tools' = [tools EXCEPT ![s] = listing]
           /\ signatureCache' = [signatureCache EXCEPT ![s] = toolsSignature(listing)]
  OBVIOUS
<1>1. offers' \in [Server -> Listing] /\ listing \in Listing
  BY <1>0, FetchedTyped DEF TypeOK
<1>2. phase' \in {"init", "serving", "stopped"} /\ tried' \subseteq Server
  BY DEF TypeOK
<1>3. connections \in Seq(Server) /\ \A k \in DOMAIN connections : connections[k] \in tried
  BY DEF TypeOK
<1>4. /\ connections' \in Seq(Server)
      /\ Len(connections') = Len(connections) + 1
      /\ \A k \in 1..Len(connections) : connections'[k] = connections[k]
      /\ connections'[Len(connections) + 1] = s
      /\ DOMAIN connections' = 1..(Len(connections) + 1)
      /\ DOMAIN connections = 1..Len(connections)
  BY <1>3
<1>5. \A k \in DOMAIN connections' : connections'[k] \in tried'
  BY <1>3, <1>4
<1>6. \A j, k \in DOMAIN connections' : connections'[j] = connections'[k] => j = k
  <2>1. \A j, k \in DOMAIN connections : connections[j] = connections[k] => j = k
    BY DEF TypeOK
  <2>2. \A k \in 1..Len(connections) : connections'[k] # s
    BY <1>3, <1>4
  <2>3. \A k \in DOMAIN connections' : k \in DOMAIN connections \/ k = Len(connections) + 1
    BY <1>3, <1>4
  <2>4. QED
    BY <1>3, <1>4, <2>1, <2>2, <2>3
<1>7. tools' \in [Server -> Listing]
  BY <1>0, <1>1 DEF TypeOK
<1>8. signatureCache' \in [Server -> [Tool -> Input \cup {NoTool}]]
  BY <1>0, <1>1, SignatureTyped DEF TypeOK
<1>9. \A r \in Callback : InFlight(r)' => refresh'[r].at \in 1 .. Len(connections') + 1
  BY <1>3, <1>4 DEF TypeOK, InFlight
<1>10. \A r \in Callback : refresh'[r].phase = "answered" => ~Past(r)'
  <2> SUFFICES ASSUME NEW r \in Callback, refresh[r].phase = "answered"
               PROVE  ~(refresh[r].at > Len(connections'))
    BY DEF Past
  <2>1. InFlight(r) /\ ~Past(r)
    BY DEF TypeOK, InFlight
  <2>2. refresh[r].at \in 1 .. Len(connections) + 1
    BY <2>1 DEF TypeOK
  <2>3. QED
    BY <1>3, <1>4, <2>1, <2>2 DEF Past
<1>11. UNCHANGED <<catalog, refresh>>
  OBVIOUS
<1>12. QED
  BY <1>1, <1>2, <1>4, <1>5, <1>6, <1>7, <1>8, <1>9, <1>10, <1>11 DEF TypeOK

\* A step that leaves the connections alone and moves one callback to a typed state.
LEMMA CallbackTyped ==
  ASSUME TypeOK, NEW r \in Callback, NEW next \in Running \cup {Idle},
         refresh' = [refresh EXCEPT ![r] = next],
         next.phase # "idle" => next.at \in 1 .. Len(connections) + 1,
         next.phase = "answered" => ~(next.at > Len(connections)),
         UNCHANGED <<offers, phase, tried, connections>>,
         tools' \in [Server -> Listing],
         signatureCache' \in [Server -> [Tool -> Input \cup {NoTool}]],
         catalog' \in [Tool -> CatalogEntry \cup {NoTool}]
  PROVE  TypeOK'
<1>1. refresh' \in [Callback -> Running \cup {Idle}]
  BY DEF TypeOK
<1>2. \A q \in Callback : refresh'[q] = IF q = r THEN next ELSE refresh[q]
  BY DEF TypeOK
<1>3. \A q \in Callback : InFlight(q)' => refresh'[q].at \in 1 .. Len(connections') + 1
  BY <1>2 DEF TypeOK, InFlight
<1>4. \A q \in Callback : refresh'[q].phase = "answered" => ~Past(q)'
  BY <1>2 DEF TypeOK, Past
<1>5. QED
  BY <1>1, <1>3, <1>4 DEF TypeOK

\* Where a callback in flight stands.
LEMMA WhereItStands ==
  ASSUME TypeOK, NEW r \in Callback, InFlight(r)
  PROVE  /\ refresh[r] \in Running
         /\ refresh[r].at \in 1 .. Len(connections) + 1
         /\ Len(connections) \in Nat
         /\ ~Past(r) => /\ refresh[r].at \in 1 .. Len(connections)
                        /\ connections[refresh[r].at] \in Server
<1>1. refresh[r] \in Running /\ refresh[r].at \in 1 .. Len(connections) + 1
  BY DEF TypeOK, InFlight, Idle
<1>2. connections \in Seq(Server) /\ Len(connections) \in Nat
  BY DEF TypeOK
<1>3. ASSUME ~Past(r) PROVE refresh[r].at \in 1 .. Len(connections)
  BY <1>1, <1>2, <1>3 DEF Past
<1>4. QED
  BY <1>1, <1>2, <1>3

LEMMA OnwardsTyped ==
  ASSUME TypeOK, NEW r \in Callback, InFlight(r), ~Past(r), NEW c \in BOOLEAN, Onwards(r, c),
         UNCHANGED <<offers, phase, tried, connections, catalog>>,
         tools' \in [Server -> Listing],
         signatureCache' \in [Server -> [Tool -> Input \cup {NoTool}]]
  PROVE  TypeOK'
<1> DEFINE next == [at |-> refresh[r].at + 1, phase |-> "asking", listing |-> NoTools,
                    changed |-> c]
<1>1. refresh[r].at \in 1 .. Len(connections) /\ Len(connections) \in Nat
  BY WhereItStands
<1>2. NoTools \in Listing
  BY DEF NoTools, Listing, McpTool
<1>3. next \in Running /\ next.at \in 1 .. Len(connections) + 1
  BY <1>1, <1>2 DEF Running
<1>4. refresh' = [refresh EXCEPT ![r] = next]
  BY DEF Onwards
<1>5. catalog' \in [Tool -> CatalogEntry \cup {NoTool}]
  BY DEF TypeOK
<1> HIDE DEF next
<1>6. next.phase = "asking"
  BY DEF next
<1>7. QED
  BY <1>3, <1>4, <1>5, <1>6, CallbackTyped

(***************************************************************************)
(* Every step keeps the invariant.                                         *)
(***************************************************************************)
LEMMA RefreshServerKeeps ==
  ASSUME BridgeInv, NEW r \in Callback, RefreshServer(r)
  PROVE  BridgeInv'
<1> DEFINE s == Asked(r)
           listing == refresh[r].listing
<1>a. TypeOK /\ SignatureMatchesTools /\ CatalogFollowsTools
  BY DEF BridgeInv
<1>b. InFlight(r) /\ ~Past(r)
  BY <1>a DEF RefreshServer, TypeOK, InFlight
<1>c. s \in Server /\ listing \in Listing /\ refresh[r].changed \in BOOLEAN
  BY <1>a, <1>b, WhereItStands DEF Running, Asked
<1>d. toolsSignature(listing) \in [Tool -> Input \cup {NoTool}]
  BY <1>c, SignatureTyped
<1>e. /\ tools \in [Server -> Listing]
      /\ signatureCache \in [Server -> [Tool -> Input \cup {NoTool}]]
      /\ DOMAIN refresh = Callback
  BY <1>a DEF TypeOK
<1>f. UNCHANGED <<offers, phase, tried, connections, catalog>>
  BY DEF RefreshServer
<1>1. CASE signatureCache[s] # toolsSignature(listing)
  <2>1. /\ tools' = [tools EXCEPT ![s] = listing]
        /\ signatureCache' = [signatureCache EXCEPT ![s] = toolsSignature(listing)]
        /\ Onwards(r, TRUE)
    BY <1>1 DEF RefreshServer
  <2>2. /\ tools' \in [Server -> Listing]
        /\ signatureCache' \in [Server -> [Tool -> Input \cup {NoTool}]]
    BY <1>c, <1>d, <1>e, <2>1
  <2>3. TypeOK'
    BY <1>a, <1>b, <1>f, <2>1, <2>2, OnwardsTyped
  <2>4. SignatureMatchesTools'
    BY <1>a, <1>c, <1>e, <2>1 DEF SignatureMatchesTools
  <2>5. InFlight(r)' /\ refresh'[r].changed
    BY <1>e, <2>1 DEF Onwards, InFlight
  <2>6. CatalogFollowsTools'
    BY <2>5 DEF CatalogFollowsTools
  <2>7. QED
    BY <2>3, <2>4, <2>6 DEF BridgeInv
<1>2. CASE signatureCache[s] = toolsSignature(listing)
  <2>1. UNCHANGED <<tools, signatureCache>> /\ Onwards(r, refresh[r].changed)
    BY <1>2 DEF RefreshServer
  <2>2. TypeOK'
    BY <1>a, <1>b, <1>c, <1>e, <1>f, <2>1, OnwardsTyped
  <2>3. SignatureMatchesTools'
    BY <1>a, <2>1 DEF SignatureMatchesTools
  <2>4. ASSUME NEW q \in Callback, InFlight(q), refresh[q].changed
        PROVE  InFlight(q)' /\ refresh'[q].changed
    BY <1>e, <2>1, <2>4 DEF Onwards, InFlight
  <2>5. CatalogFollowsTools'
    BY <1>a, <1>f, <2>1, <2>4 DEF CatalogFollowsTools
  <2>6. QED
    BY <2>2, <2>3, <2>5 DEF BridgeInv
<1>3. QED
  BY <1>1, <1>2

LEMMA RefreshEndsKeeps ==
  ASSUME BridgeInv, NEW r \in Callback, RefreshEnds(r)
  PROVE  BridgeInv'
<1>a. TypeOK /\ SignatureMatchesTools /\ CatalogFollowsTools
  BY DEF BridgeInv
<1>b. /\ refresh' = [refresh EXCEPT ![r] = Idle]
      /\ UNCHANGED <<offers, phase, tried, connections, tools, signatureCache>>
  BY DEF RefreshEnds
<1>c. /\ tools \in [Server -> Listing] /\ connections \in Seq(Server)
      /\ signatureCache \in [Server -> [Tool -> Input \cup {NoTool}]]
      /\ catalog \in [Tool -> CatalogEntry \cup {NoTool}]
      /\ DOMAIN refresh = Callback
  BY <1>a DEF TypeOK
<1>1. catalog' \in [Tool -> CatalogEntry \cup {NoTool}]
  <2>1. CASE refresh[r].changed
    BY <1>c, <2>1, BuildFromTyped DEF RefreshEnds
  <2>2. CASE ~refresh[r].changed
    BY <1>c, <2>2 DEF RefreshEnds
  <2>3. QED
    BY <2>1, <2>2
<1>2. Idle.phase = "idle" /\ Idle \in Running \cup {Idle}
  BY DEF Idle
<1>3. TypeOK'
  BY <1>a, <1>b, <1>c, <1>1, <1>2, CallbackTyped
<1>4. SignatureMatchesTools'
  BY <1>a, <1>b DEF SignatureMatchesTools
<1>5. CatalogFollowsTools'
  <2>1. CASE refresh[r].changed
    BY <1>b, <2>1 DEF RefreshEnds, CatalogFollowsTools
  <2>2. CASE ~refresh[r].changed
    <3>1. catalog' = catalog
      BY <2>2 DEF RefreshEnds
    <3>2. ASSUME NEW q \in Callback, InFlight(q), refresh[q].changed
          PROVE  InFlight(q)' /\ refresh'[q].changed
      BY <1>b, <1>c, <2>2, <3>2 DEF InFlight
    <3>3. QED
      BY <1>a, <1>b, <3>1, <3>2 DEF CatalogFollowsTools
  <2>3. QED
    BY <2>1, <2>2
<1>6. QED
  BY <1>3, <1>4, <1>5 DEF BridgeInv

\* Steps of a callback that touch neither the tools nor the catalog.
LEMMA QuietStepKeeps ==
  ASSUME BridgeInv, TypeOK',
         UNCHANGED <<phase, connections, tools, signatureCache, catalog>>,
         \A q \in Callback : InFlight(q) /\ refresh[q].changed
                               => InFlight(q)' /\ refresh'[q].changed
  PROVE  BridgeInv'
<1>1. SignatureMatchesTools'
  BY DEF BridgeInv, SignatureMatchesTools
<1>2. CatalogFollowsTools'
  BY DEF BridgeInv, CatalogFollowsTools
<1>3. QED
  BY <1>1, <1>2 DEF BridgeInv

LEMMA BridgeStepKeeps == BridgeInv /\ [Next]_vars => BridgeInv'
<1> SUFFICES ASSUME BridgeInv, [Next]_vars PROVE BridgeInv'
  OBVIOUS
<1>a. TypeOK /\ SignatureMatchesTools /\ CatalogFollowsTools
  BY DEF BridgeInv
<1>b. DOMAIN refresh = Callback /\ refresh \in [Callback -> Running \cup {Idle}]
  BY <1>a DEF TypeOK
<1>1. ASSUME NEW s \in Server, ServerChanges(s) PROVE BridgeInv'
  <2>0. offers' \in [Server -> Listing]
    BY <1>a, <1>1, BridgeAssumption DEF ServerChanges, TypeOK
  <2>1. TypeOK'
    BY <1>a, <1>1, <2>0 DEF ServerChanges, TypeOK, InFlight, Past
  <2>2. QED
    BY <1>1, <2>1, QuietStepKeeps DEF ServerChanges, InFlight
<1>2. ASSUME NEW s \in Server, connect(s) PROVE BridgeInv'
  <2>1. TypeOK'
    BY <1>a, <1>2, ConnectTyped
  <2>2. SignatureMatchesTools'
    BY <1>a, <1>2 DEF connect, SignatureMatchesTools, TypeOK
  <2>3. CatalogFollowsTools'
    BY <1>2 DEF connect, CatalogFollowsTools
  <2>4. QED
    BY <2>1, <2>2, <2>3 DEF BridgeInv
<1>3. ASSUME NEW s \in Server, ConnectFails(s) PROVE BridgeInv'
  <2>1. TypeOK'
    BY <1>a, <1>3 DEF ConnectFails, TypeOK, InFlight, Past
  <2>2. QED
    BY <1>3, <2>1, QuietStepKeeps DEF ConnectFails, InFlight
<1>4. CASE InitEnds
  <2>1. catalog' \in [Tool -> CatalogEntry \cup {NoTool}]
    BY <1>a, <1>4, BuildFromTyped DEF InitEnds, TypeOK
  <2>2. TypeOK'
    BY <1>a, <1>4, <2>1 DEF InitEnds, TypeOK, InFlight, Past
  <2>3. SignatureMatchesTools' /\ CatalogFollowsTools'
    BY <1>a, <1>4 DEF InitEnds, SignatureMatchesTools, CatalogFollowsTools
  <2>4. QED
    BY <2>2, <2>3 DEF BridgeInv
<1>5. ASSUME NEW r \in Callback, Tick(r) PROVE BridgeInv'
  <2> DEFINE next == [at |-> 1, phase |-> "asking", listing |-> NoTools, changed |-> FALSE]
  <2>1. next \in Running /\ next.at \in 1 .. Len(connections) + 1 /\ next.phase = "asking"
    <3>1. NoTools \in Listing
      BY DEF NoTools, Listing, McpTool
    <3>2. Len(connections) \in Nat
      BY <1>a DEF TypeOK
    <3>3. QED
      BY <3>1, <3>2 DEF Running
  <2>2. refresh' = [refresh EXCEPT ![r] = next]
    BY <1>5 DEF Tick
  <2> HIDE DEF next
  <2>3. TypeOK'
    BY <1>a, <1>5, <2>1, <2>2, CallbackTyped DEF Tick, TypeOK
  <2>4. \A q \in Callback : InFlight(q) => q # r /\ refresh'[q] = refresh[q]
    BY <1>b, <1>5, <2>2 DEF Tick, InFlight
  <2>5. QED
    BY <1>5, <2>3, <2>4, QuietStepKeeps DEF Tick, InFlight
<1>6. ASSUME NEW r \in Callback, NEW listing, Fetched(r, listing) PROVE BridgeInv'
  <2> DEFINE next == [refresh[r] EXCEPT !.phase = "answered", !.listing = listing]
  <2>1. InFlight(r) /\ ~Past(r)
    BY <1>6 DEF Fetched, InFlight
  <2>2. /\ refresh[r] \in Running /\ refresh[r].at \in 1 .. Len(connections) + 1
        /\ Asked(r) \in Server
    BY <1>a, <2>1, WhereItStands DEF Asked
  <2>3. listing \in Listing
    BY <1>a, <1>6, <2>2, FetchedTyped DEF Fetched
  <2>4. next \in Running /\ next.at = refresh[r].at /\ next.changed = refresh[r].changed
        /\ next.phase = "answered"
    BY <2>2, <2>3 DEF Running
  <2>5. refresh' = [refresh EXCEPT ![r] = next]
    BY <1>b, <1>6 DEF Fetched
  <2> HIDE DEF next
  <2>6. TypeOK'
    BY <1>a, <1>6, <2>1, <2>2, <2>4, <2>5, CallbackTyped DEF Fetched, TypeOK, Past
  <2>7. QED
    BY <1>b, <1>6, <2>4, <2>5, <2>6, QuietStepKeeps DEF Fetched, InFlight
<1>7. ASSUME NEW r \in Callback, RefreshServer(r) PROVE BridgeInv'
  BY <1>7, RefreshServerKeeps
<1>8. ASSUME NEW r \in Callback, RefreshFails(r) PROVE BridgeInv'
  <2>1. InFlight(r) /\ ~Past(r)
    BY <1>8 DEF RefreshFails, InFlight
  <2>2. refresh[r].changed \in BOOLEAN
    BY <1>a, <2>1, WhereItStands DEF Running
  <2>3. TypeOK'
    BY <1>a, <1>8, <2>1, <2>2, OnwardsTyped DEF RefreshFails, TypeOK
  <2>4. QED
    BY <1>b, <1>8, <2>3, QuietStepKeeps DEF RefreshFails, Onwards, InFlight
<1>9. ASSUME NEW r \in Callback, RefreshEnds(r) PROVE BridgeInv'
  BY <1>9, RefreshEndsKeeps
<1>10. CASE stop
  <2>1. TypeOK'
    BY <1>a, <1>10 DEF stop, TypeOK, InFlight, Past
  <2>2. CatalogFollowsTools' /\ SignatureMatchesTools'
    BY <1>a, <1>10 DEF stop, CatalogFollowsTools, SignatureMatchesTools, InFlight
  <2>3. QED
    BY <2>1, <2>2 DEF BridgeInv
<1>11. CASE UNCHANGED vars
  <2>1. TypeOK'
    BY <1>a, <1>11 DEF vars, TypeOK, InFlight, Past
  <2>2. QED
    BY <1>11, <2>1, QuietStepKeeps DEF vars, InFlight
<1>12. QED
  BY <1>1, <1>2, <1>3, <1>4, <1>5, <1>6, <1>7, <1>8, <1>9, <1>10, <1>11
     DEF Next, ServerLists, ServerRefuses

THEOREM BridgeInvariant == Spec => []BridgeInv
BY BridgeInitOK, BridgeStepKeeps, PTL DEF Spec

\* Every variable keeps its type; the connections are distinct connected servers and a
\* callback stands at one of them or past the last (mcp-connector.ts:66-113).
THEOREM BridgeTypeCorrect == Spec => []TypeOK
BY BridgeInvariant, PTL DEF BridgeInv

\* The cached signature is that of the tools held, for any number of overlapping
\* callbacks (mcp-connector.ts:97-106).
THEOREM SignatureNeverMasks == Spec => []SignatureMatchesTools
BY BridgeInvariant, PTL DEF BridgeInv

\* No change a callback took over is ever lost to the catalog (bridge.ts:120-126).
THEOREM ChangesReachTheCatalog == Spec => []CatalogFollowsTools
BY BridgeInvariant, PTL DEF BridgeInv

(***************************************************************************)
(* The choice of a representation.                                         *)
(***************************************************************************)
\* A number of characters takes at most a number of tokens when four times as many
\* characters do (budget.ts:21).
LEMMA TokensAreFourCharacters ==
  ASSUME NEW length \in Nat, NEW tokens \in Nat
  PROVE  estimateTokens(length) <= tokens <=> length <= 4 * tokens
BY DEF estimateTokens

\* What Fits tests is what Acceptable asks for (budget.ts:46-48).
LEMMA FittingIsAcceptable ==
  ASSUME NEW r \in MultiLevelResult, NEW budget \in TokenBudgets, NEW level \in DetailLevel,
         Detail(level) <= Detail(budget.detail_level)
  PROVE  Fits(r, level, budget) <=> level \in Acceptable(r, budget)
<1>1. budget.max_tokens \in Nat /\ r[level] \in Nat \cup {Absent}
  BY DEF TokenBudgets, MultiLevelResult
<1>2. CASE r[level] = Absent
  BY <1>2 DEF Fits, Acceptable
<1>3. CASE r[level] \in Nat
  BY <1>1, <1>3, TokensAreFourCharacters DEF Fits, Acceptable
<1>4. QED
  BY <1>1, <1>2, <1>3

\* The levels tried are those the caller takes, the most detailed first (budget.ts:37-42).
LEMMA LevelsDescend ==
  ASSUME NEW requested \in DetailLevel
  PROVE  LET order == Levels(requested)
         IN  /\ DOMAIN order = 1..Detail(requested)
             /\ \A i \in DOMAIN order : /\ order[i] \in DetailLevel
                                        /\ Detail(order[i]) = Detail(requested) + 1 - i
<1>1. CASE requested = "full"
  BY <1>1 DEF Levels, Detail, DetailLevel
<1>2. CASE requested = "compact"
  BY <1>2 DEF Levels, Detail, DetailLevel
<1>3. CASE requested = "minimal"
  BY <1>3 DEF Levels, Detail, DetailLevel
<1>4. QED
  BY <1>1, <1>2, <1>3 DEF DetailLevel

LEMMA DetailIsOneToThree ==
  /\ \A level \in DetailLevel : Detail(level) \in 1..3
  /\ \A a, b \in DetailLevel : Detail(a) = Detail(b) => a = b
<1>1. Detail("minimal") = 1 /\ Detail("compact") = 2 /\ Detail("full") = 3
  BY DEF Detail
<1>2. QED
  BY <1>1 DEF DetailLevel

\* Every representation the caller can be given is tried.
LEMMA AcceptableIsTried ==
  ASSUME NEW requested \in DetailLevel, NEW level \in DetailLevel,
         Detail(level) <= Detail(requested)
  PROVE  LET order == Levels(requested)
             i == Detail(requested) + 1 - Detail(level)
         IN  i \in DOMAIN order /\ order[i] = level
<1> DEFINE order == Levels(requested)
           i == Detail(requested) + 1 - Detail(level)
<1>1. i \in 1..Detail(requested) /\ Detail(requested) \in Nat /\ Detail(level) \in Nat
  BY DetailIsOneToThree
<1>2. i \in DOMAIN order /\ order[i] \in DetailLevel /\ Detail(order[i]) = Detail(level)
  BY <1>1, LevelsDescend
<1>3. QED
  BY <1>2, DetailIsOneToThree

\* A set of at most three positions that is not empty has a first one.
LEMMA FirstPosition ==
  ASSUME NEW n \in 1..3, NEW S, S \subseteq 1..n, S # {}
  PROVE  \E i \in S : \A j \in S : i <= j
<1>1. CASE 1 \in S
  BY <1>1
<1>2. CASE 1 \notin S /\ 2 \in S
  <2>1. \A j \in S : j \in 1..3 /\ j # 1
    BY <1>2
  <2>2. \A j \in S : 2 <= j
    BY <2>1
  <2>3. QED
    BY <1>2, <2>2
<1>3. CASE 1 \notin S /\ 2 \notin S
  <2>1. \A j \in S : j \in 1..3 /\ j # 1 /\ j # 2
    BY <1>3
  <2>2. \A j \in S : j = 3
    BY <2>1
  <2>3. PICK i \in S : i = 3
    BY <2>2
  <2>4. QED
    BY <2>2, <2>3
<1>4. QED
  BY <1>1, <1>2, <1>3

\* resolveBudget answers with the most detailed representation the caller can be given,
\* and with one that exists when there is none, for every result and budget
\* (budget.ts:30-65).
THEOREM ResolvesBestFit ==
  ASSUME NEW r \in MultiLevelResult, NEW budget \in TokenBudgets
  PROVE  IsBestFit(resolveBudget(r, budget), r, budget)
<1> DEFINE order == Levels(budget.detail_level)
           fit == {i \in DOMAIN order : Fits(r, order[i], budget)}
           first == CHOOSE i \in fit : \A j \in fit : i <= j
           ok == Acceptable(r, budget)
<1>1. budget.detail_level \in DetailLevel /\ Detail(budget.detail_level) \in 1..3
  BY DetailIsOneToThree DEF TokenBudgets
<1>2. /\ DOMAIN order = 1..Detail(budget.detail_level)
      /\ \A i \in DOMAIN order :
            order[i] \in DetailLevel /\ Detail(order[i]) = Detail(budget.detail_level) + 1 - i
  BY <1>1, LevelsDescend
<1>3. \A i \in DOMAIN order : i \in fit <=> order[i] \in ok
  BY <1>1, <1>2, FittingIsAcceptable
<1>4. \A level \in ok : /\ level \in DetailLevel
                        /\ Detail(level) <= Detail(budget.detail_level)
                        /\ Detail(budget.detail_level) + 1 - Detail(level) \in DOMAIN order
                        /\ order[Detail(budget.detail_level) + 1 - Detail(level)] = level
  BY <1>1, AcceptableIsTried DEF Acceptable
<1>5. fit = {} <=> ok = {}
  BY <1>3, <1>4
<1>6. CASE ok = {}
  <2>1. resolveBudget(r, budget) = lastResort(r)
    BY <1>5, <1>6 DEF resolveBudget
  <2>2. (\E any \in DetailLevel : r[any] # Absent) => r[lastResort(r)] # Absent
    BY DEF lastResort, DetailLevel
  <2>3. QED
    BY <1>6, <2>1, <2>2 DEF IsBestFit
<1>7. CASE ok # {}
  <2>1. first \in fit /\ \A j \in fit : first <= j
    BY <1>1, <1>2, <1>5, <1>7, FirstPosition
  <2>2. resolveBudget(r, budget) = order[first]
    BY <1>5, <1>7 DEF resolveBudget
  <2>3. order[first] \in ok /\ Detail(order[first]) = Detail(budget.detail_level) + 1 - first
    BY <1>2, <1>3, <2>1
  <2>4. ASSUME NEW other \in ok PROVE Detail(other) <= Detail(order[first])
    <3>1. Detail(budget.detail_level) + 1 - Detail(other) \in fit
      BY <1>3, <1>4
    <3>2. first <= Detail(budget.detail_level) + 1 - Detail(other)
      BY <2>1, <3>1
    <3>3. first \in 1..Detail(budget.detail_level)
      BY <1>2, <2>1
    <3>4. Detail(other) \in 1..3
      BY <1>4, DetailIsOneToThree
    <3> HIDE DEF first, ok
    <3>5. QED
      BY <1>1, <2>3, <3>2, <3>3, <3>4
  <2>5. QED
    BY <1>7, <2>2, <2>3, <2>4 DEF IsBestFit
<1>8. QED
  BY <1>6, <1>7

\* The bridge cuts what it answers with to 80 characters when nothing longer fits
\* (compressor.ts:64-75).
LEMMA MinimalIsCut ==
  ASSUME NEW result \in McpToolResult
  PROVE  /\ compressMcpResult(result) \in MultiLevelResult
         /\ buildMinimal(result) \in 0..80
<1>1. buildMinimal(result) \in 0..80
  BY DEF McpToolResult, buildMinimal
<1>2. result.compact \in Nat /\ result.full \in Nat
  BY DEF McpToolResult
<1>3. QED
  BY <1>1, <1>2 DEF compressMcpResult, MultiLevelResult, DetailLevel

\* Behind the bridge no answer is longer than a budget of 20 tokens or more takes.
LEMMA BridgeKeepsBudgets ==
  ASSUME NEW result \in McpToolResult, NEW budget \in TokenBudgets, budget.max_tokens >= 20
  PROVE  LET r == compressMcpResult(result)
         IN  r[resolveBudget(r, budget)] <= 4 * budget.max_tokens
<1> DEFINE r == compressMcpResult(result)
<1>1. r \in MultiLevelResult /\ r["minimal"] \in 0..80
  BY MinimalIsCut DEF compressMcpResult
<1>2. budget.max_tokens \in Nat /\ budget.detail_level \in DetailLevel
  BY DEF TokenBudgets
<1>3. "minimal" \in Acceptable(r, budget)
  BY <1>1, <1>2 DEF Acceptable, Absent, DetailLevel, Detail
<1>4. resolveBudget(r, budget) \in Acceptable(r, budget)
  BY <1>1, <1>3, ResolvesBestFit DEF IsBestFit
<1>5. QED
  BY <1>4 DEF Acceptable

(***************************************************************************)
(* The requests at the bridge.                                             *)
(***************************************************************************)
\* A budget that is left out is one like the others (budget.ts:70).
LEMMA BudgetCreated ==
  ASSUME NEW budget \in TokenBudgets \cup {NoBudget}
  PROVE  createBudget(budget) \in TokenBudgets
BY DEF createBudget, TokenBudgets, DetailLevel

\* A step at the bridge is one of the catalog, or leaves it as it is.
LEMMA InvokeStepRefines == [InvokeNext]_allVars => [Next]_vars
BY DEF InvokeNext, allVars, handleDiscover, Ranked, handleInvoke, ToolRuns, ToolFails

\* Whatever agents ask of the bridge, its catalog behaves as BridgeCatalog says
\* (bridge.ts:162-244 write none of its state).
THEOREM ImplementsBridgeCatalog == InvokeSpec => Spec
<1>1. InvokeInit => Init
  BY DEF InvokeInit
<1>2. QED
  BY <1>1, InvokeStepRefines, PTL DEF InvokeSpec, Spec

\* No change that a refresh took over is lost to the catalog, with agents asking meanwhile.
THEOREM ChangesReachTheAgents == InvokeSpec => []CatalogFollowsTools
BY ImplementsBridgeCatalog, ChangesReachTheCatalog

InvokeInv == InvokeTypeOK /\ AnswerFits

LEMMA InvokeInitOK == InvokeInit => InvokeInv
BY DEF InvokeInit, InvokeInv, InvokeTypeOK, AnswerFits, NoCall, NoAnswer

\* What a call in flight is.
LEMMA CallTyped ==
  ASSUME InvokeTypeOK, NEW i \in Invocation
  PROVE  invocations[i].phase = "called" =>
               invocations[i].req \in Request /\ invocations[i].server \in Server
<1>1. \/ invocations[i] \in [phase: {"called"}, req: Request, server: Server]
      \/ invocations[i] \in [phase: {"ranking"}, tool: Tool, entry: CatalogEntry \cup {NoTool}]
      \/ invocations[i] = NoCall
  BY DEF InvokeTypeOK
<1>2. QED
  BY <1>1 DEF NoCall

\* A request that ends leaves the others as they are.
LEMMA EndsTyped ==
  ASSUME InvokeTypeOK, NEW i \in Invocation, Ends(i),
         answer'.outcome \in {"none", "discovered", "not found", "mismatch", "ok", "error"}
  PROVE  InvokeTypeOK'
BY DEF InvokeTypeOK, Ends

\* A request that begins to wait, typed, leaves the others as they are.
LEMMA WaitTyped ==
  ASSUME InvokeTypeOK, NEW i \in Invocation, NEW call,
         \/ call \in [phase: {"called"}, req: Request, server: Server]
         \/ call \in [phase: {"ranking"}, tool: Tool, entry: CatalogEntry \cup {NoTool}],
         invocations' = [invocations EXCEPT ![i] = call], answer' = NoAnswer
  PROVE  InvokeInv'
<1>1. answer'.outcome = "none"
  BY DEF NoAnswer
<1>2. InvokeTypeOK' /\ AnswerFits'
  BY <1>1 DEF InvokeTypeOK, AnswerFits
<1>3. QED
  BY <1>2 DEF InvokeInv

\* An answer that is given at once and runs no tool.
LEMMA AnswerTyped ==
  ASSUME InvokeTypeOK, UNCHANGED invocations,
         answer'.outcome \in {"none", "discovered", "not found", "mismatch"}
  PROVE  InvokeInv'
BY DEF InvokeTypeOK, AnswerFits, InvokeInv

LEMMA DiscoverKeeps ==
  ASSUME InvokeInv, TypeOK, NEW i \in Invocation, NEW tool \in Tool, handleDiscover(i, tool)
  PROVE  InvokeInv'
<1> DEFINE call == [phase |-> "ranking", tool |-> tool, entry |-> catalog[tool]]
<1>1. CASE answer' = Found(tool, catalog[tool]) /\ UNCHANGED invocations
  <2>1. answer'.outcome = "discovered"
    BY <1>1 DEF Found
  <2>2. QED
    BY <1>1, <2>1, AnswerTyped DEF InvokeInv
<1>2. CASE invocations' = [invocations EXCEPT ![i] = call] /\ answer' = NoAnswer
  <2>1. catalog[tool] \in CatalogEntry \cup {NoTool}
    BY DEF TypeOK
  <2>2. call \in [phase: {"ranking"}, tool: Tool, entry: CatalogEntry \cup {NoTool}]
    BY <2>1
  <2> HIDE DEF call
  <2>3. QED
    BY <1>2, <2>2, WaitTyped DEF InvokeInv
<1>3. QED
  BY <1>1, <1>2 DEF handleDiscover

LEMMA InvokeKeeps ==
  ASSUME InvokeInv, TypeOK, NEW i \in Invocation, NEW req \in Request, handleInvoke(i, req)
  PROVE  InvokeInv'
<1> DEFINE entry == catalog[req.tool]
           call == [phase |-> "called", req |-> req, server |-> entry.server]
<1>1. ASSUME NEW outcome \in {"not found", "mismatch"}, Refused(outcome, req)
      PROVE  InvokeInv'
  <2>1. answer'.outcome = outcome /\ UNCHANGED invocations
    BY <1>1 DEF Refused
  <2>2. QED
    BY <2>1, AnswerTyped DEF InvokeInv
<1>2. CASE entry # NoTool /\ Called(i, req, entry)
  <2>1. req.tool \in Tool
    BY InvokeAssumption
  <2>2. entry.server \in Server
    BY <1>2, <2>1 DEF TypeOK, CatalogEntry
  <2>3. call \in [phase: {"called"}, req: Request, server: Server]
    BY <2>2
  <2>4. invocations' = [invocations EXCEPT ![i] = call] /\ answer' = NoAnswer
    BY <1>2 DEF Called
  <2> HIDE DEF call
  <2>5. QED
    BY <2>3, <2>4, WaitTyped DEF InvokeInv
<1>3. QED
  BY <1>1, <1>2 DEF handleInvoke

LEMMA RunKeeps ==
  ASSUME InvokeInv, NEW i \in Invocation, NEW result \in Result, ToolRuns(i, result)
  PROVE  InvokeInv'
<1> DEFINE req == invocations[i].req
           budget == createBudget(req.budget)
           r == compressMcpResult(result)
<1>1. answer' = [outcome |-> "ok", req |-> req, server |-> invocations[i].server,
                 result |-> result, level |-> resolveBudget(r, budget)]
  BY DEF ToolRuns
<1>2. req \in Request
  BY CallTyped DEF ToolRuns, InvokeInv
<1>3. budget \in TokenBudgets /\ result \in McpToolResult
  BY <1>2, InvokeAssumption, BudgetCreated
<1>4. r \in MultiLevelResult
  BY <1>3, MinimalIsCut
<1>5. AnswerFits'
  BY <1>1, <1>3, <1>4, ResolvesBestFit, BridgeKeepsBudgets DEF AnswerFits
<1>6. InvokeTypeOK'
  BY <1>1, EndsTyped DEF ToolRuns, InvokeInv
<1>7. QED
  BY <1>5, <1>6 DEF InvokeInv

LEMMA InvokeStepKeeps == InvokeInv /\ TypeOK /\ [InvokeNext]_allVars => InvokeInv'
<1> SUFFICES ASSUME InvokeInv, TypeOK, [InvokeNext]_allVars PROVE InvokeInv'
  OBVIOUS
<1>1. CASE answer' = NoAnswer /\ UNCHANGED invocations
  BY <1>1 DEF InvokeInv, InvokeTypeOK, AnswerFits, NoAnswer
<1>2. ASSUME NEW i \in Invocation, Ranked(i) PROVE InvokeInv'
  <2>1. answer'.outcome \in {"none", "discovered"}
    BY <1>2 DEF Ranked, Found, NoAnswer
  <2>2. QED
    BY <1>2, <2>1, EndsTyped DEF Ranked, InvokeInv, AnswerFits
<1>3. ASSUME NEW i \in Invocation, ToolFails(i) PROVE InvokeInv'
  <2>1. answer'.outcome = "error"
    BY <1>3 DEF ToolFails
  <2>2. QED
    BY <1>3, <2>1, EndsTyped DEF ToolFails, InvokeInv, AnswerFits
<1>4. CASE UNCHANGED allVars
  BY <1>4 DEF allVars, invokeVars, InvokeInv, InvokeTypeOK, AnswerFits
<1>5. QED
  BY <1>1, <1>2, <1>3, <1>4, DiscoverKeeps, InvokeKeeps, RunKeeps DEF InvokeNext

\* Every answer of an invocation is the most detailed representation its budget takes, and
\* a budget of 20 tokens is kept (bridge.ts:226, budget.ts:44, compressor.ts:71).
THEOREM AnswersFit == InvokeSpec => []AnswerFits
<1>1. InvokeSpec => []TypeOK
  BY ImplementsBridgeCatalog, BridgeTypeCorrect
<1>2. QED
  BY <1>1, InvokeInitOK, InvokeStepKeeps, PTL DEF InvokeSpec, InvokeInv


(***************************************************************************)
(* The sessions with MCP servers that are child processes.                 *)
(***************************************************************************)
Line == [id: RequestId, kind: Kind]

\* A session that waits for the answer to its request has sent that request.
RequestWasSent == \A s \in Session : step[s] = "request" => 2 \in asked[s]

SessionIInv == SessionInv /\ RequestWasSent

LEMMA SessionInitInv == SessionInit => SessionIInv
BY StdioAssumption
   DEF SessionInit, SessionIInv, SessionInv, SessionTypeOK, NoChildLeftRunning,
       RequestWasSent, Over, RequestId

\* A line that is read is a line of the child, and what is left are its later ones.
LEMMA ReadLine ==
  ASSUME SessionTypeOK, NEW s \in Session, lines[s] # <<>>
  PROVE  Head(lines[s]) \in Line /\ Tail(lines[s]) \in Seq(Line)
<1>1. lines[s] \in Seq(Line)
  BY DEF SessionTypeOK, Line
<1>2. QED
  BY <1>1, HeadTailProperties

\* What waits is decided by what the session has come to.
LEMMA PendingRequest ==
  ASSUME SessionTypeOK, NEW s \in Session
  PROVE  /\ step[s] = "initialize" => pending[s] = {1}
         /\ step[s] = "request" => pending[s] = {2}
         /\ step[s] \notin {"initialize", "request"} => pending[s] = {}
BY DEF SessionTypeOK

LEMMA SessionStepInv == SessionIInv /\ [SessionNext]_sessionVars => SessionIInv'
<1> SUFFICES ASSUME SessionIInv, [SessionNext]_sessionVars PROVE SessionIInv'
  OBVIOUS
<1>0. SessionTypeOK /\ NoChildLeftRunning /\ RequestWasSent
  BY DEF SessionIInv, SessionInv
<1> USE DEF SessionIInv, SessionInv, NoChildLeftRunning, RequestWasSent
<1>1. ASSUME NEW s \in Session, stdioSession(s) PROVE SessionIInv'
  BY <1>0, <1>1 DEF stdioSession, SessionTypeOK, Over, RequestId
<1>2. ASSUME NEW s \in Session, SpawnError(s) PROVE SessionIInv'
  BY <1>0, <1>2 DEF SpawnError, SessionTypeOK
<1>3. ASSUME NEW s \in Session, OnLine(s) PROVE SessionIInv'
  <2>1. Tail(lines[s]) \in Seq(Line) /\ lines' = [lines EXCEPT ![s] = Tail(lines[s])]
    BY <1>0, <1>3, ReadLine DEF OnLine
  <2>2. lines' \in [Session -> Seq([id: RequestId, kind: Kind])]
    BY <1>0, <2>1 DEF SessionTypeOK, Line
  <2>3. CASE step[s] = "initialize" /\ SendRequest(s)
    BY <1>0, <1>3, <2>2, <2>3 DEF OnLine, SendRequest, SessionTypeOK, Over, RequestId
  <2>4. CASE step[s] = "request" /\ Finish(s, Head(lines[s]).kind)
    BY <1>0, <1>3, <2>2, <2>4 DEF OnLine, Finish, End, SessionTypeOK, Over, RequestId
  <2>5. CASE UNCHANGED <<process, step, child, asked, pending, value>>
    BY <1>0, <1>3, <2>2, <2>5 DEF OnLine, SessionTypeOK
  <2>6. QED
    BY <1>3, <2>3, <2>4, <2>5 DEF OnLine
<1>4. ASSUME NEW s \in Session, Timeout(s) PROVE SessionIInv'
  BY <1>0, <1>4 DEF Timeout, End, SessionTypeOK, Over, RequestId
<1>5. ASSUME NEW s \in Session, NEW id \in RequestId, NEW kind \in Kind, Prints(s, id, kind)
      PROVE  SessionIInv'
  <2>1. Append(lines[s], [id |-> id, kind |-> kind]) \in Seq([id: RequestId, kind: Kind])
    BY <1>0, AppendProperties DEF SessionTypeOK
  <2>2. printed[s] + 1 \in 0..MaxLines
    BY <1>0, <1>5, StdioAssumption DEF SessionTypeOK, Prints
  <2>3. QED
    BY <1>0, <1>5, <2>1, <2>2 DEF Prints, SessionTypeOK
<1>6. ASSUME NEW s \in Session, ChildExits(s) PROVE SessionIInv'
  BY <1>0, <1>6 DEF ChildExits, SessionTypeOK
<1>7. CASE UNCHANGED sessionVars
  BY <1>0, <1>7 DEF sessionVars, SessionTypeOK
<1>8. QED
  BY <1>1, <1>2, <1>3, <1>4, <1>5, <1>6, <1>7 DEF SessionNext

LEMMA SessionInvariant == SessionSpec => []SessionIInv
BY SessionInitInv, SessionStepInv, PTL DEF SessionSpec

\* A session waits for the one request it has sent and for nothing once it is over, and
\* every child it leaves has been sent its signal (mcp-connector.ts:395-419).
THEOREM SessionsEndClean == SessionSpec => []SessionInv
BY SessionInvariant, PTL DEF SessionIInv

\* A result a session returns is one its child gave to the session's own request: a late
\* or repeated reply to initialize, and a request the child makes, are never taken for it
\* (mcp-connector.ts:387).
THEOREM RepliesMatchRequests == SessionSpec => ResultAnswersTheRequest
<1>1. SessionIInv /\ [SessionNext]_sessionVars =>
        [\A s \in Session : value'[s] = "result" /\ value[s] # "result" =>
           2 \in asked[s] /\ Head(lines[s]) = [id |-> 2, kind |-> "result"]]_sessionVars
  <2> SUFFICES ASSUME SessionIInv, SessionNext,
                      NEW u \in Session, value'[u] = "result", value[u] # "result"
               PROVE  2 \in asked[u] /\ Head(lines[u]) = [id |-> 2, kind |-> "result"]
    OBVIOUS
  <2>0. SessionTypeOK /\ RequestWasSent
    BY DEF SessionIInv, SessionInv
  <2>1. PICK s \in Session : OnLine(s)
    BY DEF SessionNext, stdioSession, SpawnError, Timeout, Prints, ChildExits
  <2>2. Finish(s, Head(lines[s]).kind) /\ step[s] = "request" /\ Head(lines[s]).id \in pending[s]
    BY <2>0, <2>1, PendingRequest DEF OnLine, SendRequest
  <2>3. s = u /\ Head(lines[s]).kind = "result"
    BY <2>0, <2>2 DEF Finish, SessionTypeOK
  <2>4. Head(lines[s]).id = 2
    BY <2>0, <2>2, PendingRequest
  <2>5. Head(lines[s]) \in Line
    BY <2>0, <2>1, ReadLine DEF OnLine
  <2>6. QED
    BY <2>0, <2>2, <2>3, <2>4, <2>5 DEF Line, RequestWasSent
<1>2. QED
  BY <1>1, SessionInvariant, PTL DEF SessionSpec, ResultAnswersTheRequest

===============================================================================
