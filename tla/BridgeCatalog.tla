----------------------------- MODULE BridgeCatalog -----------------------------
(***************************************************************************)
(* The bridge (bridge/src/bridge.ts, mcp-connector.ts, catalog.ts): it     *)
(* lists the tools of MCP servers when it starts, builds one catalog from  *)
(* them, and lists them again on a timer.                                  *)
(*                                                                         *)
(* A callback of the timer asks one server after the other and awaits each *)
(* answer; callbacks may overlap when servers are slower than the timer,   *)
(* and then their answers arrive in any order.  A tool is an input schema  *)
(* and a description; the MCP servers change what they list as they like.  *)
(***************************************************************************)
EXTENDS Naturals, Sequences, FiniteSetsExt

CONSTANTS Server, Tool, Input, Desc,
          NoTool,    \* what a server lists under a name it does not offer
          Offers(_), \* the lists that a server may come to offer
          Callback   \* bounds the refresh callbacks that overlap

VARIABLES offers,          \* MCP servers: what each would list now
          phase,           \* of the bridge: "init", "serving", "stopped"
          tried,           \* servers whose connect has settled
          connections,     \* the connected servers in the order of the Map
          tools,           \* connection -> tools last taken over
          signatureCache,  \* connection -> signature of its tools
          catalog,         \* tool name -> entry
          refresh          \* the callbacks in flight

vars == <<offers, phase, tried, connections, tools, signatureCache, catalog, refresh>>

McpTool == [input: Input, desc: Desc] \cup {NoTool}
Listing == [Tool -> McpTool]
NoTools == [t \in Tool |-> NoTool]

ASSUME BridgeAssumption ==
    /\ NoTool \notin Input
    /\ \A s \in Server : Offers(s) \subseteq Listing

\* Name and input schema only.
toolsSignature(listing) ==
    [t \in Tool |-> IF listing[t] = NoTool THEN NoTool ELSE listing[t].input]

CatalogEntry == [server: Server, tool: McpTool \ {NoTool}]

\* The catalog holds one entry per name: of two servers the one connected last.
Offering(conns, listings, t) == {k \in DOMAIN conns : listings[conns[k]][t] # NoTool}
buildFrom(conns, listings) ==
    [t \in Tool |->
        IF Offering(conns, listings, t) = {} THEN NoTool
        ELSE LET s == conns[Max(Offering(conns, listings, t))]
             IN  [server |-> s, tool |-> listings[s][t]]]

\* A callback asks connections[at]; once past the last it returns changed.
Running == [at: Nat, phase: {"asking", "answered"}, listing: Listing, changed: BOOLEAN]
Idle == [phase |-> "idle"]
InFlight(r) == refresh[r].phase # "idle"
Past(r) == refresh[r].at > Len(connections)

Init ==
    /\ offers \in [Server -> Listing] /\ \A s \in Server : offers[s] \in Offers(s)
    /\ phase = "init"
    /\ tried = {}
    /\ connections = <<>>
    /\ tools = [s \in Server |-> NoTools]
    /\ signatureCache = [s \in Server |-> NoTools]
    /\ catalog = NoTools
    /\ refresh = [r \in Callback |-> Idle]

(***************************************************************************)
(* The MCP servers.                                                        *)
(***************************************************************************)
ServerChanges(s) ==
    /\ \E listing \in Offers(s) : offers' = [offers EXCEPT ![s] = listing]
    /\ UNCHANGED <<phase, tried, connections, tools, signatureCache, catalog, refresh>>

\* A fetch that does not fail returns what the server lists; an error reply to tools/list
\* has no result and reads as an empty list.
fetchTools(s) == {offers[s], NoTools}

(***************************************************************************)
(* init: the servers are connected in parallel, in the order they answer;  *)
(* one that fails is left out.                                             *)
(***************************************************************************)
connect(s) ==
    /\ phase = "init" /\ s \notin tried
    /\ tried' = tried \cup {s}
    /\ connections' = Append(connections, s)
    /\ \E listing \in fetchTools(s) :
          /\ tools' = [tools EXCEPT ![s] = listing]
          /\ signatureCache' = [signatureCache EXCEPT ![s] = toolsSignature(listing)]
    /\ UNCHANGED <<offers, phase, catalog, refresh>>

ConnectFails(s) ==
    /\ phase = "init" /\ s \notin tried
    /\ tried' = tried \cup {s}
    /\ UNCHANGED <<offers, phase, connections, tools, signatureCache, catalog, refresh>>

InitEnds ==
    /\ phase = "init" /\ tried = Server
    /\ phase' = "serving"
    /\ catalog' = buildFrom(connections, tools)
    /\ UNCHANGED <<offers, tried, connections, tools, signatureCache, refresh>>

(***************************************************************************)
(* The periodic refresh.                                                   *)
(***************************************************************************)
Tick(r) ==
    /\ phase = "serving" /\ ~InFlight(r)
    /\ refresh' = [refresh EXCEPT ![r] = [at |-> 1, phase |-> "asking", listing |-> NoTools,
                                          changed |-> FALSE]]
    /\ UNCHANGED <<offers, phase, tried, connections, tools, signatureCache, catalog>>

Asked(r) == connections[refresh[r].at]

Fetched(r, listing) ==
    /\ refresh[r].phase = "asking" /\ ~Past(r)
    /\ listing \in fetchTools(Asked(r))
    /\ refresh' = [refresh EXCEPT ![r].phase = "answered", ![r].listing = listing]
    /\ UNCHANGED <<offers, phase, tried, connections, tools, signatureCache, catalog>>

ServerLists(r) == Fetched(r, offers[Asked(r)])

\* The server has tools and answers with an error.
ServerRefuses(r) == Fetched(r, NoTools) /\ offers[Asked(r)] # NoTools

Onwards(r, changed) ==
    refresh' = [refresh EXCEPT ![r] = [at |-> refresh[r].at + 1, phase |-> "asking",
                                       listing |-> NoTools, changed |-> changed]]

\* The signature is compared after the await, with what other callbacks left there.
RefreshServer(r) ==
    LET s == Asked(r)
        newTools == refresh[r].listing
        newSig == toolsSignature(newTools)
    IN  /\ refresh[r].phase = "answered"
        /\ \/ /\ signatureCache[s] # newSig
              /\ tools' = [tools EXCEPT ![s] = newTools]
              /\ signatureCache' = [signatureCache EXCEPT ![s] = newSig]
              /\ Onwards(r, TRUE)
           \/ /\ signatureCache[s] = newSig
              /\ UNCHANGED <<tools, signatureCache>>
              /\ Onwards(r, refresh[r].changed)
        /\ UNCHANGED <<offers, phase, tried, connections, catalog>>

RefreshFails_ForgetsChange(r) ==
    /\ refresh[r].phase = "asking" /\ ~Past(r)
    /\ Onwards(r, FALSE)
    /\ UNCHANGED <<offers, phase, tried, connections, tools, signatureCache, catalog>>

RefreshFails_Stops(r) ==
    /\ refresh[r].phase = "asking" /\ ~Past(r)
    /\ refresh' = [refresh EXCEPT ![r].at = Len(connections) + 1]
    /\ UNCHANGED <<offers, phase, tried, connections, tools, signatureCache, catalog>>

\* The fetch fails or times out, which uses no answer: caught, on to the next server.
RefreshFails(r) ==
    /\ refresh[r].phase = "asking" /\ ~Past(r)
    /\ Onwards(r, refresh[r].changed)
    /\ UNCHANGED <<offers, phase, tried, connections, tools, signatureCache, catalog>>

RefreshEnds(r) ==
    /\ InFlight(r) /\ Past(r)
    /\ refresh' = [refresh EXCEPT ![r] = Idle]
    /\ catalog' = IF refresh[r].changed THEN buildFrom(connections, tools) ELSE catalog
    /\ UNCHANGED <<offers, phase, tried, connections, tools, signatureCache>>

stop ==
    /\ phase = "serving"
    /\ phase' = "stopped"
    /\ UNCHANGED <<offers, tried, connections, tools, signatureCache, catalog, refresh>>

Next ==
    \/ \E s \in Server : ServerChanges(s)
    \/ \E s \in Server : connect(s)
    \/ \E s \in Server : ConnectFails(s)
    \/ InitEnds
    \/ \E r \in Callback : Tick(r)
    \/ \E r \in Callback : ServerLists(r)
    \/ \E r \in Callback : ServerRefuses(r)
    \/ \E r \in Callback : RefreshServer(r)
    \/ \E r \in Callback : RefreshFails(r)
    \/ \E r \in Callback : RefreshEnds(r)
    \/ stop

Spec == Init /\ [][Next]_vars

\* What a callback does next.
Advances(r) ==
    ServerLists(r) \/ ServerRefuses(r) \/ RefreshServer(r) \/ RefreshFails(r) \/ RefreshEnds(r)

(***************************************************************************)
(* Properties.                                                             *)
(***************************************************************************)
\* The values the catalogue, the connections and the agents' answers range over.
TypeOK ==
    /\ offers \in [Server -> Listing]
    /\ phase \in {"init", "serving", "stopped"}
    /\ tried \subseteq Server
    /\ connections \in Seq(Server)
    /\ \A k \in DOMAIN connections : connections[k] \in tried
    /\ \A j, k \in DOMAIN connections : connections[j] = connections[k] => j = k
    /\ tools \in [Server -> Listing]
    /\ signatureCache \in [Server -> [Tool -> Input \cup {NoTool}]]
    /\ catalog \in [Tool -> CatalogEntry \cup {NoTool}]
    /\ refresh \in [Callback -> Running \cup {Idle}]
    /\ \A r \in Callback : InFlight(r) => refresh[r].at \in 1 .. Len(connections) + 1
    /\ \A r \in Callback : refresh[r].phase = "answered" => ~Past(r)

\* The cached signature is that of the tools held, whichever of two overlapping
\* callbacks wrote last (mcp-connector.ts:101-106): no change is masked by a signature
\* that belongs to other tools.
SignatureMatchesTools ==
    \A s \in Server : signatureCache[s] = toolsSignature(tools[s])

\* The catalog is built from the tools held, or a callback that will build it is still
\* out; a failing server, a slow one or a second callback never loses a change
\* (bridge.ts:120-126).
CatalogFollowsTools ==
    phase # "init" => \/ catalog = buildFrom(connections, tools)
                      \/ \E r \in Callback : InFlight(r) /\ refresh[r].changed
================================================================================
