----------------------------- MODULE BridgeInvoke -----------------------------
(***************************************************************************)
(* nekte.discover and nekte.invoke at the bridge (bridge/src/bridge.ts).   *)
(* A discovery tells agents of the catalog, at once or after a filter      *)
(* strategy has ranked its entries.  For an invocation the hash an agent   *)
(* sends is checked against the catalog, the tool is then called at its    *)
(* MCP server, and what it returns is cut to the budget.                   *)
(*                                                                         *)
(* BridgeCatalog goes on meanwhile.  Entries are looked up once: the       *)
(* catalog may be built anew, and the server may list other tools, before  *)
(* the ranking ends or the call arrives.                                   *)
(***************************************************************************)
EXTENDS BridgeCatalog, TokenBudget

CONSTANTS Invocation,  \* bounds the requests at work at a time
          NoHash,      \* a request without a hash
          Request,     \* the requests that come
          Result       \* what tools return

ASSUME InvokeAssumption ==
    /\ NoHash \notin Input
    /\ Request \subseteq [tool: Tool, h: Input \cup {NoHash},
                          budget: TokenBudgets \cup {NoBudget}]
    /\ Result \subseteq McpToolResult

VARIABLES invocations,  \* the requests that await a tool or the filter strategy
          answer        \* the last answer

invokeVars == <<invocations, answer>>
allVars == <<vars, invokeVars>>

NoCall == [phase |-> "none"]
NoAnswer == [outcome |-> "none"]

InvokeInit ==
    /\ Init
    /\ invocations = [i \in Invocation |-> NoCall]
    /\ answer = NoAnswer

Ends(i) == invocations' = [invocations EXCEPT ![i] = NoCall]

(***************************************************************************)
(* Discovery, of the entries that match.                                   *)
(***************************************************************************)
Found(tool, entry) == [outcome |-> "discovered", req |-> [tool |-> tool], entry |-> entry]

\* Without a query or a strategy the entries are the answer, otherwise they are ranked.
handleDiscover(i, tool) ==
    /\ phase # "init" /\ invocations[i] = NoCall
    /\ \/ /\ answer' = Found(tool, catalog[tool])
          /\ UNCHANGED invocations
       \/ /\ invocations' = [invocations EXCEPT ![i] =
                 [phase |-> "ranking", tool |-> tool, entry |-> catalog[tool]]]
          /\ answer' = NoAnswer
    /\ UNCHANGED vars

\* The strategy keeps an entry or not, or rejects, and the request with it.
Ranked(i) ==
    LET call == invocations[i]
    IN  /\ call.phase = "ranking"
        /\ Ends(i)
        /\ answer' \in {Found(call.tool, call.entry), NoAnswer}
        /\ UNCHANGED vars

(***************************************************************************)
(* Invocation.                                                             *)
(***************************************************************************)
Refused(outcome, req) ==
    /\ answer' = [outcome |-> outcome, req |-> req]
    /\ UNCHANGED invocations

Called(i, req, entry) ==
    /\ invocations' = [invocations EXCEPT ![i] =
           [phase |-> "called", req |-> req, server |-> entry.server]]
    /\ answer' = NoAnswer

handleInvoke_HashIgnored(i, req) ==
    LET entry == catalog[req.tool]
    IN  /\ phase # "init" /\ invocations[i] = NoCall
        /\ \/ entry = NoTool /\ Refused("not found", req)
           \/ entry # NoTool /\ Called(i, req, entry)
        /\ UNCHANGED vars

\* The hash of a tool is that of its input schema: its output schema is the same for all.
handleInvoke(i, req) ==
    LET entry == catalog[req.tool]
    IN  /\ phase # "init" /\ invocations[i] = NoCall
        /\ \/ entry = NoTool /\ Refused("not found", req)
           \/ /\ entry # NoTool /\ req.h \notin {NoHash, entry.tool.input}
              /\ Refused("mismatch", req)
           \/ /\ entry # NoTool /\ req.h \in {NoHash, entry.tool.input}
              /\ Called(i, req, entry)
        /\ UNCHANGED vars

\* The call arrives at the server, which may run what it lists now, and its result at the
\* bridge, which reads nothing that others write.
ToolRuns(i, result) ==
    LET call == invocations[i]
        budget == createBudget(call.req.budget)
    IN  /\ call.phase = "called" /\ offers[call.server][call.req.tool] # NoTool
        /\ Ends(i)
        /\ answer' = [outcome |-> "ok", req |-> call.req, server |-> call.server,
                      result |-> result,
                      level |-> resolveBudget(compressMcpResult(result), budget)]
        /\ UNCHANGED vars

\* No connection, an error of the server or the tool, a session that times out.
ToolFails(i) ==
    LET call == invocations[i]
    IN  /\ call.phase = "called"
        /\ Ends(i)
        /\ answer' = [outcome |-> "error", req |-> call.req, server |-> call.server]
        /\ UNCHANGED vars

InvokeNext ==
    \/ Next /\ answer' = NoAnswer /\ UNCHANGED invocations
    \/ \E i \in Invocation :
          \/ \E tool \in Tool : handleDiscover(i, tool)
          \/ Ranked(i)
          \/ \E req \in Request : handleInvoke(i, req)
          \/ \E result \in Result : ToolRuns(i, result)
          \/ ToolFails(i)

InvokeSpec == InvokeInit /\ [][InvokeNext]_allVars

(***************************************************************************)
(* setInterval keeps calling; a request to a server, or to the provider of *)
(* embeddings, is answered or fails (10 s for a stdio server, the limits   *)
(* of fetch for HTTP).                                                     *)
(***************************************************************************)
Settles(i) == Ranked(i) \/ ToolFails(i) \/ \E result \in Result : ToolRuns(i, result)
FairInvokeSpec ==
    /\ InvokeSpec
    /\ \A r \in Callback :
          /\ WF_allVars(Tick(r) /\ UNCHANGED invocations /\ answer' = NoAnswer)
          /\ WF_allVars(Advances(r) /\ UNCHANGED invocations /\ answer' = NoAnswer)
    /\ \A i \in Invocation : WF_allVars(Settles(i))

(***************************************************************************)
(* Properties.                                                             *)
(***************************************************************************)
InvokeTypeOK ==
    /\ invocations \in [Invocation ->
           [phase: {"called"}, req: Request, server: Server]
           \cup [phase: {"ranking"}, tool: Tool, entry: CatalogEntry \cup {NoTool}]
           \cup {NoCall}]
    /\ answer.outcome \in {"none", "discovered", "not found", "mismatch", "ok", "error"}

\* An answer is the most detailed representation that the caller's budget takes
\* (bridge.ts:226, budget.ts:44).  A budget of 20 tokens is kept whatever the tool returns
\* (compressor.ts:71), but for the {text: } put around it afterwards.
AnswerFits ==
    answer.outcome = "ok" =>
        LET r == compressMcpResult(answer.result)
            budget == createBudget(answer.req.budget)
        IN  /\ IsBestFit(answer.level, r, budget)
            /\ budget.max_tokens >= 20 => r[answer.level] <= 4 * budget.max_tokens

\* When the servers stop changing, and each of them either gets its list through or no
\* longer does, then from some time on what agents are told agrees with what the servers
\* list, and with what is held of those that no longer get it through: no tool is said to
\* be missing, no hash to be old, and no tool runs at another server or under another hash
\* than it should.  Neither an old catalog nor a call checked against one lives on
\* (bridge.ts:213), and a server that fails keeps no other from being listed
\* (mcp-connector.ts:95).
Truthful(a, known) ==
    LET entry == buildFrom(connections, known)[a.req.tool]
    IN  CASE a.outcome = "discovered" ->
                \/ entry = NoTool /\ a.entry = NoTool
                \/ /\ NoTool \notin {entry, a.entry}
                   /\ entry.server = a.entry.server /\ entry.tool.input = a.entry.tool.input
          [] a.outcome = "not found" -> entry = NoTool
          [] a.outcome = "mismatch"  -> entry # NoTool /\ entry.tool.input # a.req.h
          [] OTHER -> /\ entry # NoTool /\ entry.server = a.server
                      /\ a.req.h \in {NoHash, entry.tool.input}
InvocationsCatchUp ==
    \A down \in SUBSET Server :
        (/\ <>[][offers' = offers]_allVars
         /\ <>[](phase = "serving")
         /\ <>[][\A r \in Callback :
                   /\ ServerLists(r) => Asked(r) \notin down
                   /\ RefreshFails(r) \/ ServerRefuses(r) => Asked(r) \in down]_allVars)
        => <>[](answer # NoAnswer =>
                  Truthful(answer, [s \in Server |-> IF s \in down THEN tools[s] ELSE offers[s]]))
================================================================================
