------------------------------ MODULE TokenBudget ------------------------------
(***************************************************************************)
(* Which representation of a result an invocation is answered with         *)
(* (core/src/budget.ts), for a capability of a server, whose minimal and   *)
(* compact representations are optional (server/src/capability.ts), and    *)
(* for an MCP tool behind the bridge, whose three representations are made *)
(* from the text it returned (bridge/src/compressor.ts).                   *)
(*                                                                         *)
(* A representation is its length in characters.                           *)
(***************************************************************************)
EXTENDS Integers

DetailLevel == {"minimal", "compact", "full"}
TokenBudgets == [max_tokens: Nat, detail_level: DetailLevel]

Absent == -1
MultiLevelResult == [DetailLevel -> Nat \cup {Absent}]

NoBudget == [detail_level |-> "none"]

createBudget(budget) ==
    IF budget = NoBudget THEN [max_tokens |-> 500, detail_level |-> "compact"] ELSE budget

\* Math.ceil(length / 4)
estimateTokens(length) == (length + 3) \div 4

(***************************************************************************)
(* The representations.                                                    *)
(***************************************************************************)
\* Of a server's result: toMinimal and toCompact are optional; full has _meta beside it.
multiLevel(raw, minimal, compact, meta) ==
    [minimal |-> minimal, compact |-> IF compact = Absent THEN raw ELSE compact,
     full |-> raw + meta]

\* Of a tool's text: line is the length of its first line that is not blank, 0 if the
\* text is empty; kept is what trimming leaves of it, or of its first 77 characters.
\* The lengths of the other two depend on the structure of the text.
McpToolResult ==
    {r \in [line: Nat, kept: Nat, compact: Nat, full: Nat] :
        r.kept <= r.line /\ (r.line > 80 => r.kept <= 77)}

buildMinimal_Uncut(r) == IF r.line = 0 THEN 7 ELSE r.line

buildMinimal(r) ==
    IF r.line = 0 THEN 7 ELSE IF r.line <= 80 THEN r.kept ELSE r.kept + 3

compressMcpResult(r) == [minimal |-> buildMinimal(r), compact |-> r.compact, full |-> r.full]

(***************************************************************************)
(* The choice.                                                             *)
(***************************************************************************)
\* The levels tried, in this order.
Levels(requested) ==
    CASE requested = "full"    -> <<"full", "compact", "minimal">>
      [] requested = "compact" -> <<"compact", "minimal">>
      [] requested = "minimal" -> <<"minimal">>

Fits(r, level, budget) ==
    r[level] # Absent /\ estimateTokens(r[level]) <= budget.max_tokens

lastResort(r) ==
    IF r["minimal"] # Absent THEN "minimal"
    ELSE IF r["compact"] # Absent THEN "compact" ELSE "full"

resolveBudget(r, budget) ==
    LET tried == Levels(budget.detail_level)
        fit == {i \in DOMAIN tried : Fits(r, tried[i], budget)}
    IN  IF fit = {} THEN lastResort(r)
        ELSE tried[CHOOSE i \in fit : \A j \in fit : i <= j]

(***************************************************************************)
(* A reference definition.                                                 *)
(***************************************************************************)
Detail(level) == CASE level = "minimal" -> 1 [] level = "compact" -> 2 [] level = "full" -> 3

\* The representations the caller can be given: no more detail than it asked for, and
\* within its tokens.
Acceptable(r, budget) ==
    {level \in DetailLevel : /\ Detail(level) <= Detail(budget.detail_level)
                             /\ r[level] # Absent
                             /\ r[level] <= 4 * budget.max_tokens}

\* The most detailed of those; when there is none, still one that exists.
IsBestFit(level, r, budget) ==
    IF Acceptable(r, budget) # {}
    THEN level \in Acceptable(r, budget)
         /\ \A other \in Acceptable(r, budget) : Detail(other) <= Detail(level)
    ELSE (\E any \in DetailLevel : r[any] # Absent) => r[level] # Absent
================================================================================
