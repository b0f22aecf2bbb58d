---------------------------- MODULE MCBridgeInvoke ----------------------------
(***************************************************************************)
(* BridgeInvoke for TLC: a request with a hash and one without, a result   *)
(* that only its minimal representation cuts to 20 tokens.                 *)
(***************************************************************************)
EXTENDS BridgeInvoke

CONSTANTS s1, t1, x, y

\* One server offers the tool in two versions, the other in one of them or not at all.
Lists(s) ==
    LET as(input) == [t \in Tool |-> [input |-> input, desc |-> "d"]]
    IN  IF s = s1 THEN {as(x), as(y)} ELSE {as(x), [t \in Tool |-> NoTool]}

Requests ==
    {[tool |-> t1, h |-> x, budget |-> [max_tokens |-> 20, detail_level |-> "full"]],
     [tool |-> t1, h |-> NoHash, budget |-> NoBudget]}

Results == {[line |-> 90, kept |-> 77, compact |-> 900, full |-> 2400]}

\* resolveBudget is what it is meant to be, for every result and budget around the bounds.
Lengths == {0, 1, 8, 9, 12, 13}
ASSUME BudgetsResolve ==
    \A minimal, compact, full \in Lengths \cup {Absent}, max \in {0, 2, 3},
       detail \in DetailLevel :
        LET r == [minimal |-> minimal, compact |-> compact, full |-> full]
            budget == [max_tokens |-> max, detail_level |-> detail]
        IN  IsBestFit(resolveBudget(r, budget), r, budget)
================================================================================
