------------------------------- MODULE MCGrpcWire -------------------------------
EXTENDS GrpcWire

\* Results with every level, and one as SPEC.md:775 completes with.
SpecResults == {[minimal |-> m, compact |-> Json, full |-> Json] : m \in {Absent, Set}}
               \cup {[minimal |-> Set, compact |-> Json, full |-> Absent]}

\* No filter, and filters with and without an empty query, a top_k of 0, a threshold of 0.
AnyFilter == DiscoverFilter \cup {None}

\* No budget, and budgets with or without tokens.
AnyBudget == TokenBudget \cup {None}
=============================================================================
