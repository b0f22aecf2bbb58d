------------------------------ MODULE MCWsSession ------------------------------
EXTENDS WsSession, TLC

\* The order NekteClient.verify asks in unless it is told another, and orders in which the
\* hash comes later, twice or not at all.
AnyChecks == { <<"hash", "sample", "source">>, <<"sample", "hash", "source">>,
               <<"hash", "source", "hash">>, <<"source", "sample">> }

\* Nothing tells one request of the connection from another.
AnyCall == Permutations(Call)
=============================================================================
