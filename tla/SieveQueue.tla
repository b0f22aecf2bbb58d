----------------------------- MODULE SieveQueue -----------------------------
(***************************************************************************)
(* What SIEVE promises, without the list: a queue of distinct keys, oldest  *)
(* first, some of them visited since the hand last passed, and a hand that  *)
(* goes round it (the header comment of                                     *)
(* packages/core/src/cache/sieve-policy.ts).  A queue is a record of the    *)
(* keys, those visited, and the key the hand is on, null before the first   *)
(* eviction.  CacheStore shows that SieveList computes these operators.     *)
(***************************************************************************)
EXTENDS Naturals, Sequences

CONSTANTS Key, null

Keys(q) == {q.keys[i] : i \in 1..Len(q.keys)}

PlaceOf(q, k) == CHOOSE i \in 1..Len(q.keys) : q.keys[i] = k

\* The queue as the hand meets it: from its own place round to the one before.
Round(q) ==
  IF q.hand = null THEN q.keys
  ELSE SubSeq(q.keys, PlaceOf(q, q.hand), Len(q.keys)) \o SubSeq(q.keys, 1, PlaceOf(q, q.hand) - 1)

access(q, k) == [q EXCEPT !.visited = @ \cup ({k} \cap Keys(q))]

insert(q, k) == IF k \in Keys(q) THEN access(q, k) ELSE [q EXCEPT !.keys = Append(@, k)]

Without(q, k) ==
  SubSeq(q.keys, 1, PlaceOf(q, k) - 1) \o SubSeq(q.keys, PlaceOf(q, k) + 1, Len(q.keys))

\* The hand moves off k to its successor, round the queue.
HandOff(q, k) ==
  IF Len(q.keys) = 1 THEN null ELSE q.keys[(PlaceOf(q, k) % Len(q.keys)) + 1]

delete(q, k) ==
  IF k \notin Keys(q) THEN q
  ELSE [keys |-> Without(q, k), visited |-> q.visited \ {k},
        hand |-> IF q.hand = k THEN HandOff(q, k) ELSE q.hand]

\* The hand passes the visited keys, forgetting their visits, and takes the
\* first key it meets unvisited: its own, if it had to go all the way round.
evict(q) ==
  IF q.keys = <<>> THEN [key |-> null, queue |-> q]
  ELSE LET around == Keys(q) \subseteq q.visited
           n == IF around THEN 1
                ELSE CHOOSE i \in 1..Len(q.keys) :
                       Round(q)[i] \notin q.visited /\ \A j \in 1..(i - 1) : Round(q)[j] \in q.visited
           passed == IF around THEN Keys(q) ELSE {Round(q)[j] : j \in 1..(n - 1)}
       IN  [key   |-> Round(q)[n],
            queue |-> [keys |-> Without(q, Round(q)[n]), visited |-> q.visited \ passed,
                       hand |-> HandOff(q, Round(q)[n])]]

=============================================================================
