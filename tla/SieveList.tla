------------------------------ MODULE SieveList ------------------------------
(***************************************************************************)
(* SievePolicy of packages/core/src/cache/sieve-policy.ts: a doubly linked  *)
(* list threaded through a map, with a hand and a visited bit per node.     *)
(* Each method is an operator from the state of the object to the next, so  *)
(* that CacheStore can call several within one step of its own.             *)
(*                                                                         *)
(* A node is created for a key when the key enters the map, and nothing     *)
(* refers to it once it is removed: a node is named by its key, and its     *)
(* fields mean something while the key is in `nodes`.                       *)
(***************************************************************************)
EXTENDS Naturals, FiniteSets

CONSTANTS
  Key,   \* keys of the cache
  null   \* no node

ASSUME NullAssumption == null \notin Key

Link == Key \cup {null}

SieveState ==
  [nodes : SUBSET Key, head : Link, tail : Link, hand : Link,
   prev : [Key -> Link], next : [Key -> Link], visited : [Key -> BOOLEAN]]

emptySieve ==
  [nodes |-> {}, head |-> null, tail |-> null, hand |-> null,
   prev |-> [k \in Key |-> null], next |-> [k \in Key |-> null],
   visited |-> [k \in Key |-> FALSE]]

access(s, k) == IF k \in s.nodes THEN [s EXCEPT !.visited = [@ EXCEPT ![k] = TRUE]] ELSE s

insert(s, k) ==
  IF k \in s.nodes THEN access(s, k)
  ELSE [s EXCEPT
          !.nodes = @ \cup {k},
          !.head = IF s.tail = null THEN k ELSE @,
          !.tail = k,
          !.next = [n \in Key |-> IF n = s.tail THEN k ELSE IF n = k THEN null ELSE @[n]],
          !.prev = [@ EXCEPT ![k] = s.tail],
          !.visited = [@ EXCEPT ![k] = FALSE]]

\* Where the hand goes from k: along the list, and round to the head.
After(s, k) == IF s.next[k] # null THEN s.next[k] ELSE s.head

\* The hand once k is gone; null if k was the only node.
handAfter(s, k) ==
  IF s.hand # k THEN s.hand
  ELSE IF After(s, k) = k THEN null ELSE After(s, k)

remove(s, k) ==
  [s EXCEPT
     !.nodes = @ \ {k},
     !.hand = handAfter(s, k),
     !.head = IF s.prev[k] = null THEN s.next[k] ELSE @,
     !.tail = IF s.next[k] = null THEN s.prev[k] ELSE @,
     !.next = [n \in Key |-> IF n = k THEN null ELSE IF n = s.prev[k] THEN s.next[k] ELSE @[n]],
     !.prev = [n \in Key |-> IF n = k THEN null ELSE IF n = s.next[k] THEN s.prev[k] ELSE @[n]]]

delete(s, k) == IF k \in s.nodes THEN remove(s, k) ELSE s

\* The loop of evict: the node the hand is on after i rounds, and whether its
\* visited bit is still set then, or was cleared in an earlier round.
MaxIter(s) == 2 * Cardinality(s.nodes)

HandAt(s) ==
  LET at[i \in 0..MaxIter(s)] ==
        IF i = 0 THEN (IF s.hand = null THEN s.head ELSE s.hand)
        ELSE After(s, at[i - 1])
  IN  at

StillVisited(s, at, i) == s.visited[at[i]] /\ \A j \in 0..(i - 1) : at[j] # at[i]

\* The round in which the loop ends: on a node not visited, or on none.
LastRound(s, at) ==
  CHOOSE i \in 0..MaxIter(s) :
    /\ i = MaxIter(s) \/ ~StillVisited(s, at, i)
    /\ \A j \in 0..(i - 1) : StillVisited(s, at, j)

\* clear with a bug: the nodes the hand passed keep their second chance.
clear_KeepBits(s, passed) == s.visited

clear(s, passed) == [k \in Key |-> s.visited[k] /\ k \notin passed]

\* evict: the key it returns, null standing for undefined, and what is left.
evict(s) ==
  LET at == HandAt(s)
      n  == LastRound(s, at)
      bits == clear(s, {at[j] : j \in 0..(n - 1)})
  IN  IF s.nodes = {} THEN [key |-> null, sieve |-> s]
      ELSE [key   |-> at[n],
            sieve |-> remove([s EXCEPT !.hand = at[n], !.visited = bits], at[n])]

=============================================================================
