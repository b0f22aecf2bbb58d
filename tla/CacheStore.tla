----------------------------- MODULE CacheStore -----------------------------
(***************************************************************************)
(* InMemoryCacheStore of packages/client/src/cache-store.ts: a map of       *)
(* entries beside a SievePolicy over the same keys, driven as               *)
(* CapabilityCache (packages/client/src/cache.ts) drives it.  Everything is *)
(* synchronous, so a call is a step, and get and set are operators from the *)
(* state of the store to the next, since CapabilityCache.set calls both.    *)
(*                                                                         *)
(* Every set multiplies the time to live by a random factor, so entries age *)
(* each at a time of its own: fresh, then stale, then expired.              *)
(***************************************************************************)
EXTENDS SieveList, Sequences

CONSTANTS
  NoEntry,     \* "nothing under this key"
  MaxEntries,  \* config.maxEntries
  TokenCost,   \* what tokenCostForLevel may return
  MaxCount     \* bound of the model: accessCount stops here

ASSUME NoEntryAssumption == NoEntry \notin [freshness : {"fresh", "stale", "expired"},
                                            accessCount : 0..MaxCount, tokenCost : TokenCost]
\* With maxEntries 0 the loop of set would never end.
ASSUME MaxEntriesAssumption == MaxEntries \in Nat \ {0}
ASSUME CostAssumption == TokenCost \subseteq Nat /\ MaxCount \in Nat

VARIABLES
  store,  \* the object: its entries and its sieve
  put     \* history: the key of the last call, if it was CapabilityCache.set

vars == <<store, put>>

Entry == [freshness : {"fresh", "stale", "expired"}, accessCount : 0..MaxCount, tokenCost : TokenCost]

\* The values of the entries, the queue and the hand.
TypeOK ==
  /\ store \in [entries : [Key -> Entry \cup {NoEntry}], sieve : SieveState]
  /\ put \in Link

Init ==
  /\ store = [entries |-> [k \in Key |-> NoEntry], sieve |-> emptySieve]
  /\ put = null

Held(st) == {k \in Key : st.entries[k] # NoEntry}

----------------------------------------------------------------------------
(* The methods of the store.                                                *)

drop(st, k) == [entries |-> [st.entries EXCEPT ![k] = NoEntry], sieve |-> delete(st.sieve, k)]

counted(e) == [e EXCEPT !.accessCount = IF @ < MaxCount THEN @ + 1 ELSE @]

\* get: an entry past its grace period goes, any other counts an access.
get(st, k) ==
  IF k \notin Held(st) THEN st
  ELSE IF st.entries[k].freshness = "expired" THEN drop(st, k)
  ELSE [entries |-> [st.entries EXCEPT ![k] = counted(@)], sieve |-> access(st.sieve, k)]

priority(st, k) ==
  IF k \in Held(st) THEN st.entries[k].accessCount * st.entries[k].tokenCost ELSE 0

\* evict asks the sieve for up to three candidates, until it has none left,
Candidates(st) ==
  LET e1 == evict(st.sieve)
      e2 == evict(e1.sieve)
      e3 == evict(e2.sieve)
      asked == <<e1.key, e2.key, e3.key>>
  IN  [keys  |-> [i \in {j \in 1..3 : asked[j] # null} |-> asked[i]],
       sieve |-> e3.sieve]

\* Cheapest with a bug: the last candidate is taken.
Cheapest_Last(st, keys) == keys[Len(keys)]

\* takes the first of those with the lowest priority,
Cheapest(st, keys) ==
  keys[CHOOSE i \in 1..Len(keys) :
         /\ \A j \in 1..Len(keys) : priority(st, keys[i]) <= priority(st, keys[j])
         /\ \A j \in 1..(i - 1) : priority(st, keys[i]) < priority(st, keys[j])]

\* BackIn with a bug: the candidates that stay are forgotten by the sieve.
BackIn_Forget(s, keys, best) == s

\* and puts the others back into the sieve, in order.
BackIn(s, keys, best) ==
  LET after[i \in 0..Len(keys)] ==
        IF i = 0 THEN s
        ELSE IF keys[i] = best THEN after[i - 1] ELSE insert(after[i - 1], keys[i])
  IN  after[Len(keys)]

evictOne(st) ==
  LET c    == Candidates(st)
      best == Cheapest(st, c.keys)
  IN  [entries |-> [st.entries EXCEPT ![best] = NoEntry],
       sieve   |-> BackIn(c.sieve, c.keys, best)]

\* The loop of set evicts while the store is full; as the store never holds
\* more than MaxEntries (CapacityKept), one round of it makes room.
room(st) == IF Cardinality(Held(st)) >= MaxEntries THEN evictOne(st) ELSE st

set(st, k, e) ==
  IF k \in Held(st)
  THEN [entries |-> [st.entries EXCEPT ![k] = e], sieve |-> access(st.sieve, k)]
  ELSE LET r == room(st)
       IN  [entries |-> [r.entries EXCEPT ![k] = e], sieve |-> insert(r.sieve, k)]

----------------------------------------------------------------------------
(* The calls of CapabilityCache, and time.                                  *)

\* getHash and get.
Get(k) == store' = get(store, k) /\ put' = null

\* CapabilityCache.set: the entry that is there is got first; its access count
\* and its highest level, which decides the cost, live on in the new one.
Put(k, cost) ==
  LET st  == get(store, k)
      old == st.entries[k]
      e   == IF k \in Held(st)
             THEN [freshness |-> "fresh", accessCount |-> old.accessCount,
                   tokenCost |-> IF old.tokenCost > cost THEN old.tokenCost ELSE cost]
             ELSE [freshness |-> "fresh", accessCount |-> 0, tokenCost |-> cost]
  IN  store' = set(st, k, e) /\ put' = k

\* invalidate
Invalidate(k) == store' = drop(store, k) /\ put' = null

Clear ==
  /\ store' = [entries |-> [k \in Key |-> NoEntry],
               sieve   |-> [store.sieve EXCEPT !.nodes = {}, !.head = null, !.tail = null, !.hand = null]]
  /\ put' = null

older(e) == [e EXCEPT !.freshness = IF @ = "fresh" THEN "stale" ELSE "expired"]

\* Time passes for the entry of k.
Age(k) ==
  /\ k \in Held(store)
  /\ store.entries[k].freshness # "expired"
  /\ store' = [entries |-> [store.entries EXCEPT ![k] = older(@)], sieve |-> store.sieve]
  /\ put' = null

Next ==
  \/ \E k \in Key : Get(k) \/ Invalidate(k) \/ Age(k)
  \/ \E k \in Key, cost \in TokenCost : Put(k, cost)
  \/ Clear

Spec == Init /\ [][Next]_vars

----------------------------------------------------------------------------
(* What the store has to get right.                                         *)

\* The map and the sieve hold the same keys: one the sieve has forgotten could
\* never be evicted, and one only the sieve knows would be evicted in vain, so
\* that the loop of set would not end.
SieveKnowsEveryEntry == store.sieve.nodes = Held(store)

\* The store keeps to its capacity.
CapacityKept == Cardinality(Held(store)) <= MaxEntries

\* What a step takes away from other keys than the one that is put.
Lost == (Held(store) \ Held(store')) \ {put'}

\* A put takes away at most one entry of another key, only from a full store, and its own
\* key is there afterwards, whatever had to go or had expired.  What goes is never worth
\* most: two entries beside it (all, if there are fewer) are worth at least as much
\* (cache-store.ts:159-198).
EvictionSparesTheWorthiest ==
  [][put' # null =>
       /\ put' \in Held(store')
       /\ Cardinality(Lost) <= 1
       /\ Lost # {} => Cardinality(Held(store)) = MaxEntries
       /\ \A v \in Lost :
            Cardinality({w \in Held(store) \ {v} : priority(store, w) >= priority(store, v)})
              >= IF MaxEntries < 3 THEN MaxEntries - 1 ELSE 2]_vars

----------------------------------------------------------------------------
(* The sieve as a list, and as the queue it stands for.                     *)

Size(s) == Cardinality(s.nodes)

\* The keys met from the head along `next`.
ListOrder(s) ==
  LET at[i \in 1..Size(s)] ==
        IF i = 1 THEN s.head
        ELSE IF at[i - 1] = null THEN null ELSE s.next[at[i - 1]]
  IN  at

\* The list and the map hold the same keys, once each; the list read backwards
\* is the list; the hand is on a node of it.  An insertion, a removal in the
\* middle or at either end, or an eviction that left a link behind would break it.
ListAndMapAgree ==
  LET s     == store.sieve
      order == ListOrder(s)
  IN  /\ {order[i] : i \in 1..Size(s)} = s.nodes
      /\ s.hand \in s.nodes \cup {null}
      /\ s.tail = IF Size(s) = 0 THEN null ELSE order[Size(s)]
      /\ \A i \in 1..Size(s) :
           /\ s.prev[order[i]] = IF i = 1 THEN null ELSE order[i - 1]
           /\ s.next[order[i]] = IF i = Size(s) THEN null ELSE order[i + 1]

\* The store is sound between any two calls: its map and its sieve hold the same keys, no
\* more than maxEntries of them, on a list that is whole.  With anything less the eviction
\* loop of set (cache-store.ts:130) could evict in vain and not end.
StoreInv == TypeOK /\ SieveKnowsEveryEntry /\ CapacityKept /\ ListAndMapAgree

Q == INSTANCE SieveQueue

QueueOf(s) ==
  [keys    |-> [i \in 1..Size(s) |-> ListOrder(s)[i]],
   visited |-> {k \in s.nodes : s.visited[k]},
   hand    |-> s.hand]

\* The linked list with its hand is the queue of the SIEVE algorithm: from every
\* list the cache can make, and from those within an eviction, each method gives
\* the list of the queue that SIEVE asks for, and evict the same key.  That
\* includes scan resistance (docs/CACHE_ARCHITECTURE.md, section 5): no key that
\* was accessed goes while there is one that was not.
ImplementsQueue ==
  \A s \in {store.sieve, evict(store.sieve).sieve} :
    /\ evict(s).key = Q!evict(QueueOf(s)).key
    /\ QueueOf(evict(s).sieve) = Q!evict(QueueOf(s)).queue
    /\ \A k \in Key :
         /\ QueueOf(access(s, k)) = Q!access(QueueOf(s), k)
         /\ QueueOf(insert(s, k)) = Q!insert(QueueOf(s), k)
         /\ QueueOf(delete(s, k)) = Q!delete(QueueOf(s), k)

=============================================================================
