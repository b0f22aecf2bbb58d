---------------------------- MODULE DiscoverFilter ----------------------------
(***************************************************************************)
(* The server and its filter strategy (server/src/server.ts,               *)
(* handleDiscover and handleDelegate; capability.ts; core/src/filtering).  *)
(* nekte.discover with a query ranks the capabilities that match and keeps *)
(* the ranked ids per query for 30 s.  nekte.delegate, where there is no   *)
(* delegate handler, ranks all capabilities for the task's description and *)
(* takes the first.                                                        *)
(*                                                                         *)
(* The embedding provider is external: it takes its time and may reject.   *)
(* Embeddings are kept per id, and a capability may be described anew.     *)
(* Requests interleave at the awaits; the clock ticks.                     *)
(***************************************************************************)
EXTENDS RankingStrategy

CONSTANTS Capability,       \* [id, desc]: what may be registered
          Query, AnyId,     \* the texts asked for; no filter.id in the request
          Request,          \* the discoveries that come
          Task,             \* the descriptions of the tasks that come
          Strategy,         \* the strategies a server may be given
          FilterCacheTtl, FilterCacheMax,
          Call              \* bounds the requests at work at a time

Id == {c.id : c \in Capability}

ASSUME FilterAssumption ==
    /\ \A c \in Capability : c = [id |-> c.id, desc |-> c.desc]
    /\ None \notin Capability
    /\ Request \subseteq [query: Query, id: Id \cup {AnyId}, opts: FilterOptions]
    /\ Task \subseteq Query
    /\ Strategy \subseteq {"keyword", "semantic", "hybrid"}
    /\ FilterCacheTtl \in Nat \ {0} /\ FilterCacheMax \in Nat \ {0}

\* Scores are percentages.
ASSUME ScoreAssumption ==
    \A query \in Query, c \in Capability :
        WordsShare(query, c) \in 0..100 /\ similarity(query, c) \in 0..100

VARIABLES strategy,     \* the one this server was given
          registry,     \* the capabilities registered, in the Map's order
          embeddings,   \* embeddings[id]: the capability as it was embedded
          filterCache,  \* the entries of the Map in its order
          calls,        \* requests that await the strategy
          answered      \* the last answer, and what it was made of

vars == <<strategy, registry, embeddings, filterCache, calls, answered>>

\* An age of FilterCacheTtl stands for every greater one.
Age == 0..FilterCacheTtl
NoCall == [step |-> "none"]
NoAnswer == [kind |-> "none"]

(***************************************************************************)
(* Helpers.                                                                *)
(***************************************************************************)
\* filter: an id is looked up and the query then ignored.
filter(req) ==
    {c \in ToSet(registry) :
        IF req.id = AnyId THEN MatchOf(req.query, c) # "words" ELSE c.id = req.id}

\* A capability keeps its place in the Map when it is described anew.
Position == [c \in Capability |-> CHOOSE i \in DOMAIN registry : registry[i].id = c.id]

cacheKey_Shared(req) == req.opts

cacheKey(req) == <<req.query, req.opts>>

EntryAt(key) == {i \in DOMAIN filterCache : filterCache[i].key = key}
Cached(key) == \E i \in EntryAt(key) : filterCache[i].ts < FilterCacheTtl

\* Map.set: an entry of the same key is replaced where it is; then, above the limit, the
\* first entry goes.
Limited_AtLimit(cache) == IF Len(cache) > FilterCacheMax + 1 THEN Tail(cache) ELSE cache

Limited(cache) == IF Len(cache) > FilterCacheMax THEN Tail(cache) ELSE cache

Stored(e) ==
    IF EntryAt(e.key) = {} THEN Append(filterCache, e)
    ELSE [i \in DOMAIN filterCache |-> IF filterCache[i].key = e.key THEN e ELSE filterCache[i]]

\* handleDelegate's own options; it gives the strategy every capability.
Delegated(task) ==
    [query |-> task, id |-> AnyId, opts |-> [top_k |-> 1, threshold |-> 10]]

\* precompute: those of the given capabilities that have no embedding.
ToEmbed_NotInFlight(given) ==
    {c \in given : embeddings[c.id] = None /\ \A p \in Call : calls[p].step # "embed"}

ToEmbed(given) == {c \in given : embeddings[c.id] = None}

\* What a ranking is made of, and how long ago the request came.
Basis(call) == [vectors |-> [c \in call.given |-> embeddings[c.id]], age |-> call.age]

Ranking(call) ==
    RankedBy(strategy, Basis(call).vectors, Position, call.req.query, call.req.opts)

(***************************************************************************)
(* The steps.                                                              *)
(***************************************************************************)
Init ==
    /\ strategy \in Strategy
    /\ registry = <<>>
    /\ embeddings = [id \in Id |-> None]
    /\ filterCache = <<>>
    /\ calls = [p \in Call |-> NoCall]
    /\ answered = NoAnswer

register(c) ==
    /\ registry' = IF \E i \in DOMAIN registry : registry[i].id = c.id
                   THEN [i \in DOMAIN registry |-> IF registry[i].id = c.id THEN c ELSE registry[i]]
                   ELSE Append(registry, c)
    /\ answered' = NoAnswer
    /\ UNCHANGED <<strategy, embeddings, filterCache, calls>>

\* A fresh entry answers at once.
DiscoverHit(req) ==
    /\ Cached(cacheKey(req))
    /\ LET e == filterCache[CHOOSE i \in EntryAt(cacheKey(req)) : TRUE]
           kept == {c \in filter(req) : c.id \in ToSet(e.caps)}
           order == [c \in kept |-> CHOOSE n \in DOMAIN e.caps : e.caps[n] = c.id]
       IN  answered' = [kind |-> "hit", req |-> req, from |-> e.from,
                        caps |-> Sorted(kept, [c \in kept |-> 0], order)]
    /\ UNCHANGED <<strategy, registry, embeddings, filterCache, calls>>

\* The strategy is called: it waits for the provider twice, or once when every capability
\* given has an embedding; the keyword strategy has only its own await.
Rank(p, kind, req, given) ==
    LET missing == IF strategy = "keyword" THEN {} ELSE ToEmbed(given)
    IN  /\ calls[p] = NoCall
        /\ calls' = [calls EXCEPT ![p] =
               [step |-> IF missing = {} THEN "query" ELSE "embed",
                kind |-> kind, req |-> req, given |-> given, missing |-> missing, age |-> 0]]
        /\ answered' = NoAnswer
        /\ UNCHANGED <<strategy, registry, embeddings, filterCache>>

\* Without a fresh entry the strategy is given the capabilities that match now.
DiscoverRanks(p, req) ==
    ~Cached(cacheKey(req)) /\ Rank(p, "discover", req, filter(req))

DelegateRanks(p, task) ==
    registry # <<>> /\ Rank(p, "delegate", Delegated(task), ToSet(registry))

\* precompute resumes with the vectors of the capabilities that had none.
Embedded(p) ==
    /\ calls[p].step = "embed"
    /\ embeddings' = [id \in Id |-> IF \E c \in calls[p].missing : c.id = id
                                    THEN CHOOSE c \in calls[p].missing : c.id = id
                                    ELSE embeddings[id]]
    /\ calls' = [calls EXCEPT ![p] = [@ EXCEPT !.step = "query", !.missing = {}]]
    /\ answered' = NoAnswer
    /\ UNCHANGED <<strategy, registry, filterCache>>

Answer(p) ==
    /\ calls[p].step = "query"
    /\ calls' = [calls EXCEPT ![p] = NoCall]
    /\ answered' = [kind |-> calls[p].kind, req |-> calls[p].req, caps |-> Ranking(calls[p]),
                    from |-> Basis(calls[p])]
    /\ UNCHANGED <<strategy, registry, embeddings>>

Keep(p, ts) ==
    filterCache' = Limited(Stored([key |-> cacheKey(calls[p].req), ts |-> ts,
        caps |-> [n \in DOMAIN Ranking(calls[p]) |-> Ranking(calls[p])[n].id],
        from |-> Basis(calls[p])]))

Discovered_StampedAtTheEnd(p) ==
    Answer(p) /\ calls[p].kind = "discover" /\ Keep(p, 0)

\* The answer is made of the schemas looked up before the await, and stamped with that time.
Discovered(p) ==
    Answer(p) /\ calls[p].kind = "discover" /\ Keep(p, calls[p].age)

\* The first capability is looked up again and invoked; without one the task fails.
DelegateMatched(p) ==
    Answer(p) /\ calls[p].kind = "delegate" /\ UNCHANGED filterCache

\* The provider rejects, and the request with it: nothing is kept.
EmbedFails(p) ==
    /\ calls[p] # NoCall /\ strategy # "keyword"
    /\ calls' = [calls EXCEPT ![p] = NoCall]
    /\ answered' = NoAnswer
    /\ UNCHANGED <<strategy, registry, embeddings, filterCache>>

Older(a) == IF a < FilterCacheTtl THEN a + 1 ELSE a
AgedBasis(basis) == [basis EXCEPT !.age = Older(@)]
Aged(e) == [e EXCEPT !.ts = Older(@), !.from = AgedBasis(@)]

Tick ==
    /\ filterCache' = [i \in DOMAIN filterCache |-> Aged(filterCache[i])]
    /\ calls' = [p \in Call |-> IF calls[p] = NoCall THEN NoCall
                                ELSE [calls[p] EXCEPT !.age = Older(@)]]
    /\ answered' = NoAnswer
    /\ UNCHANGED <<strategy, registry, embeddings>>

Next ==
    \/ \E c \in Capability : register(c)
    \/ \E req \in Request : DiscoverHit(req)
    \/ \E p \in Call :
          \/ \E req \in Request : DiscoverRanks(p, req)
          \/ \E task \in Task : DelegateRanks(p, task)
          \/ Embedded(p) \/ Discovered(p) \/ DelegateMatched(p) \/ EmbedFails(p)
    \/ Tick

Spec == Init /\ [][Next]_vars

(***************************************************************************)
(* Properties.                                                             *)
(***************************************************************************)
TypeOK ==
    /\ strategy \in Strategy
    /\ registry \in Seq(Capability)
    /\ embeddings \in [Id -> Capability \cup {None}]
    /\ \A p \in Call : calls[p] # NoCall =>
          /\ calls[p].step \in {"embed", "query"} /\ calls[p].kind \in {"discover", "delegate"}
          /\ calls[p].given \subseteq Capability /\ calls[p].missing \subseteq calls[p].given
          /\ calls[p].step = "embed" <=> calls[p].missing # {}
    /\ \A i, j \in DOMAIN filterCache : filterCache[i].key = filterCache[j].key => i = j

\* However many rankings end in a row, the Map stays within its limit (server.ts:249).
CacheBounded == Len(filterCache) <= FilterCacheMax

\* The Map holds one entry per key and no more than its limit between any two steps.
FilterInv == TypeOK /\ CacheBounded

\* A hit is never served from capabilities looked up 30 s ago or more, however long the
\* strategy took and whichever of two rankings of one query ended last (server.ts:218,247).
HitsAreYoung == answered.kind = "hit" => answered.from.age < FilterCacheTtl

\* However requests overlap and the provider fails, no capability is scored 0 because its
\* embedding has not come yet (semantic-strategy.ts:66,74).
ScoredByEmbedding ==
    answered.kind # "none" /\ strategy # "keyword" =>
        \A c \in DOMAIN answered.from.vectors : answered.from.vectors[c] # None

\* An answer has the best of the capabilities given to the strategy, best first, by what the
\* strategy knows of them; a hit too, for its own query and options, where these are still
\* the capabilities it would give the strategy (server.ts:216-246, core/src/filtering).  The
\* hybrid strategy ranks by both only as far as the semantic one returns by default.
BestFirst ==
    LET a == answered
    IN  /\ a.kind # "none"
        /\ a.kind = "hit" => filter(a.req) = DOMAIN a.from.vectors
        /\ strategy = "hybrid" => Cardinality(DOMAIN a.from.vectors) <= topKDefault
        => IsRanking(a.caps, strategy, a.from.vectors, a.req.query, a.req.opts)
================================================================================
