------------------------- MODULE DiscoverFilterProofs -------------------------
(***************************************************************************)
(* Theorems about DiscoverFilter for every set of capabilities, queries    *)
(* and requests, every strategy and scoring, every TTL and limit of the    *)
(* result cache: its type and bound, how young what a hit serves is, that  *)
(* nothing is ranked without its embedding, and that every answer has the  *)
(* best first.                                                             *)
(***************************************************************************)
EXTENDS DiscoverFilter, Integers, FiniteSetTheorems, FunctionTheorems, TLAPS

(***************************************************************************)
(* The inductive invariant.                                                *)
(***************************************************************************)
Requests == Request \cup {Delegated(task) : task \in Task}

Calls == [step: {"embed", "query"}, kind: {"discover", "delegate"}, req: Requests,
          given: SUBSET Capability, missing: SUBSET Capability, age: Age]

StateTyped ==
    /\ strategy \in Strategy
    /\ registry \in Seq(Capability)
    /\ embeddings \in [Id -> Capability \cup {None}]
    /\ calls \in [Call -> Calls \cup {NoCall}]

\* What a call has left to embed is among what it was given, and it awaits the embeddings as
\* long as there is any.
CallSound(call) ==
    call # NoCall => /\ call.missing \subseteq call.given
                     /\ call.step = "embed" <=> call.missing # {}

\* Whatever a call was given has its embedding or is being embedded by the call.
CallCovered(call) ==
    call # NoCall /\ strategy # "keyword" =>
        \A c \in call.given : c \in call.missing \/ embeddings[c.id] # None

\* An entry is as old as the capabilities it was made of.
EntrySound(e) ==
    e \in [key: {e.key}, ts: Age, caps: {e.caps},
           from: [vectors: {e.from.vectors}, age: {e.ts}]]

Embeds(vectors) == \A c \in DOMAIN vectors : vectors[c] # None

KeysApart(cache) == \A i, j \in DOMAIN cache : cache[i].key = cache[j].key => i = j

IsSequence(s) == s \in Seq(ToSet(s))

CacheSound ==
    /\ IsSequence(filterCache)
    /\ KeysApart(filterCache)
    /\ Len(filterCache) <= FilterCacheMax
    /\ \A i \in DOMAIN filterCache : EntrySound(filterCache[i])

CacheEmbeds ==
    strategy # "keyword" => \A i \in DOMAIN filterCache : Embeds(filterCache[i].from.vectors)

Sound ==
    /\ StateTyped
    /\ \A p \in Call : CallSound(calls[p]) /\ CallCovered(calls[p])
    /\ CacheSound /\ CacheEmbeds
    /\ HitsAreYoung /\ ScoredByEmbedding

(***************************************************************************)
(* Sequences, ages and calls.                                              *)
(***************************************************************************)
\* A sequence is one over its own elements.
LEMMA OverItsElements ==
  ASSUME NEW S, NEW s \in Seq(S)
  PROVE  IsSequence(s) /\ DOMAIN s = 1..Len(s) /\ Len(s) \in Nat
<1>1. s \in [1..Len(s) -> S] /\ DOMAIN s = 1..Len(s) /\ Len(s) \in Nat
  OBVIOUS
<1>2. s \in [1..Len(s) -> ToSet(s)]
  BY <1>1 DEF ToSet
<1>3. s \in Seq(ToSet(s))
  BY <1>1, <1>2
<1>4. QED
  BY <1>1, <1>3 DEF IsSequence

\* An age stays one, with the TTL at its end.
LEMMA OlderIsAge ==
  ASSUME NEW a \in Age
  PROVE  Older(a) \in Age
BY FilterAssumption DEF Age, Older

LEMMA ZeroIsAge == 0 \in Age
BY FilterAssumption DEF Age

\* NoCall is not taken for a call.
LEMMA CallsAreNot ==
  ASSUME NEW call \in Calls
  PROVE  call # NoCall /\ call.step # NoCall.step
BY DEF Calls, NoCall

\* A call whose step is known is one.
LEMMA StepOfACall ==
  ASSUME NEW call \in Calls \cup {NoCall}, call.step \in {"embed", "query"}
  PROVE  call \in Calls
BY DEF NoCall

(***************************************************************************)
(* Sorting and slicing.                                                    *)
(***************************************************************************)
\* Scores that can be compared, and positions that tell the elements of S apart.
Sortable(S, score, position) ==
    /\ IsFiniteSet(S)
    /\ \A c \in S : score[c] \in Int /\ position[c] \in Int
    /\ \A a, b \in S : position[a] = position[b] => a = b

Below(S, score, position, c) == {b \in S : Before(score, position, b, c)}

\* The order is a strict total one.
LEMMA BeforeOrders ==
  ASSUME NEW S, NEW score, NEW position, Sortable(S, score, position)
  PROVE  /\ \A a \in S : ~Before(score, position, a, a)
         /\ \A a, b, c \in S : Before(score, position, a, b) /\ Before(score, position, b, c)
                                => Before(score, position, a, c)
         /\ \A a, b \in S : a = b \/ Before(score, position, a, b) \/ Before(score, position, b, a)
<1>1. /\ \A c \in S : score[c] \in Int /\ position[c] \in Int
      /\ \A a, b \in S : position[a] = position[b] => a = b
  BY DEF Sortable
<1>2. \A a \in S : ~Before(score, position, a, a)
  BY <1>1 DEF Before
<1>3. \A a, b, c \in S : Before(score, position, a, b) /\ Before(score, position, b, c)
                         => Before(score, position, a, c)
  BY <1>1 DEF Before
<1>4. \A a, b \in S : a = b \/ Before(score, position, a, b) \/ Before(score, position, b, a)
  BY <1>1 DEF Before
<1>5. QED
  BY <1>2, <1>3, <1>4

\* Ranks number the elements of S from 1, in their order.
LEMMA RanksNumber ==
  ASSUME NEW S, NEW score, NEW position, Sortable(S, score, position)
  PROVE  LET rank == RankIn(S, score, position) IN
         /\ Cardinality(S) \in Nat
         /\ rank \in [S -> 1..Cardinality(S)]
         /\ \A a, b \in S : Before(score, position, a, b) => rank[a] < rank[b]
         /\ \A a, b \in S : rank[a] = rank[b] => a = b
         /\ \A n \in 1..Cardinality(S) : \E c \in S : rank[c] = n
<1> DEFINE below(c) == Below(S, score, position, c)
<1>1. IsFiniteSet(S) /\ Cardinality(S) \in Nat
  BY FS_CardinalityType DEF Sortable
<1>2. PICK rank : rank = RankIn(S, score, position)
  OBVIOUS
<1>3. DOMAIN rank = S /\ rank = [c \in S |-> rank[c]] /\ \A c \in S : rank[c] = Cardinality(below(c)) + 1
  BY <1>2 DEF RankIn, Below
<1>4. ASSUME NEW c \in S
      PROVE  IsFiniteSet(below(c)) /\ Cardinality(below(c)) \in Nat /\ Cardinality(below(c)) < Cardinality(S)
  <2>1. below(c) \subseteq S /\ c \notin below(c)
    BY BeforeOrders DEF Below
  <2>2. IsFiniteSet(below(c)) /\ Cardinality(below(c)) \in Nat
    BY <1>1, <2>1, FS_Subset, FS_CardinalityType
  <2>3. Cardinality(below(c)) < Cardinality(S)
    <3>1. below(c) # S
      BY <2>1
    <3>2. QED
      BY <1>1, <2>1, <2>2, <3>1, FS_Subset
  <2>4. QED
    BY <2>2, <2>3
<1>5. ASSUME NEW a \in S, NEW b \in S, Before(score, position, a, b) PROVE rank[a] < rank[b]
  <2>1. below(a) \subseteq below(b) /\ a \in below(b) /\ a \notin below(a)
    BY <1>5, BeforeOrders DEF Below
  <2>2. Cardinality(below(a)) < Cardinality(below(b))
    BY <1>4, <2>1, FS_Subset
  <2>3. QED
    BY <1>3, <1>4, <2>2
<1> HIDE DEF below
<1>6. \A c \in S : rank[c] \in 1..Cardinality(S)
  BY <1>1, <1>3, <1>4
<1>7. \A a, b \in S : rank[a] = rank[b] => a = b
  BY <1>5, <1>6, BeforeOrders
<1>8. rank \in [S -> 1..Cardinality(S)]
  BY <1>3, <1>6
<1>9. PICK N \in Nat : N = Cardinality(S)
  BY <1>1
<1>10. IsFiniteSet(1..N) /\ Cardinality(1..N) = N
  BY FS_Interval
<1>11. rank \in Injection(S, 1..N)
  BY <1>7, <1>8, <1>9 DEF Injection, IsInjective
<1>12. rank \in Surjection(S, 1..N)
  BY <1>9, <1>10, <1>11, FS_Injection
<1>13. \A n \in 1..N : \E c \in S : rank[c] = n
  BY <1>12 DEF Surjection
<1>14. QED
  BY <1>1, <1>2, <1>5, <1>7, <1>8, <1>9, <1>13

\* Sorted has the elements of S, each once, in their order.
LEMMA SortedSorts ==
  ASSUME NEW S, NEW score, NEW position, Sortable(S, score, position)
  PROVE  LET s == Sorted(S, score, position) IN
         /\ s \in Seq(S) /\ Len(s) = Cardinality(S) /\ Cardinality(S) \in Nat
         /\ IsInjective(s) /\ ToSet(s) = S
         /\ \A m, n \in DOMAIN s : m < n => Before(score, position, s[m], s[n])
<1>1. PICK rank : rank = RankIn(S, score, position)
  OBVIOUS
<1>2. PICK N \in Nat : N = Cardinality(S)
  BY RanksNumber
<1>3. /\ rank \in [S -> 1..N]
      /\ \A a, b \in S : Before(score, position, a, b) => rank[a] < rank[b]
      /\ \A a, b \in S : rank[a] = rank[b] => a = b
      /\ \A n \in 1..N : \E c \in S : rank[c] = n
  BY <1>1, <1>2, RanksNumber
<1>4. PICK s : s = Sorted(S, score, position)
  OBVIOUS
<1>5. s = [n \in 1..N |-> CHOOSE c \in S : rank[c] = n]
  BY <1>1, <1>2, <1>4 DEF Sorted
<1>6. \A n \in 1..N : s[n] \in S /\ rank[s[n]] = n
  BY <1>3, <1>5
<1>7. s \in [1..N -> S] /\ DOMAIN s = 1..N
  BY <1>5, <1>6
<1>8. s \in Seq(S) /\ Len(s) = N
  BY <1>7
<1>9. IsInjective(s)
  BY <1>6, <1>7 DEF IsInjective
<1>10. ToSet(s) = S
  <2>1. ToSet(s) \subseteq S
    BY <1>6, <1>7 DEF ToSet
  <2>2. ASSUME NEW c \in S PROVE c \in ToSet(s)
    <3>1. rank[c] \in 1..N
      BY <1>3
    <3>2. s[rank[c]] = c
      BY <1>3, <1>6, <3>1
    <3>3. QED
      BY <1>7, <3>1, <3>2 DEF ToSet
  <2>3. QED
    BY <2>1, <2>2
<1>11. ASSUME NEW m \in 1..N, NEW n \in 1..N, m < n PROVE Before(score, position, s[m], s[n])
  <2>1. s[m] \in S /\ s[n] \in S /\ rank[s[m]] = m /\ rank[s[n]] = n
    BY <1>6
  <2>2. s[m] # s[n] /\ ~Before(score, position, s[n], s[m])
    BY <1>3, <1>11, <2>1
  <2>3. QED
    BY <2>1, <2>2, BeforeOrders
<1>12. QED
  BY <1>2, <1>4, <1>7, <1>8, <1>9, <1>10, <1>11

LEMMA MinOfTwo ==
  ASSUME NEW a \in Nat, NEW b \in Nat
  PROVE  /\ Min({a, b}) \in Nat /\ Min({a, b}) <= a /\ Min({a, b}) <= b
         /\ Min({a, b}) = a \/ Min({a, b}) = b
<1>1. \E x \in {a, b} : \A y \in {a, b} : x <= y
  <2>1. a <= b \/ b <= a
    OBVIOUS
  <2>2. QED
    BY <2>1
<1>2. Min({a, b}) \in {a, b} /\ \A y \in {a, b} : Min({a, b}) <= y
  BY <1>1 DEF Min
<1>3. QED
  BY <1>2

\* result has the best of S, best first, and as many as there is room for.
IsBest(result, S, score, room) ==
    /\ result \in Seq(S) /\ IsInjective(result)
    /\ Len(result) = Min({room, Cardinality(S)})
    /\ \A m, n \in DOMAIN result : m < n => score[result[m]] >= score[result[n]]
    /\ \A n \in DOMAIN result, c \in S \ ToSet(result) : score[result[n]] >= score[c]

\* Slicing what is sorted leaves the best.
LEMMA CutIsBest ==
  ASSUME NEW given, NEW position, NEW score, NEW least, NEW k \in Nat,
         Sortable(given, score, position)
  PROVE  IsBest(Cut(given, position, score, least, k), {c \in given : score[c] >= least}, score, k)
<1>1. PICK S : S = {c \in given : score[c] >= least}
  OBVIOUS
<1>2. Sortable(S, score, position)
  <2>1. IsFiniteSet(S)
    BY <1>1, FS_Subset DEF Sortable
  <2>2. QED
    BY <1>1, <2>1 DEF Sortable
<1>3. PICK s : s = Sorted(S, score, position)
  OBVIOUS
<1>4. /\ s \in Seq(S) /\ Len(s) = Cardinality(S) /\ Cardinality(S) \in Nat
      /\ IsInjective(s) /\ ToSet(s) = S
      /\ \A m, n \in DOMAIN s : m < n => Before(score, position, s[m], s[n])
  BY <1>2, <1>3, SortedSorts
<1>5. PICK N \in Nat : N = Cardinality(S)
  BY <1>4
<1>6. PICK l \in Nat : l = Min({k, N})
  BY MinOfTwo
<1>7. l <= N
  BY <1>6, MinOfTwo
<1>8. PICK r : r = SubSeq(s, 1, l)
  OBVIOUS
<1>9. /\ r \in Seq(S) /\ Len(r) = l /\ DOMAIN r = 1..l
      /\ \A n \in 1..l : r[n] = s[n]
  <2>1. s \in Seq(S) /\ Len(s) = N
    BY <1>4, <1>5
  <2>2. /\ r \in Seq(S) /\ Len(r) = l
        /\ \A n \in 1..l : r[n] = s[n]
    BY <1>7, <1>8, <2>1
  <2>3. QED
    BY <2>2
<1>10. DOMAIN s = 1..N /\ \A n \in 1..N : s[n] \in S
  BY <1>4, <1>5
<1>11. \A m, n \in 1..N : m < n => score[s[m]] >= score[s[n]]
  <2> SUFFICES ASSUME NEW m \in 1..N, NEW n \in 1..N, m < n PROVE score[s[m]] >= score[s[n]]
    OBVIOUS
  <2>1. Before(score, position, s[m], s[n])
    BY <1>4, <1>10
  <2>2. score[s[m]] \in Int /\ score[s[n]] \in Int
    BY <1>2, <1>10 DEF Sortable
  <2>3. QED
    BY <2>1, <2>2 DEF Before
<1>12. IsInjective(r)
  BY <1>4, <1>7, <1>9, <1>10 DEF IsInjective
<1>13. \A m, n \in 1..l : m < n => score[r[m]] >= score[r[n]]
  BY <1>7, <1>9, <1>11
<1>14. ASSUME NEW n \in 1..l, NEW c \in S \ ToSet(r) PROVE score[r[n]] >= score[c]
  <2>1. PICK j \in 1..N : c = s[j]
    BY <1>4, <1>10 DEF ToSet
  <2>2. j \notin 1..l
    BY <1>9, <1>14, <2>1 DEF ToSet
  <2>3. n < j /\ n \in 1..N
    BY <1>7, <2>1, <2>2
  <2>4. QED
    BY <1>9, <1>11, <2>1, <2>3
<1>15. Cut(given, position, score, least, k) = r
  BY <1>1, <1>3, <1>4, <1>5, <1>6, <1>8 DEF Cut
<1>16. QED
  BY <1>1, <1>5, <1>6, <1>9, <1>12, <1>13, <1>14, <1>15 DEF IsBest

(***************************************************************************)
(* What the strategies rank by.                                            *)
(***************************************************************************)
\* What was embedded for finitely many capabilities, with a position of each.
Rankable(vectors, position) ==
    /\ DOMAIN vectors \subseteq Capability /\ IsFiniteSet(DOMAIN vectors)
    /\ \A c \in DOMAIN vectors : vectors[c] \in Capability \cup {None} /\ position[c] \in Int
    /\ \A a, b \in DOMAIN vectors : position[a] = position[b] => a = b

LEMMA ScoresAreNumbers ==
  ASSUME NEW vectors, NEW position, Rankable(vectors, position), NEW query \in Query
  PROVE  /\ DOMAIN Keywords(DOMAIN vectors, query) = DOMAIN vectors
         /\ DOMAIN Similarities(vectors, query) = DOMAIN vectors
         /\ \A c \in DOMAIN vectors : /\ Keywords(DOMAIN vectors, query)[c] \in Nat
                                     /\ Similarities(vectors, query)[c] \in Nat
<1>1. ASSUME NEW c \in DOMAIN vectors PROVE keywordScore(query, c) \in Nat
  <2>1. c \in Capability
    BY DEF Rankable
  <2>2. WordsShare(query, c) \in 0..100
    BY <2>1, ScoreAssumption
  <2>3. PICK w \in Nat : w = WordsShare(query, c)
    BY <2>2
  <2>4. (w * 40) \div 100 \in Nat
    OBVIOUS
  <2>5. QED
    BY <2>3, <2>4 DEF keywordScore
<1>2. ASSUME NEW c \in DOMAIN vectors, vectors[c] # None PROVE similarity(query, vectors[c]) \in Nat
  <2>1. vectors[c] \in Capability
    BY <1>2 DEF Rankable
  <2>2. similarity(query, vectors[c]) \in 0..100
    BY <2>1, ScoreAssumption
  <2>3. QED
    BY <2>2
<1>3. QED
  BY <1>1, <1>2 DEF Keywords, Similarities

\* An option that is given or its default.
LEMMA OptionsAreNumbers ==
  ASSUME NEW opts \in FilterOptions, NEW default \in Nat
  PROVE  Given(opts.top_k, default) \in Nat /\ Given(opts.threshold, default) \in Nat
BY DEF FilterOptions, Given

\* The best of all that are given to a strategy is its ranking.
LEMMA BestIsRanking ==
  ASSUME NEW result, NEW kind, NEW vectors, NEW query, NEW opts, NEW score, NEW least, NEW room,
         score = TrueScore(kind, vectors, query), least = Least(kind, opts),
         room = Room(kind, DOMAIN vectors, opts),
         IsBest(result, {c \in DOMAIN vectors : score[c] >= least}, score, room)
  PROVE  IsRanking(result, kind, vectors, query, opts) /\ result \in Seq(DOMAIN vectors)
<1>1. PICK S : S = {c \in DOMAIN vectors : score[c] >= least}
  OBVIOUS
<1>2. /\ result \in Seq(S) /\ IsInjective(result)
      /\ Len(result) = Min({room, Cardinality(S)})
      /\ \A m, n \in DOMAIN result : m < n => score[result[m]] >= score[result[n]]
      /\ \A n \in DOMAIN result, c \in S \ ToSet(result) : score[result[n]] >= score[c]
  BY <1>1 DEF IsBest
<1>3. ToSet(result) \subseteq S
  BY <1>2 DEF ToSet
<1>4. S \subseteq DOMAIN vectors
  BY <1>1
<1>5. result \in Seq(DOMAIN vectors)
  BY <1>2, <1>4
<1>6. IsRanking(result, kind, vectors, query, opts)
  BY <1>1, <1>2, <1>3 DEF IsRanking
<1>7. QED
  BY <1>5, <1>6

\* With room for all of them, all are there.
LEMMA AllKept ==
  ASSUME NEW r, NEW S, NEW score, NEW room \in Nat, IsBest(r, S, score, room),
         IsFiniteSet(S), Cardinality(S) <= room
  PROVE  ToSet(r) = S /\ Len(r) = Cardinality(S) /\ IsInjective(r) /\ r \in Seq(S)
<1>1. r \in Seq(S) /\ IsInjective(r) /\ Len(r) = Min({room, Cardinality(S)})
  BY DEF IsBest
<1>2. PICK N \in Nat : N = Cardinality(S)
  BY FS_CardinalityType
<1>3. Len(r) = N
  BY <1>1, <1>2, MinOfTwo
<1>4. r \in [1..N -> S]
  BY <1>1, <1>3
<1>5. r \in Injection(1..N, S)
  BY <1>1, <1>4 DEF Injection, IsInjective
<1>6. Cardinality(1..N) = N
  BY FS_Interval
<1>7. r \in Surjection(1..N, S)
  BY <1>2, <1>5, <1>6, FS_Injection
<1>8. ToSet(r) = S
  BY <1>4, <1>7 DEF ToSet, Surjection
<1>9. QED
  BY <1>1, <1>2, <1>3, <1>8

LEMMA IndexNumbers ==
  ASSUME NEW S, NEW r \in Seq(S)
  PROVE  /\ DOMAIN IndexIn(r) = ToSet(r)
         /\ \A c \in ToSet(r) : IndexIn(r)[c] \in 1..Len(r) /\ r[IndexIn(r)[c]] = c
<1>1. DOMAIN IndexIn(r) = ToSet(r)
  BY DEF IndexIn
<1>2. ASSUME NEW c \in ToSet(r) PROVE IndexIn(r)[c] \in DOMAIN r /\ r[IndexIn(r)[c]] = c
  <2>1. \E n \in DOMAIN r : r[n] = c
    BY <1>2 DEF ToSet
  <2>2. QED
    BY <1>2, <2>1 DEF IndexIn
<1>3. QED
  BY <1>1, <1>2

LEMMA KeywordRanks ==
  ASSUME NEW vectors, NEW position, Rankable(vectors, position), NEW query \in Query,
         NEW opts \in FilterOptions
  PROVE  IsBest(keyword(DOMAIN vectors, position, query, opts),
                {c \in DOMAIN vectors : Keywords(DOMAIN vectors, query)[c] >= Given(opts.threshold, 0) + 1},
                Keywords(DOMAIN vectors, query), Given(opts.top_k, Cardinality(DOMAIN vectors)))
<1>1. Sortable(DOMAIN vectors, Keywords(DOMAIN vectors, query), position)
  BY ScoresAreNumbers DEF Rankable, Sortable
<1>2. Cardinality(DOMAIN vectors) \in Nat
  BY FS_CardinalityType DEF Rankable
<1>3. Given(opts.top_k, Cardinality(DOMAIN vectors)) \in Nat
  BY <1>2, OptionsAreNumbers
<1>4. QED
  BY <1>1, <1>3, CutIsBest DEF keyword

LEMMA SemanticRanks ==
  ASSUME NEW vectors, NEW position, Rankable(vectors, position), NEW query \in Query,
         NEW opts \in FilterOptions
  PROVE  IsBest(semantic(vectors, position, query, opts),
                {c \in DOMAIN vectors : Similarities(vectors, query)[c] >= Given(opts.threshold, thresholdDefault)},
                Similarities(vectors, query), Given(opts.top_k, topKDefault))
<1>1. Sortable(DOMAIN vectors, Similarities(vectors, query), position)
  BY ScoresAreNumbers DEF Rankable, Sortable
<1>2. Given(opts.top_k, topKDefault) \in Nat
  BY OptionsAreNumbers, RankingAssumption
<1>3. QED
  BY <1>1, <1>2, CutIsBest DEF semantic

\* The keyword results come first, each in its order, and no two share a place.
LEMMA HybridRanks ==
  ASSUME NEW vectors, NEW position, Rankable(vectors, position), NEW query \in Query,
         NEW opts \in FilterOptions, Cardinality(DOMAIN vectors) <= topKDefault,
         NEW score, score = TrueScore("hybrid", vectors, query)
  PROVE  IsBest(hybrid(vectors, position, query, opts),
                {c \in DOMAIN vectors : score[c] >= 100 * Given(opts.threshold, 30)},
                score, Given(opts.top_k, 10))
<1>1. PICK given : given = DOMAIN vectors
  OBVIOUS
<1>2. PICK K, M : K = Keywords(given, query) /\ M = Similarities(vectors, query)
  OBVIOUS
<1>3. /\ IsFiniteSet(given) /\ Cardinality(given) \in Nat
      /\ \A c \in given : K[c] \in Nat /\ M[c] \in Nat
  BY <1>1, <1>2, ScoresAreNumbers, FS_CardinalityType DEF Rankable
<1>4. PICK r1, r2 : /\ r1 = keyword(given, position, query, Everything)
                    /\ r2 = semantic(vectors, position, query, Everything)
  OBVIOUS
<1>5. Everything \in FilterOptions
  BY DEF Everything, FilterOptions
<1>6. Everything.threshold = 0 /\ Everything.top_k = None /\ None # 0
  BY RankingAssumption DEF Everything
<1>7. /\ Given(Everything.threshold, 0) + 1 = 1
      /\ Given(Everything.threshold, thresholdDefault) = 0
      /\ Given(Everything.top_k, Cardinality(given)) = Cardinality(given)
      /\ Given(Everything.top_k, topKDefault) = topKDefault
  BY <1>6 DEF Given
<1>8. PICK kept : kept = {c \in given : K[c] >= 1}
  OBVIOUS
<1>9. IsBest(r1, kept, K, Cardinality(given))
  BY <1>1, <1>2, <1>4, <1>5, <1>7, <1>8, KeywordRanks
<1>10. given = {c \in given : M[c] >= 0}
  BY <1>3
<1>11. IsBest(r2, given, M, topKDefault)
  BY <1>1, <1>2, <1>4, <1>5, <1>7, <1>10, SemanticRanks
<1>12. kept \subseteq given /\ IsFiniteSet(kept) /\ Cardinality(kept) <= Cardinality(given)
       /\ Cardinality(kept) \in Nat
  BY <1>3, <1>8, FS_Subset, FS_CardinalityType
<1>13. ToSet(r1) = kept /\ Len(r1) = Cardinality(kept) /\ r1 \in Seq(kept)
  BY <1>3, <1>9, <1>12, AllKept
<1>14. ToSet(r2) = given /\ r2 \in Seq(given)
  BY <1>1, <1>3, <1>11, AllKept, RankingAssumption
<1>15. PICK i1, i2 : i1 = IndexIn(r1) /\ i2 = IndexIn(r2)
  OBVIOUS
<1>16. /\ DOMAIN i1 = kept /\ DOMAIN i2 = given
       /\ \A c \in kept : i1[c] \in 1..Cardinality(kept) /\ r1[i1[c]] = c
       /\ \A c \in given : i2[c] \in 1..Len(r2) /\ r2[i2[c]] = c
  BY <1>13, <1>14, <1>15, IndexNumbers
<1>17. PICK place : place = [c \in given |-> IF c \in kept THEN i1[c] ELSE Cardinality(kept) + i2[c]]
  OBVIOUS
<1>18. \A c \in given : place[c] \in Int
  BY <1>12, <1>14, <1>16, <1>17
<1>19. ASSUME NEW a \in given, NEW b \in given, place[a] = place[b] PROVE a = b
  <2>1. CASE a \in kept /\ b \in kept
    BY <1>16, <1>17, <1>19, <2>1
  <2>2. CASE a \notin kept /\ b \notin kept
    <3>1. i2[a] \in Int /\ i2[b] \in Int /\ Cardinality(kept) + i2[a] = Cardinality(kept) + i2[b]
      BY <1>16, <1>17, <1>19, <2>2
    <3>2. i2[a] = i2[b]
      BY <1>12, <3>1
    <3>3. QED
      BY <1>16, <3>2
  <2>3. ASSUME NEW c \in kept, NEW d \in given \ kept PROVE place[c] # place[d]
    <3>1. place[c] \in 1..Cardinality(kept) /\ place[d] = Cardinality(kept) + i2[d] /\ i2[d] \in 1..Len(r2)
      BY <1>12, <1>16, <1>17, <2>3
    <3>2. QED
      BY <1>12, <1>14, <3>1
  <2>4. QED
    BY <1>19, <2>1, <2>2, <2>3
<1>20. PICK combined : combined = [c \in given |-> keywordWeight * (IF c \in kept THEN K[c] ELSE 0)
                                                  + semanticWeight * (IF c \in given THEN M[c] ELSE 0)]
  OBVIOUS
<1>21. score = [c \in given |-> keywordWeight * K[c] + semanticWeight * M[c]]
  BY <1>1, <1>2 DEF TrueScore
<1>22. \A c \in given : c \notin kept => K[c] = 0
  BY <1>3, <1>8
<1>23. combined = score
  BY <1>20, <1>21, <1>22
<1>24. \A x, y \in Nat : x * y \in Nat
  OBVIOUS
<1>25. \A c \in given : score[c] \in Int
  <2> SUFFICES ASSUME NEW c \in given PROVE score[c] \in Int
    OBVIOUS
  <2>1. keywordWeight \in Nat /\ semanticWeight \in Nat
    BY RankingAssumption
  <2>2. PICK x \in Nat, y \in Nat : x = keywordWeight * K[c] /\ y = semanticWeight * M[c]
    BY <1>3, <1>24, <2>1
  <2>3. score[c] = x + y
    BY <1>21, <2>2
  <2>4. QED
    BY <2>3
<1>26. Sortable(given, score, place)
  BY <1>3, <1>18, <1>19, <1>25 DEF Sortable
<1>27. Given(opts.top_k, 10) \in Nat
  BY OptionsAreNumbers
<1>28. hybrid(vectors, position, query, opts)
         = Cut(given, place, score, 100 * Given(opts.threshold, 30), Given(opts.top_k, 10))
  <2> DEFINE inBoth == [c \in kept \cup given |-> IF c \in kept THEN i1[c] ELSE Cardinality(kept) + i2[c]]
  <2>1. inBoth = place /\ DOMAIN inBoth = given
    BY <1>12, <1>17
  <2>2. hybrid(vectors, position, query, opts)
          = Cut(DOMAIN inBoth, inBoth, combined, 100 * Given(opts.threshold, 30), Given(opts.top_k, 10))
    BY <1>1, <1>2, <1>4, <1>15, <1>16, <1>20 DEF hybrid
  <2>3. QED
    BY <1>23, <2>1, <2>2
<1>29. QED
  BY <1>1, <1>26, <1>27, <1>28, CutIsBest

\* Every strategy ranks as it is meant to.
LEMMA RankedIsRanking ==
  ASSUME NEW kind \in {"keyword", "semantic", "hybrid"}, NEW vectors, NEW position,
         Rankable(vectors, position), NEW query \in Query, NEW opts \in FilterOptions,
         kind = "hybrid" => Cardinality(DOMAIN vectors) <= topKDefault
  PROVE  /\ IsRanking(RankedBy(kind, vectors, position, query, opts), kind, vectors, query, opts)
         /\ RankedBy(kind, vectors, position, query, opts) \in Seq(DOMAIN vectors)
<1>1. PICK score, least, room, result :
         /\ score = TrueScore(kind, vectors, query) /\ least = Least(kind, opts)
         /\ room = Room(kind, DOMAIN vectors, opts)
         /\ result = RankedBy(kind, vectors, position, query, opts)
  OBVIOUS
<1>2. CASE kind = "keyword"
  <2>1. /\ score = Keywords(DOMAIN vectors, query) /\ least = Given(opts.threshold, 0) + 1
        /\ room = Given(opts.top_k, Cardinality(DOMAIN vectors))
        /\ result = keyword(DOMAIN vectors, position, query, opts)
    BY <1>1, <1>2 DEF TrueScore, Least, Room, RankedBy
  <2>2. IsBest(result, {c \in DOMAIN vectors : score[c] >= least}, score, room)
    BY <2>1, KeywordRanks
  <2>3. QED
    BY <1>1, <2>2, BestIsRanking
<1>3. CASE kind = "semantic"
  <2>1. /\ score = Similarities(vectors, query) /\ least = Given(opts.threshold, thresholdDefault)
        /\ room = Given(opts.top_k, topKDefault) /\ result = semantic(vectors, position, query, opts)
    BY <1>1, <1>3 DEF TrueScore, Least, Room, RankedBy
  <2>2. IsBest(result, {c \in DOMAIN vectors : score[c] >= least}, score, room)
    BY <2>1, SemanticRanks
  <2>3. QED
    BY <1>1, <2>2, BestIsRanking
<1>4. CASE kind = "hybrid"
  <2>1. /\ least = 100 * Given(opts.threshold, 30) /\ room = Given(opts.top_k, 10)
        /\ result = hybrid(vectors, position, query, opts)
    BY <1>1, <1>4 DEF Least, Room, RankedBy
  <2>2. IsBest(result, {c \in DOMAIN vectors : score[c] >= least}, score, room)
    BY <1>1, <1>4, <2>1, HybridRanks
  <2>3. QED
    BY <1>1, <2>2, BestIsRanking
<1>5. QED
  BY <1>2, <1>3, <1>4

(***************************************************************************)
(* The result cache.                                                       *)
(***************************************************************************)
\* An entry stored beside those of other keys, or in place of the one of its key, leaves one
\* entry per key (server.ts:246).
LEMMA StoredSound ==
  ASSUME CacheSound, NEW e, EntrySound(e)
  PROVE  /\ IsSequence(Stored(e)) /\ KeysApart(Stored(e))
         /\ Len(Stored(e)) <= FilterCacheMax + 1
         /\ \A i \in DOMAIN Stored(e) : \/ Stored(e)[i] = e
                                        \/ \E j \in DOMAIN filterCache : Stored(e)[i] = filterCache[j]
<1> DEFINE S == ToSet(filterCache) \cup {e}
<1>1. /\ filterCache \in Seq(S) /\ DOMAIN filterCache = 1..Len(filterCache)
      /\ Len(filterCache) \in Nat
  <2>1. filterCache \in Seq(ToSet(filterCache))
    BY DEF CacheSound, IsSequence
  <2>2. QED
    BY <2>1
<1>2. FilterCacheMax \in Nat
  BY FilterAssumption
<1>3. CASE EntryAt(e.key) = {}
  <2>1. Stored(e) = Append(filterCache, e)
    BY <1>3 DEF Stored
  <2>2. Append(filterCache, e) \in Seq(S) /\ Len(Append(filterCache, e)) = Len(filterCache) + 1
    BY <1>1
  <2>3. \A i \in DOMAIN filterCache : filterCache[i].key # e.key
    BY <1>3 DEF EntryAt
  <2>4. \A i \in 1..(Len(filterCache) + 1) :
          Append(filterCache, e)[i] = IF i = Len(filterCache) + 1 THEN e ELSE filterCache[i]
    BY <1>1
  <2>5. DOMAIN Append(filterCache, e) = 1..(Len(filterCache) + 1)
    BY <1>1
  <2>6. KeysApart(Append(filterCache, e))
    BY <1>1, <2>3, <2>4, <2>5 DEF KeysApart, CacheSound
  <2>7. \A i \in DOMAIN Append(filterCache, e) :
          \/ Append(filterCache, e)[i] = e
          \/ \E j \in DOMAIN filterCache : Append(filterCache, e)[i] = filterCache[j]
    BY <1>1, <2>4, <2>5
  <2>8. IsSequence(Append(filterCache, e))
    BY <2>2, OverItsElements
  <2>9. QED
    BY <1>1, <1>2, <2>1, <2>2, <2>6, <2>7, <2>8 DEF CacheSound
<1>4. CASE EntryAt(e.key) # {}
  <2> DEFINE T == [i \in DOMAIN filterCache |->
                      IF filterCache[i].key = e.key THEN e ELSE filterCache[i]]
  <2>1. Stored(e) = T
    BY <1>4 DEF Stored
  <2>2. \A i \in DOMAIN filterCache : filterCache[i] \in S
    BY <1>1
  <2>3. T \in Seq(S) /\ Len(T) = Len(filterCache) /\ DOMAIN T = DOMAIN filterCache
    BY <1>1, <2>2
  <2>4. \A i \in DOMAIN filterCache : T[i].key = filterCache[i].key
    OBVIOUS
  <2>5. KeysApart(T)
    BY <2>3, <2>4 DEF KeysApart, CacheSound
  <2>6. IsSequence(T)
    BY <2>3, OverItsElements
  <2>7. QED
    BY <1>1, <1>2, <2>1, <2>3, <2>5, <2>6 DEF CacheSound
<1>5. QED
  BY <1>3, <1>4

\* The first entry goes when there is one too many (server.ts:249).
LEMMA LimitedSound ==
  ASSUME NEW cache, IsSequence(cache), KeysApart(cache), Len(cache) <= FilterCacheMax + 1
  PROVE  /\ IsSequence(Limited(cache)) /\ KeysApart(Limited(cache))
         /\ Len(Limited(cache)) <= FilterCacheMax
         /\ \A i \in DOMAIN Limited(cache) : \E j \in DOMAIN cache : Limited(cache)[i] = cache[j]
<1>1. cache \in Seq(ToSet(cache)) /\ DOMAIN cache = 1..Len(cache) /\ Len(cache) \in Nat
  BY DEF IsSequence
<1>2. FilterCacheMax \in Nat
  BY FilterAssumption
<1>3. CASE Len(cache) > FilterCacheMax
  <2>1. Limited(cache) = Tail(cache)
    BY <1>3 DEF Limited
  <2>2. cache # <<>>
    BY <1>1, <1>2, <1>3
  <2>3. /\ Tail(cache) \in Seq(ToSet(cache)) /\ Len(Tail(cache)) = Len(cache) - 1
        /\ \A i \in 1..(Len(cache) - 1) : Tail(cache)[i] = cache[i + 1]
    BY <1>1, <2>2
  <2>4. DOMAIN Tail(cache) = 1..(Len(cache) - 1)
    BY <2>3
  <2>5. KeysApart(Tail(cache))
    <3> SUFFICES ASSUME NEW i \in 1..(Len(cache) - 1), NEW j \in 1..(Len(cache) - 1),
                        Tail(cache)[i].key = Tail(cache)[j].key
                 PROVE  i = j
      BY <2>4 DEF KeysApart
    <3>1. cache[i + 1].key = cache[j + 1].key /\ i + 1 \in DOMAIN cache /\ j + 1 \in DOMAIN cache
      BY <1>1, <2>3
    <3>2. i + 1 = j + 1
      BY <3>1 DEF KeysApart
    <3>3. QED
      BY <3>2
  <2>6. IsSequence(Tail(cache))
    BY <2>3, OverItsElements
  <2>7. \A i \in DOMAIN Tail(cache) : i + 1 \in DOMAIN cache /\ Tail(cache)[i] = cache[i + 1]
    BY <1>1, <2>3, <2>4
  <2>8. Len(Tail(cache)) <= FilterCacheMax
    BY <1>1, <1>2, <2>3
  <2>9. QED
    BY <2>1, <2>5, <2>6, <2>7, <2>8
<1>4. CASE ~(Len(cache) > FilterCacheMax)
  <2>1. Limited(cache) = cache
    BY <1>4 DEF Limited
  <2>2. QED
    BY <1>1, <1>2, <1>4, <2>1
<1>5. QED
  BY <1>3, <1>4

\* An entry that has aged with what it was made of is as old as it still.
LEMMA AgedSound ==
  ASSUME NEW e, EntrySound(e)
  PROVE  /\ EntrySound(Aged(e)) /\ Aged(e).key = e.key /\ Aged(e).caps = e.caps
         /\ Aged(e).from.vectors = e.from.vectors
<1> DEFINE B == [vectors: {e.from.vectors}, age: Age]
<1> DEFINE from == AgedBasis(e.from)
<1>1. Older(e.ts) \in Age
  BY OlderIsAge DEF EntrySound
<1>2. from \in [vectors: {e.from.vectors}, age: {Older(e.ts)}]
  BY DEF EntrySound, AgedBasis
<1>3. Aged(e) = [e EXCEPT !.ts = Older(e.ts), !.from = from]
  BY DEF Aged
<1> HIDE DEF from
<1>4. e \in [key: {e.key}, ts: Age, caps: {e.caps}, from: {e.from}]
  BY DEF EntrySound
<1>5. /\ Aged(e) \in [key: {e.key}, ts: Age, caps: {e.caps}, from: {from}]
      /\ Aged(e).ts = Older(e.ts) /\ Aged(e).caps = e.caps
  BY <1>1, <1>3, <1>4
<1>6. QED
  BY <1>1, <1>2, <1>5 DEF EntrySound

\* A fresh entry is the only one of its key (server.ts:216-218).
LEMMA TheEntryIsFresh ==
  ASSUME CacheSound, NEW key, Cached(key)
  PROVE  \E i \in DOMAIN filterCache : /\ filterCache[CHOOSE j \in EntryAt(key) : TRUE] = filterCache[i]
                                       /\ filterCache[i].ts < FilterCacheTtl
                                       /\ filterCache[i].key = key
<1>1. PICK i \in EntryAt(key) : filterCache[i].ts < FilterCacheTtl
  BY DEF Cached
<1>2. \A j \in EntryAt(key) : j = i
  BY <1>1 DEF EntryAt, CacheSound, KeysApart
<1>3. (CHOOSE j \in EntryAt(key) : TRUE) = i
  BY <1>1, <1>2
<1>4. QED
  BY <1>1, <1>3 DEF EntryAt

(***************************************************************************)
(* The steps.                                                              *)
(***************************************************************************)
\* A step that answers nobody cannot answer wrongly.
LEMMA SilentStep ==
  ASSUME answered' = NoAnswer
  PROVE  HitsAreYoung' /\ ScoredByEmbedding'
BY DEF NoAnswer, HitsAreYoung, ScoredByEmbedding

\* What is given to the strategy is registered.
LEMMA GivenAreCapabilities ==
  ASSUME StateTyped
  PROVE  ToSet(registry) \subseteq Capability /\ \A req : filter(req) \subseteq Capability
<1>1. \A i \in DOMAIN registry : registry[i] \in Capability
  BY DEF StateTyped
<1>2. QED
  BY <1>1 DEF ToSet, filter

LEMMA InitSound ==
  ASSUME Init
  PROVE  Sound
<1>1. StateTyped
  BY DEF Init, StateTyped
<1>2. \A p \in Call : CallSound(calls[p]) /\ CallCovered(calls[p])
  BY DEF Init, CallSound, CallCovered
<1>3. DOMAIN filterCache = {} /\ Len(filterCache) = 0 /\ filterCache \in Seq(ToSet(filterCache))
  BY DEF Init
<1>4. CacheSound /\ CacheEmbeds
  BY <1>3, FilterAssumption DEF CacheSound, CacheEmbeds, KeysApart, IsSequence
<1>5. HitsAreYoung /\ ScoredByEmbedding
  BY DEF Init, NoAnswer, HitsAreYoung, ScoredByEmbedding
<1>6. QED
  BY <1>1, <1>2, <1>4, <1>5 DEF Sound

LEMMA RegisterKeeps ==
  ASSUME Sound, NEW c \in Capability, register(c)
  PROVE  Sound'
<1>1. registry' \in Seq(Capability)
  <2>1. registry \in Seq(Capability)
    BY DEF Sound, StateTyped
  <2>2. CASE \E i \in DOMAIN registry : registry[i].id = c.id
    <3> DEFINE next == [i \in DOMAIN registry |-> IF registry[i].id = c.id THEN c ELSE registry[i]]
    <3>1. next \in [1..Len(registry) -> Capability]
      BY <2>1
    <3>2. next \in Seq(Capability)
      BY <2>1, <3>1
    <3>3. QED
      BY <2>2, <3>2 DEF register
  <2>3. CASE ~ \E i \in DOMAIN registry : registry[i].id = c.id
    BY <2>1, <2>3 DEF register
  <2>4. QED
    BY <2>2, <2>3
<1>2. UNCHANGED <<strategy, embeddings, filterCache, calls>>
  BY DEF register
<1>3. StateTyped'
  BY <1>1, <1>2 DEF Sound, StateTyped
<1>4. HitsAreYoung' /\ ScoredByEmbedding'
  BY SilentStep DEF register
<1>5. (\A p \in Call : CallSound(calls[p]) /\ CallCovered(calls[p]))'
  BY <1>2 DEF Sound, CallSound, CallCovered
<1>6. CacheSound' /\ CacheEmbeds'
  BY <1>2 DEF Sound, CacheSound, CacheEmbeds
<1>7. QED
  BY <1>3, <1>4, <1>5, <1>6 DEF Sound

LEMMA DiscoverHitKeeps ==
  ASSUME Sound, NEW req \in Request, DiscoverHit(req)
  PROVE  Sound'
<1> DEFINE e == filterCache[CHOOSE i \in EntryAt(cacheKey(req)) : TRUE]
<1>1. PICK i \in DOMAIN filterCache : e = filterCache[i] /\ filterCache[i].ts < FilterCacheTtl
  BY TheEntryIsFresh DEF DiscoverHit, Sound
<1>2. e.from.age < FilterCacheTtl
  BY <1>1 DEF Sound, CacheSound, EntrySound
<1>3. strategy # "keyword" => Embeds(e.from.vectors)
  BY <1>1 DEF Sound, CacheEmbeds
<1>4. answered'.kind = "hit" /\ answered'.from = e.from
  BY DEF DiscoverHit
<1>5. UNCHANGED <<strategy, registry, embeddings, filterCache, calls>>
  BY DEF DiscoverHit
<1> HIDE DEF e
<1>6. HitsAreYoung' /\ ScoredByEmbedding'
  BY <1>2, <1>3, <1>4, <1>5 DEF HitsAreYoung, ScoredByEmbedding, Embeds
<1>7. StateTyped'
  BY <1>5 DEF Sound, StateTyped
<1>8. (\A p \in Call : CallSound(calls[p]) /\ CallCovered(calls[p]))'
  BY <1>5 DEF Sound, CallSound, CallCovered
<1>9. CacheSound' /\ CacheEmbeds'
  BY <1>5 DEF Sound, CacheSound, CacheEmbeds
<1>10. QED
  BY <1>6, <1>7, <1>8, <1>9 DEF Sound

\* The call that starts awaits what has no embedding (semantic-strategy.ts:42-43).
LEMMA RankKeeps ==
  ASSUME Sound, NEW p \in Call, NEW kind \in {"discover", "delegate"}, NEW req \in Requests,
         NEW given \in SUBSET Capability, Rank(p, kind, req, given)
  PROVE  Sound'
<1> DEFINE missing == IF strategy = "keyword" THEN {} ELSE ToEmbed(given)
<1> DEFINE call == [step |-> IF missing = {} THEN "query" ELSE "embed", kind |-> kind,
                    req |-> req, given |-> given, missing |-> missing, age |-> 0]
<1>1. calls' = [calls EXCEPT ![p] = call]
  BY DEF Rank
<1>2. missing \subseteq given /\ missing \subseteq Capability
  BY DEF ToEmbed
<1>3. call \in Calls
  BY <1>2, ZeroIsAge DEF Calls
<1>4. CallSound(call)
  BY <1>2 DEF CallSound
<1>5. CallCovered(call)
  BY DEF CallCovered, ToEmbed
<1> HIDE DEF call
<1>6. UNCHANGED <<strategy, registry, embeddings, filterCache>> /\ answered' = NoAnswer
  BY DEF Rank
<1>7. StateTyped'
  BY <1>1, <1>3, <1>6 DEF Sound, StateTyped
<1>8. \A q \in Call : calls'[q] = IF q = p THEN call ELSE calls[q]
  BY <1>1 DEF Sound, StateTyped
<1>9. (\A q \in Call : CallSound(calls[q]) /\ CallCovered(calls[q]))'
  BY <1>4, <1>5, <1>6, <1>8 DEF Sound, CallSound, CallCovered
<1>10. CacheSound' /\ CacheEmbeds'
  BY <1>6 DEF Sound, CacheSound, CacheEmbeds
<1>11. QED
  BY <1>6, <1>7, <1>9, <1>10, SilentStep DEF Sound

\* Embeddings come for those that lacked one and none is lost (semantic-strategy.ts:46-51).
LEMMA EmbeddedKeeps ==
  ASSUME Sound, NEW p \in Call, Embedded(p)
  PROVE  Sound'
<1> DEFINE vector(id) == IF \E c \in calls[p].missing : c.id = id
                         THEN CHOOSE c \in calls[p].missing : c.id = id ELSE embeddings[id]
<1> DEFINE next == [calls[p] EXCEPT !.step = "query", !.missing = {}]
<1>1. calls[p] \in Calls /\ calls[p] # NoCall
  BY StepOfACall, CallsAreNot DEF Sound, StateTyped, Embedded
<1>2. embeddings' = [id \in Id |-> vector(id)] /\ calls' = [calls EXCEPT ![p] = next]
  BY DEF Embedded
<1>3. \A id \in Id : /\ vector(id) \in Capability \cup {None}
                     /\ embeddings[id] # None => vector(id) # None
                     /\ (\E c \in calls[p].missing : c.id = id) => vector(id) # None
  <2> SUFFICES ASSUME NEW id \in Id
               PROVE  /\ vector(id) \in Capability \cup {None}
                      /\ embeddings[id] # None => vector(id) # None
                      /\ (\E c \in calls[p].missing : c.id = id) => vector(id) # None
    OBVIOUS
  <2>1. calls[p].missing \subseteq Capability /\ None \notin Capability
    BY <1>1, FilterAssumption DEF Calls
  <2>2. CASE \E c \in calls[p].missing : c.id = id
    BY <2>1, <2>2
  <2>3. CASE ~ \E c \in calls[p].missing : c.id = id
    BY <2>3 DEF Sound, StateTyped
  <2>4. QED
    BY <2>2, <2>3
<1>4. next \in Calls /\ next.given = calls[p].given /\ next.missing = {} /\ next.step = "query"
  BY <1>1 DEF Calls
<1> HIDE DEF next, vector
<1>5. UNCHANGED <<strategy, registry, filterCache>> /\ answered' = NoAnswer
  BY DEF Embedded
<1>6. \A id \in Id : embeddings'[id] = vector(id)
  BY <1>2
<1>7. \A q \in Call : calls'[q] = IF q = p THEN next ELSE calls[q]
  BY <1>2 DEF Sound, StateTyped
<1>8. StateTyped'
  BY <1>2, <1>3, <1>4, <1>5 DEF Sound, StateTyped
<1>9. ASSUME NEW q \in Call PROVE CallSound(calls'[q]) /\ CallCovered(calls[q])'
  <2>1. calls[q] # NoCall => calls[q] \in Calls
    BY DEF Sound, StateTyped
  <2>2. \A c \in Capability : c.id \in Id
    BY DEF Id
  <2>3. CallSound(calls[q]) /\ CallCovered(calls[q]) /\ CallCovered(calls[p])
    BY DEF Sound
  <2>4. CASE q = p
    <3>1. calls'[q] = next
      BY <1>7, <2>4
    <3>2. CallSound(next)
      BY <1>4 DEF CallSound
    <3>3. strategy # "keyword" => \A c \in next.given : embeddings'[c.id] # None
      <4> SUFFICES ASSUME strategy # "keyword", NEW c \in next.given PROVE embeddings'[c.id] # None
        OBVIOUS
      <4>1. c \in Capability /\ c \in calls[p].given
        BY <1>1, <1>4 DEF Calls
      <4>2. c \in calls[p].missing \/ embeddings[c.id] # None
        BY <1>1, <2>3, <4>1 DEF CallCovered
      <4>3. QED
        BY <1>3, <1>6, <2>2, <4>1, <4>2
    <3>4. QED
      BY <1>5, <3>1, <3>2, <3>3 DEF CallCovered
  <2>5. CASE q # p
    <3>1. calls'[q] = calls[q]
      BY <1>7, <2>5
    <3>2. ASSUME calls[q] # NoCall, strategy # "keyword", NEW c \in calls[q].given
          PROVE  c \in calls[q].missing \/ embeddings'[c.id] # None
      <4>1. c \in Capability
        BY <2>1, <3>2 DEF Calls
      <4>2. c \in calls[q].missing \/ embeddings[c.id] # None
        BY <2>3, <3>2 DEF CallCovered
      <4>3. QED
        BY <1>3, <1>6, <2>2, <4>1, <4>2
    <3>3. QED
      BY <1>5, <2>3, <3>1, <3>2 DEF CallCovered
  <2>6. QED
    BY <2>4, <2>5
<1>10. CacheSound' /\ CacheEmbeds'
  BY <1>5 DEF Sound, CacheSound, CacheEmbeds
<1>11. QED
  BY <1>5, <1>8, <1>9, <1>10, SilentStep DEF Sound

\* What a call is answered with was embedded, and is no hit.
LEMMA AnswerKeeps ==
  ASSUME Sound, NEW p \in Call, Answer(p)
  PROVE  /\ StateTyped' /\ HitsAreYoung' /\ ScoredByEmbedding'
         /\ \A q \in Call : (CallSound(calls[q]) /\ CallCovered(calls[q]))'
         /\ strategy # "keyword" => Embeds(Basis(calls[p]).vectors)
         /\ UNCHANGED strategy /\ calls[p] \in Calls
<1>1. calls[p] \in Calls /\ calls[p] # NoCall
  BY StepOfACall, CallsAreNot DEF Sound, StateTyped, Answer
<1>2. calls' = [calls EXCEPT ![p] = NoCall] /\ UNCHANGED <<strategy, registry, embeddings>>
  BY DEF Answer
<1>3. strategy # "keyword" => Embeds(Basis(calls[p]).vectors)
  <2>1. calls[p].missing = {}
    BY <1>1 DEF Sound, CallSound, Answer
  <2>2. strategy # "keyword" => \A c \in calls[p].given : embeddings[c.id] # None
    BY <1>1, <2>1 DEF Sound, CallCovered
  <2>3. Basis(calls[p]).vectors = [c \in calls[p].given |-> embeddings[c.id]]
    BY DEF Basis
  <2>4. QED
    BY <2>2, <2>3 DEF Embeds
<1>4. answered'.kind \in {"discover", "delegate"} /\ answered'.from = Basis(calls[p])
  BY <1>1 DEF Answer, Calls
<1>5. HitsAreYoung' /\ ScoredByEmbedding'
  BY <1>2, <1>3, <1>4 DEF HitsAreYoung, ScoredByEmbedding, Embeds
<1>6. StateTyped'
  BY <1>2 DEF Sound, StateTyped
<1>7. \A q \in Call : calls'[q] = IF q = p THEN NoCall ELSE calls[q]
  BY <1>2 DEF Sound, StateTyped
<1>8. \A q \in Call : (CallSound(calls[q]) /\ CallCovered(calls[q]))'
  BY <1>2, <1>7 DEF Sound, CallSound, CallCovered
<1>9. QED
  BY <1>1, <1>2, <1>3, <1>5, <1>6, <1>8

\* A ranking is kept as old as the capabilities it was made of (server.ts:218,246).
LEMMA DiscoveredKeeps ==
  ASSUME Sound, NEW p \in Call, Discovered(p)
  PROVE  Sound'
<1> DEFINE basis == Basis(calls[p])
<1> DEFINE ids == [n \in DOMAIN Ranking(calls[p]) |-> Ranking(calls[p])[n].id]
<1> DEFINE e == [key |-> cacheKey(calls[p].req), ts |-> calls[p].age, caps |-> ids, from |-> basis]
<1>1. filterCache' = Limited(Stored(e)) /\ Answer(p)
  BY DEF Discovered, Keep
<1>2. /\ StateTyped' /\ HitsAreYoung' /\ ScoredByEmbedding'
      /\ \A q \in Call : (CallSound(calls[q]) /\ CallCovered(calls[q]))'
      /\ strategy # "keyword" => Embeds(Basis(calls[p]).vectors)
      /\ UNCHANGED strategy /\ calls[p] \in Calls
  BY <1>1, AnswerKeeps
<1>3. basis \in [vectors: {basis.vectors}, age: {calls[p].age}] /\ calls[p].age \in Age
  BY <1>2 DEF Basis, Calls
<1>4. strategy # "keyword" => Embeds(basis.vectors)
  BY <1>2
<1> HIDE DEF basis, ids
<1>5. EntrySound(e) /\ e.from = basis
  BY <1>3 DEF EntrySound
<1> HIDE DEF e
<1>6. CacheSound /\ CacheEmbeds
  BY DEF Sound
<1>7. /\ IsSequence(Stored(e)) /\ KeysApart(Stored(e))
      /\ Len(Stored(e)) <= FilterCacheMax + 1
      /\ \A i \in DOMAIN Stored(e) : \/ Stored(e)[i] = e
                                     \/ \E j \in DOMAIN filterCache : Stored(e)[i] = filterCache[j]
  BY <1>5, <1>6, StoredSound
<1> DEFINE cache == Stored(e)
<1> HIDE DEF cache
<1>8. /\ IsSequence(Limited(cache)) /\ KeysApart(Limited(cache))
      /\ Len(Limited(cache)) <= FilterCacheMax
      /\ \A i \in DOMAIN Limited(cache) : \E j \in DOMAIN cache : Limited(cache)[i] = cache[j]
  BY <1>7, LimitedSound DEF cache
<1>9. \A i \in DOMAIN filterCache' :
         \/ filterCache'[i] = e \/ \E j \in DOMAIN filterCache : filterCache'[i] = filterCache[j]
  BY <1>1, <1>7, <1>8 DEF cache
<1>10. \A i \in DOMAIN filterCache' :
          /\ EntrySound(filterCache'[i])
          /\ strategy # "keyword" => Embeds(filterCache'[i].from.vectors)
  BY <1>4, <1>5, <1>6, <1>9 DEF CacheSound, CacheEmbeds
<1>11. filterCache' = Limited(cache)
  BY <1>1 DEF cache
<1>12. CacheSound' /\ CacheEmbeds'
  BY <1>2, <1>8, <1>10, <1>11 DEF CacheSound, CacheEmbeds
<1>13. QED
  BY <1>2, <1>12 DEF Sound

LEMMA DelegateMatchedKeeps ==
  ASSUME Sound, NEW p \in Call, DelegateMatched(p)
  PROVE  Sound'
<1>1. Answer(p) /\ UNCHANGED filterCache
  BY DEF DelegateMatched
<1>2. CacheSound' /\ CacheEmbeds'
  BY <1>1, AnswerKeeps DEF Sound, CacheSound, CacheEmbeds
<1>3. QED
  BY <1>1, <1>2, AnswerKeeps DEF Sound

LEMMA EmbedFailsKeeps ==
  ASSUME Sound, NEW p \in Call, EmbedFails(p)
  PROVE  Sound'
<1>1. /\ calls' = [calls EXCEPT ![p] = NoCall] /\ answered' = NoAnswer
      /\ UNCHANGED <<strategy, registry, embeddings, filterCache>>
  BY DEF EmbedFails
<1>2. StateTyped'
  BY <1>1 DEF Sound, StateTyped
<1>3. \A q \in Call : calls'[q] = IF q = p THEN NoCall ELSE calls[q]
  BY <1>1 DEF Sound, StateTyped
<1>4. (\A q \in Call : CallSound(calls[q]) /\ CallCovered(calls[q]))'
  BY <1>1, <1>3 DEF Sound, CallSound, CallCovered
<1>5. CacheSound' /\ CacheEmbeds'
  BY <1>1 DEF Sound, CacheSound, CacheEmbeds
<1>6. QED
  BY <1>1, <1>2, <1>4, <1>5, SilentStep DEF Sound

\* Entries and calls grow older together.
LEMMA TickKeeps ==
  ASSUME Sound, Tick
  PROVE  Sound'
<1>1. /\ filterCache' = [i \in DOMAIN filterCache |-> Aged(filterCache[i])]
      /\ calls' = [p \in Call |-> IF calls[p] = NoCall THEN NoCall
                                  ELSE [calls[p] EXCEPT !.age = Older(@)]]
      /\ answered' = NoAnswer /\ UNCHANGED <<strategy, registry, embeddings>>
  BY DEF Tick
<1>2. ASSUME NEW p \in Call, calls[p] # NoCall
      PROVE  LET call == [calls[p] EXCEPT !.age = Older(@)]
             IN  /\ call \in Calls /\ call # NoCall /\ call.step = calls[p].step
                 /\ call.given = calls[p].given /\ call.missing = calls[p].missing
  <2> DEFINE call == [calls[p] EXCEPT !.age = Older(@)]
  <2>1. calls[p] \in Calls
    BY <1>2 DEF Sound, StateTyped
  <2>2. Older(calls[p].age) \in Age
    BY <2>1, OlderIsAge DEF Calls
  <2>3. /\ call \in Calls /\ call.step = calls[p].step
        /\ call.given = calls[p].given /\ call.missing = calls[p].missing
    BY <2>1, <2>2 DEF Calls
  <2>4. QED
    BY <2>3, CallsAreNot
<1>3. \A p \in Call : \/ calls[p] = NoCall /\ calls'[p] = NoCall
                      \/ /\ calls[p] # NoCall /\ calls'[p] \in Calls
                         /\ calls'[p].step = calls[p].step
                         /\ calls'[p].given = calls[p].given
                         /\ calls'[p].missing = calls[p].missing
  BY <1>1, <1>2
<1>4. StateTyped'
  <2>1. calls' \in [Call -> Calls \cup {NoCall}]
    BY <1>1, <1>3
  <2>2. QED
    BY <1>1, <2>1 DEF Sound, StateTyped
<1>5. (\A p \in Call : CallSound(calls[p]) /\ CallCovered(calls[p]))'
  BY <1>1, <1>3 DEF Sound, CallSound, CallCovered
<1>6. filterCache \in Seq(ToSet(filterCache)) /\ CacheSound /\ CacheEmbeds
  BY DEF Sound, CacheSound, IsSequence
<1>7. DOMAIN filterCache' = DOMAIN filterCache
  BY <1>1
<1>8. \A i \in DOMAIN filterCache :
         /\ EntrySound(filterCache'[i]) /\ filterCache'[i].key = filterCache[i].key
         /\ filterCache'[i].from.vectors = filterCache[i].from.vectors
  BY <1>1, <1>6, AgedSound DEF CacheSound
<1>9. filterCache' \in Seq({filterCache'[i] : i \in DOMAIN filterCache})
      /\ Len(filterCache') = Len(filterCache)
  <2> DEFINE aged == [i \in DOMAIN filterCache |-> Aged(filterCache[i])]
  <2>1. DOMAIN filterCache = 1..Len(filterCache) /\ Len(filterCache) \in Nat
    BY <1>6
  <2>2. aged \in [1..Len(filterCache) -> {aged[i] : i \in DOMAIN filterCache}]
    BY <2>1
  <2>3. aged \in Seq({aged[i] : i \in DOMAIN filterCache}) /\ Len(aged) = Len(filterCache)
    BY <2>1, <2>2
  <2>4. QED
    BY <1>1, <2>3
<1>10. CacheSound' /\ CacheEmbeds'
  <2>1. IsSequence(filterCache')
    BY <1>9, OverItsElements
  <2>2. KeysApart(filterCache')
    BY <1>6, <1>7, <1>8 DEF KeysApart, CacheSound
  <2>3. QED
    BY <1>1, <1>6, <1>7, <1>8, <1>9, <2>1, <2>2 DEF CacheSound, CacheEmbeds
<1>11. QED
  BY <1>1, <1>4, <1>5, <1>10, SilentStep DEF Sound

(***************************************************************************)
(* Best first.                                                             *)
(***************************************************************************)
IdsApart(given) == \A a, b \in given : a.id = b.id => a = b

RegistryApart == \A i, j \in DOMAIN registry : registry[i].id = registry[j].id => i = j

\* Capabilities that were registered together, and whose ids still are.
GivenTogether(given) ==
    /\ IsFiniteSet(given) /\ IdsApart(given)
    /\ \A c \in given : \E i \in DOMAIN registry : registry[i].id = c.id

\* What is kept are the ids of a ranking of what it was made of, for the query and the
\* options of its key.
EntryRanked(e) ==
    /\ IsFiniteSet(DOMAIN e.from.vectors) /\ IdsApart(DOMAIN e.from.vectors)
    /\ (strategy = "hybrid" => Cardinality(DOMAIN e.from.vectors) <= topKDefault) =>
          \E r \in Seq(DOMAIN e.from.vectors) :
             /\ e.caps = [n \in DOMAIN r |-> r[n].id]
             /\ IsRanking(r, strategy, e.from.vectors, e.key[1], e.key[2])

Ranked ==
    /\ RegistryApart
    /\ \A p \in Call : calls[p] # NoCall => GivenTogether(calls[p].given)
    /\ \A i \in DOMAIN filterCache : EntryRanked(filterCache[i])
    /\ BestFirst

LEMMA SilentIsBest ==
  ASSUME answered' = NoAnswer
  PROVE  BestFirst'
BY DEF NoAnswer, BestFirst

\* What is registered is a set of capabilities, each with an id of its own.
LEMMA RegisteredTogether ==
  ASSUME StateTyped, RegistryApart, NEW given \in SUBSET ToSet(registry)
  PROVE  GivenTogether(given)
<1>1. PICK N \in Nat : N = Len(registry) /\ DOMAIN registry = 1..N
  BY DEF StateTyped
<1>2. IsFiniteSet(ToSet(registry))
  <2>1. IsFiniteSet(1..N)
    BY FS_Interval
  <2>2. PICK f : f = [i \in 1..N |-> registry[i]]
    OBVIOUS
  <2>3. f \in Surjection(1..N, ToSet(registry))
    BY <1>1, <2>2 DEF Surjection, ToSet
  <2>4. QED
    BY <2>1, <2>3, FS_Surjection
<1>3. IsFiniteSet(given)
  BY <1>2, FS_Subset
<1>4. \A c \in given : \E i \in DOMAIN registry : registry[i] = c
  BY DEF ToSet
<1>5. IdsApart(given)
  BY <1>4 DEF IdsApart, RegistryApart
<1>6. QED
  BY <1>3, <1>4, <1>5 DEF GivenTogether

\* A place in the Map tells capabilities registered together apart.
LEMMA PositionsTell ==
  ASSUME StateTyped, NEW given \in SUBSET Capability, GivenTogether(given),
         NEW vectors, vectors = [c \in given |-> embeddings[c.id]]
  PROVE  Rankable(vectors, Position)
<1>1. ASSUME NEW c \in given
      PROVE  Position[c] \in DOMAIN registry /\ registry[Position[c]].id = c.id
  <2>1. \E i \in DOMAIN registry : registry[i].id = c.id
    BY DEF GivenTogether
  <2>2. Position[c] = CHOOSE i \in DOMAIN registry : registry[i].id = c.id
    BY DEF Position
  <2>3. QED
    BY <2>1, <2>2
<1>2. DOMAIN registry = 1..Len(registry) /\ Len(registry) \in Nat
  BY DEF StateTyped
<1>3. \A c \in given : Position[c] \in Int
  BY <1>1, <1>2
<1>4. \A a, b \in given : Position[a] = Position[b] => a = b
  BY <1>1 DEF GivenTogether, IdsApart
<1>5. \A c \in given : vectors[c] \in Capability \cup {None}
  BY DEF StateTyped, Id
<1>6. QED
  BY <1>3, <1>4, <1>5 DEF Rankable, GivenTogether

\* What is asked for are queries with options.
LEMMA RequestsAsk ==
  ASSUME NEW req \in Requests
  PROVE  req.query \in Query /\ req.opts \in FilterOptions
<1>1. CASE req \in Request
  BY <1>1, FilterAssumption
<1>2. ASSUME NEW task \in Task, req = Delegated(task) PROVE req.query \in Query /\ req.opts \in FilterOptions
  <2>1. req.query = task /\ req.opts = [top_k |-> 1, threshold |-> 10]
    BY <1>2 DEF Delegated
  <2>2. [top_k |-> 1, threshold |-> 10] \in FilterOptions
    BY DEF FilterOptions
  <2>3. QED
    BY <2>1, <2>2, FilterAssumption
<1>3. QED
  BY <1>1, <1>2 DEF Requests

\* A call is answered with a ranking of what it was given.
LEMMA CallIsRanked ==
  ASSUME Sound, Ranked, NEW p \in Call, calls[p] # NoCall,
         strategy = "hybrid" => Cardinality(DOMAIN Basis(calls[p]).vectors) <= topKDefault
  PROVE  /\ Ranking(calls[p]) \in Seq(DOMAIN Basis(calls[p]).vectors)
         /\ IsRanking(Ranking(calls[p]), strategy, Basis(calls[p]).vectors,
                      calls[p].req.query, calls[p].req.opts)
<1>1. calls[p] \in Calls
  BY DEF Sound, StateTyped
<1>2. calls[p].given \in SUBSET Capability /\ calls[p].req \in Requests
  BY <1>1 DEF Calls
<1>3. PICK vectors : vectors = [c \in calls[p].given |-> embeddings[c.id]]
  OBVIOUS
<1>4. Basis(calls[p]).vectors = vectors
  BY <1>3 DEF Basis
<1>5. Rankable(vectors, Position)
  BY <1>2, <1>3, PositionsTell DEF Sound, Ranked
<1>6. strategy \in {"keyword", "semantic", "hybrid"}
  BY FilterAssumption DEF Sound, StateTyped
<1>7. calls[p].req.query \in Query /\ calls[p].req.opts \in FilterOptions
  BY <1>2, RequestsAsk
<1>8. PICK kind, query, opts : kind = strategy /\ query = calls[p].req.query /\ opts = calls[p].req.opts
  OBVIOUS
<1>9. /\ IsRanking(RankedBy(kind, vectors, Position, query, opts), kind, vectors, query, opts)
      /\ RankedBy(kind, vectors, Position, query, opts) \in Seq(DOMAIN vectors)
  BY <1>4, <1>5, <1>6, <1>7, <1>8, RankedIsRanking
<1>10. Ranking(calls[p]) = RankedBy(kind, vectors, Position, query, opts)
  BY <1>4, <1>8 DEF Ranking
<1>11. QED
  BY <1>4, <1>8, <1>9, <1>10

\* Whatever has the elements of a ranking in its order is that ranking.
LEMMA SameRanking ==
  ASSUME NEW r, NEW s, NEW kind, NEW vectors, NEW query, NEW opts,
         IsRanking(r, kind, vectors, query, opts), IsInjective(s), ToSet(s) = ToSet(r), Len(s) = Len(r),
         \A m, n \in DOMAIN s : m < n => \E i, j \in DOMAIN r : i < j /\ r[i] = s[m] /\ r[j] = s[n]
  PROVE  IsRanking(s, kind, vectors, query, opts)
<1>1. PICK score, eligible, most :
         /\ score = TrueScore(kind, vectors, query)
         /\ eligible = {c \in DOMAIN vectors : score[c] >= Least(kind, opts)}
         /\ most = Min({Room(kind, DOMAIN vectors, opts), Cardinality(eligible)})
  OBVIOUS
<1>2. /\ ToSet(r) \subseteq eligible /\ Len(r) = most
      /\ \A m, n \in DOMAIN r : m < n => score[r[m]] >= score[r[n]]
      /\ \A n \in DOMAIN r, c \in eligible \ ToSet(r) : score[r[n]] >= score[c]
  BY <1>1 DEF IsRanking
<1>3. \A m, n \in DOMAIN s : m < n => score[s[m]] >= score[s[n]]
  BY <1>2
<1>4. \A n \in DOMAIN s : \E i \in DOMAIN r : r[i] = s[n]
  BY DEF ToSet
<1>5. \A n \in DOMAIN s, c \in eligible \ ToSet(s) : score[s[n]] >= score[c]
  BY <1>2, <1>4
<1>6. QED
  BY <1>1, <1>2, <1>3, <1>5 DEF IsRanking

\* What a hit serves is what was kept, in its order (server.ts:220-226).
LEMMA HitIsBest ==
  ASSUME Sound, Ranked, NEW req \in Request, DiscoverHit(req)
  PROVE  BestFirst'
<1>1. PICK e : e = filterCache[CHOOSE i \in EntryAt(cacheKey(req)) : TRUE]
  OBVIOUS
<1>2. PICK i \in DOMAIN filterCache : e = filterCache[i] /\ filterCache[i].key = cacheKey(req)
  BY <1>1, TheEntryIsFresh DEF DiscoverHit, Sound
<1>3. EntryRanked(e) /\ e.key[1] = req.query /\ e.key[2] = req.opts
  BY <1>2 DEF Ranked, cacheKey
<1>4. PICK kept : kept = {c \in filter(req) : c.id \in ToSet(e.caps)}
  OBVIOUS
<1>5. PICK order, zero : /\ order = [c \in kept |-> CHOOSE n \in DOMAIN e.caps : e.caps[n] = c.id]
                        /\ zero = [c \in kept |-> 0]
  OBVIOUS
<1>6. PICK s : s = Sorted(kept, zero, order)
  OBVIOUS
<1>7. /\ answered' = [kind |-> "hit", req |-> req, from |-> e.from, caps |-> s]
      /\ UNCHANGED <<strategy, registry>>
  BY <1>1, <1>4, <1>5, <1>6 DEF DiscoverHit
<1>8. PICK given, vectors : vectors = e.from.vectors /\ given = DOMAIN vectors
  OBVIOUS
<1>9. filter(req)' = filter(req)
  BY <1>7 DEF filter
<1>10. SUFFICES ASSUME filter(req) = given, strategy = "hybrid" => Cardinality(given) <= topKDefault
                PROVE  IsRanking(s, strategy, vectors, req.query, req.opts)
  BY <1>7, <1>8, <1>9 DEF BestFirst
<1>11. IsFiniteSet(given) /\ IdsApart(given)
  BY <1>3, <1>8 DEF EntryRanked
<1>12. PICK r \in Seq(given) : /\ e.caps = [n \in DOMAIN r |-> r[n].id]
                             /\ IsRanking(r, strategy, vectors, req.query, req.opts)
  BY <1>3, <1>8, <1>10 DEF EntryRanked
<1>13. DOMAIN e.caps = DOMAIN r /\ \A n \in DOMAIN r : e.caps[n] = r[n].id /\ r[n] \in given
  BY <1>12
<1>14. kept = ToSet(r)
  <2>1. ASSUME NEW c \in kept PROVE c \in ToSet(r)
    <3>1. PICK n \in DOMAIN r : c.id = r[n].id
      BY <1>4, <1>13, <2>1 DEF ToSet
    <3>2. c \in given
      BY <1>4, <1>10
    <3>3. c = r[n]
      BY <1>11, <1>13, <3>1, <3>2 DEF IdsApart
    <3>4. QED
      BY <3>3 DEF ToSet
  <2>2. ASSUME NEW n \in DOMAIN r PROVE r[n] \in kept
    BY <1>4, <1>10, <1>13 DEF ToSet
  <2>3. QED
    BY <2>1, <2>2 DEF ToSet
<1>15. ASSUME NEW c \in kept PROVE order[c] \in DOMAIN r /\ r[order[c]] = c
  <2>1. \E n \in DOMAIN e.caps : e.caps[n] = c.id
    BY <1>13, <1>14 DEF ToSet
  <2>2. order[c] \in DOMAIN e.caps /\ e.caps[order[c]] = c.id
    BY <1>5, <2>1
  <2>3. c \in given
    BY <1>4, <1>10
  <2>4. QED
    BY <1>11, <1>13, <2>2, <2>3 DEF IdsApart
<1>16. DOMAIN r = 1..Len(r) /\ Len(r) \in Nat
  OBVIOUS
<1>17. Sortable(kept, zero, order)
  <2>1. IsFiniteSet(kept)
    BY <1>4, <1>10, <1>11, FS_Subset
  <2>2. \A c \in kept : zero[c] \in Int /\ order[c] \in Int
    BY <1>5, <1>15, <1>16
  <2>3. \A a, b \in kept : order[a] = order[b] => a = b
    BY <1>15
  <2>4. QED
    BY <2>1, <2>2, <2>3 DEF Sortable
<1>18. /\ s \in Seq(kept) /\ Len(s) = Cardinality(kept) /\ IsInjective(s) /\ ToSet(s) = kept
       /\ \A m, n \in DOMAIN s : m < n => Before(zero, order, s[m], s[n])
  BY <1>6, <1>17, SortedSorts
<1>19. Len(r) = Cardinality(kept)
  <2>1. IsInjective(r)
    BY <1>12 DEF IsRanking
  <2>2. PICK N \in Nat : N = Len(r)
    BY <1>16
  <2>3. r \in Injection(1..N, kept) /\ r \in Surjection(1..N, kept)
    BY <1>14, <1>16, <2>1, <2>2 DEF Injection, Surjection, IsInjective, ToSet
  <2>4. IsFiniteSet(1..N) /\ Cardinality(1..N) = N
    BY FS_Interval
  <2>5. QED
    BY <2>2, <2>3, <2>4, FS_Surjection
<1>20. ASSUME NEW m \in DOMAIN s, NEW n \in DOMAIN s, m < n
       PROVE  \E k, j \in DOMAIN r : k < j /\ r[k] = s[m] /\ r[j] = s[n]
  <2>1. s[m] \in kept /\ s[n] \in kept
    BY <1>18
  <2>2. Before(zero, order, s[m], s[n])
    BY <1>18, <1>20
  <2>3. order[s[m]] < order[s[n]]
    BY <1>5, <2>1, <2>2 DEF Before
  <2>4. QED
    BY <1>15, <2>1, <2>3
<1>21. PICK kind, query, opts : kind = strategy /\ query = req.query /\ opts = req.opts
  OBVIOUS
<1>22. IsRanking(r, kind, vectors, query, opts)
  BY <1>12, <1>21
<1>23. IsInjective(s) /\ ToSet(s) = ToSet(r) /\ Len(s) = Len(r)
  BY <1>14, <1>18, <1>19
<1>24. IsRanking(s, kind, vectors, query, opts)
  BY <1>20, <1>22, <1>23, SameRanking
<1>25. QED
  BY <1>21, <1>24

\* An answer of the strategy is a ranking, and so is what is kept of it.
LEMMA AnswerIsBest ==
  ASSUME Sound, Ranked, NEW p \in Call, Answer(p)
  PROVE  BestFirst'
<1>1. calls[p] # NoCall /\ calls[p] \in Calls
  BY StepOfACall, CallsAreNot DEF Sound, StateTyped, Answer
<1>2. calls[p].kind # "hit"
  BY <1>1 DEF Calls
<1>3. /\ answered' = [kind |-> calls[p].kind, req |-> calls[p].req, caps |-> Ranking(calls[p]),
                     from |-> Basis(calls[p])]
      /\ strategy' = strategy
  BY DEF Answer
<1>4. PICK b, r : b = Basis(calls[p]) /\ r = Ranking(calls[p])
  OBVIOUS
<1>5. /\ answered'.kind = calls[p].kind /\ answered'.req = calls[p].req
      /\ answered'.caps = r /\ answered'.from = b
  BY <1>3, <1>4
<1>6. (strategy = "hybrid" => Cardinality(DOMAIN b.vectors) <= topKDefault)
        => IsRanking(r, strategy, b.vectors, calls[p].req.query, calls[p].req.opts)
  BY <1>1, <1>4, CallIsRanked
<1>7. QED
  BY <1>3, <1>5, <1>6 DEF BestFirst

LEMMA KeptIsRanked ==
  ASSUME Sound, Ranked, NEW p \in Call, Discovered(p)
  PROVE  \A i \in DOMAIN filterCache' : EntryRanked(filterCache'[i])
<1>1. PICK ids, basis, r : /\ r = Ranking(calls[p]) /\ ids = [n \in DOMAIN r |-> r[n].id]
                         /\ basis = Basis(calls[p])
  OBVIOUS
<1>2. PICK e : e = [key |-> cacheKey(calls[p].req), ts |-> calls[p].age, caps |-> ids, from |-> basis]
  OBVIOUS
<1>3. Answer(p) /\ filterCache' = Limited(Stored(e))
  BY <1>1, <1>2 DEF Discovered, Keep
<1>4. calls[p] # NoCall /\ calls[p] \in Calls
  BY <1>3, StepOfACall, CallsAreNot DEF Sound, StateTyped, Answer
<1>5. basis.vectors = [c \in calls[p].given |-> embeddings[c.id]] /\ basis.age = calls[p].age
      /\ basis \in [vectors: {basis.vectors}, age: {calls[p].age}] /\ calls[p].age \in Age
  BY <1>1, <1>4 DEF Basis, Calls
<1>6. EntrySound(e)
  BY <1>2, <1>5 DEF EntrySound
<1>7. e.key[1] = calls[p].req.query /\ e.key[2] = calls[p].req.opts /\ e.caps = ids /\ e.from = basis
  BY <1>2 DEF cacheKey
<1>8. EntryRanked(e)
  <2>1. DOMAIN basis.vectors = calls[p].given
    BY <1>5
  <2>2. IsFiniteSet(DOMAIN e.from.vectors) /\ IdsApart(DOMAIN e.from.vectors)
    BY <1>4, <1>7, <2>1 DEF Ranked, GivenTogether
  <2>3. (strategy = "hybrid" => Cardinality(DOMAIN basis.vectors) <= topKDefault) =>
          /\ r \in Seq(DOMAIN basis.vectors)
          /\ IsRanking(r, strategy, basis.vectors, calls[p].req.query, calls[p].req.opts)
    BY <1>1, <1>4, CallIsRanked
  <2>4. QED
    BY <1>1, <1>7, <2>2, <2>3 DEF EntryRanked
<1>9. CacheSound
  BY DEF Sound
<1>10. PICK cache : cache = Stored(e)
  OBVIOUS
<1>11. /\ IsSequence(cache) /\ KeysApart(cache) /\ Len(cache) <= FilterCacheMax + 1
       /\ \A i \in DOMAIN cache : cache[i] = e \/ \E j \in DOMAIN filterCache : cache[i] = filterCache[j]
  BY <1>6, <1>9, <1>10, StoredSound
<1>12. \A i \in DOMAIN Limited(cache) : \E j \in DOMAIN cache : Limited(cache)[i] = cache[j]
  BY <1>11, LimitedSound
<1>13. \A i \in DOMAIN filterCache' :
          filterCache'[i] = e \/ \E j \in DOMAIN filterCache : filterCache'[i] = filterCache[j]
  BY <1>3, <1>10, <1>11, <1>12
<1>14. QED
  BY <1>8, <1>13 DEF Ranked

LEMMA RegisterKeepsRanked ==
  ASSUME Sound, Ranked, NEW c \in Capability, register(c)
  PROVE  Ranked'
<1>1. registry \in Seq(Capability) /\ DOMAIN registry = 1..Len(registry) /\ Len(registry) \in Nat
  BY DEF Sound, StateTyped
<1>2. RegistryApart
  BY DEF Ranked
<1>3. /\ RegistryApart'
      /\ \A i \in DOMAIN registry : i \in DOMAIN registry' /\ registry'[i].id = registry[i].id
  <2>1. CASE \E i \in DOMAIN registry : registry[i].id = c.id
    <3>1. registry' = [i \in DOMAIN registry |-> IF registry[i].id = c.id THEN c ELSE registry[i]]
      BY <2>1 DEF register
    <3>2. DOMAIN registry' = DOMAIN registry /\ \A i \in DOMAIN registry : registry'[i].id = registry[i].id
      BY <3>1
    <3>3. QED
      BY <1>2, <3>2 DEF RegistryApart
  <2>2. CASE ~ \E i \in DOMAIN registry : registry[i].id = c.id
    <3>1. registry' = Append(registry, c)
      BY <2>2 DEF register
    <3>2. PICK N \in Nat : N = Len(registry)
      BY <1>1
    <3>3. /\ DOMAIN registry' = 1..(N + 1) /\ registry'[N + 1] = c
          /\ \A i \in 1..N : registry'[i] = registry[i]
      BY <1>1, <3>1, <3>2
    <3>4. \A i \in 1..(N + 1) : i \in 1..N \/ i = N + 1
      OBVIOUS
    <3>5. RegistryApart'
      BY <1>1, <1>2, <2>2, <3>2, <3>3, <3>4 DEF RegistryApart
    <3>6. QED
      BY <1>1, <3>2, <3>3, <3>5
  <2>3. QED
    BY <2>1, <2>2
<1>4. UNCHANGED <<strategy, embeddings, filterCache, calls>> /\ answered' = NoAnswer
  BY DEF register
<1>5. \A given : GivenTogether(given) => GivenTogether(given)'
  BY <1>3 DEF GivenTogether
<1>6. (\A p \in Call : calls[p] # NoCall => GivenTogether(calls[p].given))'
  BY <1>4, <1>5 DEF Ranked
<1>7. (\A i \in DOMAIN filterCache : EntryRanked(filterCache[i]))'
  BY <1>4 DEF Ranked, EntryRanked
<1>8. QED
  BY <1>3, <1>4, <1>6, <1>7, SilentIsBest DEF Ranked

\* A step that registers nothing and gives no call more than it had.
LEMMA OthersKeepRanked ==
  ASSUME Ranked, BestFirst', UNCHANGED <<strategy, registry>>,
         \A p \in Call : calls'[p] # NoCall =>
             \/ calls[p] # NoCall /\ calls'[p].given = calls[p].given
             \/ GivenTogether(calls'[p].given),
         \A i \in DOMAIN filterCache' : EntryRanked(filterCache'[i])
  PROVE  Ranked'
<1>1. \A given : GivenTogether(given) => GivenTogether(given)'
  BY DEF GivenTogether
<1>2. \A e : EntryRanked(e) => EntryRanked(e)'
  BY DEF EntryRanked
<1>3. (\A p \in Call : calls[p] # NoCall => GivenTogether(calls[p].given))'
  BY <1>1 DEF Ranked
<1>4. (\A i \in DOMAIN filterCache : EntryRanked(filterCache[i]))'
  BY <1>2
<1>5. RegistryApart'
  BY DEF Ranked, RegistryApart
<1>6. QED
  BY <1>3, <1>4, <1>5 DEF Ranked

LEMMA RankKeepsRanked ==
  ASSUME Sound, Ranked, NEW p \in Call, NEW kind, NEW req, NEW given \in SUBSET ToSet(registry),
         Rank(p, kind, req, given)
  PROVE  Ranked'
<1>1. PICK call : call.given = given /\ calls' = [calls EXCEPT ![p] = call]
  <2>1. PICK missing : missing = IF strategy = "keyword" THEN {} ELSE ToEmbed(given)
    OBVIOUS
  <2>2. PICK call : call = [step |-> IF missing = {} THEN "query" ELSE "embed", kind |-> kind,
                            req |-> req, given |-> given, missing |-> missing, age |-> 0]
    OBVIOUS
  <2>3. call.given = given
    BY <2>2
  <2>4. calls' = [calls EXCEPT ![p] = call]
    BY <2>1, <2>2 DEF Rank
  <2>5. QED
    BY <2>3, <2>4
<1>2. UNCHANGED <<strategy, registry, filterCache>> /\ answered' = NoAnswer
  BY DEF Rank
<1>3. GivenTogether(given)
  BY RegisteredTogether DEF Sound, Ranked
<1>4. \A q \in Call : calls'[q] = IF q = p THEN call ELSE calls[q]
  BY <1>1 DEF Sound, StateTyped
<1>5. \A q \in Call : calls'[q] # NoCall =>
          \/ calls[q] # NoCall /\ calls'[q].given = calls[q].given
          \/ GivenTogether(calls'[q].given)
  BY <1>1, <1>3, <1>4
<1>6. \A i \in DOMAIN filterCache' : EntryRanked(filterCache'[i])
  BY <1>2 DEF Ranked
<1>7. QED
  BY <1>2, <1>5, <1>6, OthersKeepRanked, SilentIsBest

LEMMA TickKeepsRanked ==
  ASSUME Sound, Ranked, Tick
  PROVE  Ranked'
<1>1. /\ filterCache' = [i \in DOMAIN filterCache |-> Aged(filterCache[i])]
      /\ calls' = [p \in Call |-> IF calls[p] = NoCall THEN NoCall
                                  ELSE [calls[p] EXCEPT !.age = Older(@)]]
      /\ answered' = NoAnswer /\ UNCHANGED <<strategy, registry>>
  BY DEF Tick
<1>2. ASSUME NEW p \in Call, calls'[p] # NoCall
      PROVE  calls[p] # NoCall /\ calls'[p].given = calls[p].given
  <2>1. calls[p] # NoCall /\ calls'[p] = [calls[p] EXCEPT !.age = Older(calls[p].age)]
    BY <1>1, <1>2
  <2>2. calls[p] \in Calls
    BY <2>1 DEF Sound, StateTyped
  <2>3. QED
    BY <2>1, <2>2 DEF Calls
<1>3. ASSUME NEW i \in DOMAIN filterCache' PROVE EntryRanked(filterCache'[i])
  <2>1. i \in DOMAIN filterCache /\ filterCache'[i] = Aged(filterCache[i])
    BY <1>1, <1>3
  <2>2. PICK e, f : e = filterCache[i] /\ f = filterCache'[i]
    OBVIOUS
  <2>3. EntrySound(e) /\ EntryRanked(e)
    BY <2>1, <2>2 DEF Sound, CacheSound, Ranked
  <2>4. f.key = e.key /\ f.caps = e.caps /\ f.from.vectors = e.from.vectors
    BY <2>1, <2>2, <2>3, AgedSound
  <2>5. EntryRanked(f)
    BY <2>3, <2>4 DEF EntryRanked
  <2>6. QED
    BY <2>2, <2>5
<1>4. QED
  BY <1>1, <1>2, <1>3, OthersKeepRanked, SilentIsBest

\* A call that is over, or further on, was given what it was.
LEMMA CallEndsKeepsRanked ==
  ASSUME Sound, Ranked, NEW p \in Call, BestFirst', UNCHANGED <<strategy, registry>>,
         NEW call, calls' = [calls EXCEPT ![p] = call],
         call = NoCall \/ (calls[p] # NoCall /\ call.given = calls[p].given),
         \A i \in DOMAIN filterCache' : EntryRanked(filterCache'[i])
  PROVE  Ranked'
<1>1. \A q \in Call : calls'[q] = IF q = p THEN call ELSE calls[q]
  BY DEF Sound, StateTyped
<1>2. \A q \in Call : calls'[q] # NoCall =>
          \/ calls[q] # NoCall /\ calls'[q].given = calls[q].given
          \/ GivenTogether(calls'[q].given)
  BY <1>1
<1>3. QED
  BY <1>2, OthersKeepRanked

LEMMA NextKeepsRanked ==
  ASSUME Sound, Ranked, [Next]_vars
  PROVE  Ranked'
<1>a. \A i \in DOMAIN filterCache : EntryRanked(filterCache[i])
  BY DEF Ranked
<1>1. CASE UNCHANGED vars
  <2>1. UNCHANGED <<strategy, registry, calls, filterCache, answered>>
    BY <1>1 DEF vars
  <2>2. BestFirst'
    BY <2>1 DEF Ranked, BestFirst, filter
  <2>3. QED
    BY <1>a, <2>1, <2>2, OthersKeepRanked
<1>2. ASSUME NEW c \in Capability, register(c) PROVE Ranked'
  BY <1>2, RegisterKeepsRanked
<1>3. ASSUME NEW req \in Request, DiscoverHit(req) PROVE Ranked'
  <2>1. UNCHANGED <<strategy, registry, calls, filterCache>>
    BY <1>3 DEF DiscoverHit
  <2>2. BestFirst'
    BY <1>3, HitIsBest
  <2>3. QED
    BY <1>a, <2>1, <2>2, OthersKeepRanked
<1>4. ASSUME NEW p \in Call, NEW req \in Request, DiscoverRanks(p, req) PROVE Ranked'
  <2>1. filter(req) \in SUBSET ToSet(registry) /\ Rank(p, "discover", req, filter(req))
    BY <1>4 DEF DiscoverRanks, filter
  <2>2. QED
    BY <2>1, RankKeepsRanked
<1>5. ASSUME NEW p \in Call, NEW task \in Task, DelegateRanks(p, task) PROVE Ranked'
  BY <1>5, RankKeepsRanked DEF DelegateRanks
<1>6. ASSUME NEW p \in Call, Embedded(p) PROVE Ranked'
  <2>1. PICK call : call = [calls[p] EXCEPT !.step = "query", !.missing = {}]
    OBVIOUS
  <2>2. calls[p] \in Calls /\ calls[p] # NoCall
    BY <1>6, StepOfACall, CallsAreNot DEF Sound, StateTyped, Embedded
  <2>3. call.given = calls[p].given
    BY <2>1, <2>2 DEF Calls
  <2>4. /\ calls' = [calls EXCEPT ![p] = call] /\ UNCHANGED <<strategy, registry, filterCache>>
        /\ answered' = NoAnswer
    BY <1>6, <2>1 DEF Embedded
  <2>5. QED
    BY <1>a, <2>2, <2>3, <2>4, CallEndsKeepsRanked, SilentIsBest
<1>7. ASSUME NEW p \in Call, Discovered(p) PROVE Ranked'
  <2>1. Answer(p) /\ calls' = [calls EXCEPT ![p] = NoCall] /\ UNCHANGED <<strategy, registry>>
    BY <1>7 DEF Discovered, Answer
  <2>2. BestFirst' /\ \A i \in DOMAIN filterCache' : EntryRanked(filterCache'[i])
    BY <1>7, <2>1, AnswerIsBest, KeptIsRanked
  <2>3. QED
    BY <2>1, <2>2, CallEndsKeepsRanked
<1>8. ASSUME NEW p \in Call, DelegateMatched(p) PROVE Ranked'
  <2>1. /\ Answer(p) /\ calls' = [calls EXCEPT ![p] = NoCall]
        /\ UNCHANGED <<strategy, registry, filterCache>>
    BY <1>8 DEF DelegateMatched, Answer
  <2>2. BestFirst'
    BY <2>1, AnswerIsBest
  <2>3. QED
    BY <1>a, <2>1, <2>2, CallEndsKeepsRanked
<1>9. ASSUME NEW p \in Call, EmbedFails(p) PROVE Ranked'
  <2>1. /\ calls' = [calls EXCEPT ![p] = NoCall] /\ UNCHANGED <<strategy, registry, filterCache>>
        /\ answered' = NoAnswer
    BY <1>9 DEF EmbedFails
  <2>2. QED
    BY <1>a, <2>1, CallEndsKeepsRanked, SilentIsBest
<1>10. CASE Tick
  BY <1>10, TickKeepsRanked
<1>11. QED
  BY <1>1, <1>2, <1>3, <1>4, <1>5, <1>6, <1>7, <1>8, <1>9, <1>10 DEF Next

(***************************************************************************)
(* The theorems.                                                           *)
(***************************************************************************)
\* Every step keeps the invariant.
LEMMA NextKeeps ==
  ASSUME Sound, [Next]_vars
  PROVE  Sound'
<1>1. CASE UNCHANGED vars
  BY <1>1 DEF vars, Sound, StateTyped, CallSound, CallCovered, CacheSound, CacheEmbeds,
              HitsAreYoung, ScoredByEmbedding
<1>2. ASSUME NEW c \in Capability, register(c) PROVE Sound'
  BY <1>2, RegisterKeeps
<1>3. ASSUME NEW req \in Request, DiscoverHit(req) PROVE Sound'
  BY <1>3, DiscoverHitKeeps
<1>4. ASSUME NEW p \in Call, NEW req \in Request, DiscoverRanks(p, req) PROVE Sound'
  <2>1. Rank(p, "discover", req, filter(req)) /\ req \in Requests
    BY <1>4 DEF DiscoverRanks, Requests
  <2>2. filter(req) \in SUBSET Capability
    BY GivenAreCapabilities DEF Sound
  <2>3. QED
    BY <2>1, <2>2, RankKeeps
<1>5. ASSUME NEW p \in Call, NEW task \in Task, DelegateRanks(p, task) PROVE Sound'
  <2>1. Rank(p, "delegate", Delegated(task), ToSet(registry)) /\ Delegated(task) \in Requests
    BY <1>5 DEF DelegateRanks, Requests
  <2>2. ToSet(registry) \in SUBSET Capability
    BY GivenAreCapabilities DEF Sound
  <2>3. QED
    BY <2>1, <2>2, RankKeeps
<1>6. ASSUME NEW p \in Call, Embedded(p) PROVE Sound'
  BY <1>6, EmbeddedKeeps
<1>7. ASSUME NEW p \in Call, Discovered(p) PROVE Sound'
  BY <1>7, DiscoveredKeeps
<1>8. ASSUME NEW p \in Call, DelegateMatched(p) PROVE Sound'
  BY <1>8, DelegateMatchedKeeps
<1>9. ASSUME NEW p \in Call, EmbedFails(p) PROVE Sound'
  BY <1>9, EmbedFailsKeeps
<1>10. CASE Tick
  BY <1>10, TickKeeps
<1>11. QED
  BY <1>1, <1>2, <1>3, <1>4, <1>5, <1>6, <1>7, <1>8, <1>9, <1>10 DEF Next

LEMMA AlwaysSound == Spec => []Sound
<1>1. Init => Sound
  BY InitSound
<1>2. Sound /\ [Next]_vars => Sound'
  BY NextKeeps
<1>3. QED
  BY <1>1, <1>2, PTL DEF Spec

\* The Map of results holds one entry per key and never more than its limit, and a request
\* waits for embeddings exactly as long as it has some to wait for (server.ts:246-250).
THEOREM ResultCacheBounded == Spec => []FilterInv
<1>1. Sound => FilterInv
  <2>1. ASSUME Sound PROVE CacheBounded
    BY <2>1 DEF Sound, CacheSound, CacheBounded
  <2>2. ASSUME Sound PROVE TypeOK
    BY <2>2 DEF Sound, StateTyped, CallSound, Calls, CacheSound, KeysApart, TypeOK
  <2>3. QED
    BY <2>1, <2>2 DEF FilterInv
<1>2. QED
  BY <1>1, AlwaysSound, PTL

\* No hit is served from capabilities looked up the TTL ago or more (server.ts:218,247).
THEOREM HitsServeYoungEntries == Spec => []HitsAreYoung
<1>1. Sound => HitsAreYoung
  BY DEF Sound
<1>2. QED
  BY <1>1, AlwaysSound, PTL

\* No capability is ranked without its embedding by a strategy that scores by embeddings,
\* nor served from a ranking that was (semantic-strategy.ts:65-77).
THEOREM RankedByEmbeddings == Spec => []ScoredByEmbedding
<1>1. Sound => ScoredByEmbedding
  BY DEF Sound
<1>2. QED
  BY <1>1, AlwaysSound, PTL

\* Every answer has the best of the capabilities the strategy was given, best first, a hit
\* too where the same ones match still (server.ts:216-246, core/src/filtering).
THEOREM AnswersAreBestFirst == Spec => []BestFirst
<1>1. Init => Ranked
  <2> SUFFICES ASSUME Init PROVE Ranked
    OBVIOUS
  <2>1. registry = <<>> /\ filterCache = <<>> /\ answered = NoAnswer /\ \A p \in Call : calls[p] = NoCall
    BY DEF Init
  <2>2. BestFirst
    BY <2>1 DEF BestFirst, NoAnswer
  <2>3. QED
    BY <2>1, <2>2 DEF Ranked, RegistryApart
<1>2. Sound /\ Ranked /\ [Next]_vars => Ranked'
  BY NextKeepsRanked
<1>3. Ranked => BestFirst
  BY DEF Ranked
<1>4. QED
  BY <1>1, <1>2, <1>3, AlwaysSound, PTL DEF Spec

================================================================================
