---------------------------- MODULE RankingStrategy ----------------------------
(***************************************************************************)
(* How capabilities are ranked for a query (core/src/filtering): by        *)
(* keywords, by the similarity of embeddings, or by both.                  *)
(*                                                                         *)
(* A capability is its id and its description.  Those given are a set and  *)
(* a position of each, the order in which they were registered, as the     *)
(* sorts are stable.  Scores, thresholds and weights are percentages.      *)
(***************************************************************************)
EXTENDS Naturals, SequencesExt

CONSTANTS MatchOf(_, _),     \* how a query is found in a capability
          WordsShare(_, _),  \* the percentage of its words that are found there
          similarity(_, _),  \* of a query and an embedded text, normalized
          None,              \* an option that is not given, a text not embedded
          topKDefault, thresholdDefault, keywordWeight, semanticWeight

ASSUME RankingAssumption ==
    /\ None \notin Nat
    /\ topKDefault \in Nat /\ thresholdDefault \in 0..100
    /\ keywordWeight \in 0..100 /\ semanticWeight \in 0..100

FilterOptions == [top_k: Nat \cup {None}, threshold: (0..100) \cup {None}]

Given(option, default) == IF option = None THEN default ELSE option

\* The order of a stable sort by descending score.
Before(score, position, a, b) ==
    score[a] > score[b] \/ (score[a] = score[b] /\ position[a] < position[b])

\* How many of S come before c, and c.
RankIn(S, score, position) ==
    [c \in S |-> Cardinality({b \in S : Before(score, position, b, c)}) + 1]

Sorted(S, score, position) ==
    LET rank == RankIn(S, score, position)
    IN  [n \in 1..Cardinality(S) |-> CHOOSE c \in S : rank[c] = n]

\* Filter by the least score that is kept, sort, slice.
Cut_BeforeSorting(given, position, score, least, k) ==
    LET kept == Sorted({c \in given : score[c] >= least}, [c \in given |-> 0], position)
    IN  Sorted(ToSet(SubSeq(kept, 1, Min({k, Len(kept)}))), score, position)

Cut(given, position, score, least, k) ==
    LET sorted == Sorted({c \in given : score[c] >= least}, score, position)
    IN  SubSeq(sorted, 1, Min({k, Len(sorted)}))

keywordScore(query, cap) ==
    CASE MatchOf(query, cap) = "is its id"             -> 100
      [] MatchOf(query, cap) = "is in its id"          -> 80
      [] MatchOf(query, cap) = "is in its description" -> 60
      [] OTHER -> (WordsShare(query, cap) * 40) \div 100

Keywords(given, query) == [c \in given |-> keywordScore(query, c)]

keyword(given, position, query, opts) ==
    Cut(given, position, Keywords(given, query), Given(opts.threshold, 0) + 1,
        Given(opts.top_k, Cardinality(given)))

\* vectors[c]: what was embedded for c.  Without it the score is 0.
Similarities(vectors, query) ==
    [c \in DOMAIN vectors |-> IF vectors[c] = None THEN 0 ELSE similarity(query, vectors[c])]

semantic(vectors, position, query, opts) ==
    Cut(DOMAIN vectors, position, Similarities(vectors, query),
        Given(opts.threshold, thresholdDefault), Given(opts.top_k, topKDefault))

\* What the hybrid strategy asks of both.
Everything == [top_k |-> None, threshold |-> 0]

IndexIn(results) == [c \in ToSet(results) |-> CHOOSE n \in DOMAIN results : results[n] = c]

\* The score of a capability that is not among the results counts 0; in the sort the
\* results of the keywords come first.
hybrid(vectors, position, query, opts) ==
    LET given == DOMAIN vectors
        byKeyword  == IndexIn(keyword(given, position, query, Everything))
        bySemantic == IndexIn(semantic(vectors, position, query, Everything))
        combined == [c \in given |->
            keywordWeight * (IF c \in DOMAIN byKeyword THEN Keywords(given, query)[c] ELSE 0)
            + semanticWeight * (IF c \in DOMAIN bySemantic
                                THEN Similarities(vectors, query)[c] ELSE 0)]
        inBoth == [c \in DOMAIN byKeyword \cup DOMAIN bySemantic |->
            IF c \in DOMAIN byKeyword THEN byKeyword[c]
            ELSE Cardinality(DOMAIN byKeyword) + bySemantic[c]]
    IN  Cut(DOMAIN inBoth, inBoth, combined, 100 * Given(opts.threshold, 30),
            Given(opts.top_k, 10))

RankedBy(strategy, vectors, position, query, opts) ==
    CASE strategy = "keyword"  -> keyword(DOMAIN vectors, position, query, opts)
      [] strategy = "semantic" -> semantic(vectors, position, query, opts)
      [] strategy = "hybrid"   -> hybrid(vectors, position, query, opts)

(***************************************************************************)
(* A reference definition: what a ranking is meant to be.                  *)
(***************************************************************************)
TrueScore(strategy, vectors, query) ==
    CASE strategy = "keyword"  -> Keywords(DOMAIN vectors, query)
      [] strategy = "semantic" -> Similarities(vectors, query)
      [] strategy = "hybrid"   ->
            [c \in DOMAIN vectors |-> keywordWeight * Keywords(DOMAIN vectors, query)[c]
                                      + semanticWeight * Similarities(vectors, query)[c]]

Least(strategy, opts) ==
    CASE strategy = "keyword"  -> Given(opts.threshold, 0) + 1
      [] strategy = "semantic" -> Given(opts.threshold, thresholdDefault)
      [] strategy = "hybrid"   -> 100 * Given(opts.threshold, 30)

Room(strategy, given, opts) ==
    CASE strategy = "keyword"  -> Given(opts.top_k, Cardinality(given))
      [] strategy = "semantic" -> Given(opts.top_k, topKDefault)
      [] strategy = "hybrid"   -> Given(opts.top_k, 10)

\* result has the best of those that score enough, best first, and as many as there is room for.
IsRanking(result, strategy, vectors, query, opts) ==
    LET score == TrueScore(strategy, vectors, query)
        eligible == {c \in DOMAIN vectors : score[c] >= Least(strategy, opts)}
    IN  /\ IsInjective(result) /\ ToSet(result) \subseteq eligible
        /\ Len(result) = Min({Room(strategy, DOMAIN vectors, opts), Cardinality(eligible)})
        /\ \A m, n \in DOMAIN result : m < n => score[result[m]] >= score[result[n]]
        /\ \A n \in DOMAIN result, c \in eligible \ ToSet(result) : score[result[n]] >= score[c]
================================================================================
