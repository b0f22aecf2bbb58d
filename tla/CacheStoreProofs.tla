--------------------------- MODULE CacheStoreProofs ---------------------------
(***************************************************************************)
(* Theorems about the cache store, for every set of keys, capacity, cost   *)
(* and bound of the access counts.                                         *)
(*                                                                         *)
(* A sieve is sound when some sequence of distinct keys is its list        *)
(* (IsList).  Each method of SieveList takes a sound sieve to a sound      *)
(* one, and to the list one expects; the methods of the store are          *)
(* made of those.  What is proved by induction (the loop of evict, the     *)
(* list read along its links) rests on one fact: a set of numbers that is  *)
(* not empty has a least one.                                              *)
(***************************************************************************)
EXTENDS CacheStore, SequenceTheorems, FiniteSetTheorems, WellFoundedInduction, TLAPS

LEMMA LeastNumber ==
  ASSUME NEW S, S \subseteq Nat, S # {}
  PROVE  \E n \in S : \A m \in S : n <= m
<1> DEFINE Less == OpToRel(<, Nat)
<1>1. PICK x \in S : \A y \in S : ~(<<y, x>> \in Less)
  BY NatLessThanWellFounded, WFMin
<1>2. \A y \in S : ~(y < x)
  BY <1>1 DEF OpToRel
<1>3. QED
  BY <1>2

\* The sequences of n maps on S, and the paths that take those of g in turn from a.
Steps(S, n) == [1..n -> [S -> S]]
Paths(S, a, n, g) ==
  {f \in [0..n -> S] : \A i \in 0..n : f[i] = IF i = 0 THEN a ELSE g[i][f[i - 1]]}

\* There is such a path, whatever n is.
LEMMA PathExists ==
  ASSUME NEW S, NEW a \in S, NEW n \in Nat, NEW g \in Steps(S, n)
  PROVE  Paths(S, a, n, g) # {}
<1> DEFINE Path(m, f) == \A i \in 0..m : f[i] = IF i = 0 THEN a ELSE g[i][f[i - 1]]
           Pathless == {m \in 0..n : ~\E f \in [0..m -> S] : Path(m, f)}
<1>1. SUFFICES ASSUME Pathless # {} PROVE FALSE
  BY DEF Paths
<1> Pathless \subseteq Nat
  OBVIOUS
<1>2. PICK m \in Pathless : \A k \in Pathless : m <= k
  <2> HIDE DEF Pathless
  <2>1. QED
    BY <1>1, LeastNumber
<1>3. CASE m = 0
  <2>1. Path(0, [i \in 0..0 |-> a]) /\ [i \in 0..0 |-> a] \in [0..0 -> S]
    OBVIOUS
  <2>2. QED
    BY <1>3, <2>1
<1>4. CASE m # 0
  <2>0. m - 1 \in 0..n /\ m \in 1..n /\ ~(m <= m - 1)
    BY <1>4
  <2>1. m - 1 \in 0..n /\ m - 1 \notin Pathless /\ m \in 1..n
    <3> HIDE DEF Pathless
    <3>1. QED
      BY <1>2, <2>0
  <2>2. PICK f \in [0..m - 1 -> S] : Path(m - 1, f)
    BY <2>1
  <2> DEFINE h == [i \in 0..m |-> IF i = m THEN g[m][f[m - 1]] ELSE f[i]]
  <2>3. g[m][f[m - 1]] \in S
    BY <2>1 DEF Steps
  <2>4. h \in [0..m -> S]
    BY <2>1, <2>3
  <2>5. \A i \in 0..m : h[i] = IF i = 0 THEN a ELSE g[i][h[i - 1]]
    <3>1. \A i \in 0..m - 1 : f[i] = IF i = 0 THEN a ELSE g[i][f[i - 1]]
      BY <2>2
    <3>2. \A i \in 0..m - 1 : h[i] = f[i]
      BY <2>1
    <3>3. QED
      BY <3>1, <3>2, <2>1, <1>4
  <2>6. Path(m, h)
    BY <2>5
  <2>7. QED
    BY <2>4, <2>6
<1>5. QED
  BY <1>3, <1>4

(***************************************************************************)
(* The list of a sieve.                                                    *)
(***************************************************************************)
Distinct(o) == \A i, j \in 1..Len(o) : o[i] = o[j] => i = j

\* The sequence o is what the links of the sieve s say.
IsList(s, o) ==
  /\ o \in Seq(Key) /\ Distinct(o)
  /\ s.nodes = {o[i] : i \in 1..Len(o)}
  /\ s.head = IF o = <<>> THEN null ELSE o[1]
  /\ s.tail = IF o = <<>> THEN null ELSE o[Len(o)]
  /\ s.hand \in s.nodes \cup {null}
  /\ \A i \in 1..Len(o) :
       /\ s.prev[o[i]] = IF i = 1 THEN null ELSE o[i - 1]
       /\ s.next[o[i]] = IF i = Len(o) THEN null ELSE o[i + 1]

Sound(s) == s \in SieveState /\ \E o \in Seq(Key) : IsList(s, o)

LEMMA ListFacts ==
  ASSUME NEW s, NEW o, IsList(s, o)
  PROVE  /\ Len(o) \in Nat
         /\ o \in [1..Len(o) -> Key]
         /\ \A i \in 1..Len(o) : o[i] \in Key /\ o[i] # null /\ o[i] \in s.nodes
         /\ \A k \in s.nodes : \E i \in 1..Len(o) : k = o[i]
         /\ null \notin s.nodes
<1>1. Len(o) \in Nat /\ o \in [1..Len(o) -> Key]
  BY LenProperties DEF IsList
<1>2. QED
  BY <1>1, NullAssumption DEF IsList

\* A list has as many nodes as it has places.
LEMMA ListSize ==
  ASSUME NEW s, NEW o, IsList(s, o)
  PROVE  IsFiniteSet(s.nodes) /\ Size(s) = Len(o)
<1>1. Len(o) \in Nat /\ o \in [1..Len(o) -> Key]
  BY ListFacts
<1>2. o \in Bijection(1..Len(o), s.nodes)
  <2>1. o \in [1..Len(o) -> s.nodes]
    BY <1>1 DEF IsList
  <2>2. \A k \in s.nodes : \E i \in 1..Len(o) : o[i] = k
    BY DEF IsList
  <2>3. \A i, j \in 1..Len(o) : o[i] = o[j] => i = j
    BY DEF IsList, Distinct
  <2>4. QED
    BY <2>1, <2>2, <2>3 DEF Bijection, Injection, IsInjective, Surjection
<1>3. IsFiniteSet(1..Len(o)) /\ Cardinality(1..Len(o)) = Len(o)
  BY <1>1, FS_Interval
<1>4. QED
  BY <1>2, <1>3, FS_Bijection DEF ExistsBijection, Size

\* Reading the links from the head gives the list.
LEMMA ReadAlong ==
  ASSUME NEW s, NEW o, IsList(s, o)
  PROVE  ListOrder(s) = o
<1> DEFINE n == Len(o)
           F(f, i) == IF i = 1 THEN s.head
                      ELSE IF f[i - 1] = null THEN null ELSE s.next[f[i - 1]]
           at == ListOrder(s)
<1>1. n \in Nat /\ o \in [1..n -> Key] /\ \A i \in 1..n : o[i] # null
  BY ListFacts
<1>2. n = Size(s)
  BY ListSize
<1>3. o = [i \in 1..n |-> F(o, i)]
  <2>1. \A i \in 1..n : o[i] = F(o, i)
    <3> TAKE i \in 1..n
    <3>1. CASE i = 1
      <4>1. o # <<>>
        BY <1>1
      <4>2. QED
        BY <3>1, <4>1 DEF IsList
    <3>2. CASE i # 1
      <4>1. i - 1 \in 1..n /\ (i - 1) + 1 = i /\ i - 1 # n
        BY <1>1, <3>2
      <4>2. s.next[o[i - 1]] = o[i]
        BY <4>1 DEF IsList
      <4>3. QED
        BY <1>1, <3>2, <4>1, <4>2
    <3>3. QED
      BY <3>1, <3>2
  <2>2. QED
    BY <1>1, <2>1
<1>4. at = [i \in 1..n |-> F(at, i)]
  BY <1>2, <1>3 DEF ListOrder
<1> HIDE DEF at
<1> DEFINE Differs == {i \in 1..n : at[i] # o[i]}
<1>5. Differs = {}
  <2>1. SUFFICES ASSUME Differs # {} PROVE FALSE
    OBVIOUS
  <2> Differs \subseteq Nat
    BY <1>1
  <2>2. PICK i \in Differs : \A j \in Differs : i <= j
    <3> HIDE DEF Differs
    <3>1. QED
      BY <2>1, LeastNumber
  <2>3. at[i] = F(at, i) /\ o[i] = F(o, i)
    BY <1>3, <1>4
  <2>4. CASE i = 1
    BY <2>2, <2>3, <2>4
  <2>5. CASE i # 1
    <3>1. i - 1 \in 1..n /\ i - 1 \notin Differs
      BY <1>1, <2>2, <2>5
    <3>2. QED
      BY <2>2, <2>3, <2>5, <3>1
  <2>6. QED
    BY <2>4, <2>5
<1>6. DOMAIN at = 1..n
  BY <1>4
<1>7. at = o
  <2>1. \A i \in 1..n : at[i] = o[i]
    BY <1>5
  <2>2. o = [i \in 1..n |-> o[i]] /\ at = [i \in 1..n |-> at[i]]
    BY <1>1, <1>4
  <2>3. QED
    BY <2>1, <2>2
<1>8. QED
  BY <1>7 DEF at

(***************************************************************************)
(* What each method of the sieve makes of the list.                        *)
(***************************************************************************)
LEMMA AccessKeepsList ==
  ASSUME NEW s \in SieveState, NEW o, IsList(s, o), NEW k \in Key
  PROVE  /\ access(s, k) \in SieveState
         /\ access(s, k).nodes = s.nodes
         /\ IsList(access(s, k), o)
BY DEF access, SieveState, IsList

\* A key that is new goes to the end.
LEMMA InsertAppends ==
  ASSUME NEW s \in SieveState, NEW o, IsList(s, o), NEW k \in Key, k \notin s.nodes
  PROVE  /\ insert(s, k) \in SieveState
         /\ insert(s, k).nodes = s.nodes \cup {k}
         /\ IsList(insert(s, k), Append(o, k))
<1> DEFINE t == insert(s, k)
           q == Append(o, k)
           n == Len(o)
<1>1. n \in Nat /\ o \in Seq(Key) /\ \A i \in 1..n : o[i] \in Key /\ o[i] \in s.nodes
  BY ListFacts DEF IsList
<1>2. q \in Seq(Key) /\ Len(q) = n + 1 /\ q # <<>> /\ q[n + 1] = k /\ \A i \in 1..n : q[i] = o[i]
  BY <1>1, AppendProperties
<1>3. k # null /\ s.tail \in Key \cup {null}
  BY NullAssumption DEF SieveState, Link
<1>4. /\ t.nodes = s.nodes \cup {k}
      /\ t.head = IF s.tail = null THEN k ELSE s.head
      /\ t.tail = k
      /\ t.hand = s.hand
      /\ t.next = [m \in Key |-> IF m = s.tail THEN k ELSE IF m = k THEN null ELSE s.next[m]]
      /\ t.prev = [s.prev EXCEPT ![k] = s.tail]
      /\ t.visited = [s.visited EXCEPT ![k] = FALSE]
  BY DEF insert, SieveState
<1>5. t \in SieveState
  BY <1>3 DEF insert, SieveState, Link
<1>6. s.tail = IF n = 0 THEN null ELSE o[n]
  BY <1>1, EmptySeq DEF IsList
<1>7. s.head = IF n = 0 THEN null ELSE o[1]
  BY <1>1, EmptySeq DEF IsList
<1> HIDE DEF t, q
<1>8. t.nodes = {q[i] : i \in 1..Len(q)}
  <2>1. s.nodes = {o[i] : i \in 1..n}
    BY DEF IsList
  <2>2. \A i \in 1..n + 1 : i \in 1..n \/ i = n + 1
    BY <1>1
  <2>3. \A i \in 1..n : i \in 1..n + 1
    BY <1>1
  <2>4. n + 1 \in 1..n + 1
    BY <1>1
  <2>5. QED
    BY <1>2, <1>4, <2>1, <2>2, <2>3, <2>4
<1>9. Distinct(q)
  <2> SUFFICES ASSUME NEW i \in 1..n + 1, NEW j \in 1..n + 1, q[i] = q[j] PROVE i = j
    BY <1>2 DEF Distinct
  <2>1. \A m \in 1..n : o[m] # k
    BY <1>1
  <2>2. /\ i \in 1..n => q[i] = o[i] /\ q[i] # k
        /\ j \in 1..n => q[j] = o[j] /\ q[j] # k
    BY <1>2, <2>1
  <2>3. /\ i \in 1..n \/ i = n + 1
        /\ j \in 1..n \/ j = n + 1
    BY <1>1
  <2>4. i \in 1..n /\ j \in 1..n => i = j
    BY <2>2 DEF IsList, Distinct
  <2>5. QED
    BY <1>2, <2>2, <2>3, <2>4
<1>10. t.head = q[1] /\ t.tail = q[Len(q)]
  BY <1>1, <1>2, <1>3, <1>4, <1>6, <1>7, NullAssumption
<1>11. \A i \in 1..n + 1 : /\ t.prev[q[i]] = IF i = 1 THEN null ELSE q[i - 1]
                           /\ t.next[q[i]] = IF i = n + 1 THEN null ELSE q[i + 1]
  <2> TAKE i \in 1..n + 1
  <2>1. CASE i = n + 1
    <3>1. k \in DOMAIN s.prev /\ k # s.tail
      BY <1>1, <1>3, <1>6 DEF SieveState
    <3>2. QED
      BY <1>1, <1>2, <1>4, <1>6, <2>1, <3>1
  <2>2. CASE i \in 1..n
    <3>1. o[i] # k /\ o[i] \in Key
      BY <1>1, <2>2
    <3>2. t.prev[o[i]] = s.prev[o[i]]
      BY <1>4, <3>1 DEF SieveState
    <3>3. s.prev[o[i]] = IF i = 1 THEN null ELSE o[i - 1]
      BY <2>2 DEF IsList
    <3>4. t.next[o[i]] = IF i = n THEN k ELSE s.next[o[i]]
      <4>1. o[i] = s.tail <=> i = n
        BY <1>1, <1>6, <2>2 DEF IsList, Distinct
      <4>2. QED
        BY <1>4, <3>1, <4>1
    <3>5. s.next[o[i]] = IF i = n THEN null ELSE o[i + 1]
      BY <2>2 DEF IsList
    <3>6. i # 1 => i - 1 \in 1..n
      BY <1>1, <2>2
    <3>7. i # n => i + 1 \in 1..n
      BY <1>1, <2>2
    <3>8. i # n + 1
      BY <1>1, <2>2
    <3>9. QED
      BY <1>2, <2>2, <3>2, <3>3, <3>4, <3>5, <3>6, <3>7, <3>8
  <2>3. QED
    BY <1>1, <2>1, <2>2
<1>12. t.hand \in t.nodes \cup {null}
  BY <1>4 DEF IsList
<1>13. IsList(t, q)
  BY <1>2, <1>8, <1>9, <1>10, <1>11, <1>12 DEF IsList
<1>14. QED
  BY <1>4, <1>5, <1>13 DEF t, q

\* The sequence o without its place p.
WithoutPlace(o, p) == SubSeq(o, 1, p - 1) \o SubSeq(o, p + 1, Len(o))

LEMMA WithoutPlaceFacts ==
  ASSUME NEW o \in Seq(Key), NEW p \in 1..Len(o)
  PROVE  /\ WithoutPlace(o, p) \in Seq(Key)
         /\ Len(WithoutPlace(o, p)) = Len(o) - 1
         /\ \A i \in 1..Len(o) - 1 :
              WithoutPlace(o, p)[i] = IF i < p THEN o[i] ELSE o[i + 1]
<1> DEFINE n == Len(o)
           a == SubSeq(o, 1, p - 1)
           b == SubSeq(o, p + 1, n)
<1>1. n \in Nat /\ p \in 1..n /\ \A i \in 1..n : o[i] \in Key
  BY LenProperties
<1>2. a \in Seq(Key) /\ Len(a) = p - 1 /\ \A i \in 1..p - 1 : a[i] = o[i]
  <2>1. \A i \in 1..p - 1 : o[i] \in Key
    BY <1>1
  <2>2. p - 1 \in Int /\ 1 \in Int
    BY <1>1
  <2>3. /\ a \in Seq(Key)
        /\ Len(a) = IF 1 <= p - 1 THEN (p - 1) - 1 + 1 ELSE 0
        /\ \A i \in 1..(p - 1) - 1 + 1 : a[i] = o[1 + i - 1]
    BY <2>1, <2>2, SubSeqProperties
  <2>4. QED
    BY <1>1, <2>3
<1>3. b \in Seq(Key) /\ Len(b) = n - p /\ \A i \in 1..n - p : b[i] = o[p + i]
  <2>1. \A i \in p + 1..n : o[i] \in Key
    BY <1>1
  <2>2. p + 1 \in Int /\ n \in Int
    BY <1>1
  <2>3. /\ b \in Seq(Key)
        /\ Len(b) = IF p + 1 <= n THEN n - (p + 1) + 1 ELSE 0
        /\ \A i \in 1..n - (p + 1) + 1 : b[i] = o[p + 1 + i - 1]
    BY <2>1, <2>2, SubSeqProperties
  <2>4. QED
    BY <1>1, <2>3
<1> HIDE DEF a, b
<1>4. /\ a \o b \in Seq(Key)
      /\ Len(a \o b) = Len(a) + Len(b)
      /\ \A i \in 1..Len(a) + Len(b) : (a \o b)[i] = IF i <= Len(a) THEN a[i] ELSE b[i - Len(a)]
  BY <1>2, <1>3, ConcatProperties
<1>5. \A i \in 1..n - 1 : (a \o b)[i] = IF i < p THEN o[i] ELSE o[i + 1]
  <2> TAKE i \in 1..n - 1
  <2>1. CASE i < p
    BY <1>1, <1>2, <1>3, <1>4, <2>1
  <2>2. CASE ~(i < p)
    <3>1. i - (p - 1) \in 1..n - p /\ p + (i - (p - 1)) = i + 1 /\ ~(i <= p - 1)
      BY <1>1, <2>2
    <3>2. (a \o b)[i] = b[i - (p - 1)]
      <4>1. i \in 1..Len(a) + Len(b)
        BY <1>1, <1>2, <1>3
      <4>2. QED
        BY <1>2, <1>4, <3>1, <4>1
    <3>3. b[i - (p - 1)] = o[i + 1]
      BY <1>3, <3>1
    <3>4. QED
      BY <2>2, <3>2, <3>3
  <2>3. QED
    BY <2>1, <2>2
<1>6. Len(a \o b) = n - 1
  BY <1>1, <1>2, <1>3, <1>4
<1>7. WithoutPlace(o, p) = a \o b
  BY DEF WithoutPlace, a, b
<1>8. QED
  BY <1>4, <1>5, <1>6, <1>7

\* A node goes from wherever it is, and the hand, if it is on it, to another.
LEMMA RemoveTakesOut ==
  ASSUME NEW s \in SieveState, NEW o, IsList(s, o), NEW p \in 1..Len(o)
  PROVE  /\ remove(s, o[p]) \in SieveState
         /\ remove(s, o[p]).nodes = s.nodes \ {o[p]}
         /\ IsList(remove(s, o[p]), WithoutPlace(o, p))
<1> DEFINE n == Len(o)
           k == o[p]
           t == remove(s, k)
           q == WithoutPlace(o, p)
<1>1. /\ n \in Nat /\ p \in 1..n /\ k \in Key /\ k \in s.nodes
      /\ \A i \in 1..n : o[i] \in Key /\ o[i] \in s.nodes /\ o[i] # null
      /\ \A i, j \in 1..n : o[i] = o[j] => i = j
  <2>1. n \in Nat /\ \A i \in 1..n : o[i] \in Key /\ o[i] # null /\ o[i] \in s.nodes
    BY ListFacts
  <2>2. Distinct(o)
    BY DEF IsList
  <2>3. \A i, j \in 1..n : o[i] = o[j] => i = j
    BY <2>2 DEF Distinct
  <2>4. QED
    BY <2>1, <2>3
<1>2. q \in Seq(Key) /\ Len(q) = n - 1 /\ \A i \in 1..n - 1 : q[i] = IF i < p THEN o[i] ELSE o[i + 1]
  BY WithoutPlaceFacts DEF IsList
<1>3. /\ s.prev[k] = IF p = 1 THEN null ELSE o[p - 1]
      /\ s.next[k] = IF p = n THEN null ELSE o[p + 1]
      /\ p # 1 => p - 1 \in 1..n
      /\ p # n => p + 1 \in 1..n
  <2>1. \A i \in 1..n : /\ s.prev[o[i]] = IF i = 1 THEN null ELSE o[i - 1]
                        /\ s.next[o[i]] = IF i = n THEN null ELSE o[i + 1]
    BY DEF IsList
  <2>2. /\ p # 1 => p - 1 \in 1..n
        /\ p # n => p + 1 \in 1..n
    BY <1>1
  <2>3. QED
    BY <1>1, <2>1, <2>2
<1>4. s.head = o[1] /\ s.tail = o[n] /\ 1 \in 1..n /\ n \in 1..n
  BY <1>1, EmptySeq DEF IsList
<1>5. /\ t.nodes = s.nodes \ {k}
      /\ t.hand = handAfter(s, k)
      /\ t.head = IF s.prev[k] = null THEN s.next[k] ELSE s.head
      /\ t.tail = IF s.next[k] = null THEN s.prev[k] ELSE s.tail
      /\ t.next = [m \in Key |-> IF m = k THEN null
                                 ELSE IF m = s.prev[k] THEN s.next[k] ELSE s.next[m]]
      /\ t.prev = [m \in Key |-> IF m = k THEN null
                                 ELSE IF m = s.next[k] THEN s.prev[k] ELSE s.prev[m]]
      /\ t.visited = s.visited
  BY DEF remove, SieveState
<1>6. s.next[k] \in s.nodes \cup {null} /\ s.prev[k] \in s.nodes \cup {null}
  BY <1>1, <1>3
<1>7. t.hand \in t.nodes \cup {null}
  <2>1. CASE s.hand # k
    BY <1>5, <2>1 DEF handAfter, IsList
  <2>2. CASE s.hand = k
    <3>1. After(s, k) \in s.nodes
      BY <1>1, <1>4, <1>6 DEF After
    <3>2. QED
      BY <1>5, <2>2, <3>1 DEF handAfter
  <2>3. QED
    BY <2>1, <2>2
<1>8. t \in SieveState
  <2>1. t.hand \in Link
    BY <1>5, <1>7 DEF SieveState, Link
  <2>2. s.next[k] \in Link /\ s.prev[k] \in Link
    BY <1>1 DEF SieveState
  <2>3. handAfter(s, k) \in Link
    BY <1>5, <2>1
  <2>4. null \in Link
    BY DEF Link
  <2>5. QED
    BY <2>2, <2>3, <2>4 DEF remove, SieveState
<1> HIDE DEF t, q
<1>9. t.nodes = {q[i] : i \in 1..Len(q)}
  <2>1. ASSUME NEW i \in 1..n - 1 PROVE q[i] \in t.nodes
    BY <1>1, <1>2, <1>5, <2>1
  <2>2. ASSUME NEW m \in t.nodes PROVE \E i \in 1..n - 1 : m = q[i]
    <3>1. PICK j \in 1..n : m = o[j]
      BY <1>5 DEF IsList
    <3>2. j # p
      BY <1>5, <3>1
    <3>3. CASE j < p
      <4>1. j \in 1..n - 1 /\ q[j] = o[j]
        BY <1>1, <1>2, <3>3
      <4>2. QED
        BY <3>1, <4>1
    <3>4. CASE j > p
      <4>1. j - 1 \in 1..n - 1 /\ ~(j - 1 < p) /\ (j - 1) + 1 = j
        BY <1>1, <3>4
      <4>2. q[j - 1] = o[j]
        BY <1>2, <4>1
      <4>3. QED
        BY <3>1, <4>1, <4>2
    <3>5. QED
      BY <1>1, <3>2, <3>3, <3>4
  <2>3. QED
    BY <1>2, <2>1, <2>2
<1>10. Distinct(q)
  <2> SUFFICES ASSUME NEW i \in 1..n - 1, NEW j \in 1..n - 1, q[i] = q[j] PROVE i = j
    BY <1>2 DEF Distinct
  <2> DEFINE place(m) == IF m < p THEN m ELSE m + 1
  <2>1. place(i) \in 1..n /\ place(j) \in 1..n /\ (place(i) = place(j) => i = j)
    BY <1>1
  <2>2. q[i] = o[place(i)] /\ q[j] = o[place(j)]
    BY <1>2
  <2> HIDE DEF place
  <2>3. QED
    BY <1>1, <2>1, <2>2
<1>11. /\ t.head = IF q = <<>> THEN null ELSE q[1]
       /\ t.tail = IF q = <<>> THEN null ELSE q[Len(q)]
  <2>1. q = <<>> <=> n = 1
    BY <1>1, <1>2, EmptySeq
  <2>2. CASE n = 1
    BY <1>1, <1>3, <1>5, <2>1, <2>2
  <2>3. CASE n # 1
    <3>1. q[1] = IF p = 1 THEN o[2] ELSE o[1]
      BY <1>1, <1>2, <2>3
    <3>2. q[n - 1] = IF p = n THEN o[n - 1] ELSE o[n]
      BY <1>1, <1>2, <2>3
    <3>3. t.head = IF p = 1 THEN o[2] ELSE o[1]
      <4>1. CASE p = 1
        BY <1>1, <1>3, <1>5, <2>3, <4>1
      <4>2. CASE p # 1
        <5>1. s.prev[k] # null
          BY <1>1, <1>3, <4>2
        <5>2. QED
          BY <1>4, <1>5, <4>2, <5>1
      <4>3. QED
        BY <4>1, <4>2
    <3>4. t.tail = IF p = n THEN o[n - 1] ELSE o[n]
      BY <1>1, <1>3, <1>4, <1>5, <2>3
    <3>5. QED
      BY <1>2, <2>1, <2>3, <3>1, <3>2, <3>3, <3>4
  <2>4. QED
    BY <2>2, <2>3
<1>12. ASSUME NEW i \in 1..n - 1
       PROVE  /\ t.prev[q[i]] = IF i = 1 THEN null ELSE q[i - 1]
              /\ t.next[q[i]] = IF i = n - 1 THEN null ELSE q[i + 1]
  <2>1. CASE i < p
    <3>0. /\ i \in 1..n /\ i + 1 \in 1..n /\ i # p
          /\ p # n => p + 1 \in 1..n
      BY <1>1, <2>1
    <3>1. /\ i \in 1..n /\ q[i] = o[i] /\ o[i] # k /\ o[i] \in Key
          /\ i + 1 \in 1..n /\ (p # n => p + 1 \in 1..n)
      BY <1>1, <1>2, <2>1, <3>0
    <3>2. o[i] # s.next[k]
      BY <1>1, <1>3, <2>1, <3>1
    <3>3. t.prev[q[i]] = s.prev[o[i]]
      BY <1>5, <3>1, <3>2
    <3>4. s.prev[o[i]] = IF i = 1 THEN null ELSE o[i - 1]
      BY <3>1 DEF IsList
    <3>5. i # 1 => q[i - 1] = o[i - 1]
      BY <1>1, <1>2, <2>1
    <3>6. o[i] = s.prev[k] <=> i = p - 1
      BY <1>1, <1>3, <2>1, <3>1
    <3>7. t.next[q[i]] = IF i = p - 1 THEN s.next[k] ELSE s.next[o[i]]
      BY <1>5, <3>1, <3>6
    <3>8. s.next[o[i]] = IF i = n THEN null ELSE o[i + 1]
      BY <3>1 DEF IsList
    <3>9. i # n - 1 => q[i + 1] = IF i = p - 1 THEN o[p + 1] ELSE o[i + 1]
      BY <1>1, <1>2, <2>1
    <3>10. t.next[q[i]] = IF i = n - 1 THEN null ELSE q[i + 1]
      BY <1>1, <1>3, <2>1, <3>7, <3>8, <3>9
    <3>11. QED
      BY <3>3, <3>4, <3>5, <3>10
  <2>2. CASE ~(i < p)
    <3>1. /\ i + 1 \in 1..n /\ q[i] = o[i + 1] /\ o[i + 1] # k /\ o[i + 1] \in Key
          /\ i + 1 # p
      BY <1>1, <1>2, <2>2
    <3>2. o[i + 1] # s.prev[k]
      BY <1>1, <1>3, <2>2, <3>1
    <3>3. t.next[q[i]] = s.next[o[i + 1]]
      BY <1>5, <3>1, <3>2
    <3>4. s.next[o[i + 1]] = IF i + 1 = n THEN null ELSE o[i + 2]
      BY <1>1, <3>1 DEF IsList
    <3>5. i # n - 1 => q[i + 1] = o[i + 2]
      BY <1>1, <1>2, <2>2
    <3>6. o[i + 1] = s.next[k] <=> i = p
      BY <1>1, <1>3, <2>2, <3>1
    <3>7. t.prev[q[i]] = IF i = p THEN s.prev[k] ELSE s.prev[o[i + 1]]
      BY <1>5, <3>1, <3>6
    <3>8. s.prev[o[i + 1]] = o[i]
      BY <1>1, <3>1 DEF IsList
    <3>9. i # 1 => q[i - 1] = IF i = p THEN o[p - 1] ELSE o[i]
      BY <1>1, <1>2, <2>2
    <3>10. t.prev[q[i]] = IF i = 1 THEN null ELSE q[i - 1]
      BY <1>1, <1>3, <2>2, <3>7, <3>8, <3>9
    <3>11. QED
      BY <1>1, <3>3, <3>4, <3>5, <3>10
  <2>3. QED
    BY <2>1, <2>2
<1>13. IsList(t, q)
  BY <1>2, <1>7, <1>9, <1>10, <1>11, <1>12 DEF IsList
<1>14. QED
  BY <1>5, <1>8, <1>13 DEF t, q

(***************************************************************************)
(* The loop of evict.                                                      *)
(***************************************************************************)
\* The successor of a node is a node.
LEMMA AfterIsNode ==
  ASSUME NEW s, NEW o, IsList(s, o), NEW k \in s.nodes
  PROVE  After(s, k) \in s.nodes
<1>1. PICK i \in 1..Len(o) : k = o[i]
  BY ListFacts
<1>2. Len(o) \in Nat /\ 1 \in 1..Len(o) /\ o # <<>> /\ \A j \in 1..Len(o) : o[j] \in s.nodes
  BY <1>1, ListFacts
<1>3. s.head \in s.nodes
  BY <1>2 DEF IsList
<1>4. CASE i = Len(o)
  BY <1>1, <1>3, <1>4 DEF After, IsList
<1>5. CASE i # Len(o)
  <2>1. i + 1 \in 1..Len(o) /\ s.next[k] = o[i + 1]
    BY <1>1, <1>2, <1>5 DEF IsList
  <2>2. QED
    BY <1>2, <2>1, ListFacts DEF After
<1>6. QED
  BY <1>4, <1>5

\* The hand goes from node to node.
LEMMA HandTravels ==
  ASSUME NEW s, NEW o, IsList(s, o), s.nodes # {}
  PROVE  /\ MaxIter(s) \in Nat
         /\ HandAt(s) \in [0..MaxIter(s) -> s.nodes]
         /\ HandAt(s)[0] = IF s.hand = null THEN s.head ELSE s.hand
         /\ \A i \in 1..MaxIter(s) : HandAt(s)[i] = After(s, HandAt(s)[i - 1])
<1> DEFINE n == MaxIter(s)
           a == IF s.hand = null THEN s.head ELSE s.hand
           g == [i \in 1..n |-> [k \in s.nodes |-> After(s, k)]]
           at == HandAt(s)
<1>1. n \in Nat
  BY ListSize, ListFacts DEF MaxIter, Size
<1>2. a \in s.nodes
  <2>1. PICK k \in s.nodes : TRUE
    OBVIOUS
  <2>2. PICK i \in 1..Len(o) : k = o[i]
    BY ListFacts
  <2>3. Len(o) \in Nat /\ 1 \in 1..Len(o) /\ o # <<>>
    BY <2>2, ListFacts
  <2>4. s.head \in s.nodes
    BY <2>3 DEF IsList
  <2>5. QED
    BY <2>4 DEF IsList
<1>3. g \in Steps(s.nodes, n)
  BY AfterIsNode DEF Steps
<1> HIDE DEF n, a, g
<1>4. PICK f \in [0..n -> s.nodes] :
        \A i \in 0..n : f[i] = IF i = 0 THEN a ELSE g[i][f[i - 1]]
  <2>1. Paths(s.nodes, a, n, g) # {}
    BY <1>1, <1>2, <1>3, PathExists
  <2>2. QED
    BY <2>1 DEF Paths
<1>5. f = [i \in 0..n |-> IF i = 0 THEN a ELSE After(s, f[i - 1])]
  <2>1. \A i \in 0..n : f[i] = IF i = 0 THEN a ELSE g[i][f[i - 1]]
    BY <1>4
  <2>2. \A i \in 0..n : i # 0 => i \in 1..n /\ i - 1 \in 0..n
    BY <1>1
  <2>3. \A i \in 0..n : f[i] = IF i = 0 THEN a ELSE After(s, f[i - 1])
    BY <2>1, <2>2 DEF g
  <2>4. QED
    BY <1>4, <2>3
<1>6. at = [i \in 0..n |-> IF i = 0 THEN a ELSE After(s, at[i - 1])]
  BY <1>5 DEF HandAt, n, a
<1> HIDE DEF at
<1>7. \A i \in 0..n : at[i] = IF i = 0 THEN a ELSE After(s, at[i - 1])
  BY <1>6
<1> DEFINE Off == {i \in 0..n : at[i] \notin s.nodes}
<1>8. Off = {}
  <2>1. SUFFICES ASSUME Off # {} PROVE FALSE
    OBVIOUS
  <2> Off \subseteq Nat
    BY <1>1
  <2>2. PICK i \in Off : \A j \in Off : i <= j
    <3> HIDE DEF Off
    <3>1. QED
      BY <2>1, LeastNumber
  <2>3. i # 0
    BY <1>2, <1>7, <2>2
  <2>4. i - 1 \in 0..n /\ i - 1 \notin Off
    BY <1>1, <2>2, <2>3
  <2>5. at[i] \in s.nodes
    BY <1>7, <2>2, <2>3, <2>4, AfterIsNode
  <2>6. QED
    BY <2>2, <2>5
<1>9. at \in [0..n -> s.nodes]
  BY <1>6, <1>8
<1>10. at[0] = a /\ \A i \in 1..n : at[i] = After(s, at[i - 1])
  BY <1>1, <1>7
<1>11. QED
  BY <1>1, <1>9, <1>10 DEF at, n, a

\* The loop ends.
LEMMA LoopEnds ==
  ASSUME NEW s, NEW at, MaxIter(s) \in Nat
  PROVE  LET n == LastRound(s, at)
         IN  /\ n \in 0..MaxIter(s)
             /\ n = MaxIter(s) \/ ~StillVisited(s, at, n)
             /\ \A j \in 0..(n - 1) : StillVisited(s, at, j)
<1> DEFINE m == MaxIter(s)
           Ends(i) == i = m \/ ~StillVisited(s, at, i)
           Rounds == {i \in 0..m : Ends(i)}
<1> HIDE DEF m
<1>1. m \in Rounds /\ Rounds \subseteq Nat
  BY DEF m
<1>2. PICK i \in Rounds : \A j \in Rounds : i <= j
  <2> HIDE DEF Rounds
  <2>1. QED
    BY <1>1, LeastNumber
<1>3. \A j \in 0..(i - 1) : StillVisited(s, at, j)
  <2> TAKE j \in 0..(i - 1)
  <2>1. j \in 0..m /\ ~(i <= j) /\ j # m
    BY <1>2 DEF m
  <2>2. QED
    BY <1>2, <2>1
<1>4. \E n \in 0..m : Ends(n) /\ \A j \in 0..(n - 1) : StillVisited(s, at, j)
  BY <1>2, <1>3
<1>5. QED
  BY <1>4 DEF LastRound, m

\* evict takes a node out of a list that has one.
LEMMA EvictTakesOut ==
  ASSUME NEW s \in SieveState, NEW o, IsList(s, o), s.nodes # {}
  PROVE  /\ evict(s).key \in s.nodes
         /\ evict(s).sieve \in SieveState
         /\ evict(s).sieve.nodes = s.nodes \ {evict(s).key}
         /\ \E p \in 1..Len(o) : /\ evict(s).key = o[p]
                                 /\ IsList(evict(s).sieve, WithoutPlace(o, p))
<1> DEFINE at == HandAt(s)
           n == LastRound(s, at)
           k == at[n]
           bits == clear(s, {at[j] : j \in 0..(n - 1)})
           moved == [s EXCEPT !.hand = k, !.visited = bits]
<1>1. n \in 0..MaxIter(s)
  BY HandTravels, LoopEnds
<1>2. k \in s.nodes
  BY <1>1, HandTravels
<1>3. k \in Key
  BY <1>2 DEF SieveState
<1>4. bits \in [Key -> BOOLEAN]
  BY DEF clear
<1>5. evict(s) = [key |-> k, sieve |-> remove(moved, k)]
  BY DEF evict
<1> HIDE DEF k, bits
<1>6. moved \in SieveState
  BY <1>3, <1>4 DEF SieveState, Link
<1>7. /\ moved.nodes = s.nodes /\ moved.hand = k
      /\ moved.head = s.head /\ moved.tail = s.tail
      /\ moved.next = s.next /\ moved.prev = s.prev
  BY DEF SieveState
<1> HIDE DEF moved
<1>8. IsList(moved, o)
  BY <1>2, <1>7 DEF IsList
<1>9. PICK p \in 1..Len(o) : k = o[p]
  BY <1>2, ListFacts
<1>10. /\ remove(moved, k) \in SieveState
       /\ remove(moved, k).nodes = s.nodes \ {k}
       /\ IsList(remove(moved, k), WithoutPlace(o, p))
  BY <1>6, <1>7, <1>8, <1>9, RemoveTakesOut
<1>11. evict(s).key = k /\ evict(s).sieve = remove(moved, k)
  BY <1>5
<1>12. QED
  BY <1>2, <1>9, <1>10, <1>11

(***************************************************************************)
(* The methods of a sound sieve.                                           *)
(***************************************************************************)
LEMMA SoundEmpty == Sound(emptySieve) /\ emptySieve.nodes = {}
<1>1. emptySieve \in SieveState
  BY DEF emptySieve, SieveState, Link
<1>2. IsList(emptySieve, <<>>)
  BY DEF emptySieve, IsList, Distinct
<1>3. QED
  BY <1>1, <1>2 DEF Sound, IsList, emptySieve

LEMMA SoundAccess ==
  ASSUME NEW s, Sound(s), NEW k \in Key
  PROVE  Sound(access(s, k)) /\ access(s, k).nodes = s.nodes
BY AccessKeepsList DEF Sound

LEMMA SoundInsert ==
  ASSUME NEW s, Sound(s), NEW k \in Key
  PROVE  Sound(insert(s, k)) /\ insert(s, k).nodes = s.nodes \cup {k}
<1>1. PICK o \in Seq(Key) : IsList(s, o)
  BY DEF Sound
<1>2. CASE k \in s.nodes
  BY <1>2, SoundAccess DEF insert
<1>3. CASE k \notin s.nodes
  <2>1. /\ insert(s, k) \in SieveState
        /\ insert(s, k).nodes = s.nodes \cup {k}
        /\ IsList(insert(s, k), Append(o, k))
    BY <1>1, <1>3, InsertAppends DEF Sound
  <2>2. Append(o, k) \in Seq(Key)
    BY <2>1 DEF IsList
  <2>3. QED
    BY <2>1, <2>2 DEF Sound
<1>4. QED
  BY <1>2, <1>3

LEMMA SoundDelete ==
  ASSUME NEW s, Sound(s), NEW k \in Key
  PROVE  Sound(delete(s, k)) /\ delete(s, k).nodes = s.nodes \ {k}
<1>1. PICK o \in Seq(Key) : IsList(s, o)
  BY DEF Sound
<1>2. CASE k \notin s.nodes
  BY <1>2 DEF delete
<1>3. CASE k \in s.nodes
  <2>1. PICK p \in 1..Len(o) : k = o[p]
    BY <1>1, <1>3, ListFacts
  <2>2. /\ remove(s, k) \in SieveState
        /\ remove(s, k).nodes = s.nodes \ {k}
        /\ IsList(remove(s, k), WithoutPlace(o, p))
    BY <1>1, <2>1, RemoveTakesOut DEF Sound
  <2>3. WithoutPlace(o, p) \in Seq(Key)
    BY <2>2 DEF IsList
  <2>4. QED
    BY <1>3, <2>2, <2>3 DEF Sound, delete
<1>4. QED
  BY <1>2, <1>3

LEMMA SoundEvict ==
  ASSUME NEW s, Sound(s)
  PROVE  /\ Sound(evict(s).sieve)
         /\ s.nodes = {} => evict(s) = [key |-> null, sieve |-> s]
         /\ s.nodes # {} => /\ evict(s).key \in s.nodes
                            /\ evict(s).sieve.nodes = s.nodes \ {evict(s).key}
<1>1. PICK o \in Seq(Key) : IsList(s, o)
  BY DEF Sound
<1>2. CASE s.nodes = {}
  <2>1. evict(s) = [key |-> null, sieve |-> s]
    BY <1>2 DEF evict
  <2>2. QED
    BY <1>2, <2>1
<1>3. CASE s.nodes # {}
  <2>1. PICK p \in 1..Len(o) : IsList(evict(s).sieve, WithoutPlace(o, p))
    BY <1>1, <1>3, EvictTakesOut DEF Sound
  <2>2. WithoutPlace(o, p) \in Seq(Key)
    BY <2>1 DEF IsList
  <2>3. QED
    BY <1>1, <1>3, <2>1, <2>2, EvictTakesOut DEF Sound
<1>4. QED
  BY <1>2, <1>3

LEMMA SoundFinite ==
  ASSUME NEW s, Sound(s)
  PROVE  s \in SieveState /\ s.nodes \subseteq Key /\ IsFiniteSet(s.nodes)
BY ListSize DEF Sound, SieveState

(***************************************************************************)
(* The store between two calls.                                            *)
(***************************************************************************)
\* The store is well typed, its sieve is sound, and both hold the same keys.
Whole(st) ==
  /\ st \in [entries : [Key -> Entry \cup {NoEntry}], sieve : SieveState]
  /\ Sound(st.sieve)
  /\ st.sieve.nodes = Held(st)

LEMMA EntryIsNotNone == NoEntry \notin Entry
BY NoEntryAssumption DEF Entry

LEMMA HeldEntries ==
  ASSUME NEW st, Whole(st), NEW k \in Held(st)
  PROVE  k \in Key /\ st.entries[k] \in Entry
BY DEF Whole, Held

LEMMA HeldIsFinite ==
  ASSUME NEW st, Whole(st)
  PROVE  Held(st) \subseteq Key /\ IsFiniteSet(Held(st)) /\ Cardinality(Held(st)) \in Nat
BY SoundFinite, FS_CardinalityType DEF Whole

\* What makes a store whole again after its map and its sieve have changed.
LEMMA WholeAgain ==
  ASSUME NEW e \in [Key -> Entry \cup {NoEntry}], NEW s, Sound(s),
         s.nodes = {k \in Key : e[k] # NoEntry}
  PROVE  Whole([entries |-> e, sieve |-> s])
BY SoundFinite DEF Whole, Held

LEMMA DropWhole ==
  ASSUME NEW st, Whole(st), NEW k \in Key
  PROVE  /\ Whole(drop(st, k))
         /\ Held(drop(st, k)) = Held(st) \ {k}
         /\ \A w \in Key \ {k} : drop(st, k).entries[w] = st.entries[w]
<1> DEFINE e == [st.entries EXCEPT ![k] = NoEntry]
           s == delete(st.sieve, k)
<1>1. e \in [Key -> Entry \cup {NoEntry}]
  BY DEF Whole
<1>2. {w \in Key : e[w] # NoEntry} = Held(st) \ {k}
  BY DEF Whole, Held
<1>3. Sound(s) /\ s.nodes = Held(st) \ {k}
  BY SoundDelete DEF Whole
<1>4. \A w \in Key \ {k} : e[w] = st.entries[w]
  BY DEF Whole
<1> HIDE DEF e, s
<1>5. Whole([entries |-> e, sieve |-> s])
  BY <1>1, <1>2, <1>3, WholeAgain
<1>6. drop(st, k) = [entries |-> e, sieve |-> s]
  BY DEF drop, e, s
<1>7. QED
  BY <1>2, <1>4, <1>5, <1>6 DEF Held

\* A get takes away the entry that has expired, or counts.
LEMMA GetWhole ==
  ASSUME NEW st, Whole(st), NEW k \in Key
  PROVE  /\ Whole(get(st, k))
         /\ Held(get(st, k)) \subseteq Held(st)
         /\ Held(st) \subseteq Held(get(st, k)) \cup {k}
         /\ \A w \in Key \ {k} : get(st, k).entries[w] = st.entries[w]
         /\ k \notin Held(st) => get(st, k) = st
<1>1. CASE k \notin Held(st)
  BY <1>1 DEF get
<1>2. CASE k \in Held(st) /\ st.entries[k].freshness = "expired"
  <2>1. get(st, k) = drop(st, k)
    BY <1>2 DEF get
  <2>2. QED
    BY <1>2, <2>1, DropWhole
<1>3. CASE k \in Held(st) /\ st.entries[k].freshness # "expired"
  <2> DEFINE was == st.entries[k]
             is == counted(was)
             e == [st.entries EXCEPT ![k] = is]
             s == access(st.sieve, k)
  <2>1. was \in Entry
    BY <1>3, HeldEntries
  <2>2. is \in Entry
    BY <2>1, CostAssumption DEF Entry, counted
  <2> HIDE DEF is
  <2>3. e \in [Key -> Entry \cup {NoEntry}]
    BY <2>2 DEF Whole
  <2>4. {w \in Key : e[w] # NoEntry} = Held(st)
    BY <1>3, <2>2, EntryIsNotNone DEF Whole, Held
  <2>5. Sound(s) /\ s.nodes = Held(st)
    BY SoundAccess DEF Whole
  <2>6. \A w \in Key \ {k} : e[w] = st.entries[w]
    BY DEF Whole
  <2>7. get(st, k) = [entries |-> e, sieve |-> s]
    BY <1>3 DEF get, is, Whole
  <2> HIDE DEF e, s
  <2>8. Whole([entries |-> e, sieve |-> s])
    BY <2>3, <2>4, <2>5, WholeAgain
  <2>9. QED
    BY <1>3, <2>4, <2>6, <2>7, <2>8 DEF Held
<1>4. QED
  BY <1>1, <1>2, <1>3

(***************************************************************************)
(* The eviction of the store.                                              *)
(***************************************************************************)
LEMMA ProductOfNats ==
  ASSUME NEW a \in Nat, NEW b \in Nat
  PROVE  a * b \in Nat
OBVIOUS

LEMMA PriorityIsNat ==
  ASSUME NEW st, Whole(st), NEW k
  PROVE  priority(st, k) \in Nat
<1>1. CASE k \in Held(st)
  <2>1. st.entries[k].accessCount \in Nat /\ st.entries[k].tokenCost \in Nat
    <3>1. st.entries[k] \in Entry
      BY <1>1, HeldEntries
    <3>2. \A e \in Entry : e.accessCount \in 0..MaxCount /\ e.tokenCost \in TokenCost
      BY DEF Entry
    <3>3. 0..MaxCount \subseteq Nat /\ TokenCost \subseteq Nat
      BY CostAssumption
    <3>4. QED
      BY <3>1, <3>2, <3>3
  <2>2. QED
    BY <1>1, <2>1, ProductOfNats DEF priority
<1>2. CASE k \notin Held(st)
  BY <1>2 DEF priority
<1>3. QED
  BY <1>1, <1>2

\* The keys of a sequence.
KeysOf(keys) == {keys[i] : i \in 1..Len(keys)}

\* Up to three candidates, each once, all that there are if they are fewer; the sieve
\* keeps the rest.
LEMMA CandidatesFacts ==
  ASSUME NEW st, Whole(st), Held(st) # {}
  PROVE  LET c == Candidates(st)
         IN  /\ c.keys \in Seq(Key) /\ Len(c.keys) \in 1..3 /\ Distinct(c.keys)
             /\ KeysOf(c.keys) \subseteq Held(st)
             /\ Len(c.keys) = 3 \/ KeysOf(c.keys) = Held(st)
             /\ Sound(c.sieve) /\ c.sieve.nodes = Held(st) \ KeysOf(c.keys)
<1> DEFINE e1 == evict(st.sieve)
           e2 == evict(e1.sieve)
           e3 == evict(e2.sieve)
           asked == <<e1.key, e2.key, e3.key>>
           keys == [i \in {j \in 1..3 : asked[j] # null} |-> asked[i]]
           N == Held(st)
<1>1. Sound(st.sieve) /\ st.sieve.nodes = N /\ N \subseteq Key
  BY HeldIsFinite DEF Whole
<1>2. /\ Sound(e1.sieve) /\ e1.key \in N
      /\ e1.sieve.nodes = N \ {e1.key}
  BY <1>1, SoundEvict
<1>3. /\ Sound(e2.sieve)
      /\ N \ {e1.key} = {} => e2.key = null /\ e2.sieve = e1.sieve
      /\ N \ {e1.key} # {} => /\ e2.key \in N \ {e1.key}
                              /\ e2.sieve.nodes = N \ {e1.key, e2.key}
  <2> HIDE DEF e1
  <2>1. e1.sieve.nodes = {} => e2 = [key |-> null, sieve |-> e1.sieve]
    BY <1>2, SoundEvict
  <2>2. e1.sieve.nodes # {} => /\ e2.key \in e1.sieve.nodes
                               /\ e2.sieve.nodes = e1.sieve.nodes \ {e2.key}
    BY <1>2, SoundEvict
  <2>3. Sound(e2.sieve)
    BY <1>2, SoundEvict
  <2> HIDE DEF e2
  <2>4. QED
    BY <1>2, <2>1, <2>2, <2>3
<1>4. /\ Sound(e3.sieve)
      /\ e2.sieve.nodes = {} => e3.key = null /\ e3.sieve = e2.sieve
      /\ e2.sieve.nodes # {} => /\ e3.key \in e2.sieve.nodes
                                /\ e3.sieve.nodes = e2.sieve.nodes \ {e3.key}
  <2> HIDE DEF e2
  <2>1. e2.sieve.nodes = {} => e3 = [key |-> null, sieve |-> e2.sieve]
    BY <1>3, SoundEvict
  <2>2. QED
    BY <1>3, <2>1, SoundEvict
<1>5. Candidates(st) = [keys |-> keys, sieve |-> e3.sieve]
  BY DEF Candidates
<1> HIDE DEF e1, e2, e3
<1>6. null \notin N
  BY <1>1, NullAssumption
<1>7. CASE N = {e1.key}
  <2>1. e2.key = null /\ e3.key = null /\ e3.sieve = e1.sieve
    BY <1>2, <1>3, <1>4, <1>7
  <2>2. keys = <<e1.key>>
    <3>1. {j \in 1..3 : asked[j] # null} = 1..1
      BY <1>2, <1>6, <2>1
    <3>2. QED
      BY <3>1
  <2> HIDE DEF keys
  <2>3. Len(keys) = 1 /\ keys \in Seq(Key) /\ keys[1] = e1.key
    BY <1>1, <1>2, <2>2
  <2>4. KeysOf(keys) = N /\ Distinct(keys)
    BY <1>7, <2>3 DEF KeysOf, Distinct
  <2>5. QED
    BY <1>2, <1>5, <1>7, <2>1, <2>3, <2>4
<1>8. CASE N # {e1.key} /\ N = {e1.key, e2.key}
  <2>1. /\ e2.key \in N \ {e1.key} /\ e2.sieve.nodes = {}
        /\ e3.key = null /\ e3.sieve = e2.sieve
    BY <1>2, <1>3, <1>4, <1>8
  <2>2. keys = <<e1.key, e2.key>>
    <3>1. {j \in 1..3 : asked[j] # null} = 1..2
      BY <1>2, <1>6, <2>1
    <3>2. QED
      BY <3>1
  <2> HIDE DEF keys
  <2>3. Len(keys) = 2 /\ keys \in Seq(Key) /\ keys[1] = e1.key /\ keys[2] = e2.key
    BY <1>1, <1>2, <2>1, <2>2
  <2>4. KeysOf(keys) = N /\ Distinct(keys)
    BY <1>8, <2>1, <2>3 DEF KeysOf, Distinct
  <2>5. QED
    BY <1>3, <1>5, <2>1, <2>3, <2>4
<1>9. CASE N # {e1.key} /\ N # {e1.key, e2.key}
  <2>1. /\ e2.key \in N \ {e1.key} /\ e2.sieve.nodes = N \ {e1.key, e2.key}
        /\ e3.key \in N \ {e1.key, e2.key}
        /\ e3.sieve.nodes = N \ {e1.key, e2.key, e3.key}
    BY <1>2, <1>3, <1>4, <1>9
  <2>2. keys = <<e1.key, e2.key, e3.key>>
    <3>1. {j \in 1..3 : asked[j] # null} = 1..3
      BY <1>2, <1>6, <2>1
    <3>2. QED
      BY <3>1
  <2> HIDE DEF keys
  <2>3. /\ Len(keys) = 3 /\ keys \in Seq(Key)
        /\ keys[1] = e1.key /\ keys[2] = e2.key /\ keys[3] = e3.key
    BY <1>1, <1>2, <2>1, <2>2
  <2>4. KeysOf(keys) = {e1.key, e2.key, e3.key} /\ Distinct(keys)
    BY <2>1, <2>3 DEF KeysOf, Distinct
  <2>5. QED
    BY <1>2, <1>4, <1>5, <2>1, <2>3, <2>4
<1>10. QED
  BY <1>7, <1>8, <1>9

\* The candidate that goes is one of the candidates, and none is worth less.
LEMMA CheapestIsCheapest ==
  ASSUME NEW st, Whole(st), NEW keys \in Seq(Key), Len(keys) # 0
  PROVE  /\ Cheapest(st, keys) \in KeysOf(keys)
         /\ \A k \in KeysOf(keys) : priority(st, Cheapest(st, keys)) <= priority(st, k)
<1> DEFINE n == Len(keys)
           P(i) == priority(st, keys[i])
           Values == {P(i) : i \in 1..n}
<1>1. n \in Nat /\ \A i \in 1..n : P(i) \in Nat
  BY PriorityIsNat
<1>2. PICK v \in Values : \A w \in Values : v <= w
  <2>1. Values \subseteq Nat
    BY <1>1
  <2>2. P(1) \in Values
    BY <1>1
  <2> HIDE DEF Values
  <2>3. QED
    BY <2>1, <2>2, LeastNumber
<1> DEFINE Least == {i \in 1..n : P(i) = v}
<1>3. PICK i \in Least : \A j \in Least : i <= j
  <2>1. Least \subseteq Nat /\ Least # {}
    BY <1>2
  <2> HIDE DEF Least
  <2>2. QED
    BY <2>1, LeastNumber
<1> HIDE DEF P
<1>4. \A j \in 1..n : P(i) <= P(j)
  BY <1>2, <1>3
<1>5. \A j \in 1..(i - 1) : P(i) < P(j)
  <2> TAKE j \in 1..(i - 1)
  <2>1. j \in 1..n /\ j \notin Least /\ P(j) # P(i)
    BY <1>1, <1>3
  <2>2. i \in 1..n /\ P(i) <= P(j) /\ P(i) \in Nat /\ P(j) \in Nat
    BY <1>1, <1>3, <1>4, <2>1
  <2>3. QED
    BY <2>1, <2>2
<1>6. \E m \in 1..n : /\ \A j \in 1..n : P(m) <= P(j)
                      /\ \A j \in 1..(m - 1) : P(m) < P(j)
  BY <1>3, <1>4, <1>5
<1>7. \E m \in 1..n : Cheapest(st, keys) = keys[m] /\ \A j \in 1..n : P(m) <= P(j)
  BY <1>6 DEF Cheapest, P
<1>8. QED
  BY <1>7 DEF KeysOf, P

\* The candidates that stay go back into the sieve, whatever their order.
LEMMA BackInWhole ==
  ASSUME NEW s, Sound(s), NEW keys \in Seq(Key), NEW best
  PROVE  /\ Sound(BackIn(s, keys, best))
         /\ BackIn(s, keys, best).nodes = s.nodes \cup (KeysOf(keys) \ {best})
<1> DEFINE n == Len(keys)
           S == {x \in SieveState : Sound(x)}
           F(h, i) == IF i = 0 THEN s
                      ELSE IF keys[i] = best THEN h[i - 1] ELSE insert(h[i - 1], keys[i])
           g == [i \in 1..n |-> [x \in S |-> IF keys[i] = best THEN x ELSE insert(x, keys[i])]]
<1>1. n \in Nat /\ \A i \in 1..n : keys[i] \in Key
  OBVIOUS
<1>2. s \in S
  BY DEF Sound
<1>3. \A x \in S, k \in Key : insert(x, k) \in S
  BY SoundInsert DEF Sound
<1>4. g \in Steps(S, n)
  <2> HIDE DEF S
  <2>1. QED
    BY <1>1, <1>3 DEF Steps
<1> HIDE DEF S, n, g
<1>5. PICK f \in [0..n -> S] : \A i \in 0..n : f[i] = IF i = 0 THEN s ELSE g[i][f[i - 1]]
  <2>1. Paths(S, s, n, g) # {}
    BY <1>1, <1>2, <1>4, PathExists
  <2>2. QED
    BY <2>1 DEF Paths
<1>6. f = [i \in 0..n |-> F(f, i)]
  <2>1. \A i \in 0..n : i # 0 => i \in 1..n /\ i - 1 \in 0..n
    BY <1>1
  <2>2. \A i \in 0..n : f[i] = F(f, i)
    BY <1>5, <2>1 DEF g
  <2>3. QED
    BY <1>5, <2>2
<1>7. PICK h : h = [i \in 0..n |-> F(h, i)] /\ BackIn(s, keys, best) = h[n]
  BY <1>6 DEF BackIn, n
<1>8. \A i \in 0..n : h[i] = F(h, i)
  BY <1>7
<1> DEFINE Good(i) == /\ Sound(h[i])
                      /\ h[i].nodes = s.nodes \cup ({keys[j] : j \in 1..i} \ {best})
           Bad == {i \in 0..n : ~Good(i)}
<1>9. Bad = {}
  <2>1. SUFFICES ASSUME Bad # {} PROVE FALSE
    OBVIOUS
  <2>2. Bad \subseteq Nat
    BY <1>1
  <2>3. PICK i \in Bad : \A j \in Bad : i <= j
    <3> HIDE DEF Bad
    <3>1. QED
      BY <2>1, <2>2, LeastNumber
  <2>4. i # 0
    <3>1. h[0] = s
      BY <1>1, <1>8
    <3>2. {keys[j] : j \in 1..0} = {}
      OBVIOUS
    <3>3. Good(0)
      BY <3>1, <3>2
    <3>4. QED
      BY <3>3, <2>3
  <2>5. i \in 1..n /\ i - 1 \in 0..n /\ ~(i <= i - 1)
    BY <1>1, <2>3, <2>4
  <2>6. Good(i - 1)
    <3>1. i - 1 \notin Bad
      <4> HIDE DEF Bad
      <4>1. QED
        BY <2>3, <2>5
    <3>2. QED
      BY <2>5, <3>1
  <2>7. {keys[j] : j \in 1..i} = {keys[j] : j \in 1..(i - 1)} \cup {keys[i]}
    <3>1. \A j \in 1..i : j = i \/ j \in 1..(i - 1)
      BY <2>5
    <3>2. 1..(i - 1) \subseteq 1..i /\ i \in 1..i
      BY <2>5
    <3>3. QED
      BY <3>1, <3>2
  <2>8. CASE keys[i] = best
    <3>1. h[i] = h[i - 1]
      BY <1>8, <2>4, <2>5, <2>8
    <3>2. QED
      BY <2>3, <2>6, <2>7, <2>8, <3>1
  <2>9. CASE keys[i] # best
    <3>1. h[i] = insert(h[i - 1], keys[i])
      BY <1>8, <2>4, <2>5, <2>9
    <3>2. Sound(h[i]) /\ h[i].nodes = h[i - 1].nodes \cup {keys[i]}
      BY <1>1, <2>5, <2>6, <3>1, SoundInsert
    <3>3. QED
      BY <2>3, <2>6, <2>7, <2>9, <3>2
  <2>10. QED
    BY <2>8, <2>9
<1>10. n \in 0..n /\ n \notin Bad
  BY <1>1, <1>9
<1>11. QED
  BY <1>7, <1>10 DEF KeysOf, n

(***************************************************************************)
(* One round of the eviction loop.                                         *)
(***************************************************************************)
\* One key goes; the entries of the others are what they were, and two of them (all, if
\* there are fewer) are worth at least as much.
LEMMA EvictOneWhole ==
  ASSUME NEW st, Whole(st), Held(st) # {}
  PROVE  \E v \in Held(st) :
           /\ Whole(evictOne(st))
           /\ Held(evictOne(st)) = Held(st) \ {v}
           /\ \A w \in Key \ {v} : evictOne(st).entries[w] = st.entries[w]
           /\ LET Worthier == {w \in Held(st) \ {v} : priority(st, w) >= priority(st, v)}
              IN  Cardinality(Worthier) >= 2 \/ Worthier = Held(st) \ {v}
<1> DEFINE c == Candidates(st)
           keys == c.keys
           v == Cheapest(st, keys)
           e == [st.entries EXCEPT ![v] = NoEntry]
           s == BackIn(c.sieve, keys, v)
           Worthier == {w \in Held(st) \ {v} : priority(st, w) >= priority(st, v)}
<1>1. /\ keys \in Seq(Key) /\ Len(keys) \in 1..3 /\ Distinct(keys)
      /\ KeysOf(keys) \subseteq Held(st)
      /\ Len(keys) = 3 \/ KeysOf(keys) = Held(st)
      /\ Sound(c.sieve) /\ c.sieve.nodes = Held(st) \ KeysOf(keys)
  BY CandidatesFacts
<1>2. evictOne(st) = [entries |-> e, sieve |-> s]
  BY DEF evictOne
<1> HIDE DEF c
<1>3. /\ v \in KeysOf(keys)
      /\ \A k \in KeysOf(keys) : priority(st, v) <= priority(st, k)
  BY <1>1, CheapestIsCheapest
<1>4. Sound(s) /\ s.nodes = Held(st) \ {v}
  <2>1. Sound(s) /\ s.nodes = c.sieve.nodes \cup (KeysOf(keys) \ {v})
    BY <1>1, BackInWhole
  <2>2. QED
    BY <1>1, <1>3, <2>1
<1> HIDE DEF v, s
<1>5. v \in Held(st) /\ v \in Key
  BY <1>1, <1>3, HeldIsFinite
<1>6. e \in [Key -> Entry \cup {NoEntry}] /\ {w \in Key : e[w] # NoEntry} = Held(st) \ {v}
  BY <1>5 DEF Whole, Held
<1>7. \A w \in Key \ {v} : e[w] = st.entries[w]
  BY DEF Whole
<1> HIDE DEF e
<1>8. Whole(evictOne(st)) /\ Held(evictOne(st)) = Held(st) \ {v}
  BY <1>2, <1>4, <1>6, WholeAgain DEF Held
<1>9. KeysOf(keys) \ {v} \subseteq Worthier
  <2> SUFFICES ASSUME NEW w \in KeysOf(keys), w # v PROVE w \in Worthier
    OBVIOUS
  <2>1. priority(st, v) <= priority(st, w) /\ w \in Held(st)
    BY <1>1, <1>3
  <2>2. priority(st, v) \in Nat /\ priority(st, w) \in Nat
    BY PriorityIsNat
  <2>3. QED
    BY <2>1, <2>2
<1>10. IsFiniteSet(Worthier)
  BY HeldIsFinite, FS_Subset
<1>11. CASE KeysOf(keys) = Held(st)
  <2>1. Worthier = Held(st) \ {v}
    BY <1>9, <1>11
  <2>2. QED
    BY <1>2, <1>5, <1>7, <1>8, <2>1
<1>12. CASE Len(keys) = 3
  <2>1. PICK a \in Worthier, b \in Worthier : a # b
    <3> USE <1>12
    <3>1. /\ keys[1] # keys[2] /\ keys[2] # keys[3] /\ keys[1] # keys[3]
          /\ keys[1] \in KeysOf(keys) /\ keys[2] \in KeysOf(keys) /\ keys[3] \in KeysOf(keys)
      BY <1>1 DEF Distinct, KeysOf
    <3>2. QED
      BY <1>9, <3>1
  <2>2. {a, b} \subseteq Worthier
    BY <2>1
  <2>3. Cardinality({a, b}) = 2 /\ IsFiniteSet({a, b})
    <3>1. IsFiniteSet({a}) /\ Cardinality({a}) = 1
      BY FS_Singleton
    <3>2. QED
      BY <2>1, <3>1, FS_AddElement
  <2> HIDE DEF Worthier
  <2>4. Cardinality({a, b}) <= Cardinality(Worthier)
    BY <1>10, <2>2, FS_Subset
  <2>5. Cardinality(Worthier) >= 2
    BY <1>10, <2>3, <2>4, FS_CardinalityType
  <2>6. \A w \in Key \ {v} : evictOne(st).entries[w] = st.entries[w]
    BY <1>2, <1>7
  <2>7. Cardinality({w \in Held(st) \ {v} : priority(st, w) >= priority(st, v)}) >= 2
    BY <2>5 DEF Worthier
  <2>8. QED
    BY <1>5, <1>8, <2>6, <2>7, Zenon
<1>13. QED
  BY <1>1, <1>11, <1>12

\* What set makes of the entries: the key is there, every other entry is what it was, and
\* at most one is gone, from a store that was full and had not the key.
SetFacts(st, k, e, r) ==
  /\ Whole(r)
  /\ k \in Held(r) /\ r.entries[k] = e
  /\ \/ Held(r) = Held(st) \cup {k} /\ (k \in Held(st) \/ Cardinality(Held(st)) < MaxEntries)
     \/ \E v \in Held(st) :
          /\ k \notin Held(st) /\ Cardinality(Held(st)) >= MaxEntries
          /\ Held(r) = (Held(st) \ {v}) \cup {k}
          /\ LET Worthier == {w \in Held(st) \ {v} : priority(st, w) >= priority(st, v)}
             IN  Cardinality(Worthier) >= 2 \/ Worthier = Held(st) \ {v}

LEMMA EntersWhole ==
  ASSUME NEW st, Whole(st), NEW k \in Key, NEW e \in Entry
  PROVE  LET r == [entries |-> [st.entries EXCEPT ![k] = e], sieve |-> insert(st.sieve, k)]
         IN  Whole(r) /\ Held(r) = Held(st) \cup {k} /\ r.entries[k] = e
<1> DEFINE f == [st.entries EXCEPT ![k] = e]
           s == insert(st.sieve, k)
<1>1. f \in [Key -> Entry \cup {NoEntry}] /\ f[k] = e
  BY DEF Whole
<1>2. {w \in Key : f[w] # NoEntry} = Held(st) \cup {k}
  BY EntryIsNotNone DEF Whole, Held
<1>3. Sound(s) /\ s.nodes = Held(st) \cup {k}
  BY SoundInsert DEF Whole
<1> HIDE DEF f, s
<1>4. Whole([entries |-> f, sieve |-> s])
  BY <1>1, <1>2, <1>3, WholeAgain
<1>5. Held([entries |-> f, sieve |-> s]) = Held(st) \cup {k}
  BY <1>2 DEF Held
<1>6. QED
  BY <1>1, <1>4, <1>5 DEF f, s

LEMMA SetWhole ==
  ASSUME NEW st, Whole(st), NEW k \in Key, NEW e \in Entry
  PROVE  SetFacts(st, k, e, set(st, k, e))
<1> DEFINE r == room(st)
           f == [st.entries EXCEPT ![k] = e]
<1>0. Cardinality(Held(st)) \in Nat /\ MaxEntries \in Nat \ {0}
  BY HeldIsFinite, MaxEntriesAssumption
<1>1. CASE k \in Held(st)
  <2>1. set(st, k, e) = [entries |-> f, sieve |-> access(st.sieve, k)]
    BY <1>1 DEF set
  <2>2. access(st.sieve, k) = insert(st.sieve, k)
    BY <1>1 DEF insert, Whole
  <2>3. Whole(set(st, k, e)) /\ Held(set(st, k, e)) = Held(st) \cup {k} /\ set(st, k, e).entries[k] = e
    BY <2>1, <2>2, EntersWhole
  <2>4. QED
    BY <1>1, <2>3 DEF SetFacts
<1>2. CASE k \notin Held(st) /\ Cardinality(Held(st)) < MaxEntries
  <2>1. ~(Cardinality(Held(st)) >= MaxEntries)
    BY <1>0, <1>2
  <2>2. set(st, k, e) = [entries |-> f, sieve |-> insert(st.sieve, k)]
    BY <1>2, <2>1 DEF set, room
  <2>3. Whole(set(st, k, e)) /\ Held(set(st, k, e)) = Held(st) \cup {k} /\ set(st, k, e).entries[k] = e
    BY <2>2, EntersWhole
  <2>4. QED
    BY <1>2, <2>3 DEF SetFacts
<1>3. CASE k \notin Held(st) /\ Cardinality(Held(st)) >= MaxEntries
  <2>1. Held(st) # {}
    <3>1. Cardinality({}) = 0
      BY FS_EmptySet
    <3>2. QED
      BY <1>0, <1>3, <3>1
  <2> DEFINE Spared(v) == LET Worthier == {w \in Held(st) \ {v} : priority(st, w) >= priority(st, v)}
                          IN  Cardinality(Worthier) >= 2 \/ Worthier = Held(st) \ {v}
  <2>2. PICK v \in Held(st) : /\ Whole(evictOne(st))
                              /\ Held(evictOne(st)) = Held(st) \ {v}
                              /\ Spared(v)
    BY <2>1, EvictOneWhole
  <2> HIDE DEF Spared
  <2>3. r = evictOne(st)
    BY <1>3 DEF room
  <2>4. set(st, k, e) = [entries |-> [r.entries EXCEPT ![k] = e], sieve |-> insert(r.sieve, k)]
    BY <1>3 DEF set
  <2> HIDE DEF r
  <2>5. /\ Whole(set(st, k, e)) /\ Held(set(st, k, e)) = Held(r) \cup {k}
        /\ set(st, k, e).entries[k] = e
    BY <2>2, <2>3, <2>4, EntersWhole
  <2>6. Held(set(st, k, e)) = (Held(st) \ {v}) \cup {k} /\ k \in Held(set(st, k, e))
    BY <2>2, <2>3, <2>5
  <2>7. QED
    BY <1>3, <2>2, <2>5, <2>6 DEF SetFacts, Spared
<1>4. QED
  BY <1>0, <1>1, <1>2, <1>3

(***************************************************************************)
(* The calls.                                                              *)
(***************************************************************************)
\* The inductive invariant: the store is whole and keeps to its capacity.
Kept == Whole(store) /\ Cardinality(Held(store)) <= MaxEntries /\ put \in Link

LEMMA InitKept == Init => Kept
<1> SUFFICES ASSUME Init PROVE Kept
  OBVIOUS
<1> DEFINE e == [k \in Key |-> NoEntry]
<1>1. e \in [Key -> Entry \cup {NoEntry}] /\ {k \in Key : e[k] # NoEntry} = {}
  OBVIOUS
<1> HIDE DEF e
<1>2. store = [entries |-> e, sieve |-> emptySieve] /\ put = null
  BY DEF Init, e
<1>3. Whole(store) /\ Held(store) = {}
  BY <1>1, <1>2, SoundEmpty, WholeAgain DEF Held
<1>4. Cardinality(Held(store)) = 0
  BY <1>3, FS_EmptySet
<1>5. QED
  BY <1>2, <1>3, <1>4, MaxEntriesAssumption DEF Kept, Link

\* A store that holds no more than before keeps to its capacity.
LEMMA FewerKept ==
  ASSUME Kept, Whole(store'), Held(store') \subseteq Held(store), put' \in Link
  PROVE  Kept'
<1>1. Cardinality(Held(store')) <= Cardinality(Held(store))
  BY HeldIsFinite, FS_Subset DEF Kept
<1>2. Cardinality(Held(store)) \in Nat /\ Cardinality(Held(store')) \in Nat
  BY HeldIsFinite DEF Kept
<1>3. QED
  BY <1>1, <1>2, MaxEntriesAssumption DEF Kept

\* One step of put: what there was of the key is got, and what is made of it is set.
LEMMA PutFacts ==
  ASSUME Whole(store), NEW k \in Key, NEW cost \in TokenCost, Put(k, cost)
  PROVE  \E st : /\ Whole(st) /\ Held(st) \subseteq Held(store)
                 /\ Held(store) \subseteq Held(st) \cup {k}
                 /\ k \notin Held(store) => st = store
                 /\ \E e \in Entry : SetFacts(st, k, e, store')
<1> DEFINE st == get(store, k)
           old == st.entries[k]
           e == IF k \in Held(st)
                THEN [freshness |-> "fresh", accessCount |-> old.accessCount,
                      tokenCost |-> IF old.tokenCost > cost THEN old.tokenCost ELSE cost]
                ELSE [freshness |-> "fresh", accessCount |-> 0, tokenCost |-> cost]
<1>1. /\ Whole(st) /\ Held(st) \subseteq Held(store)
      /\ Held(store) \subseteq Held(st) \cup {k}
      /\ k \notin Held(store) => st = store
  BY GetWhole
<1>2. store' = set(st, k, e)
  BY DEF Put
<1> HIDE DEF st
<1>3. e \in Entry
  <2>1. CASE k \in Held(st)
    <3>1. old \in Entry
      BY <1>1, <2>1, HeldEntries
    <3>2. old.accessCount \in 0..MaxCount /\ old.tokenCost \in TokenCost
      BY <3>1 DEF Entry
    <3>3. QED
      BY <2>1, <3>2 DEF Entry
  <2>2. CASE k \notin Held(st)
    BY <2>2, CostAssumption DEF Entry
  <2>3. QED
    BY <2>1, <2>2
<1> HIDE DEF e
<1>4. SetFacts(st, k, e, store')
  BY <1>1, <1>2, <1>3, SetWhole
<1>5. QED
  BY <1>1, <1>3, <1>4

\* When another entry goes, the store was full and had not the key, so that nothing had
\* expired before the eviction looked at it.
LEMMA FullBeforeEviction ==
  ASSUME Kept, NEW k \in Key, NEW st, Whole(st), Held(st) \subseteq Held(store),
         Held(store) \subseteq Held(st) \cup {k}, k \notin Held(st),
         Cardinality(Held(st)) >= MaxEntries
  PROVE  Held(st) = Held(store) /\ Cardinality(Held(store)) = MaxEntries
<1>1. /\ IsFiniteSet(Held(store)) /\ Cardinality(Held(store)) \in Nat
      /\ Cardinality(Held(st)) \in Nat /\ Cardinality(Held(store)) <= MaxEntries
  BY HeldIsFinite DEF Kept
<1>2. Cardinality(Held(st)) <= Cardinality(Held(store))
  BY <1>1, FS_Subset
<1>3. Cardinality(Held(st)) = Cardinality(Held(store)) /\ Cardinality(Held(store)) = MaxEntries
  BY <1>1, <1>2, MaxEntriesAssumption
<1>4. Held(st) = Held(store)
  BY <1>1, <1>3, FS_Subset
<1>5. QED
  BY <1>3, <1>4

LEMMA PutKept ==
  ASSUME Kept, NEW k \in Key, NEW cost \in TokenCost, Put(k, cost)
  PROVE  Kept'
<1>1. Whole(store) /\ put' = k /\ put' \in Link
  BY DEF Kept, Put, Link
<1>2. PICK st : /\ Whole(st) /\ Held(st) \subseteq Held(store)
                /\ Held(store) \subseteq Held(st) \cup {k}
                /\ \E e \in Entry : SetFacts(st, k, e, store')
  BY <1>1, PutFacts
<1>3. /\ IsFiniteSet(Held(st)) /\ IsFiniteSet(Held(store))
      /\ Cardinality(Held(st)) \in Nat /\ Cardinality(Held(store)) \in Nat
      /\ Cardinality(Held(store)) <= MaxEntries /\ MaxEntries \in Nat
  BY <1>2, HeldIsFinite, MaxEntriesAssumption DEF Kept
<1>4. Cardinality(Held(st)) <= Cardinality(Held(store))
  BY <1>2, <1>3, FS_Subset
<1>5. Whole(store')
  BY <1>2 DEF SetFacts
<1>6. CASE Held(store') = Held(st) \cup {k} /\ k \in Held(st)
  <2>1. Held(store') \subseteq Held(store)
    BY <1>2, <1>6
  <2>2. QED
    BY <1>1, <1>5, <2>1, FewerKept
<1>7. CASE /\ Held(store') = Held(st) \cup {k} /\ k \notin Held(st)
           /\ Cardinality(Held(st)) < MaxEntries
  <2>1. Cardinality(Held(store')) = Cardinality(Held(st)) + 1
    BY <1>3, <1>7, FS_AddElement
  <2>2. QED
    BY <1>1, <1>3, <1>5, <1>7, <2>1 DEF Kept
<1>8. ASSUME NEW v \in Held(st), k \notin Held(st), Held(store') = (Held(st) \ {v}) \cup {k}
      PROVE  Kept'
  <2>1. /\ IsFiniteSet(Held(st) \ {v})
        /\ Cardinality(Held(st) \ {v}) = Cardinality(Held(st)) - 1
    BY <1>3, <1>8, FS_RemoveElement
  <2>2. Cardinality(Held(store')) = Cardinality(Held(st) \ {v}) + 1
    <3>1. k \notin Held(st) \ {v}
      BY <1>8
    <3>2. QED
      BY <1>8, <2>1, <3>1, FS_AddElement
  <2>3. Cardinality(Held(store')) <= MaxEntries
    BY <1>3, <1>4, <2>1, <2>2
  <2>4. QED
    BY <1>1, <1>5, <2>3 DEF Kept
<1>9. QED
  BY <1>2, <1>6, <1>7, <1>8 DEF SetFacts

LEMMA ClearWhole ==
  ASSUME Whole(store), Clear
  PROVE  Whole(store') /\ Held(store') = {}
<1> DEFINE e == [k \in Key |-> NoEntry]
           s == [store.sieve EXCEPT !.nodes = {}, !.head = null, !.tail = null, !.hand = null]
<1>1. e \in [Key -> Entry \cup {NoEntry}] /\ {k \in Key : e[k] # NoEntry} = {}
  OBVIOUS
<1>2. s \in SieveState
  BY DEF Whole, SieveState, Link
<1>3. s.nodes = {} /\ s.head = null /\ s.tail = null /\ s.hand = null
  BY DEF Whole, SieveState
<1>4. store' = [entries |-> e, sieve |-> s]
  BY DEF Clear
<1> HIDE DEF e, s
<1>5. IsList(s, <<>>)
  BY <1>3 DEF IsList, Distinct
<1>6. Sound(s)
  BY <1>2, <1>5 DEF Sound, IsList
<1>7. Whole(store')
  BY <1>1, <1>3, <1>4, <1>6, WholeAgain
<1>8. QED
  BY <1>1, <1>4, <1>7 DEF Held

LEMMA AgeWhole ==
  ASSUME Whole(store), NEW k \in Key, Age(k)
  PROVE  Whole(store') /\ Held(store') = Held(store)
<1> DEFINE was == store.entries[k]
           is == older(was)
           e == [store.entries EXCEPT ![k] = is]
           s == store.sieve
<1>1. was \in Entry /\ k \in Held(store)
  BY HeldEntries DEF Age
<1>2. is \in Entry
  BY <1>1 DEF Entry, older
<1> HIDE DEF is
<1>3. e \in [Key -> Entry \cup {NoEntry}]
  BY <1>2 DEF Whole
<1>4. {w \in Key : e[w] # NoEntry} = Held(store)
  BY <1>1, <1>2, EntryIsNotNone DEF Whole, Held
<1>5. Sound(s) /\ s.nodes = Held(store)
  BY DEF Whole
<1>6. store' = [entries |-> e, sieve |-> s]
  BY DEF Age, is
<1> HIDE DEF e, s
<1>7. Whole(store')
  BY <1>3, <1>4, <1>5, <1>6, WholeAgain
<1>8. QED
  BY <1>4, <1>6, <1>7 DEF Held

LEMMA NextKept == Kept /\ [Next]_vars => Kept'
<1> SUFFICES ASSUME Kept, [Next]_vars PROVE Kept'
  OBVIOUS
<1>0. Whole(store)
  BY DEF Kept
<1>1. ASSUME NEW k \in Key, Get(k) PROVE Kept'
  <2>1. Whole(store') /\ Held(store') \subseteq Held(store)
    BY <1>0, <1>1, GetWhole DEF Get
  <2>2. put' \in Link
    BY <1>1 DEF Get, Link
  <2>3. QED
    BY <2>1, <2>2, FewerKept
<1>2. ASSUME NEW k \in Key, Invalidate(k) PROVE Kept'
  <2>1. Whole(store') /\ Held(store') \subseteq Held(store)
    BY <1>0, <1>2, DropWhole DEF Invalidate
  <2>2. put' \in Link
    BY <1>2 DEF Invalidate, Link
  <2>3. QED
    BY <2>1, <2>2, FewerKept
<1>3. ASSUME NEW k \in Key, Age(k) PROVE Kept'
  <2>1. Whole(store') /\ Held(store') \subseteq Held(store)
    BY <1>0, <1>3, AgeWhole
  <2>2. put' \in Link
    BY <1>3 DEF Age, Link
  <2>3. QED
    BY <2>1, <2>2, FewerKept
<1>4. ASSUME NEW k \in Key, NEW cost \in TokenCost, Put(k, cost) PROVE Kept'
  BY <1>4, PutKept
<1>5. CASE Clear
  <2>1. Whole(store') /\ Held(store') \subseteq Held(store)
    BY <1>0, <1>5, ClearWhole
  <2>2. put' \in Link
    BY <1>5 DEF Clear, Link
  <2>3. QED
    BY <2>1, <2>2, FewerKept
<1>6. CASE UNCHANGED vars
  BY <1>6 DEF Kept, vars, Held
<1>7. QED
  BY <1>1, <1>2, <1>3, <1>4, <1>5, <1>6 DEF Next

LEMMA AlwaysKept == Spec => []Kept
<1>1. QED
  BY InitKept, NextKept, PTL DEF Spec

LEMMA KeptIsSound == Kept => StoreInv
<1> SUFFICES ASSUME Kept PROVE StoreInv
  OBVIOUS
<1>1. TypeOK /\ SieveKnowsEveryEntry /\ CapacityKept
  BY DEF Kept, Whole, TypeOK, SieveKnowsEveryEntry, CapacityKept
<1>2. ListAndMapAgree
  <2> DEFINE s == store.sieve
  <2>1. PICK o \in Seq(Key) : IsList(s, o)
    BY DEF Kept, Whole, Sound
  <2> HIDE DEF s
  <2>2. ListOrder(s) = o /\ Size(s) = Len(o) /\ Len(o) \in Nat
    BY <2>1, ReadAlong, ListSize
  <2>3. s.tail = IF Len(o) = 0 THEN null ELSE o[Len(o)]
    BY <2>1 DEF IsList
  <2>4. /\ {o[i] : i \in 1..Len(o)} = s.nodes
        /\ s.hand \in s.nodes \cup {null}
        /\ \A i \in 1..Len(o) :
             /\ s.prev[o[i]] = IF i = 1 THEN null ELSE o[i - 1]
             /\ s.next[o[i]] = IF i = Len(o) THEN null ELSE o[i + 1]
    BY <2>1 DEF IsList
  <2>5. QED
    BY <2>2, <2>3, <2>4 DEF ListAndMapAgree, s
<1>3. QED
  BY <1>1, <1>2 DEF StoreInv

\* The store is sound after any sequence of calls: its map and its sieve hold the same
\* keys, at most maxEntries of them, and the list is whole however it was cut and
\* spliced, in particular between the evictions of one round (cache-store.ts:124-198).
THEOREM StoreStaysSound == Spec => []StoreInv
<1>1. QED
  BY AlwaysKept, KeptIsSound, PTL

\* What a step takes from other keys, when it is a put.
LEMMA PutSpares ==
  ASSUME Kept, NEW k \in Key, NEW cost \in TokenCost, Put(k, cost)
  PROVE  /\ put' \in Held(store')
         /\ Cardinality(Lost) <= 1
         /\ Lost # {} => Cardinality(Held(store)) = MaxEntries
         /\ \A v \in Lost :
              Cardinality({w \in Held(store) \ {v} : priority(store, w) >= priority(store, v)})
                >= IF MaxEntries < 3 THEN MaxEntries - 1 ELSE 2
<1> DEFINE Worthier(v) == {w \in Held(store) \ {v} : priority(store, w) >= priority(store, v)}
           Room == IF MaxEntries < 3 THEN MaxEntries - 1 ELSE 2
<1>1. Whole(store) /\ put' = k
  BY DEF Kept, Put
<1>2. PICK st : /\ Whole(st) /\ Held(st) \subseteq Held(store)
                /\ Held(store) \subseteq Held(st) \cup {k}
                /\ k \notin Held(store) => st = store
                /\ \E e \in Entry : SetFacts(st, k, e, store')
  BY <1>1, PutFacts
<1>3. put' \in Held(store')
  BY <1>1, <1>2 DEF SetFacts
<1>4. CASE Held(store') = Held(st) \cup {k}
  <2>1. Lost = {}
    BY <1>1, <1>2, <1>4 DEF Lost
  <2>2. Cardinality(Lost) = 0
    BY <2>1, FS_EmptySet
  <2>3. QED
    BY <1>3, <2>1, <2>2
<1>5. ASSUME NEW v \in Held(st), k \notin Held(st), Cardinality(Held(st)) >= MaxEntries,
             Held(store') = (Held(st) \ {v}) \cup {k},
             \/ Cardinality({w \in Held(st) \ {v} : priority(st, w) >= priority(st, v)}) >= 2
             \/ {w \in Held(st) \ {v} : priority(st, w) >= priority(st, v)} = Held(st) \ {v}
      PROVE  /\ Lost = {v} /\ Cardinality(Held(store)) = MaxEntries
             /\ Cardinality(Worthier(v)) >= Room
  <2>1. Held(st) = Held(store) /\ Cardinality(Held(store)) = MaxEntries
    BY <1>2, <1>5, FullBeforeEviction
  <2>2. st = store
    BY <1>2, <1>5, <2>1
  <2>3. Lost = {v}
    BY <1>1, <1>5, <2>1 DEF Lost
  <2>4. Cardinality(Worthier(v)) >= 2 \/ Worthier(v) = Held(store) \ {v}
    BY <1>5, <2>2
  <2>5. IsFiniteSet(Held(store)) /\ MaxEntries \in Nat \ {0}
    BY <1>1, HeldIsFinite, MaxEntriesAssumption
  <2>6. Cardinality(Held(store) \ {v}) = MaxEntries - 1
    BY <1>5, <2>1, <2>5, FS_RemoveElement
  <2>7. Cardinality(Worthier(v)) \in Nat
    BY <2>5, FS_Subset, FS_CardinalityType
  <2> HIDE DEF Worthier
  <2>8. CASE Cardinality(Worthier(v)) >= 2
    BY <2>1, <2>3, <2>5, <2>7, <2>8
  <2>9. CASE Worthier(v) = Held(store) \ {v}
    BY <2>1, <2>3, <2>5, <2>6, <2>7, <2>9
  <2>10. QED
    BY <2>4, <2>8, <2>9
<1>6. CASE Held(store') # Held(st) \cup {k}
  <2>1. PICK v \in Held(st) :
          /\ Lost = {v} /\ Cardinality(Held(store)) = MaxEntries
          /\ Cardinality(Worthier(v)) >= Room
    <3> HIDE DEF Worthier, Room
    <3>1. QED
      BY <1>2, <1>5, <1>6 DEF SetFacts
  <2>2. Cardinality(Lost) = 1
    BY <2>1, FS_Singleton
  <2>3. QED
    BY <1>3, <2>1, <2>2
<1>7. QED
  BY <1>4, <1>6

LEMMA StepSpares ==
  Kept /\ [Next]_vars =>
    (\/ put' # null =>
          /\ put' \in Held(store')
          /\ Cardinality(Lost) <= 1
          /\ Lost # {} => Cardinality(Held(store)) = MaxEntries
          /\ \A v \in Lost :
               Cardinality({w \in Held(store) \ {v} : priority(store, w) >= priority(store, v)})
                 >= IF MaxEntries < 3 THEN MaxEntries - 1 ELSE 2
     \/ UNCHANGED vars)
<1> SUFFICES ASSUME Kept, Next, put' # null
             PROVE  \E k \in Key, cost \in TokenCost : Put(k, cost)
  BY PutSpares
<1>1. QED
  BY DEF Next, Get, Invalidate, Age, Clear

\* What an eviction takes is never worth most, and a put takes nothing else
\* (cache-store.ts:159-198), for every capacity, cost and number of entries.
THEOREM WorthiestSpared == Spec => EvictionSparesTheWorthiest
<1>1. QED
  BY AlwaysKept, StepSpares, PTL DEF Spec, EvictionSparesTheWorthiest

(***************************************************************************)
(* The list is the queue of the SIEVE algorithm.                           *)
(***************************************************************************)
\* The queue a list stands for, its keys given.
AsQueue(s, o) == [keys |-> o, visited |-> {k \in s.nodes : s.visited[k]}, hand |-> s.hand]

LEMMA QueueOfList ==
  ASSUME NEW s, NEW o, IsList(s, o)
  PROVE  QueueOf(s) = AsQueue(s, o)
<1>1. ListOrder(s) = o /\ Size(s) = Len(o) /\ o \in [1..Len(o) -> Key]
  BY ReadAlong, ListSize, ListFacts
<1>2. [i \in 1..Len(o) |-> o[i]] = o
  BY <1>1
<1>3. QED
  BY <1>1, <1>2 DEF QueueOf, AsQueue

\* The keys of the queue, the place of each, and where the hand goes from there.
LEMMA QueueFacts ==
  ASSUME NEW s, NEW o, IsList(s, o)
  PROVE  /\ Q!Keys(AsQueue(s, o)) = s.nodes
         /\ \A p \in 1..Len(o) : /\ Q!PlaceOf(AsQueue(s, o), o[p]) = p
                                 /\ Q!Without(AsQueue(s, o), o[p]) = WithoutPlace(o, p)
<1> DEFINE q == AsQueue(s, o)
<1>1. q.keys = o
  BY DEF AsQueue
<1> HIDE DEF q
<1>2. Q!Keys(q) = s.nodes
  BY <1>1 DEF Q!Keys, IsList
<1>3. ASSUME NEW p \in 1..Len(o)
      PROVE  Q!PlaceOf(q, o[p]) = p /\ Q!Without(q, o[p]) = WithoutPlace(o, p)
  <2>1. \A i \in 1..Len(o) : o[i] = o[p] => i = p
    BY DEF IsList, Distinct
  <2>2. Q!PlaceOf(q, o[p]) = p
    BY <1>1, <2>1 DEF Q!PlaceOf
  <2>3. QED
    BY <1>1, <2>2 DEF Q!Without, WithoutPlace
<1>4. QED
  BY <1>2, <1>3 DEF q

LEMMA QueueHandOff ==
  ASSUME NEW s, NEW o, IsList(s, o), NEW p \in 1..Len(o)
  PROVE  Q!HandOff(AsQueue(s, o), o[p]) =
           IF After(s, o[p]) = o[p] THEN null ELSE After(s, o[p])
<1> DEFINE q == AsQueue(s, o)
           n == Len(o)
<1>1. q.keys = o /\ Q!PlaceOf(q, o[p]) = p
  BY QueueFacts DEF AsQueue
<1> HIDE DEF q
<1>2. n \in Nat /\ p \in 1..n /\ 1 \in 1..n /\ o # <<>> /\ \A i \in 1..n : o[i] # null
  BY ListFacts
<1>3. s.head = o[1] /\ s.next[o[p]] = IF p = n THEN null ELSE o[p + 1]
  BY <1>2 DEF IsList
<1>4. After(s, o[p]) = IF p = n THEN o[1] ELSE o[p + 1]
  <2>1. p # n => p + 1 \in 1..n
    BY <1>2
  <2>2. QED
    BY <1>2, <1>3, <2>1 DEF After
<1>5. (p % n) + 1 = IF p = n THEN 1 ELSE p + 1
  BY <1>2
<1>6. Q!HandOff(q, o[p]) = IF n = 1 THEN null ELSE o[IF p = n THEN 1 ELSE p + 1]
  BY <1>1, <1>5 DEF Q!HandOff
<1>7. \A i, j \in 1..n : o[i] = o[j] => i = j
  BY DEF IsList, Distinct
<1>8. CASE n = 1
  <2>1. p = 1
    BY <1>2, <1>8
  <2>2. QED
    BY <1>4, <1>6, <1>8, <2>1 DEF q
<1>9. CASE n # 1 /\ p = n
  <2>1. o[1] # o[n]
    BY <1>2, <1>7, <1>9
  <2>2. QED
    BY <1>4, <1>6, <1>9, <2>1 DEF q
<1>10. CASE n # 1 /\ p # n
  <2>1. p + 1 \in 1..n /\ p + 1 # p
    BY <1>2, <1>10
  <2>2. o[p + 1] # o[p]
    BY <1>2, <1>7, <2>1
  <2>3. QED
    BY <1>4, <1>6, <1>10, <2>2 DEF q
<1>11. QED
  BY <1>8, <1>9, <1>10

\* The steps of a queue, its fields given.
LEMMA QueueSteps ==
  ASSUME NEW s, NEW o, IsList(s, o), NEW k
  PROVE  LET V == {j \in s.nodes : s.visited[j]}
         IN  /\ Q!access(AsQueue(s, o), k) =
                  [keys |-> o, visited |-> V \cup ({k} \cap s.nodes), hand |-> s.hand]
             /\ k \notin s.nodes =>
                  Q!insert(AsQueue(s, o), k) = [keys |-> Append(o, k), visited |-> V, hand |-> s.hand]
<1> DEFINE V == {j \in s.nodes : s.visited[j]}
           W == V \cup ({k} \cap s.nodes)
<1>1. PICK q : q = AsQueue(s, o)
  OBVIOUS
<1>2. q = [keys |-> o, visited |-> V, hand |-> s.hand] /\ Q!Keys(q) = s.nodes
  BY <1>1, QueueFacts DEF AsQueue
<1>3. q.visited = V /\ q.keys = o
  BY <1>2
<1> HIDE DEF V
<1>4. Q!access(q, k) = [q EXCEPT !.visited = W]
  BY <1>2, <1>3 DEF Q!access
<1>5. k \notin s.nodes => Q!insert(q, k) = [q EXCEPT !.keys = Append(o, k)]
  BY <1>2, <1>3 DEF Q!insert
<1> HIDE DEF W
<1>6. [q EXCEPT !.visited = W] = [keys |-> o, visited |-> W, hand |-> s.hand]
  BY <1>2
<1>7. [q EXCEPT !.keys = Append(o, k)] = [keys |-> Append(o, k), visited |-> V, hand |-> s.hand]
  BY <1>2
<1>8. QED
  BY <1>1, <1>4, <1>5, <1>6, <1>7 DEF V, W

LEMMA AccessIsQueued ==
  ASSUME NEW s, Sound(s), NEW k \in Key
  PROVE  QueueOf(access(s, k)) = Q!access(QueueOf(s), k)
<1> DEFINE t == access(s, k)
<1>1. PICK o \in Seq(Key) : IsList(s, o)
  BY DEF Sound
<1>2. s \in SieveState
  BY DEF Sound
<1>3. IsList(t, o) /\ t.nodes = s.nodes
  BY <1>1, <1>2, AccessKeepsList
<1>4. t.hand = s.hand /\ {j \in t.nodes : t.visited[j]} =
                         {j \in s.nodes : s.visited[j]} \cup ({k} \cap s.nodes)
  BY <1>2 DEF access, SieveState
<1> HIDE DEF t
<1>5. AsQueue(t, o) = Q!access(AsQueue(s, o), k)
  <2>1. Q!Keys(AsQueue(s, o)) = s.nodes
    BY <1>1, QueueFacts
  <2> DEFINE V == {j \in s.nodes : s.visited[j]}
  <2>2. Q!access(AsQueue(s, o), k) =
          [keys |-> o, visited |-> V \cup ({k} \cap s.nodes), hand |-> s.hand]
    BY <1>1, QueueSteps
  <2>3. QED
    BY <1>4, <2>2 DEF AsQueue
<1>6. QED
  BY <1>1, <1>3, <1>5, QueueOfList DEF t

LEMMA InsertIsQueued ==
  ASSUME NEW s, Sound(s), NEW k \in Key
  PROVE  QueueOf(insert(s, k)) = Q!insert(QueueOf(s), k)
<1> DEFINE t == insert(s, k)
<1>1. PICK o \in Seq(Key) : IsList(s, o)
  BY DEF Sound
<1>2. s \in SieveState
  BY DEF Sound
<1>3. Q!Keys(QueueOf(s)) = s.nodes
  BY <1>1, QueueFacts, QueueOfList
<1>4. CASE k \in s.nodes
  <2>1. t = access(s, k)
    BY <1>4 DEF insert
  <2>2. Q!insert(QueueOf(s), k) = Q!access(QueueOf(s), k)
    BY <1>3, <1>4 DEF Q!insert
  <2>3. QED
    BY <2>1, <2>2, AccessIsQueued
<1>5. CASE k \notin s.nodes
  <2>1. IsList(t, Append(o, k)) /\ t.nodes = s.nodes \cup {k}
    BY <1>1, <1>2, <1>5, InsertAppends
  <2>2. t.hand = s.hand /\ t.visited = [s.visited EXCEPT ![k] = FALSE]
    BY <1>2, <1>5 DEF insert, SieveState
  <2>3. s.visited \in [Key -> BOOLEAN] /\ s.nodes \subseteq Key
    BY <1>2 DEF SieveState
  <2> HIDE DEF t
  <2>4. {j \in t.nodes : t.visited[j]} = {j \in s.nodes : s.visited[j]}
    BY <1>5, <2>1, <2>2, <2>3
  <2>5. Q!insert(AsQueue(s, o), k) = AsQueue(t, Append(o, k))
    <3> DEFINE V == {j \in s.nodes : s.visited[j]}
    <3>2. Q!insert(AsQueue(s, o), k) = [keys |-> Append(o, k), visited |-> V, hand |-> s.hand]
      BY <1>1, <1>5, QueueSteps
    <3>3. QED
      BY <2>2, <2>4, <3>2 DEF AsQueue
  <2>6. QED
    BY <1>1, <2>1, <2>5, QueueOfList DEF t
<1>6. QED
  BY <1>4, <1>5

LEMMA DeleteIsQueued ==
  ASSUME NEW s, Sound(s), NEW k \in Key
  PROVE  QueueOf(delete(s, k)) = Q!delete(QueueOf(s), k)
<1>1. PICK o \in Seq(Key) : IsList(s, o)
  BY DEF Sound
<1>2. s \in SieveState
  BY DEF Sound
<1>3. QueueOf(s) = AsQueue(s, o) /\ Q!Keys(AsQueue(s, o)) = s.nodes
  BY <1>1, QueueFacts, QueueOfList
<1>4. CASE k \notin s.nodes
  BY <1>3, <1>4 DEF delete, Q!delete
<1>5. CASE k \in s.nodes
  <2> DEFINE t == remove(s, k)
  <2>1. PICK p \in 1..Len(o) : k = o[p]
    BY <1>1, <1>5, ListFacts
  <2>2. IsList(t, WithoutPlace(o, p)) /\ t.nodes = s.nodes \ {k}
    BY <1>1, <1>2, <2>1, RemoveTakesOut
  <2>3. t.visited = s.visited /\ t.hand = handAfter(s, k)
    BY <1>2 DEF remove, SieveState
  <2>4. delete(s, k) = t
    BY <1>5 DEF delete
  <2> HIDE DEF t
  <2>5. t.hand = IF s.hand = k THEN Q!HandOff(AsQueue(s, o), k) ELSE s.hand
    BY <1>1, <2>1, <2>3, QueueHandOff DEF handAfter
  <2>6. Q!delete(AsQueue(s, o), k) =
          [keys |-> WithoutPlace(o, p), visited |-> {j \in s.nodes : s.visited[j]} \ {k},
           hand |-> IF s.hand = k THEN Q!HandOff(AsQueue(s, o), k) ELSE s.hand]
    <3>1. Q!Without(AsQueue(s, o), k) = WithoutPlace(o, p)
      BY <1>1, <2>1, QueueFacts
    <3>2. AsQueue(s, o).visited = {j \in s.nodes : s.visited[j]} /\ AsQueue(s, o).hand = s.hand
      BY DEF AsQueue
    <3>3. QED
      BY <1>3, <1>5, <3>1, <3>2 DEF Q!delete
  <2>7. {j \in t.nodes : t.visited[j]} = {j \in s.nodes : s.visited[j]} \ {k}
    BY <2>2, <2>3
  <2>8. AsQueue(t, WithoutPlace(o, p)) = Q!delete(AsQueue(s, o), k)
    BY <2>5, <2>6, <2>7 DEF AsQueue
  <2>9. QED
    BY <1>3, <2>2, <2>4, <2>8, QueueOfList
<1>6. QED
  BY <1>4, <1>5

\* Where the i-th key of the round is in the queue, whose hand is on place h of n.
RoundPlace(h, n, i) == IF i <= n - h + 1 THEN h + i - 1 ELSE i - (n - h + 1)

LEMMA RoundPlaceFacts ==
  ASSUME NEW n \in Nat, NEW h \in 1..n
  PROVE  /\ \A i \in 1..n : RoundPlace(h, n, i) \in 1..n
         /\ \A i, j \in 1..n : RoundPlace(h, n, i) = RoundPlace(h, n, j) => i = j
         /\ \A j \in 1..n : \E i \in 1..n : RoundPlace(h, n, i) = j
         /\ RoundPlace(h, n, 1) = h
         /\ \A i \in 1..(n - 1) :
              RoundPlace(h, n, i + 1) =
                IF RoundPlace(h, n, i) = n THEN 1 ELSE RoundPlace(h, n, i) + 1
         /\ h = IF RoundPlace(h, n, n) = n THEN 1 ELSE RoundPlace(h, n, n) + 1
<1>1. \A j \in 1..n : \E i \in 1..n : RoundPlace(h, n, i) = j
  <2> TAKE j \in 1..n
  <2> DEFINE i == IF j >= h THEN j - h + 1 ELSE j + n - h + 1
  <2>1. i \in 1..n /\ RoundPlace(h, n, i) = j
    BY DEF RoundPlace
  <2>2. QED
    BY <2>1
<1>2. /\ \A i \in 1..n : RoundPlace(h, n, i) \in 1..n
      /\ \A i, j \in 1..n : RoundPlace(h, n, i) = RoundPlace(h, n, j) => i = j
  BY DEF RoundPlace
<1>3. /\ RoundPlace(h, n, 1) = h
      /\ \A i \in 1..(n - 1) :
           RoundPlace(h, n, i + 1) = IF RoundPlace(h, n, i) = n THEN 1 ELSE RoundPlace(h, n, i) + 1
      /\ h = IF RoundPlace(h, n, n) = n THEN 1 ELSE RoundPlace(h, n, n) + 1
  BY DEF RoundPlace
<1>4. QED
  BY <1>1, <1>2, <1>3

\* The round of the queue starts where the hand of the list is.
LEMMA RoundIsPlaced ==
  ASSUME NEW s, NEW o, IsList(s, o), s.nodes # {}
  PROVE  \E h \in 1..Len(o) :
           LET r == Q!Round(AsQueue(s, o))
           IN  /\ r \in Seq(Key) /\ Len(r) = Len(o)
               /\ \A i \in 1..Len(o) : r[i] = o[RoundPlace(h, Len(o), i)]
               /\ o[h] = IF s.hand = null THEN s.head ELSE s.hand
<1> DEFINE n == Len(o)
           q == AsQueue(s, o)
           r == Q!Round(q)
<1>1. n \in Nat \ {0} /\ o \in Seq(Key) /\ \A i \in 1..n : o[i] \in Key /\ o[i] # null
  <2>1. PICK k \in s.nodes : TRUE
    OBVIOUS
  <2>2. PICK i \in 1..n : k = o[i]
    BY ListFacts
  <2>3. n \in Nat /\ \A j \in 1..n : o[j] \in Key /\ o[j] # null
    BY ListFacts
  <2>4. o \in Seq(Key)
    BY DEF IsList
  <2> HIDE DEF n
  <2>5. n # 0
    BY <2>2, <2>3
  <2>6. QED
    BY <2>3, <2>4, <2>5
<1>2. q.keys = o /\ q.hand = s.hand
  BY DEF AsQueue
<1> HIDE DEF q
<1>3. CASE s.hand = null
  <2>1. r = o
    BY <1>2, <1>3 DEF Q!Round
  <2>2. \A i \in 1..n : RoundPlace(1, n, i) = i
    BY <1>1 DEF RoundPlace
  <2>3. 1 \in 1..n /\ o[1] = s.head
    BY <1>1, EmptySeq DEF IsList
  <2>4. QED
    BY <1>1, <1>3, <2>1, <2>2, <2>3 DEF q
<1>4. CASE s.hand # null
  <2>1. PICK h \in 1..n : s.hand = o[h]
    <3>1. s.hand \in s.nodes
      BY <1>4 DEF IsList
    <3>2. QED
      BY <3>1, ListFacts
  <2>2. Q!PlaceOf(q, s.hand) = h
    BY <2>1, QueueFacts DEF q
  <2> DEFINE a == SubSeq(o, h, n)
             b == SubSeq(o, 1, h - 1)
  <2>3. r = a \o b
    BY <1>2, <1>4, <2>2 DEF Q!Round
  <2>4. a \in Seq(Key) /\ Len(a) = n - h + 1 /\ \A i \in 1..n - h + 1 : a[i] = o[h + i - 1]
    <3>1. h \in Int /\ n \in Int /\ \A i \in h..n : o[i] \in Key
      BY <1>1
    <3>2. /\ a \in Seq(Key)
          /\ Len(a) = IF h <= n THEN n - h + 1 ELSE 0
          /\ \A i \in 1..n - h + 1 : a[i] = o[h + i - 1]
      BY <3>1, SubSeqProperties
    <3>3. QED
      BY <1>1, <3>2
  <2>5. b \in Seq(Key) /\ Len(b) = h - 1 /\ \A i \in 1..h - 1 : b[i] = o[i]
    <3>1. h - 1 \in Int /\ 1 \in Int /\ \A i \in 1..h - 1 : o[i] \in Key
      BY <1>1
    <3>2. /\ b \in Seq(Key)
          /\ Len(b) = IF 1 <= h - 1 THEN (h - 1) - 1 + 1 ELSE 0
          /\ \A i \in 1..(h - 1) - 1 + 1 : b[i] = o[1 + i - 1]
      BY <3>1, SubSeqProperties
    <3>3. QED
      BY <1>1, <3>2
  <2> HIDE DEF a, b
  <2>6. /\ a \o b \in Seq(Key)
        /\ Len(a \o b) = Len(a) + Len(b)
        /\ \A i \in 1..Len(a) + Len(b) : (a \o b)[i] = IF i <= Len(a) THEN a[i] ELSE b[i - Len(a)]
    BY <2>4, <2>5, ConcatProperties
  <2>7. Len(a) + Len(b) = n
    BY <1>1, <2>4, <2>5
  <2>8. ASSUME NEW i \in 1..n PROVE (a \o b)[i] = o[RoundPlace(h, n, i)]
    <3>1. CASE i <= n - h + 1
      <4>1. i \in 1..n - h + 1
        BY <1>1, <3>1
      <4>2. QED
        BY <2>4, <2>6, <2>7, <3>1, <4>1 DEF RoundPlace
    <3>2. CASE ~(i <= n - h + 1)
      <4>1. i - (n - h + 1) \in 1..h - 1
        BY <1>1, <3>2
      <4>2. QED
        BY <2>4, <2>5, <2>6, <2>7, <3>2, <4>1 DEF RoundPlace
    <3>3. QED
      BY <3>1, <3>2
  <2>9. QED
    BY <1>4, <2>1, <2>3, <2>6, <2>7, <2>8 DEF q
<1>5. QED
  BY <1>3, <1>4

\* The hand of the list goes round the queue.
LEMMA HandGoesRound ==
  ASSUME NEW s, NEW o, IsList(s, o), s.nodes # {}
  PROVE  LET r == Q!Round(AsQueue(s, o))
             at == HandAt(s)
         IN  /\ Len(r) = Len(o) /\ Len(o) \in Nat \ {0} /\ MaxIter(s) = 2 * Len(o)
             /\ s.nodes = {r[i] : i \in 1..Len(o)}
             /\ \A i, j \in 1..Len(o) : r[i] = r[j] => i = j
             /\ \A i \in 0..(Len(o) - 1) : at[i] = r[i + 1]
             /\ at[Len(o)] = r[1]
<1> DEFINE n == Len(o)
           r == Q!Round(AsQueue(s, o))
           at == HandAt(s)
<1>1. PICK h \in 1..n :
        /\ r \in Seq(Key) /\ Len(r) = n
        /\ \A i \in 1..n : r[i] = o[RoundPlace(h, n, i)]
        /\ o[h] = IF s.hand = null THEN s.head ELSE s.hand
  BY RoundIsPlaced
<1>2. n \in Nat \ {0} /\ MaxIter(s) = 2 * n /\ \A i \in 1..n : o[i] # null
  <2>1. n \in Nat /\ \A i \in 1..n : o[i] # null
    BY ListFacts
  <2>2. MaxIter(s) = 2 * n
    BY ListSize DEF MaxIter, Size
  <2> HIDE DEF n
  <2>3. n # 0
    BY <2>1
  <2>4. QED
    BY <2>1, <2>2, <2>3
<1>3. \A j \in 1..n : After(s, o[j]) = IF j = n THEN o[1] ELSE o[j + 1]
  <2> TAKE j \in 1..n
  <2>1. s.next[o[j]] = IF j = n THEN null ELSE o[j + 1]
    BY DEF IsList
  <2>2. s.head = o[1]
    BY <1>2, EmptySeq DEF IsList
  <2>3. j # n => j + 1 \in 1..n
    BY <1>2
  <2>4. QED
    BY <1>2, <2>1, <2>2, <2>3 DEF After
<1>4. /\ at[0] = o[h]
      /\ \A i \in 1..2 * n : at[i] = After(s, at[i - 1])
  BY <1>1, <1>2, HandTravels
<1>4a. s.nodes = {o[i] : i \in 1..n} /\ \A i, j \in 1..n : o[i] = o[j] => i = j
  BY DEF IsList, Distinct
<1> HIDE DEF n, r, at
<1> DEFINE P(i) == RoundPlace(h, n, i)
<1>5. /\ \A i \in 1..n : P(i) \in 1..n
      /\ \A i, j \in 1..n : P(i) = P(j) => i = j
      /\ \A j \in 1..n : \E i \in 1..n : P(i) = j
      /\ P(1) = h
      /\ \A i \in 1..(n - 1) : P(i + 1) = IF P(i) = n THEN 1 ELSE P(i) + 1
      /\ h = IF P(n) = n THEN 1 ELSE P(n) + 1
  BY <1>2, RoundPlaceFacts
<1> HIDE DEF P
<1>6. \A i \in 1..n : r[i] = o[P(i)]
  BY <1>1 DEF P
<1>7. s.nodes = {r[i] : i \in 1..n}
  BY <1>4a, <1>5, <1>6
<1>8. \A i, j \in 1..n : r[i] = r[j] => i = j
  BY <1>4a, <1>5, <1>6
<1>9. \A i \in 1..(n - 1) : After(s, r[i]) = r[i + 1]
  <2> TAKE i \in 1..(n - 1)
  <2>1. i \in 1..n /\ i + 1 \in 1..n
    BY <1>2
  <2>2. r[i] = o[P(i)] /\ r[i + 1] = o[P(i + 1)] /\ P(i) \in 1..n
    BY <1>5, <1>6, <2>1
  <2>3. QED
    BY <1>3, <1>5, <2>2
<1>10. After(s, r[n]) = r[1]
  <2>1. 1 \in 1..n /\ n \in 1..n
    BY <1>2
  <2>2. r[n] = o[P(n)] /\ r[1] = o[h] /\ P(n) \in 1..n
    BY <1>5, <1>6, <2>1
  <2>3. QED
    BY <1>3, <1>5, <2>2
<1> DEFINE Strays == {i \in 0..(n - 1) : at[i] # r[i + 1]}
<1>11. Strays = {}
  <2>1. SUFFICES ASSUME Strays # {} PROVE FALSE
    OBVIOUS
  <2>2. Strays \subseteq Nat
    BY <1>2
  <2>3. PICK i \in Strays : \A j \in Strays : i <= j
    <3> HIDE DEF Strays
    <3>1. QED
      BY <2>1, <2>2, LeastNumber
  <2>4. i # 0
    <3>1. at[0] = r[1]
      BY <1>2, <1>4, <1>5, <1>6
    <3>2. QED
      BY <2>3, <3>1
  <2>5. i \in 1..(n - 1) /\ i \in 1..2 * n /\ i - 1 \in 0..(n - 1) /\ ~(i <= i - 1)
    BY <1>2, <2>3, <2>4
  <2>6. i - 1 \notin Strays
    <3> HIDE DEF Strays
    <3>1. QED
      BY <2>3, <2>5
  <2>7. at[i - 1] = r[i]
    BY <2>5, <2>6
  <2>8. at[i] = r[i + 1]
    BY <1>4, <1>9, <2>5, <2>7
  <2>9. QED
    BY <2>3, <2>8
<1>12. \A i \in 0..(n - 1) : at[i] = r[i + 1]
  BY <1>11
<1>13. at[n] = r[1]
  <2>1. n \in 1..2 * n /\ n - 1 \in 0..(n - 1) /\ (n - 1) + 1 = n
    BY <1>2
  <2>2. at[n] = After(s, at[n - 1]) /\ at[n - 1] = r[n]
    BY <1>4, <1>12, <2>1
  <2>3. QED
    BY <1>10, <2>2
<1>14. QED
  BY <1>1, <1>2, <1>7, <1>8, <1>12, <1>13 DEF n, r, at

\* The hand meets k first of the keys not visited, or of all, and forgets the visits it passes.
EndsInRound(s, o, k, passed) ==
  LET r == Q!Round(AsQueue(s, o))
      V == {j \in s.nodes : s.visited[j]}
  IN  \/ s.nodes \subseteq V /\ k = r[1] /\ passed = s.nodes
      \/ \E i \in 1..Len(o) : /\ r[i] \notin V /\ \A j \in 1..(i - 1) : r[j] \in V
                            /\ k = r[i] /\ passed = {r[j] : j \in 1..(i - 1)}

\* The loop of evict ends where the queue says, and has cleared what the queue says.
LEMMA LoopEndsInRound ==
  ASSUME NEW s, NEW o, IsList(s, o), s.nodes # {}
  PROVE  LET m == LastRound(s, HandAt(s))
         IN  EndsInRound(s, o, HandAt(s)[m], {HandAt(s)[j] : j \in 0..(m - 1)})
<1> DEFINE n == Len(o)
           r == Q!Round(AsQueue(s, o))
           at == HandAt(s)
           V == {k \in s.nodes : s.visited[k]}
           m == LastRound(s, at)
           passed == {at[j] : j \in 0..(m - 1)}
<1>1. /\ n \in Nat \ {0} /\ MaxIter(s) = 2 * n
      /\ s.nodes = {r[i] : i \in 1..n}
      /\ \A i, j \in 1..n : r[i] = r[j] => i = j
      /\ \A i \in 0..(n - 1) : at[i] = r[i + 1]
      /\ at[n] = r[1]
  BY HandGoesRound
<1>2. /\ m \in 0..2 * n
      /\ m = 2 * n \/ ~StillVisited(s, at, m)
      /\ \A j \in 0..(m - 1) : StillVisited(s, at, j)
  BY <1>1, LoopEnds
<1> HIDE DEF n, r, at, m
<1>3. m <= n
  <2>1. ~StillVisited(s, at, n)
    <3>1. 0 \in 0..(n - 1) /\ at[0] = at[n]
      BY <1>1
    <3>2. QED
      BY <3>1 DEF StillVisited
  <2>2. n \notin 0..(m - 1)
    BY <1>2, <2>1
  <2>3. QED
    BY <1>1, <1>2, <2>2
<1>4. ASSUME NEW j \in 1..n, j <= m PROVE r[j] \in V
  <2>1. j - 1 \in 0..(m - 1) /\ j - 1 \in 0..(n - 1) /\ (j - 1) + 1 = j
    BY <1>1, <1>2, <1>4
  <2>2. StillVisited(s, at, j - 1) /\ at[j - 1] = r[j]
    BY <1>1, <1>2, <2>1
  <2>3. r[j] \in s.nodes
    BY <1>1
  <2>4. QED
    BY <2>2, <2>3 DEF StillVisited
<1>5. passed = {r[j] : j \in 1..m}
  <2>1. \A j \in 0..(m - 1) : j + 1 \in 1..m /\ at[j] = r[j + 1]
    BY <1>1, <1>2, <1>3
  <2>2. \A j \in 1..m : j - 1 \in 0..(m - 1) /\ at[j - 1] = r[j]
    <3> TAKE j \in 1..m
    <3>1. j - 1 \in 0..(m - 1) /\ (j - 1) + 1 = j
      BY <1>2
    <3>2. QED
      BY <2>1, <3>1
  <2>3. QED
    BY <2>1, <2>2
<1> HIDE DEF passed, V
<1>6. CASE m = n
  <2>1. \A j \in 1..n : r[j] \in V
    BY <1>1, <1>4, <1>6
  <2>2. s.nodes \subseteq V
    BY <1>1, <2>1
  <2>3. passed = s.nodes
    BY <1>1, <1>5, <1>6
  <2>4. QED
    BY <1>1, <1>6, <2>2, <2>3 DEF EndsInRound, n, r, at, m, V, passed
<1>7. CASE m # n
  <2>1. m \in 0..(n - 1) /\ m + 1 \in 1..n /\ m # 2 * n /\ (m + 1) - 1 = m
    BY <1>1, <1>2, <1>3, <1>7
  <2>2. at[m] = r[m + 1] /\ ~StillVisited(s, at, m)
    BY <1>1, <1>2, <2>1
  <2>3. \A j \in 0..(m - 1) : at[j] # at[m]
    <3> TAKE j \in 0..(m - 1)
    <3>1. j \in 0..(n - 1) /\ j + 1 \in 1..n /\ j + 1 # m + 1
      BY <1>1, <2>1
    <3>2. at[j] = r[j + 1]
      BY <1>1, <3>1
    <3>3. QED
      BY <1>1, <2>1, <2>2, <3>1, <3>2
  <2>4. r[m + 1] \notin V
    BY <2>2, <2>3 DEF StillVisited, V
  <2>5. \A j \in 1..((m + 1) - 1) : r[j] \in V
    BY <1>1, <1>4, <2>1
  <2>6. passed = {r[j] : j \in 1..((m + 1) - 1)}
    BY <1>5, <2>1
  <2>7. \E i \in 1..n : /\ r[i] \notin V /\ \A j \in 1..(i - 1) : r[j] \in V
                       /\ at[m] = r[i] /\ passed = {r[j] : j \in 1..(i - 1)}
    BY <2>1, <2>2, <2>4, <2>5, <2>6
  <2>8. QED
    BY <2>7 DEF EndsInRound, n, r, at, m, V, passed
<1>8. QED
  BY <1>6, <1>7

\* What the queue evicts.
LEMMA QueueEvicts ==
  ASSUME NEW s, NEW o, IsList(s, o), s.nodes # {}, NEW k, NEW passed,
         EndsInRound(s, o, k, passed)
  PROVE  Q!evict(AsQueue(s, o)) =
           [key   |-> k,
            queue |-> [keys    |-> Q!Without(AsQueue(s, o), k),
                       visited |-> {j \in s.nodes : s.visited[j]} \ passed,
                       hand    |-> Q!HandOff(AsQueue(s, o), k)]]
<1> DEFINE q == AsQueue(s, o)
           r == Q!Round(q)
           V == {j \in s.nodes : s.visited[j]}
           around == Q!Keys(q) \subseteq q.visited
           Stops(i) == r[i] \notin q.visited /\ \A j \in 1..(i - 1) : r[j] \in q.visited
           n == IF around THEN 1 ELSE CHOOSE i \in 1..Len(q.keys) : Stops(i)
           gone == IF around THEN Q!Keys(q) ELSE {r[j] : j \in 1..(n - 1)}
<1>1. q.keys = o /\ q.visited = V /\ Q!Keys(q) = s.nodes
  BY QueueFacts DEF AsQueue
<1>2. o # <<>> /\ s.nodes = {r[i] : i \in 1..Len(o)} /\ Len(o) \in Nat
  <2>1. Len(o) \in Nat \ {0} /\ s.nodes = {r[i] : i \in 1..Len(o)}
    BY HandGoesRound
  <2>2. o # <<>>
    BY <2>1
  <2>3. QED
    BY <2>1, <2>2
<1>3. \/ s.nodes \subseteq V /\ k = r[1] /\ passed = s.nodes
      \/ \E i \in 1..Len(o) : /\ r[i] \notin V /\ \A j \in 1..(i - 1) : r[j] \in V
                            /\ k = r[i] /\ passed = {r[j] : j \in 1..(i - 1)}
  BY DEF EndsInRound
<1>4. Q!evict(q) = [key   |-> r[n],
                    queue |-> [keys |-> Q!Without(q, r[n]), visited |-> q.visited \ gone,
                               hand |-> Q!HandOff(q, r[n])]]
  <2>1. q.keys # <<>>
    BY <1>1, <1>2
  <2> HIDE DEF q
  <2>2. QED
    BY <2>1 DEF Q!evict
<1> HIDE DEF q, r, V
<1>5. k = r[n] /\ gone = passed
  <2>1. CASE s.nodes \subseteq V
    <3>1. around /\ n = 1 /\ gone = s.nodes
      BY <1>1, <2>1
    <3>2. QED
      BY <1>2, <1>3, <2>1, <3>1
  <2>2. CASE ~(s.nodes \subseteq V)
    <3>1. ~around
      BY <1>1, <2>2
    <3>2. PICK i \in 1..Len(o) : /\ r[i] \notin V /\ \A j \in 1..(i - 1) : r[j] \in V
                                 /\ k = r[i] /\ passed = {r[j] : j \in 1..(i - 1)}
      BY <1>3, <2>2
    <3>3. Stops(i)
      BY <1>1, <3>2
    <3>4. \A j \in 1..Len(o) : Stops(j) => j = i
      <4> SUFFICES ASSUME NEW j \in 1..Len(o), Stops(j), j # i PROVE FALSE
        OBVIOUS
      <4>1. j \in 1..(i - 1) \/ i \in 1..(j - 1)
        BY <1>2
      <4>2. QED
        BY <3>3, <4>1
    <3> HIDE DEF Stops, around
    <3>5. n = i
      BY <1>1, <3>1, <3>2, <3>3, <3>4
    <3> HIDE DEF n
    <3>6. QED
      BY <3>1, <3>2, <3>5
  <2>3. QED
    BY <2>1, <2>2
<1> HIDE DEF n, gone
<1>6. QED
  BY <1>1, <1>4, <1>5 DEF q, V

LEMMA EvictIsQueued ==
  ASSUME NEW s, Sound(s)
  PROVE  /\ evict(s).key = Q!evict(QueueOf(s)).key
         /\ QueueOf(evict(s).sieve) = Q!evict(QueueOf(s)).queue
<1>1. PICK o \in Seq(Key) : IsList(s, o)
  BY DEF Sound
<1>2. s \in SieveState
  BY DEF Sound
<1>3. QueueOf(s) = AsQueue(s, o)
  BY <1>1, QueueOfList
<1>4. CASE s.nodes = {}
  <2>1. o = <<>>
    <3>1. Len(o) \in Nat /\ ~\E i \in 1..Len(o) : TRUE
      BY <1>1, <1>4, ListFacts
    <3>2. Len(o) = 0
      BY <3>1
    <3>3. QED
      BY <3>2, EmptySeq
  <2>2. Q!evict(QueueOf(s)) = [key |-> null, queue |-> QueueOf(s)]
    <3>1. QueueOf(s).keys = <<>>
      BY <1>3, <2>1 DEF AsQueue
    <3>2. QED
      BY <3>1 DEF Q!evict
  <2>3. evict(s) = [key |-> null, sieve |-> s]
    BY <1>4 DEF evict
  <2>4. QED
    BY <2>2, <2>3
<1>5. CASE s.nodes # {}
  <2> DEFINE at == HandAt(s)
             m == LastRound(s, at)
             k == at[m]
             passed == {at[j] : j \in 0..(m - 1)}
             bits == clear(s, passed)
             moved == [s EXCEPT !.hand = k, !.visited = bits]
             t == remove(moved, k)
             V == {j \in s.nodes : s.visited[j]}
  <2>1. evict(s) = [key |-> k, sieve |-> t]
    BY <1>5 DEF evict
  <2>2. evict(s).key = k /\ evict(s).sieve = t
    BY <2>1
  <2>3. EndsInRound(s, o, k, passed)
    BY <1>1, <1>5, LoopEndsInRound
  <2> HIDE DEF k, passed, at, m
  <2>4. /\ t.nodes = s.nodes \ {k}
        /\ \E p \in 1..Len(o) : k = o[p] /\ IsList(t, WithoutPlace(o, p))
    <3> HIDE DEF t
    <3>1. /\ evict(s).sieve.nodes = s.nodes \ {evict(s).key}
          /\ \E p \in 1..Len(o) : /\ evict(s).key = o[p]
                                  /\ IsList(evict(s).sieve, WithoutPlace(o, p))
      BY <1>1, <1>2, <1>5, EvictTakesOut
    <3>2. QED
      BY <2>2, <3>1
  <2>5. PICK p \in 1..Len(o) : k = o[p] /\ IsList(t, WithoutPlace(o, p))
    BY <2>4
  <2>6. Q!evict(AsQueue(s, o)) =
          [key   |-> k,
           queue |-> [keys |-> Q!Without(AsQueue(s, o), k), visited |-> V \ passed,
                      hand |-> Q!HandOff(AsQueue(s, o), k)]]
    BY <1>1, <1>5, <2>3, QueueEvicts
  <2>7. k \notin V \/ k \in passed
    <3>1. k \in s.nodes
      BY <1>1, <2>5, ListFacts
    <3>2. QED
      BY <2>3, <3>1 DEF EndsInRound
  <2>8. /\ moved.hand = k /\ moved.visited = bits
        /\ moved.next = s.next /\ moved.head = s.head
    BY <1>2 DEF SieveState
  <2>9. t.visited = bits /\ t.hand = handAfter(moved, k)
    <3>1. moved \in [nodes : SUBSET Key, head : Link, tail : Link, hand : {k},
                     prev : [Key -> Link], next : [Key -> Link], visited : {bits}]
      BY <1>2 DEF SieveState
    <3> HIDE DEF moved, bits
    <3>2. QED
      BY <2>8, <3>1 DEF remove
  <2>10. t.hand = Q!HandOff(AsQueue(s, o), k)
    <3>1. After(moved, k) = After(s, k)
      BY <2>8 DEF After
    <3>2. t.hand = IF After(s, k) = k THEN null ELSE After(s, k)
      <4> HIDE DEF moved, t
      <4>1. QED
        BY <2>8, <2>9, <3>1 DEF handAfter
    <3>3. QED
      BY <1>1, <2>5, <3>2, QueueHandOff
  <2>11. {j \in t.nodes : t.visited[j]} = V \ passed
    <3>1. \A j \in Key : bits[j] = (s.visited[j] /\ j \notin passed)
      BY DEF clear
    <3>2. s.nodes \subseteq Key
      BY <1>2 DEF SieveState
    <3> HIDE DEF t, bits
    <3>3. QED
      BY <2>4, <2>7, <2>9, <3>1, <3>2
  <2>12. Q!Without(AsQueue(s, o), k) = WithoutPlace(o, p)
    BY <1>1, <2>5, QueueFacts
  <2> HIDE DEF t, V
  <2>13. QueueOf(t) = [keys |-> WithoutPlace(o, p), visited |-> V \ passed,
                       hand |-> Q!HandOff(AsQueue(s, o), k)]
    <3>1. QueueOf(t) = AsQueue(t, WithoutPlace(o, p))
      BY <2>5, QueueOfList
    <3>2. QED
      BY <2>10, <2>11, <3>1 DEF AsQueue
  <2>14. QED
    BY <1>3, <2>1, <2>6, <2>12, <2>13
<1>6. QED
  BY <1>4, <1>5

\* Every method of the linked list is the method of the queue of SIEVE, after any sequence
\* of calls and within an eviction (sieve-policy.ts): which key goes, which visits are
\* forgotten and where the hand stops, for every number of keys.
THEOREM ListIsQueue == Spec => []ImplementsQueue
<1>1. Kept => ImplementsQueue
  <2> SUFFICES ASSUME Kept, NEW s \in {store.sieve, evict(store.sieve).sieve}
               PROVE  /\ evict(s).key = Q!evict(QueueOf(s)).key
                      /\ QueueOf(evict(s).sieve) = Q!evict(QueueOf(s)).queue
                      /\ \A k \in Key :
                           /\ QueueOf(access(s, k)) = Q!access(QueueOf(s), k)
                           /\ QueueOf(insert(s, k)) = Q!insert(QueueOf(s), k)
                           /\ QueueOf(delete(s, k)) = Q!delete(QueueOf(s), k)
    BY DEF ImplementsQueue
  <2>1. Sound(store.sieve)
    BY DEF Kept, Whole
  <2>2. Sound(evict(store.sieve).sieve)
    BY <2>1, SoundEvict
  <2>3. Sound(s)
    BY <2>1, <2>2
  <2>4. QED
    BY <2>3, EvictIsQueued, AccessIsQueued, InsertIsQueued, DeleteIsQueued
<1>2. QED
  BY <1>1, AlwaysKept, PTL

===============================================================================
