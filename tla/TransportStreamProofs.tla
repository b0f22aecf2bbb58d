------------------------ MODULE TransportStreamProofs ------------------------
(***************************************************************************)
(* Theorems about TransportStream, for any number of frames, chunks and     *)
(* callbacks: whichever transport carries them, the frames of a delegation  *)
(* reach the application as EventStream promises, and a generator that      *)
(* waits keeps nothing from it.                                             *)
(*                                                                         *)
(* The argument says where the text is.  The server's frames are one long   *)
(* sequence of tokens; the buffer and the wire hold a piece of it that      *)
(* starts right after the last frame split off, so a blank line is every    *)
(* third token of buffer and chunk together (SplitWritten).  Over gRPC the  *)
(* frames given, queued and on the wire are a piece of what was sent.       *)
(***************************************************************************)
EXTENDS TransportStream, FiniteSetTheorems, SequenceTheorems, TLAPS

\* t is the m-th token of the frames s, and a text that continues s after place a.
IsToken(t, s, m) ==
  \E j \in Nat :
    \/ m = 3 * j + 1 /\ t = [frame |-> s[j + 1], part |-> "event"]
    \/ m = 3 * j + 2 /\ t = [frame |-> s[j + 1], part |-> "data"]
    \/ m = 3 * j + 3 /\ t = [frame |-> s[j + 1], part |-> "blank"]
Written(text, s, a) == \A i \in 1..Len(text) : IsToken(text[i], s, a + i)

\* The n frames of s after the first q.
FramesFrom(s, q, n) == [k \in 1..n |-> s[q + k]]

\* The frames q continue the frames s after place a.
Continues(q, s, a) == \A i \in 1..Len(q) : q[i] = s[a + i]

\* The same, after the first q frames.
IsPlaced(t, s, q, i) ==
  \E h \in Nat :
    \/ i = 3 * h + 1 /\ t = [frame |-> s[q + h + 1], part |-> "event"]
    \/ i = 3 * h + 2 /\ t = [frame |-> s[q + h + 1], part |-> "data"]
    \/ i = 3 * h + 3 /\ t = [frame |-> s[q + h + 1], part |-> "blank"]

LEMMA ThirdTokens ==
  ASSUME NEW q \in Nat, NEW i \in Nat \ {0}, NEW t, NEW s,
         NEW m, m = 3 * q + i, IsToken(t, s, m)
  PROVE  IsPlaced(t, s, q, i)
<1>1. PICK j \in Nat :
        \/ 3 * q + i = 3 * j + 1 /\ t = [frame |-> s[j + 1], part |-> "event"]
        \/ 3 * q + i = 3 * j + 2 /\ t = [frame |-> s[j + 1], part |-> "data"]
        \/ 3 * q + i = 3 * j + 3 /\ t = [frame |-> s[j + 1], part |-> "blank"]
  BY DEF IsToken
<1>2. PICK h \in Nat : h = j - q
  <2>1. j - q \in Nat
    BY <1>1
  <2>2. QED
    BY <2>1
<1>3. q + h + 1 = j + 1
  BY <1>2
<1>4. \/ i = 3 * h + 1 /\ t = [frame |-> s[q + h + 1], part |-> "event"]
      \/ i = 3 * h + 2 /\ t = [frame |-> s[q + h + 1], part |-> "data"]
      \/ i = 3 * h + 3 /\ t = [frame |-> s[q + h + 1], part |-> "blank"]
  <2>1. /\ 3 * q + i = 3 * j + 1 => i = 3 * h + 1
        /\ 3 * q + i = 3 * j + 2 => i = 3 * h + 2
        /\ 3 * q + i = 3 * j + 3 => i = 3 * h + 3
    BY <1>2
  <2>2. QED
    BY <1>1, <1>3, <2>1
<1>5. QED
  BY <1>4 DEF IsPlaced

LEMMA GreatestIsMax ==
  ASSUME NEW S, NEW x \in S, S \subseteq Nat, \A y \in S : y <= x
  PROVE  Sse!Max(S) = x
<1>1. \A y \in S : x >= y
  OBVIOUS
<1>2. \A z \in S : (\A y \in S : z >= y) => z = x
  OBVIOUS
<1>3. QED
  BY <1>1, <1>2 DEF Sse!Max

\* The first m multiples of 3.
Threes(m) == {3 * j : j \in 1..m}

LEMMA CountThrees ==
  ASSUME NEW m \in Nat
  PROVE  Sse!Cardinality(Threes(m)) = m
<1> DEFINE f == [j \in 1..m |-> 3 * j]
<1>1. f \in Bijection(1..m, Threes(m))
  <2>1. f \in [1..m -> Threes(m)]
    BY DEF Threes
  <2>2. \A j, k \in 1..m : f[j] = f[k] => j = k
    OBVIOUS
  <2>3. \A t \in Threes(m) : \E j \in 1..m : f[j] = t
    BY DEF Threes
  <2> HIDE DEF f
  <2>4. QED
    BY <2>1, <2>2, <2>3 DEF Bijection, Injection, IsInjective, Surjection
<1>2. IsFiniteSet(1..m) /\ Cardinality(1..m) = m
  BY FS_Interval
<1>3. Cardinality(Threes(m)) = m
  <2> HIDE DEF f
  <2>1. QED
    BY <1>1, <1>2, FS_Bijection DEF ExistsBijection
<1>4. \A S : Sse!Cardinality(S) = Cardinality(S)
  BY DEF Sse!Cardinality, Cardinality
<1>5. QED
  BY <1>3, <1>4

LEMMA ThreesBelow ==
  ASSUME NEW m \in Nat, NEW k \in 1..m
  PROVE  {j \in Threes(m) : j < 3 * k} = Threes(k - 1)
BY DEF Threes

LEMMA GreatestThree ==
  ASSUME NEW m \in Nat
  PROVE  LET S == {0} \cup Threes(m)
         IN  S \subseteq Nat /\ 3 * m \in S /\ \A y \in S : y <= 3 * m
<1>1. \A j \in 1..m : 3 * j \in Nat /\ 3 * j <= 3 * m
  OBVIOUS
<1>2. 3 * m \in {0} \cup Threes(m)
  <2>1. m = 0 \/ m \in 1..m
    OBVIOUS
  <2>2. QED
    BY <2>1 DEF Threes
<1>3. QED
  BY <1>1, <1>2 DEF Threes

\* What the splitter makes of a text that starts at the beginning of a frame: the frames
\* that are whole, in order, and the tokens after them.
LEMMA SplitWritten ==
  ASSUME NEW s \in Seq(Frame), NEW q \in Nat, NEW text \in Seq(Sse!Token),
         NEW a, a = 3 * q, Written(text, s, a), a + Len(text) <= 3 * Len(s), NoFrame \notin Frame,
         NEW n \in Nat, 3 * n <= Len(text), Len(text) < 3 * n + 3
  PROVE  /\ Sse!Split(text) = FramesFrom(s, q, n)
         /\ Sse!Rest(text) = SubSeq(text, 3 * n + 1, Len(text))
         /\ Sse!Blanks(text) = Threes(n)
<1> DEFINE L == Len(text)
<1>0. L \in Nat /\ DOMAIN text = 1..L
  OBVIOUS
<1>1. \A i \in 1..L : \E h \in Nat :
        \/ i = 3 * h + 1 /\ text[i] = [frame |-> s[q + h + 1], part |-> "event"]
        \/ i = 3 * h + 2 /\ text[i] = [frame |-> s[q + h + 1], part |-> "data"]
        \/ i = 3 * h + 3 /\ text[i] = [frame |-> s[q + h + 1], part |-> "blank"]
  <2> TAKE i \in 1..L
  <2>1. PICK t : t = text[i]
    OBVIOUS
  <2>2. PICK m : m = 3 * q + i /\ IsToken(t, s, m)
    BY <1>0, <2>1 DEF Written
  <2> i \in Nat \ {0}
    BY <1>0
  <2>3. IsPlaced(t, s, q, i)
    BY <2>2, ThirdTokens
  <2>4. QED
    BY <2>1, <2>3 DEF IsPlaced
<1>2. Sse!Blanks(text) = Threes(n)
  <2>1. ASSUME NEW i \in 1..L, text[i].part = "blank" PROVE i \in Threes(n)
    <3>0. PICK h \in Nat :
            \/ i = 3 * h + 1 /\ text[i] = [frame |-> s[q + h + 1], part |-> "event"]
            \/ i = 3 * h + 2 /\ text[i] = [frame |-> s[q + h + 1], part |-> "data"]
            \/ i = 3 * h + 3 /\ text[i] = [frame |-> s[q + h + 1], part |-> "blank"]
      BY <1>1
    <3>1. i = 3 * h + 3
      BY <2>1, <3>0
    <3>2. h + 1 \in 1..n /\ i = 3 * (h + 1)
      BY <1>0, <3>1
    <3>3. QED
      BY <3>2 DEF Threes
  <2>2. ASSUME NEW k \in 1..n PROVE 3 * k \in 1..L /\ text[3 * k].part = "blank"
    <3>1. 3 * k \in 1..L
      BY <1>0
    <3>2. \A h \in Nat : 3 * k # 3 * h + 1 /\ 3 * k # 3 * h + 2
      OBVIOUS
    <3>3. PICK h \in Nat : text[3 * k] = [frame |-> s[q + h + 1], part |-> "blank"]
      BY <1>1, <3>1, <3>2
    <3>4. QED
      BY <3>1, <3>3
  <2>3. QED
    BY <1>0, <2>1, <2>2 DEF Sse!Blanks, Threes
<1>3. \A k \in 1..n : Sse!BlankBefore(text, 3 * k) = 3 * (k - 1)
  <2> TAKE k \in 1..n
  <2> DEFINE S == {0} \cup {j \in Sse!Blanks(text) : j < 3 * k}
  <2>1. S = {0} \cup Threes(k - 1) /\ k - 1 \in Nat
    BY <1>2, ThreesBelow
  <2>2. S \subseteq Nat /\ 3 * (k - 1) \in S /\ \A y \in S : y <= 3 * (k - 1)
    BY <2>1, GreatestThree
  <2> HIDE DEF S
  <2>3. Sse!Max(S) = 3 * (k - 1)
    BY <2>2, GreatestIsMax
  <2>4. QED
    BY <2>3 DEF S, Sse!BlankBefore
<1>4. Sse!BlankBefore(text, L + 1) = 3 * n
  <2> DEFINE S == {0} \cup {j \in Sse!Blanks(text) : j < L + 1}
  <2>1. S = {0} \cup Threes(n)
    BY <1>0, <1>2 DEF Threes
  <2>2. S \subseteq Nat /\ 3 * n \in S /\ \A y \in S : y <= 3 * n
    BY <2>1, GreatestThree
  <2> HIDE DEF S
  <2>3. Sse!Max(S) = 3 * n
    BY <2>2, GreatestIsMax
  <2>4. QED
    BY <2>3 DEF S, Sse!BlankBefore
<1>5. \A k \in 1..n : /\ Sse!parseSseEvent(Sse!BlockBefore(text, 3 * k)) = s[q + k]
                      /\ s[q + k] # NoFrame
  <2> TAKE k \in 1..n
  <2>1. 3 * k - 2 \in 1..L /\ 3 * k - 1 \in 1..L /\ q + k \in 1..Len(s)
    BY <1>0
  <2>2. /\ text[3 * k - 2] = [frame |-> s[q + k], part |-> "event"]
        /\ text[3 * k - 1] = [frame |-> s[q + k], part |-> "data"]
    <3>1. \A h \in Nat : /\ 3 * k - 2 # 3 * h + 2 /\ 3 * k - 2 # 3 * h + 3
                         /\ 3 * k - 1 # 3 * h + 1 /\ 3 * k - 1 # 3 * h + 3
      OBVIOUS
    <3>2. \A h \in Nat : /\ 3 * k - 2 = 3 * h + 1 => q + h + 1 = q + k
                         /\ 3 * k - 1 = 3 * h + 2 => q + h + 1 = q + k
      OBVIOUS
    <3>3. PICK h \in Nat : 3 * k - 2 = 3 * h + 1 /\ text[3 * k - 2] = [frame |-> s[q + h + 1], part |-> "event"]
      BY <1>1, <2>1, <3>1
    <3>4. PICK g \in Nat : 3 * k - 1 = 3 * g + 2 /\ text[3 * k - 1] = [frame |-> s[q + g + 1], part |-> "data"]
      BY <1>1, <2>1, <3>1
    <3>5. QED
      BY <3>2, <3>3, <3>4
  <2> DEFINE block == SubSeq(text, 3 * (k - 1) + 1, 3 * k - 1)
  <2>3. Len(block) = 2 /\ block[1] = text[3 * k - 2] /\ block[2] = text[3 * k - 1] /\ block \in Seq(Sse!Token)
    <3>1. 3 * (k - 1) + 1 = 3 * k - 2 /\ 3 * k - 2 \in Int /\ 3 * k - 1 \in Int
      OBVIOUS
    <3> DEFINE y == 3 * k - 2
               z == 3 * k - 1
    <3>2. \A i \in y..z : text[i] \in Sse!Token
      BY <1>0, <2>1
    <3>3. /\ z - y + 1 = 2 /\ y + 1 - 1 = y /\ y + 2 - 1 = z
          /\ y <= z /\ y \in Int /\ z \in Int
      OBVIOUS
    <3>4. block = SubSeq(text, y, z)
      BY <3>1
    <3> HIDE DEF y, z, block
    <3>5. /\ SubSeq(text, y, z) \in Seq(Sse!Token) /\ Len(SubSeq(text, y, z)) = 2
          /\ \A i \in 1..2 : SubSeq(text, y, z)[i] = text[y + i - 1]
      BY <3>2, <3>3, SubSeqProperties
    <3>6. block[1] = text[y] /\ block[2] = text[z]
      <4>1. 1 \in 1..2 /\ 2 \in 1..2
        OBVIOUS
      <4>2. block[1] = text[y + 1 - 1] /\ block[2] = text[y + 2 - 1]
        BY <3>4, <3>5, <4>1
      <4>3. QED
        BY <3>3, <4>2
    <3>7. QED
      BY <3>4, <3>5, <3>6 DEF y, z
  <2>4. Sse!BlockBefore(text, 3 * k) = block
    BY <1>3 DEF Sse!BlockBefore
  <2>5. [i \in DOMAIN block |-> block[i].part] = <<"event", "data">> /\ block[1].frame = s[q + k]
    <3> HIDE DEF block
    <3>1. DOMAIN block = 1..2
      BY <2>3
    <3>2. block[1].part = "event" /\ block[2].part = "data" /\ block[1].frame = s[q + k]
      BY <2>2, <2>3
    <3>3. \A i \in 1..2 : block[i].part = <<"event", "data">>[i]
      BY <3>2
    <3>4. QED
      BY <3>1, <3>2, <3>3
  <2> HIDE DEF block
  <2>6. Sse!parseSseEvent(block) = s[q + k]
    BY <2>5 DEF Sse!parseSseEvent
  <2>7. s[q + k] \in Frame
    BY <2>1
  <2>8. QED
    BY <2>4, <2>6, <2>7
<1>6. Sse!Ends(text) = Threes(n)
  BY <1>2, <1>5 DEF Sse!Ends, Threes
<1>7. \A k \in 1..n : Sse!NthEnd(text, k) = 3 * k
  <2> TAKE k \in 1..n
  <2> DEFINE Before(i) == {j \in Threes(n) : j < i}
  <2>1. \A l \in 1..n : Before(3 * l) = Threes(l - 1) /\ l - 1 \in Nat
    BY ThreesBelow
  <2>2. \A l \in 1..n : Sse!Cardinality(Before(3 * l)) = l - 1
    BY <2>1, CountThrees
  <2>3. \A i \in Threes(n) : \E l \in 1..n : i = 3 * l
    BY DEF Threes
  <2>4. 3 * k \in Threes(n)
    BY DEF Threes
  <2>5. ASSUME NEW i \in Threes(n), Sse!Cardinality(Before(i)) = k - 1 PROVE i = 3 * k
    <3>1. PICK l \in 1..n : i = 3 * l
      BY <2>3
    <3> HIDE DEF Before
    <3>2. l - 1 = k - 1
      BY <2>2, <2>5, <3>1
    <3>3. QED
      BY <3>1, <3>2
  <2>6. Sse!Cardinality(Before(3 * k)) = k - 1
    BY <2>2
  <2>7. Sse!NthEnd(text, k) = CHOOSE i \in Threes(n) : Sse!Cardinality(Before(i)) = k - 1
    BY <1>6 DEF Sse!NthEnd
  <2> HIDE DEF Before
  <2>8. QED
    BY <2>4, <2>5, <2>6, <2>7
<1>8. Sse!Cardinality(Sse!Ends(text)) = n
  BY <1>6, CountThrees
<1>9. Sse!Split(text) = FramesFrom(s, q, n)
  BY <1>5, <1>7, <1>8 DEF Sse!Split, FramesFrom
<1>10. Sse!Rest(text) = SubSeq(text, 3 * n + 1, L)
  BY <1>4 DEF Sse!Rest
<1>11. QED
  BY <1>2, <1>9, <1>10

-----------------------------------------------------------------------------
(* Pieces of what was written and of what was sent.                           *)

LEMMA TokensStay ==
  ASSUME NEW s \in Seq(Frame), NEW f \in Frame, NEW t, NEW m \in Nat,
         IsToken(t, s, m), m <= 3 * Len(s)
  PROVE  IsToken(t, Append(s, f), m)
<1>1. PICK j \in Nat :
        \/ m = 3 * j + 1 /\ t = [frame |-> s[j + 1], part |-> "event"]
        \/ m = 3 * j + 2 /\ t = [frame |-> s[j + 1], part |-> "data"]
        \/ m = 3 * j + 3 /\ t = [frame |-> s[j + 1], part |-> "blank"]
  BY DEF IsToken
<1>2. j + 1 \in 1..Len(s)
  BY <1>1
<1>3. Append(s, f)[j + 1] = s[j + 1]
  BY <1>2
<1>4. QED
  BY <1>1, <1>3 DEF IsToken

LEMMA WrittenStays ==
  ASSUME NEW s \in Seq(Frame), NEW f \in Frame, NEW text \in Seq(Sse!Token), NEW a \in Nat,
         Written(text, s, a), a + Len(text) <= 3 * Len(s)
  PROVE  Written(text, Append(s, f), a)
<1> SUFFICES ASSUME NEW i \in 1..Len(text) PROVE IsToken(text[i], Append(s, f), a + i)
  BY DEF Written
<1>1. PICK m : m = a + i
  OBVIOUS
<1>2. m \in Nat /\ m <= 3 * Len(s) /\ IsToken(text[i], s, m)
  BY <1>1 DEF Written
<1>3. IsToken(text[i], Append(s, f), m)
  BY <1>2, TokensStay
<1>4. QED
  BY <1>1, <1>3

LEMMA WrittenPiece ==
  ASSUME NEW s, NEW text \in Seq(Sse!Token), NEW a \in Nat, Written(text, s, a),
         NEW m \in Nat, NEW n \in Nat, m <= n, n <= Len(text), NEW b, b = a + m
  PROVE  LET piece == SubSeq(text, m + 1, n)
         IN  piece \in Seq(Sse!Token) /\ Len(piece) = n - m /\ Written(piece, s, b)
<1> DEFINE piece == SubSeq(text, m + 1, n)
           c == m + 1
<1>1. c \in Int /\ n \in Int /\ \A i \in c..n : text[i] \in Sse!Token
  OBVIOUS
<1>2. piece = SubSeq(text, c, n)
  OBVIOUS
<1> HIDE DEF c, piece
<1>3. /\ SubSeq(text, c, n) \in Seq(Sse!Token)
      /\ Len(SubSeq(text, c, n)) = IF c <= n THEN n - c + 1 ELSE 0
      /\ \A i \in 1..n - c + 1 : SubSeq(text, c, n)[i] = text[c + i - 1]
  BY <1>1, SubSeqProperties
<1>4. piece \in Seq(Sse!Token) /\ Len(piece) = n - m
  BY <1>2, <1>3 DEF c
<1>5. ASSUME NEW i \in 1..n - m PROVE IsToken(piece[i], s, b + i)
  <2>1. i \in 1..n - c + 1 /\ c + i - 1 = m + i
    BY DEF c
  <2>2. piece[i] = text[m + i]
    BY <1>2, <1>3, <2>1
  <2>3. m + i \in 1..Len(text) /\ a + (m + i) = b + i
    OBVIOUS
  <2>4. QED
    BY <2>2, <2>3 DEF Written
<1>6. QED
  BY <1>4, <1>5 DEF Written, piece

LEMMA WrittenJoin ==
  ASSUME NEW s, NEW u \in Seq(Sse!Token), NEW v \in Seq(Sse!Token), NEW a \in Nat,
         Written(u, s, a), NEW b, b = a + Len(u), Written(v, s, b)
  PROVE  u \o v \in Seq(Sse!Token) /\ Len(u \o v) = Len(u) + Len(v) /\ Written(u \o v, s, a)
<1> DEFINE w == u \o v
<1>1. /\ w \in Seq(Sse!Token) /\ Len(w) = Len(u) + Len(v)
      /\ \A i \in 1..Len(w) : w[i] = IF i <= Len(u) THEN u[i] ELSE v[i - Len(u)]
  OBVIOUS
<1> HIDE DEF w
<1>2. ASSUME NEW i \in 1..Len(w) PROVE IsToken(w[i], s, a + i)
  <2>1. CASE i <= Len(u)
    BY <1>1, <2>1 DEF Written
  <2>2. CASE i > Len(u)
    <3>1. i - Len(u) \in 1..Len(v) /\ b + (i - Len(u)) = a + i /\ w[i] = v[i - Len(u)]
      BY <1>1, <2>2
    <3>2. QED
      BY <3>1 DEF Written
  <2>3. QED
    BY <1>1, <2>1, <2>2
<1>3. QED
  BY <1>1, <1>2 DEF Written, w

LEMMA FrameWritten ==
  ASSUME NEW s \in Seq(Frame), NEW f \in Frame, NEW a, a = 3 * Len(s)
  PROVE  LET text == Sse!encodeSseEvent(f)
         IN  text \in Seq(Sse!Token) /\ Len(text) = 3 /\ Written(text, Append(s, f), a)
<1> DEFINE text == Sse!encodeSseEvent(f)
           g == Append(s, f)
           n == Len(s)
<1>1. n \in Nat /\ g[n + 1] = f
  OBVIOUS
<1>2. /\ text \in Seq(Sse!Token) /\ Len(text) = 3
      /\ text[1] = [frame |-> f, part |-> "event"]
      /\ text[2] = [frame |-> f, part |-> "data"]
      /\ text[3] = [frame |-> f, part |-> "blank"]
  BY DEF Sse!encodeSseEvent, Sse!Token
<1> HIDE DEF text, g, n
<1>3. a = 3 * n
  BY DEF n
<1>4. ASSUME NEW i \in 1..3 PROVE IsToken(text[i], g, a + i)
  <2>1. i = 1 \/ i = 2 \/ i = 3
    OBVIOUS
  <2>2. \/ a + i = 3 * n + 1 /\ text[i] = [frame |-> g[n + 1], part |-> "event"]
        \/ a + i = 3 * n + 2 /\ text[i] = [frame |-> g[n + 1], part |-> "data"]
        \/ a + i = 3 * n + 3 /\ text[i] = [frame |-> g[n + 1], part |-> "blank"]
    BY <1>1, <1>2, <1>3, <2>1
  <2>3. QED
    BY <1>1, <2>2 DEF IsToken
<1>5. QED
  BY <1>2, <1>4 DEF Written, text, g

LEMMA ContinuesStays ==
  ASSUME NEW s \in Seq(Frame), NEW f \in Frame, NEW q \in Seq(Frame), NEW a \in Nat,
         Continues(q, s, a), a + Len(q) <= Len(s)
  PROVE  Continues(q, Append(s, f), a)
<1> SUFFICES ASSUME NEW i \in 1..Len(q) PROVE q[i] = Append(s, f)[a + i]
  BY DEF Continues
<1>1. a + i \in 1..Len(s)
  OBVIOUS
<1>2. QED
  BY <1>1 DEF Continues

LEMMA ContinuesAppend ==
  ASSUME NEW s, NEW q \in Seq(Frame), NEW a \in Nat, Continues(q, s, a),
         NEW f \in Frame, f = s[a + Len(q) + 1]
  PROVE  Append(q, f) \in Seq(Frame) /\ Len(Append(q, f)) = Len(q) + 1 /\ Continues(Append(q, f), s, a)
<1> SUFFICES ASSUME NEW i \in 1..Len(q) + 1 PROVE Append(q, f)[i] = s[a + i]
  BY DEF Continues
<1>1. CASE i = Len(q) + 1
  <2>1. a + i = a + Len(q) + 1
    BY <1>1
  <2>2. QED
    BY <1>1, <2>1
<1>2. CASE i # Len(q) + 1
  <2>1. i \in 1..Len(q)
    BY <1>2
  <2>2. QED
    BY <2>1 DEF Continues
<1>3. QED
  BY <1>1, <1>2

LEMMA ContinuesTail ==
  ASSUME NEW s, NEW q \in Seq(Frame), q # <<>>, NEW a \in Nat, Continues(q, s, a)
  PROVE  /\ Head(q) \in Frame /\ Head(q) = s[a + 1]
         /\ Tail(q) \in Seq(Frame) /\ Len(Tail(q)) = Len(q) - 1 /\ Len(q) > 0
         /\ Continues(Tail(q), s, a + 1)
<1>1. /\ Head(q) \in Frame /\ Tail(q) \in Seq(Frame) /\ Len(Tail(q)) = Len(q) - 1
      /\ \A i \in 1..Len(Tail(q)) : Tail(q)[i] = q[i + 1]
  BY HeadTailProperties
<1>2. Head(q) = q[1] /\ Len(q) > 0
  OBVIOUS
<1>3. ASSUME NEW i \in 1..Len(Tail(q)) PROVE Tail(q)[i] = s[(a + 1) + i]
  <2>1. i + 1 \in 1..Len(q) /\ a + (i + 1) = (a + 1) + i
    BY <1>1
  <2>2. q[i + 1] = s[a + (i + 1)]
    BY <2>1 DEF Continues
  <2>3. QED
    BY <1>1, <2>1, <2>2
<1>4. Head(q) = s[a + 1]
  BY <1>2 DEF Continues
<1>5. QED
  BY <1>1, <1>2, <1>3, <1>4 DEF Continues

\* What a step may do to what EventStream shows: the outcome goes from now to next, what has
\* arrived from a to b, the connection from x to y.
ShownStep(now, next, a, b, x, y) ==
  \/ \E f \in Frame : /\ ~ended /\ sent' = Append(sent, f)
                       /\ UNCHANGED <<ended, received>> /\ next = now /\ b = a /\ y = x
  \/ ~ended /\ ended' = TRUE /\ UNCHANGED <<sent, received>> /\ next = now /\ b = a /\ y = x
  \/ b \in a + 1..Len(sent) /\ UNCHANGED <<sent, ended, received>> /\ next = now /\ y = x
  \/ x = "open" /\ y = "failed" /\ UNCHANGED <<sent, ended, received>> /\ next = now /\ b = a
  \/ /\ now = "open" /\ b \in a..Len(sent) /\ Len(received) < b
     /\ received' = Append(received, sent[Len(received) + 1])
     /\ UNCHANGED <<sent, ended>> /\ next = now /\ y = x
  \/ /\ now = "open" /\ ended /\ received = sent /\ next = "returned"
     /\ UNCHANGED <<sent, ended, received>> /\ b = a /\ y = x
  \/ /\ now = "open" /\ x = "failed" /\ Len(received) = a /\ next = "threw"
     /\ UNCHANGED <<sent, ended, received>> /\ b = a /\ y = x
  \/ /\ now = "open" /\ next = "left"
     /\ UNCHANGED <<sent, ended, received>> /\ b = a /\ y = x
  \/ UNCHANGED <<sent, ended, received>> /\ next = now /\ b = a /\ y = x

LEMMA WholeSequence ==
  ASSUME NEW q \in Seq(Frame), NEW s \in Seq(Frame), Continues(q, s, 0), Len(q) = Len(s)
  PROVE  q = s
<1>1. \A i \in 1..Len(q) : q[i] = s[i]
  BY DEF Continues
<1>2. QED
  BY <1>1, SeqEqual

-----------------------------------------------------------------------------
(* Over HTTP.                                                                 *)

\* How many frames were split off, and where their tokens end.
Place == Len(received) + Len(parts)

HttpFrames ==
  /\ Continues(received, sent, 0)
  /\ Continues(parts, sent, Len(received))
  /\ Place <= Len(sent)

HttpTokens ==
  /\ Len(buffer) <= 2
  /\ Written(buffer, sent, 3 * Place)
  /\ Written(wire, sent, 3 * Place + Len(buffer))
  /\ 3 * Place + Len(buffer) + Len(wire) <= 3 * Len(sent)
  /\ connection = "open" => 3 * Place + Len(buffer) + Len(wire) = 3 * Len(sent)

HttpInv == Sse!TypeOK /\ HttpFrames /\ HttpTokens

HttpStep == ShownStep(Sse!Outcome, Sse!Outcome', Place, Place', Sse!Connection, Sse!Connection')

LEMMA HttpSend ==
  ASSUME HttpInv, NEW f \in Frame, Sse!send(f)
  PROVE  HttpInv' /\ HttpStep
<1> USE DEF HttpInv, Sse!TypeOK
<1>1. /\ sent' = Append(sent, f) /\ ~ended
      /\ UNCHANGED <<ended, received, connection, buffer, parts, generator>>
      /\ wire' = IF connection = "open" THEN wire \o Sse!encodeSseEvent(f) ELSE wire
  BY DEF Sse!send
<1>2. Place \in Nat /\ Place' = Place /\ sent' \in Seq(Frame) /\ Len(sent') = Len(sent) + 1
  BY <1>1 DEF Place
<1>3. HttpFrames'
  <2>1. Continues(received, sent', 0) /\ Continues(parts, sent', Len(received))
    <3>1. 0 + Len(received) <= Len(sent) /\ Len(received) + Len(parts) <= Len(sent)
      BY DEF HttpFrames, Place
    <3>2. Continues(received, Append(sent, f), 0)
      BY <3>1, ContinuesStays DEF HttpFrames
    <3>3. Continues(parts, Append(sent, f), Len(received))
      BY <3>1, ContinuesStays DEF HttpFrames
    <3>4. QED
      BY <1>1, <3>2, <3>3
  <2>2. QED
    BY <1>1, <1>2, <2>1 DEF HttpFrames
<1>4. PICK a, b : a = 3 * Place /\ b = 3 * Place + Len(buffer)
  OBVIOUS
<1>5. a \in Nat /\ b \in Nat /\ b = a + Len(buffer)
  BY <1>2, <1>4
<1>6. /\ Written(buffer, sent, a) /\ a + Len(buffer) <= 3 * Len(sent)
      /\ Written(wire, sent, b) /\ b + Len(wire) <= 3 * Len(sent)
      /\ connection = "open" => b + Len(wire) = 3 * Len(sent)
  <2>1. Len(wire) \in Nat
    OBVIOUS
  <2>2. QED
    BY <1>2, <1>4, <2>1 DEF HttpTokens
<1>7. Written(buffer, sent', a) /\ Written(wire, sent', b)
  BY <1>1, <1>5, <1>6, WrittenStays
<1>8. HttpStep
  <2>1. Sse!Outcome' = Sse!Outcome /\ Sse!Connection' = Sse!Connection
    BY <1>1 DEF Sse!Outcome, Sse!Connection
  <2>2. QED
    BY <1>1, <1>2, <2>1 DEF HttpStep, ShownStep
<1>9. CASE connection # "open"
  <2>1. HttpTokens'
    BY <1>1, <1>2, <1>4, <1>6, <1>7, <1>9 DEF HttpTokens
  <2>2. Sse!TypeOK'
    BY <1>1, <1>2, <1>9
  <2>3. QED
    BY <1>3, <1>8, <2>1, <2>2
<1>10. CASE connection = "open"
  <2> DEFINE text == Sse!encodeSseEvent(f)
  <2>1. PICK c : c = 3 * Len(sent)
    OBVIOUS
  <2>2. text \in Seq(Sse!Token) /\ Len(text) = 3 /\ Written(text, sent', c)
    BY <1>1, <2>1, FrameWritten
  <2>3. wire' = wire \o text
    BY <1>1, <1>10
  <2> HIDE DEF text
  <2>4. c = b + Len(wire)
    BY <1>6, <1>10, <2>1
  <2>5. wire' \in Seq(Sse!Token) /\ Len(wire') = Len(wire) + 3 /\ Written(wire', sent', b)
    <3>1. wire \in Seq(Sse!Token) /\ b \in Nat /\ Written(wire, sent', b)
      BY <1>5, <1>7
    <3>2. /\ wire \o text \in Seq(Sse!Token) /\ Len(wire \o text) = Len(wire) + Len(text)
          /\ Written(wire \o text, sent', b)
      BY <2>2, <2>4, <3>1, WrittenJoin
    <3>3. QED
      BY <2>2, <2>3, <3>2
  <2>6. b + Len(wire') = 3 * Len(sent')
    <3>1. Len(wire) \in Nat /\ Len(sent) \in Nat
      OBVIOUS
    <3>2. \A x, y, z \in Nat : x + y = 3 * z => x + (y + 3) = 3 * (z + 1)
      OBVIOUS
    <3>3. b + Len(wire) = 3 * Len(sent)
      BY <2>1, <2>4
    <3>4. b + (Len(wire) + 3) = 3 * (Len(sent) + 1)
      BY <1>5, <3>1, <3>2, <3>3
    <3>5. QED
      BY <1>2, <2>5, <3>4
  <2>7. HttpTokens'
    <3>1. Len(buffer') <= 2 /\ a = 3 * Place' /\ b = 3 * Place' + Len(buffer')
      BY <1>1, <1>2, <1>4 DEF HttpTokens
    <3>2. Written(buffer', sent', a) /\ Written(wire', sent', b)
      BY <1>1, <1>7, <2>5
    <3>3. QED
      BY <2>6, <3>1, <3>2 DEF HttpTokens
  <2>8. Sse!TypeOK'
    BY <1>1, <1>2, <2>5
  <2>9. QED
    BY <1>3, <1>8, <2>7, <2>8
<1>11. QED
  BY <1>9, <1>10

LEMMA HttpLosesWire ==
  ASSUME HttpInv, NEW n \in 0..Len(wire), wire' = SubSeq(wire, 1, n), connection' # "open",
         connection' \in {"open", "broken", "aborted"},
         UNCHANGED <<sent, ended, received, buffer, parts, generator>>
  PROVE  HttpInv' /\ HttpStep
<1> USE DEF HttpInv, Sse!TypeOK
<1>1. Place \in Nat /\ Place' = Place
  BY DEF Place
<1>2. PICK b : b = 3 * Place + Len(buffer)
  OBVIOUS
<1>3. b \in Nat /\ Written(wire, sent, b)
  BY <1>1, <1>2 DEF HttpTokens
<1>4. wire' \in Seq(Sse!Token) /\ Len(wire') = n /\ Written(wire', sent, b)
  <2>1. PICK m \in Nat : m = 0
    OBVIOUS
  <2>2. n \in Nat /\ m <= n /\ n <= Len(wire) /\ b = b + m /\ m + 1 = 1 /\ n - m = n
    BY <1>3, <2>1
  <2>3. b \in Nat /\ wire \in Seq(Sse!Token)
    BY <1>3
  <2>4. LET piece == SubSeq(wire, m + 1, n)
        IN  piece \in Seq(Sse!Token) /\ Len(piece) = n - m /\ Written(piece, sent, b)
    BY <1>3, <2>2, <2>3, WrittenPiece
  <2>5. QED
    BY <2>2, <2>4
<1>5. HttpTokens'
  <2>1. b + n <= 3 * Len(sent)
    BY <1>1, <1>2 DEF HttpTokens
  <2>2. QED
    BY <1>1, <1>2, <1>4, <2>1 DEF HttpTokens
<1>6. HttpFrames'
  BY <1>1 DEF HttpFrames
<1>7. HttpStep
  <2>1. /\ Sse!Outcome' = Sse!Outcome
        /\ Sse!Connection \in {"open", "failed"} /\ Sse!Connection' = "failed"
    BY DEF Sse!Outcome, Sse!Connection
  <2>2. QED
    BY <1>1, <2>1 DEF HttpStep, ShownStep
<1>8. Sse!TypeOK'
  BY <1>4
<1>9. QED
  BY <1>5, <1>6, <1>7, <1>8

LEMMA HttpAskNext ==
  ASSUME HttpInv, Sse!AskNext
  PROVE  HttpInv' /\ HttpStep
<1> USE DEF HttpInv, Sse!TypeOK
<1>1. CASE parts = <<>>
  <2>1. /\ generator' = "reading" /\ generator \in {"new", "yielded"}
        /\ UNCHANGED <<sent, ended, received, wire, connection, buffer, parts>>
    BY <1>1 DEF Sse!AskNext
  <2>2. HttpFrames' /\ HttpTokens'
    BY <2>1 DEF HttpFrames, HttpTokens, Place
  <2>3. HttpStep
    <3>1. /\ Sse!Outcome' = Sse!Outcome /\ Sse!Connection' = Sse!Connection
          /\ Place' = Place
      BY <2>1 DEF Sse!Outcome, Sse!Over, Sse!Connection, Place
    <3>2. QED
      BY <2>1, <3>1 DEF HttpStep, ShownStep
  <2>4. Sse!TypeOK'
    BY <1>1, <2>1
  <2>5. QED
    BY <2>2, <2>3, <2>4
<1>2. CASE parts # <<>>
  <2>1. /\ received' = Append(received, Head(parts)) /\ parts' = Tail(parts)
        /\ generator \in {"new", "yielded"}
        /\ UNCHANGED <<sent, ended, wire, connection, buffer, generator>>
    BY <1>2 DEF Sse!AskNext
  <2> DEFINE n == Len(received)
  <2>2. n \in Nat /\ Len(parts) \in Nat /\ Len(sent) \in Nat
    OBVIOUS
  <2>3. /\ Head(parts) \in Frame /\ Head(parts) = sent[n + 1]
        /\ Tail(parts) \in Seq(Frame) /\ Len(Tail(parts)) = Len(parts) - 1 /\ Len(parts) > 0
        /\ Continues(Tail(parts), sent, n + 1)
    BY <1>2, <2>2, ContinuesTail DEF HttpFrames
  <2>4. 0 + n + 1 = n + 1 /\ 0 \in Nat
    BY <2>2
  <2>5. /\ Append(received, Head(parts)) \in Seq(Frame)
        /\ Len(Append(received, Head(parts))) = n + 1
        /\ Continues(Append(received, Head(parts)), sent, 0)
    <3>1. PICK f \in Frame : f = Head(parts)
      BY <2>3
    <3>2. f = sent[0 + Len(received) + 1]
      BY <2>3, <2>4, <3>1
    <3>3. QED
      BY <2>4, <3>1, <3>2, ContinuesAppend DEF HttpFrames
  <2>6. Place' = Place /\ n < Len(sent)
    BY <2>1, <2>2, <2>3, <2>5 DEF Place, HttpFrames
  <2>7. HttpFrames'
    BY <2>1, <2>3, <2>5, <2>6 DEF HttpFrames
  <2>8. HttpTokens'
    BY <2>1, <2>6 DEF HttpTokens
  <2>9. received' = Append(received, sent[n + 1])
    BY <2>1, <2>3
  <2>10. HttpStep
    <3>1. /\ Sse!Outcome = "open" /\ Sse!Outcome' = "open"
          /\ Sse!Connection' = Sse!Connection
      BY <2>1 DEF Sse!Outcome, Sse!Over, Sse!Connection
    <3>2. Place \in Place..Len(sent) /\ Len(received) < Place
      BY <2>2, <2>3 DEF Place, HttpFrames
    <3>3. QED
      BY <2>1, <2>6, <2>9, <3>1, <3>2 DEF HttpStep, ShownStep
  <2>11. Sse!TypeOK'
    BY <2>1, <2>3, <2>5
  <2>12. QED
    BY <2>7, <2>8, <2>10, <2>11
<1>3. QED
  BY <1>1, <1>2

\* A chunk is read: the frames it completes are split off, and the rest is kept.
LEMMA HttpReadChunk ==
  ASSUME HttpInv, Sse!ReadChunk, NoFrame \notin Frame
  PROVE  HttpInv' /\ HttpStep
<1> USE DEF HttpInv, Sse!TypeOK
<1>1. PICK n \in 1..Len(wire) :
        /\ Sse!Take(Sse!Split(buffer \o SubSeq(wire, 1, n)))
        /\ buffer' = Sse!Rest(buffer \o SubSeq(wire, 1, n))
        /\ wire' = SubSeq(wire, n + 1, Len(wire))
  BY DEF Sse!ReadChunk
<1>2. generator = "reading" /\ parts = <<>> /\ UNCHANGED <<sent, ended, connection>>
  BY DEF Sse!ReadChunk
<1>3. PICK q \in Nat : q = Len(received)
  OBVIOUS
<1>4. Place = q /\ q <= Len(sent)
  BY <1>2, <1>3 DEF Place, HttpFrames
<1>5. PICK a \in Nat, l \in Nat, w \in Nat : a = 3 * q /\ l = Len(buffer) /\ w = Len(wire)
  <2>1. 3 * q \in Nat /\ Len(buffer) \in Nat /\ Len(wire) \in Nat
    OBVIOUS
  <2>2. QED
    BY <2>1
<1>6. PICK b \in Nat : b = a + l
  OBVIOUS
<1>7. /\ Written(buffer, sent, a) /\ Written(wire, sent, b) /\ b + w <= 3 * Len(sent)
      /\ connection = "open" => b + w = 3 * Len(sent)
      /\ l <= 2
  BY <1>4, <1>5, <1>6 DEF HttpTokens
<1>8. PICK chunk : chunk = SubSeq(wire, 1, n)
  OBVIOUS
<1>9. chunk \in Seq(Sse!Token) /\ Len(chunk) = n /\ Written(chunk, sent, b)
  <2>1. PICK m \in Nat : m = 0
    OBVIOUS
  <2>2. n \in Nat /\ m <= n /\ n <= Len(wire) /\ b = b + m /\ m + 1 = 1 /\ n - m = n
    BY <2>1
  <2>3. LET piece == SubSeq(wire, m + 1, n)
        IN  piece \in Seq(Sse!Token) /\ Len(piece) = n - m /\ Written(piece, sent, b)
    BY <1>7, <2>2, WrittenPiece
  <2>4. QED
    BY <1>8, <2>2, <2>3
<1>10. PICK text : text = buffer \o chunk
  OBVIOUS
<1>11. text \in Seq(Sse!Token) /\ Len(text) = l + n /\ Written(text, sent, a)
  <2>1. b = a + Len(buffer)
    BY <1>5, <1>6
  <2>2. QED
    BY <1>5, <1>7, <1>9, <1>10, <2>1, WrittenJoin
<1>12. PICK m \in Nat : 3 * m <= l + n /\ l + n < 3 * m + 3
  <2>1. (l + n) \div 3 \in Nat /\ 3 * ((l + n) \div 3) <= l + n /\ l + n < 3 * ((l + n) \div 3) + 3
    BY <1>5
  <2>2. QED
    BY <2>1
<1>13. q + m <= Len(sent) /\ a + (l + n) <= 3 * Len(sent)
  BY <1>5, <1>6, <1>7, <1>12
<1>14. /\ Sse!Split(text) = FramesFrom(sent, q, m)
       /\ Sse!Rest(text) = SubSeq(text, 3 * m + 1, Len(text))
  <2>1. a = 3 * q /\ Written(text, sent, a) /\ a + Len(text) <= 3 * Len(sent)
    BY <1>5, <1>11, <1>13
  <2>2. 3 * m <= Len(text) /\ Len(text) < 3 * m + 3
    BY <1>11, <1>12
  <2>3. sent \in Seq(Frame)
    OBVIOUS
  <2>4. QED
    BY <1>11, <2>1, <2>2, <2>3, SplitWritten
<1>15. PICK frames : frames = FramesFrom(sent, q, m)
  OBVIOUS
<1>16. frames \in Seq(Frame) /\ Len(frames) = m /\ Continues(frames, sent, q)
  <2>1. \A k \in 1..m : q + k \in 1..Len(sent)
    BY <1>13
  <2>2. frames \in Seq(Frame) /\ Len(frames) = m
    BY <1>15, <2>1 DEF FramesFrom
  <2>3. QED
    BY <1>15, <2>2 DEF Continues, FramesFrom
<1>17. Sse!Take(frames) /\ buffer' = Sse!Rest(text)
  BY <1>1, <1>8, <1>10, <1>14, <1>15
<1>18. PICK c \in Nat : c = 3 * (q + m)
  OBVIOUS
<1>19. buffer' \in Seq(Sse!Token) /\ Len(buffer') = l + n - 3 * m /\ Written(buffer', sent, c)
  <2>1. PICK d \in Nat : d = 3 * m
    OBVIOUS
  <2>2. d <= Len(text) /\ Len(text) \in Nat /\ c = a + d
    BY <1>5, <1>11, <1>12, <1>18, <2>1
  <2>3. LET piece == SubSeq(text, d + 1, Len(text))
        IN  piece \in Seq(Sse!Token) /\ Len(piece) = Len(text) - d /\ Written(piece, sent, c)
    BY <1>11, <2>2, WrittenPiece
  <2>4. buffer' = SubSeq(text, d + 1, Len(text))
    BY <1>14, <1>17, <2>1
  <2>5. QED
    BY <1>11, <2>1, <2>3, <2>4
<1>20. PICK e \in Nat : e = b + n
  OBVIOUS
<1>21. wire' \in Seq(Sse!Token) /\ Len(wire') = w - n /\ Written(wire', sent, e)
  <2>1. n \in Nat /\ w \in Nat /\ n <= w /\ w <= Len(wire)
    BY <1>5
  <2>2. LET piece == SubSeq(wire, n + 1, w)
        IN  piece \in Seq(Sse!Token) /\ Len(piece) = w - n /\ Written(piece, sent, e)
    BY <1>7, <1>20, <2>1, WrittenPiece
  <2>3. QED
    BY <1>1, <1>5, <2>2
<1>22. /\ Sse!TypeOK' /\ HttpFrames' /\ Place' = q + m /\ HttpStep
  <2>1. CASE frames = <<>>
    <3>1. UNCHANGED <<received, parts, generator>> /\ m = 0
      BY <1>16, <1>17, <2>1 DEF Sse!Take
    <3>2. HttpFrames' /\ Place' = q + m
      BY <1>2, <1>4, <3>1 DEF HttpFrames, Place
    <3>3. HttpStep
      <4>1. Sse!Outcome' = Sse!Outcome /\ Sse!Connection' = Sse!Connection /\ Place' = Place
        BY <1>2, <3>1 DEF Sse!Outcome, Sse!Connection, Place
      <4>2. QED
        BY <1>2, <3>1, <4>1 DEF HttpStep, ShownStep
    <3>4. Sse!TypeOK'
      BY <1>2, <1>19, <1>21, <3>1
    <3>5. QED
      BY <3>2, <3>3, <3>4
  <2>2. CASE frames # <<>>
    <3>1. /\ received' = Append(received, Head(frames)) /\ parts' = Tail(frames)
          /\ generator' = "yielded"
      BY <1>17, <2>2 DEF Sse!Take
    <3>2. /\ Head(frames) \in Frame /\ Head(frames) = sent[q + 1]
          /\ Tail(frames) \in Seq(Frame) /\ Len(Tail(frames)) = m - 1 /\ m > 0
          /\ Continues(Tail(frames), sent, q + 1)
      BY <1>16, <2>2, ContinuesTail
    <3>3. /\ Append(received, Head(frames)) \in Seq(Frame)
          /\ Len(Append(received, Head(frames))) = q + 1
          /\ Continues(Append(received, Head(frames)), sent, 0)
      <4>1. PICK f \in Frame : f = Head(frames)
        BY <3>2
      <4>2. 0 \in Nat /\ f = sent[0 + Len(received) + 1]
        BY <1>3, <3>2, <4>1
      <4>3. QED
        BY <1>3, <4>1, <4>2, ContinuesAppend DEF HttpFrames
    <3>4. Place' = q + m
      <4>1. Len(received') = q + 1 /\ Len(parts') = m - 1
        BY <3>1, <3>2, <3>3
      <4>2. QED
        BY <4>1 DEF Place
    <3>5. HttpFrames'
      BY <1>2, <1>13, <3>1, <3>2, <3>3, <3>4 DEF HttpFrames
    <3>6. HttpStep
      <4>1. received' = Append(received, sent[Len(received) + 1])
        BY <1>3, <3>1, <3>2
      <4>2. /\ Sse!Outcome = "open" /\ Sse!Outcome' = "open"
            /\ Sse!Connection' = Sse!Connection
        BY <1>2, <3>1 DEF Sse!Outcome, Sse!Over, Sse!Connection
      <4>3. Place' \in Place..Len(sent) /\ Len(received) < Place'
        BY <1>3, <1>4, <1>13, <3>2, <3>4
      <4>4. QED
        BY <1>2, <4>1, <4>2, <4>3 DEF HttpStep, ShownStep
    <3>7. Sse!TypeOK'
      BY <1>2, <1>19, <1>21, <3>1, <3>2, <3>3
    <3>8. QED
      BY <3>4, <3>5, <3>6, <3>7
  <2>3. QED
    BY <2>1, <2>2
<1>23. HttpTokens'
  <2>1. Len(buffer') <= 2 /\ Written(buffer', sent', 3 * Place')
    BY <1>2, <1>5, <1>12, <1>18, <1>19, <1>22
  <2>2. e = 3 * Place' + Len(buffer')
    BY <1>5, <1>6, <1>18, <1>19, <1>20, <1>22
  <2>3. e + Len(wire') = b + w
    BY <1>5, <1>20, <1>21
  <2>4. QED
    BY <1>2, <1>7, <1>21, <2>1, <2>2, <2>3 DEF HttpTokens
<1>24. QED
  BY <1>22, <1>23

LEMMA HttpReadDone ==
  ASSUME HttpInv, Sse!ReadDone, NoFrame \notin Frame
  PROVE  HttpInv' /\ HttpStep
<1> USE DEF HttpInv, Sse!TypeOK
<1>1. /\ generator = "reading" /\ parts = <<>> /\ ended /\ wire = <<>> /\ connection = "open"
      /\ generator' = IF Sse!parseSseEvent(buffer) = NoFrame THEN "returned" ELSE "yielded"
      /\ received' = IF Sse!parseSseEvent(buffer) = NoFrame THEN received
                     ELSE Append(received, Sse!parseSseEvent(buffer))
      /\ buffer' = <<>> /\ UNCHANGED <<sent, ended, wire, connection, parts>>
  BY DEF Sse!ReadDone
<1>2. Len(received) = Len(sent) /\ Len(buffer) = 0
  <2>1. 3 * Place + Len(buffer) + Len(wire) = 3 * Len(sent) /\ Len(buffer) <= 2
    BY <1>1 DEF HttpTokens
  <2>2. Len(wire) = 0 /\ Place = Len(received) /\ Len(received) \in Nat /\ Len(buffer) \in Nat
    BY <1>1 DEF Place
  <2>3. \A x, y, z \in Nat : 3 * x + y + 0 = 3 * z /\ y <= 2 => x = z /\ y = 0
    OBVIOUS
  <2>4. Len(sent) \in Nat
    OBVIOUS
  <2>5. QED
    BY <2>1, <2>2, <2>3, <2>4
<1>3. buffer = <<>>
  BY <1>2
<1>4. Sse!parseSseEvent(buffer) = NoFrame
  <2>1. Len([i \in DOMAIN buffer |-> buffer[i].part]) # 2
    BY <1>3
  <2>2. QED
    BY <2>1 DEF Sse!parseSseEvent
<1>5. received = sent
  BY <1>2, WholeSequence DEF HttpFrames
<1>6. generator' = "returned" /\ UNCHANGED <<received, buffer>>
  BY <1>1, <1>3, <1>4
<1>7. HttpFrames' /\ HttpTokens'
  BY <1>1, <1>6 DEF HttpFrames, HttpTokens, Place
<1>8. HttpStep
  <2>1. /\ Sse!Outcome = "open" /\ Sse!Outcome' = "returned"
        /\ Sse!Connection' = Sse!Connection /\ Place' = Place
    BY <1>1, <1>6 DEF Sse!Outcome, Sse!Over, Sse!Connection, Place
  <2>2. QED
    BY <1>1, <1>5, <1>6, <2>1 DEF HttpStep, ShownStep
<1>9. Sse!TypeOK'
  BY <1>1, <1>6 DEF Sse!Over
<1>10. QED
  BY <1>7, <1>8, <1>9

LEMMA HttpOther ==
  ASSUME HttpInv, Sse!close \/ Sse!ReadFails \/ Sse!Leave
  PROVE  HttpInv' /\ HttpStep
<1> USE DEF HttpInv, Sse!TypeOK
<1>1. UNCHANGED <<sent, received, wire, connection, buffer, parts>> /\ Place' = Place
  BY DEF Sse!close, Sse!ReadFails, Sse!Leave, Place
<1>2. HttpFrames' /\ HttpTokens'
  BY <1>1 DEF HttpFrames, HttpTokens, Place
<1>3. CASE Sse!close
  BY <1>1, <1>2, <1>3 DEF Sse!close, HttpStep, ShownStep, Sse!Connection, Sse!Outcome
<1>4. CASE Sse!ReadFails
  <2>1. /\ generator = "reading" /\ generator' = "threw" /\ connection # "open"
        /\ UNCHANGED ended
    BY <1>4 DEF Sse!ReadFails
  <2>2. /\ Sse!Outcome = "open" /\ Sse!Outcome' = "threw"
        /\ Sse!Connection = "failed" /\ Sse!Connection' = "failed"
    BY <1>1, <2>1 DEF Sse!Outcome, Sse!Over, Sse!Connection
  <2>3. Len(received) = Place
    BY <2>1 DEF Place
  <2>4. HttpStep
    BY <1>1, <2>1, <2>2, <2>3 DEF HttpStep, ShownStep
  <2>5. QED
    BY <1>1, <1>2, <2>1, <2>4 DEF Sse!Over
<1>5. CASE Sse!Leave
  BY <1>1, <1>2, <1>5 DEF Sse!Leave, HttpStep, ShownStep, Sse!Connection, Sse!Outcome, Sse!Over
<1>6. QED
  BY <1>3, <1>4, <1>5

LEMMA HttpNext ==
  ASSUME HttpInv, Sse!Next, NoFrame \notin Frame
  PROVE  HttpInv' /\ HttpStep
<1>1. ASSUME NEW f \in Frame, Sse!send(f) PROVE HttpInv' /\ HttpStep
  BY <1>1, HttpSend
<1>2. CASE Sse!ConnectionBreaks
  BY <1>2, HttpLosesWire DEF Sse!ConnectionBreaks
<1>3. CASE Sse!Timeout
  <2>1. 0 \in 0..Len(wire) /\ SubSeq(wire, 1, 0) = <<>>
    BY SubSeqEmpty DEF HttpInv, Sse!TypeOK
  <2>2. QED
    BY <1>3, <2>1, HttpLosesWire DEF Sse!Timeout
<1>4. QED
  BY <1>1, <1>2, <1>3, HttpAskNext, HttpReadChunk, HttpReadDone, HttpOther DEF Sse!Next

LEMMA HttpHoldsNothingBack ==
  ASSUME HttpInv, NoFrame \notin Frame
  PROVE  Sse!NoFrameHeldBack
<1> SUFFICES Sse!Blanks(buffer) = {} /\ Len(buffer) <= 2
  BY DEF Sse!NoFrameHeldBack
<1>1. Place \in Nat /\ buffer \in Seq(Sse!Token) /\ sent \in Seq(Frame) /\ Len(wire) \in Nat
  BY DEF HttpInv, Sse!TypeOK, Place
<1>2. PICK a \in Nat : a = 3 * Place
  BY <1>1
<1>3. Written(buffer, sent, a) /\ a + Len(buffer) <= 3 * Len(sent) /\ Len(buffer) <= 2
  <2>1. a + Len(buffer) + Len(wire) <= 3 * Len(sent)
    BY <1>2 DEF HttpInv, HttpTokens
  <2>2. Len(buffer) \in Nat /\ Len(sent) \in Nat
    BY <1>1
  <2>3. QED
    BY <1>1, <1>2, <2>1, <2>2 DEF HttpInv, HttpTokens
<1>4. PICK n \in Nat : n = 0
  OBVIOUS
<1>5. 3 * n <= Len(buffer) /\ Len(buffer) < 3 * n + 3
  BY <1>1, <1>3, <1>4
<1>6. Sse!Blanks(buffer) = Threes(n)
  BY <1>1, <1>2, <1>3, <1>5, SplitWritten
<1>7. Threes(n) = {}
  BY <1>4 DEF Threes
<1>8. QED
  BY <1>3, <1>6, <1>7

-----------------------------------------------------------------------------
(* Over gRPC.                                                                 *)

\* How many frames have come or are on the wire.
Reached == Len(received) + Len(events) + Len(wire)

\* How many have come.
Came == Len(received) + Len(events)

GrpcFrames ==
  /\ Continues(received, sent, 0)
  /\ Continues(events, sent, Len(received))
  /\ Continues(wire, sent, Len(received) + Len(events))
  /\ Reached <= Len(sent)

GrpcCall ==
  /\ call = "open" => Reached = Len(sent) /\ ~done
  /\ call = "failed" => error
  /\ done /\ ~error => ended /\ wire = <<>> /\ Reached = Len(sent)

GrpcInv == Grpc!TypeOK /\ Grpc!SleepsOnlyWhenIdle /\ GrpcFrames /\ GrpcCall

GrpcStep == ShownStep(Grpc!Outcome, Grpc!Outcome', Came, Came', Grpc!Connection, Grpc!Connection')

LEMMA GrpcSend ==
  ASSUME GrpcInv, NEW f \in Frame, Grpc!send(f)
  PROVE  GrpcInv' /\ GrpcStep
<1> USE DEF GrpcInv, Grpc!TypeOK
<1>1. /\ sent' = Append(sent, f) /\ ~ended
      /\ UNCHANGED <<ended, received, call, events, done, error, resolve, generator>>
      /\ wire' = IF call = "open" THEN Append(wire, f) ELSE wire
  BY DEF Grpc!send
<1>2. PICK r \in Nat, e \in Nat, w \in Nat, n \in Nat :
        r = Len(received) /\ e = Len(events) /\ w = Len(wire) /\ n = Len(sent)
  OBVIOUS
<1>3. PICK g \in Seq(Frame) : g = Append(sent, f) /\ Len(g) = n + 1 /\ g[n + 1] = f
  <2>1. /\ Append(sent, f) \in Seq(Frame) /\ Len(Append(sent, f)) = n + 1
        /\ Append(sent, f)[n + 1] = f
    BY <1>2
  <2>2. QED
    BY <2>1
<1>4. r + e + w <= n
  BY <1>2 DEF GrpcFrames, Reached
<1>5. Continues(received, g, 0) /\ Continues(events, g, r) /\ Continues(wire, g, r + e)
  <2>1. 0 \in Nat /\ 0 + Len(received) <= Len(sent) /\ r + Len(events) <= Len(sent)
    BY <1>2, <1>4
  <2>2. PICK a \in Nat : a = r + e
    OBVIOUS
  <2>3. a + Len(wire) <= Len(sent)
    BY <1>2, <1>4, <2>2
  <2>4. Continues(received, sent, 0) /\ Continues(events, sent, r) /\ Continues(wire, sent, a)
    BY <1>2, <2>2 DEF GrpcFrames
  <2>5. Continues(received, g, 0) /\ Continues(events, g, r) /\ Continues(wire, g, a)
    BY <1>3, <2>1, <2>3, <2>4, ContinuesStays
  <2>6. QED
    BY <2>2, <2>5
<1>6. CASE call # "open"
  <2>1. GrpcFrames' /\ GrpcCall'
    BY <1>1, <1>2, <1>3, <1>4, <1>5, <1>6 DEF GrpcFrames, GrpcCall, Reached
  <2>2. QED
    BY <1>1, <1>6, <2>1 DEF GrpcStep, ShownStep, Came, Grpc!Connection, Grpc!Outcome, Grpc!SleepsOnlyWhenIdle
<1>7. CASE call = "open"
  <2>1. wire' = Append(wire, f) /\ r + e + w = n /\ ~done
    BY <1>1, <1>2, <1>7 DEF GrpcCall, Reached
  <2>2. PICK a \in Nat : a = r + e
    OBVIOUS
  <2>3. f = g[a + Len(wire) + 1]
    BY <1>2, <1>3, <2>1, <2>2
  <2>4. /\ Append(wire, f) \in Seq(Frame) /\ Len(Append(wire, f)) = Len(wire) + 1
        /\ Continues(Append(wire, f), g, a)
    BY <1>5, <2>2, <2>3, ContinuesAppend
  <2>5. GrpcFrames' /\ GrpcCall'
    BY <1>1, <1>2, <1>3, <1>5, <1>7, <2>1, <2>2, <2>4 DEF GrpcFrames, GrpcCall, Reached
  <2>6. QED
    BY <1>1, <1>3, <2>1, <2>4, <2>5 DEF GrpcStep, ShownStep, Came, Grpc!Connection, Grpc!Outcome, Grpc!SleepsOnlyWhenIdle
<1>8. QED
  BY <1>6, <1>7

LEMMA GrpcOnData ==
  ASSUME GrpcInv, Grpc!OnData
  PROVE  GrpcInv' /\ GrpcStep
<1> USE DEF GrpcInv, Grpc!TypeOK
<1>1. /\ wire # <<>> /\ call # "closed"
      /\ events' = Append(events, Head(wire)) /\ wire' = Tail(wire)
      /\ resolve' = IF resolve = "pending" THEN "resolved" ELSE resolve
      /\ UNCHANGED <<sent, ended, received, call, done, error, generator>>
  BY DEF Grpc!OnData, Grpc!wake
<1>2. PICK r \in Nat, e \in Nat, w \in Nat, n \in Nat :
        r = Len(received) /\ e = Len(events) /\ w = Len(wire) /\ n = Len(sent)
  OBVIOUS
<1>3. PICK a \in Nat : a = r + e
  OBVIOUS
<1>4. Continues(wire, sent, a) /\ Continues(events, sent, r)
  BY <1>2, <1>3 DEF GrpcFrames
<1>5. PICK f \in Frame : f = Head(wire)
  BY <1>1
<1>6. /\ f = sent[a + 1] /\ wire' \in Seq(Frame) /\ Len(wire') = w - 1 /\ w > 0
      /\ Continues(wire', sent, a + 1)
  BY <1>1, <1>2, <1>4, <1>5, ContinuesTail
<1>7. /\ events' \in Seq(Frame) /\ Len(events') = e + 1 /\ Continues(events', sent, r)
  <2>1. f = sent[r + Len(events) + 1]
    BY <1>2, <1>3, <1>6
  <2>2. /\ Append(events, f) \in Seq(Frame) /\ Len(Append(events, f)) = Len(events) + 1
        /\ Continues(Append(events, f), sent, r)
    BY <1>4, <2>1, ContinuesAppend
  <2>3. QED
    BY <1>1, <1>2, <1>5, <2>2
<1>8. Reached' = Reached /\ a + 1 = Len(received') + Len(events')
  BY <1>1, <1>2, <1>3, <1>6, <1>7 DEF Reached
<1>9. GrpcFrames' /\ GrpcCall'
  BY <1>1, <1>2, <1>6, <1>7, <1>8 DEF GrpcFrames, GrpcCall
<1>10. GrpcStep
  <2>1. Grpc!Outcome' = Grpc!Outcome /\ Grpc!Connection' = Grpc!Connection
    BY <1>1 DEF Grpc!Outcome, Grpc!Connection
  <2>2. Came' \in Came + 1..Len(sent)
    BY <1>1, <1>2, <1>6, <1>7 DEF Came, GrpcFrames, Reached
  <2>3. QED
    BY <1>1, <2>1, <2>2 DEF GrpcStep, ShownStep
<1>11. Grpc!TypeOK' /\ Grpc!SleepsOnlyWhenIdle'
  BY <1>1, <1>6, <1>7 DEF Grpc!SleepsOnlyWhenIdle
<1>12. QED
  BY <1>9, <1>10, <1>11

LEMMA GrpcOnError ==
  ASSUME GrpcInv, Grpc!OnError
  PROVE  GrpcInv' /\ GrpcStep
<1> USE DEF GrpcInv, Grpc!TypeOK
<1>1. PICK n \in 0..Len(wire) : wire' = SubSeq(wire, 1, n)
  BY DEF Grpc!OnError
<1>2. /\ error' = TRUE /\ done' = TRUE /\ call' = "failed"
      /\ resolve' = IF resolve = "pending" THEN "resolved" ELSE resolve
      /\ UNCHANGED <<sent, ended, received, events, generator>>
  BY DEF Grpc!OnError, Grpc!wake
<1>3. wire' \in Seq(Frame) /\ Len(wire') = n /\ \A i \in 1..n : wire'[i] = wire[i]
  BY <1>1
<1>4. Continues(wire', sent, Len(received) + Len(events))
  BY <1>3 DEF GrpcFrames, Continues
<1>5. Reached' <= Len(sent)
  <2>1. Len(received) \in Nat /\ Len(events) \in Nat /\ Len(wire) \in Nat /\ Len(sent) \in Nat
    OBVIOUS
  <2>2. QED
    BY <1>2, <1>3, <2>1 DEF GrpcFrames, Reached
<1>6. GrpcFrames' /\ GrpcCall'
  BY <1>2, <1>4, <1>5 DEF GrpcFrames, GrpcCall
<1>7. QED
  BY <1>2, <1>3, <1>6 DEF GrpcStep, ShownStep, Came, Grpc!Connection, Grpc!Outcome, Grpc!SleepsOnlyWhenIdle

\* A run of the loop of the generator.
LEMMA GrpcLoop ==
  ASSUME GrpcInv, Grpc!Loop, Grpc!Outcome = "open", UNCHANGED <<sent, ended, wire, call, done, error>>
  PROVE  GrpcInv' /\ GrpcStep
<1> USE DEF GrpcInv, Grpc!TypeOK
<1>1. CASE /\ events # <<>> /\ generator' = "yielded" /\ resolve' = "null"
           /\ received' = Append(received, Head(events)) /\ events' = Tail(events)
  <2>1. PICK r \in Nat, e \in Nat : r = Len(received) /\ e = Len(events)
    OBVIOUS
  <2>2. PICK f \in Frame : f = Head(events)
    BY <1>1
  <2>3. /\ f = sent[r + 1] /\ events' \in Seq(Frame) /\ Len(events') = e - 1 /\ e > 0
        /\ Continues(events', sent, r + 1)
    <3>1. Continues(events, sent, r)
      BY <2>1 DEF GrpcFrames
    <3>2. QED
      BY <1>1, <2>1, <2>2, <3>1, ContinuesTail
  <2>4. received' \in Seq(Frame) /\ Len(received') = r + 1 /\ Continues(received', sent, 0)
    <3>1. 0 \in Nat /\ f = sent[0 + Len(received) + 1] /\ Continues(received, sent, 0)
      BY <2>1, <2>3 DEF GrpcFrames
    <3>2. /\ Append(received, f) \in Seq(Frame) /\ Len(Append(received, f)) = Len(received) + 1
          /\ Continues(Append(received, f), sent, 0)
      BY <3>1, ContinuesAppend
    <3>3. QED
      BY <1>1, <2>1, <2>2, <3>2
  <2>5. Reached' = Reached /\ Len(received') + Len(events') = Len(received) + Len(events) /\ r < Len(sent)
    <3>1. Len(wire) \in Nat /\ Len(sent) \in Nat /\ wire' = wire
      OBVIOUS
    <3>2. QED
      BY <2>1, <2>3, <2>4, <3>1 DEF Reached, GrpcFrames
  <2>6. GrpcFrames' /\ GrpcCall'
    BY <1>1, <2>1, <2>3, <2>4, <2>5 DEF GrpcFrames, GrpcCall
  <2>7. GrpcStep
    <3>1. /\ Grpc!Outcome = "open" /\ Grpc!Outcome' = "open"
          /\ Grpc!Connection' = Grpc!Connection
      BY <1>1 DEF Grpc!Outcome, Grpc!Connection
    <3>2. Came' = Came /\ Came \in Came..Len(sent) /\ Len(received) < Came
      BY <2>1, <2>3, <2>5 DEF Came, GrpcFrames, Reached
    <3>3. received' = Append(received, sent[Len(received) + 1])
      BY <1>1, <2>1, <2>2, <2>3
    <3>4. QED
      BY <3>1, <3>2, <3>3 DEF GrpcStep, ShownStep
  <2>8. QED
    BY <1>1, <2>3, <2>4, <2>6, <2>7 DEF Grpc!SleepsOnlyWhenIdle
<1>2. CASE /\ events = <<>> /\ done /\ resolve' = "null" /\ UNCHANGED <<events, received>>
           /\ generator' = IF error THEN "threw" ELSE "returned"
  <2>1. GrpcFrames' /\ GrpcCall'
    BY <1>2 DEF GrpcFrames, GrpcCall, Reached
  <2>2. ~error => ended /\ received = sent
    <3>1. ~error => ended /\ Len(received) = Len(sent)
      BY <1>2 DEF GrpcCall, Reached
    <3>2. QED
      BY <3>1, WholeSequence DEF GrpcFrames
  <2>3. GrpcStep
    BY <1>2, <2>2 DEF GrpcStep, ShownStep, Came, Grpc!Connection, Grpc!Outcome
  <2>4. QED
    BY <1>2, <2>1, <2>3 DEF Grpc!SleepsOnlyWhenIdle
<1>3. CASE /\ events = <<>> /\ ~done /\ generator' = "waiting" /\ resolve' = "pending"
           /\ UNCHANGED <<events, received>>
  <2>1. GrpcFrames' /\ GrpcCall'
    BY <1>3 DEF GrpcFrames, GrpcCall, Reached
  <2>2. GrpcStep
    BY <1>3 DEF GrpcStep, ShownStep, Came, Grpc!Connection, Grpc!Outcome
  <2>3. QED
    BY <1>3, <2>1, <2>2 DEF Grpc!SleepsOnlyWhenIdle
<1>4. QED
  BY <1>1, <1>2, <1>3 DEF Grpc!Loop

LEMMA GrpcOther ==
  ASSUME GrpcInv, Grpc!close \/ Grpc!OnEnd \/ Grpc!Leave
  PROVE  GrpcInv' /\ GrpcStep
<1> USE DEF GrpcInv, Grpc!TypeOK
<1>1. UNCHANGED <<sent, received, wire, events, error>>
  BY DEF Grpc!close, Grpc!OnEnd, Grpc!Leave
<1>2. GrpcFrames' /\ Reached' = Reached
  BY <1>1 DEF GrpcFrames, Reached
<1>3. CASE Grpc!close
  <2>1. /\ ~ended /\ ended' = TRUE
        /\ UNCHANGED <<sent, received, wire, call, events, done, error, resolve, generator>>
    BY <1>3 DEF Grpc!close
  <2>2. GrpcCall'
    BY <1>2, <2>1 DEF GrpcCall
  <2>3. GrpcStep
    BY <2>1 DEF GrpcStep, ShownStep, Came, Grpc!Connection, Grpc!Outcome
  <2>4. Grpc!TypeOK' /\ Grpc!SleepsOnlyWhenIdle'
    BY <2>1 DEF Grpc!SleepsOnlyWhenIdle
  <2>5. QED
    BY <1>2, <2>2, <2>3, <2>4
<1>4. CASE Grpc!OnEnd
  <2>1. GrpcCall'
    BY <1>1, <1>2, <1>4 DEF Grpc!OnEnd, GrpcCall
  <2>2. QED
    BY <1>1, <1>2, <1>4, <2>1
    DEF Grpc!OnEnd, Grpc!wake, GrpcStep, ShownStep, Came, Grpc!Connection, Grpc!Outcome, Grpc!SleepsOnlyWhenIdle
<1>5. CASE Grpc!Leave
  BY <1>1, <1>2, <1>5
  DEF Grpc!Leave, GrpcCall, GrpcStep, ShownStep, Came, Grpc!Connection, Grpc!Outcome, Grpc!SleepsOnlyWhenIdle
<1>6. QED
  BY <1>3, <1>4, <1>5

LEMMA GrpcNext ==
  ASSUME GrpcInv, Grpc!Next
  PROVE  GrpcInv' /\ GrpcStep
<1>1. CASE Grpc!AskNext
  BY <1>1, GrpcLoop DEF Grpc!AskNext, Grpc!Outcome
<1>2. CASE Grpc!Resume
  BY <1>2, GrpcLoop DEF Grpc!Resume, Grpc!Outcome
<1>3. QED
  BY <1>1, <1>2, GrpcSend, GrpcOnData, GrpcOnError, GrpcOther DEF Grpc!Next

-----------------------------------------------------------------------------
(* Over either.                                                               *)

WireInv ==
  /\ transport \in {"http", "grpc"}
  /\ transport = "http" => HttpInv
  /\ transport = "grpc" => GrpcInv

\* A step shows as a step of EventStream, or not at all.
LEMMA ShownAsEventStream ==
  ASSUME transport' = transport, transport \in {"http", "grpc"},
         transport = "http" => HttpStep, transport = "grpc" => GrpcStep
  PROVE  [Stream!Next]_(Stream!streamVars)
<1> DEFINE now  == IF transport = "http" THEN Sse!Outcome ELSE Grpc!Outcome
           next == IF transport = "http" THEN Sse!Outcome' ELSE Grpc!Outcome'
<1> DEFINE a == IF transport = "http" THEN Sse!Arrived ELSE Grpc!Arrived
           b == IF transport = "http" THEN Sse!Arrived' ELSE Grpc!Arrived'
           x == IF transport = "http" THEN Sse!Connection ELSE Grpc!Connection
           y == IF transport = "http" THEN Sse!Connection' ELSE Grpc!Connection'
<1>1. ShownStep(now, next, a, b, x, y)
  BY DEF HttpStep, GrpcStep, Place, Came, Sse!Arrived, Grpc!Arrived, Grpc!Connection
<1>2. /\ (IF transport = "http" THEN Sse!Outcome ELSE Grpc!Outcome)' = next
      /\ (IF transport = "http" THEN Sse!Arrived ELSE Grpc!Arrived)' = b
      /\ (IF transport = "http" THEN Sse!Connection ELSE Grpc!Connection)' = y
  OBVIOUS
<1>3. QED
  BY <1>1, <1>2
  DEF ShownStep, Stream!Next, Stream!streamVars, Stream!Write, Stream!End, Stream!Arrive,
      Stream!Fail, Stream!Yield, Stream!Return, Stream!Throw, Stream!Leave

LEMMA StreamNext ==
  ASSUME WireInv, [Next]_vars
  PROVE  WireInv' /\ [Stream!Next]_(Stream!streamVars)
<1>0. NoFrame \notin Frame
  BY TransportAssumption
<1>1. CASE OverHttp(Sse!Next)
  <2>1. transport = "http" /\ transport' = "http" /\ HttpInv' /\ HttpStep
    BY <1>0, <1>1, HttpNext DEF OverHttp, WireInv
  <2>2. QED
    BY <2>1, ShownAsEventStream DEF WireInv
<1>2. CASE OverGrpc(Grpc!Next)
  <2>1. transport = "grpc" /\ transport' = "grpc" /\ GrpcInv' /\ GrpcStep
    BY <1>2, GrpcNext DEF OverGrpc, WireInv
  <2>2. QED
    BY <2>1, ShownAsEventStream DEF WireInv
<1>3. CASE UNCHANGED vars
  <2>1. /\ UNCHANGED <<transport, sent, ended, received, wire, generator>>
        /\ UNCHANGED <<connection, buffer, parts, call, events, done, error, resolve>>
    BY <1>3 DEF vars, both, sseOnly, grpcOnly
  <2>2. HttpInv => HttpInv'
    BY <2>1 DEF HttpInv, Sse!TypeOK, HttpFrames, HttpTokens, Place
  <2>3. GrpcInv => GrpcInv'
    BY <2>1 DEF GrpcInv, Grpc!TypeOK, Grpc!SleepsOnlyWhenIdle, GrpcFrames, GrpcCall, Reached
  <2>4. UNCHANGED Stream!streamVars
    BY <2>1 DEF Stream!streamVars, Sse!Outcome, Grpc!Outcome, Sse!Arrived, Grpc!Arrived,
                Sse!Connection, Grpc!Connection
  <2>5. QED
    BY <2>1, <2>2, <2>3, <2>4 DEF WireInv
<1>4. QED
  BY <1>1, <1>2, <1>3 DEF Next

LEMMA StreamBegins ==
  ASSUME Init
  PROVE  WireInv /\ Stream!Init
<1> USE DEF Init, Sse!Init, Grpc!Init
<1>0. /\ \A f, a : Continues(<<>>, f, a) /\ Written(<<>>, f, a)
      /\ Len(<<>>) = 0 /\ \A S : <<>> \in Seq(S)
  BY DEF Continues, Written
<1>1. HttpInv
  <2>1. Sse!TypeOK
    BY <1>0 DEF Sse!TypeOK
  <2>2. Place = 0 /\ HttpFrames
    BY <1>0 DEF HttpFrames, Place
  <2>3. HttpTokens
    BY <1>0, <2>2 DEF HttpTokens
  <2>4. QED
    BY <2>1, <2>2, <2>3 DEF HttpInv
<1>2. GrpcInv
  <2>1. Grpc!TypeOK /\ Grpc!SleepsOnlyWhenIdle
    BY <1>0 DEF Grpc!TypeOK, Grpc!SleepsOnlyWhenIdle
  <2>2. Reached = 0 /\ GrpcFrames
    BY <1>0 DEF GrpcFrames, Reached
  <2>3. GrpcCall
    BY <1>0, <2>2 DEF GrpcCall
  <2>4. QED
    BY <2>1, <2>2, <2>3 DEF GrpcInv
<1>3. Stream!Init
  BY <1>0 DEF Stream!Init, Sse!Outcome, Sse!Over, Grpc!Outcome, Sse!Arrived, Grpc!Arrived,
              Sse!Connection, Grpc!Connection
<1>4. QED
  BY <1>1, <1>2, <1>3 DEF WireInv

LEMMA WireInvariant == Spec => []WireInv
BY StreamBegins, StreamNext, PTL DEF Spec

\* However the chunks cut the text and whichever callbacks come between two runs of the
\* generator, one that waits has nothing to give (http-transport.ts:100-108,
\* grpc-transport.ts:231-244), for any number of frames.
THEOREM NothingIsHeldBack == Spec => []StreamInv
<1>1. WireInv => StreamInv
  BY TransportAssumption, HttpHoldsNothingBack
  DEF WireInv, StreamInv, TypeOK, SleepsOnlyWhenIdle, NoFrameHeldBack, HttpInv, GrpcInv
<1>2. QED
  BY <1>1, WireInvariant, PTL

\* Both transports keep the promise of Transport.stream (client/src/transport.ts:24-25): the
\* frames come in order, none twice and none left out; the iteration returns only after the
\* last, and throws only for a connection that failed and only when every frame that had
\* come was given.
THEOREM FramesComeAsPromised == Spec => ImplementsEventStream
<1>1. Init => Stream!Init
  BY StreamBegins
<1>2. WireInv /\ [Next]_vars => [Stream!Next]_(Stream!streamVars)
  BY StreamNext
<1>3. QED
  BY <1>1, <1>2, WireInvariant, PTL DEF Spec, ImplementsEventStream, Stream!Spec

=============================================================================
