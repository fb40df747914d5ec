-------------------------- MODULE HybridSearchProofs --------------------------
(***************************************************************************)
(* Proofs about HybridSearch, for any set of images, limits and weights    *)
(* that callers ask for, scale of the scores and number of writes.         *)
(***************************************************************************)
EXTENDS HybridSearch, FiniteSetTheorems, SequenceTheorems, TLAPS

\* An order of images that names none twice.
IsRanking(r) == r \in Seq(Images) /\ \A m, n \in 1..Len(r) : r[m] = r[n] => m = n

\* Types; the rankings and the answers are orders of images, the sparse ones and
\* the answers have no other images than the dense one, and an answer is no longer
\* than the limit.  The script's searches have the default weights.
Typed ==
    /\ DOMAIN ranking = Channel /\ DOMAIN answers = Channel
    /\ \A c \in Channel : IsRanking(ranking[c]) /\ ToSet(ranking[c]) \subseteq Indexed
    /\ request \in [via : {"api", "script"}, limit : Nat, weights : [Channel -> Nat]]
    /\ request.via = "script" => request.weights = DEFAULT_RRF_WEIGHTS
    /\ \A c \in Channel : /\ IsRanking(answers[c]) /\ Len(answers[c]) <= request.limit
                          /\ ToSet(answers[c]) \subseteq Indexed
    /\ known \subseteq Indexed /\ (at = "idle" => answers = Nothing)

\* Whatever is written between the queries, the dense one found what was there at
\* the start, unless there are more images than the search asks for.
Found ==
    at \in {"ocr", "florence", "fuse", "done"} /\ Len(ranking["dense"]) <= request.limit
        => known \subseteq ToSet(answers["dense"])

\* What is shown is the fusion of the answers.
Best == UpTo(request.limit, Fused)
Served ==
    at = "done" =>
        /\ results = [n \in 1..Len(Best) |-> [image |-> Best[n], score |-> Score(Best[n])]]
        /\ explained = [n \in 1..Len(Best) |-> Explanation(Best[n])]

\* The search with one query misses nothing.
ServedPlain ==
    at = "plain" /\ Len(ranking["dense"]) <= request.limit => known \subseteq Shown

IInv == Typed /\ Found /\ Served /\ ServedPlain

-----------------------------------------------------------------------------
(***************************************************************************)
(* Rankings.                                                               *)
(***************************************************************************)

\* A ranking has as many places as images.
LEMMA Ranking ==
  ASSUME NEW r, IsRanking(r)
  PROVE  /\ Len(r) \in Nat /\ DOMAIN r = 1..Len(r)
         /\ \A n \in 1..Len(r) : r[n] \in Images
         /\ \A x : x \in ToSet(r) <=> \E n \in 1..Len(r) : r[n] = x
         /\ ToSet(r) \subseteq Images
         /\ IsFiniteSet(ToSet(r)) /\ Cardinality(ToSet(r)) = Len(r)
  <1>1. Len(r) \in Nat /\ DOMAIN r = 1..Len(r) /\ r \in [1..Len(r) -> Images]
    BY LenProperties DEF IsRanking
  <1>2. \A x : x \in ToSet(r) <=> \E n \in 1..Len(r) : r[n] = x
    BY <1>1 DEF ToSet
  <1>3. r \in Bijection(1..Len(r), ToSet(r))
    <2>1. r \in [1..Len(r) -> ToSet(r)]
      BY <1>1, <1>2
    <2> QED
      BY <1>2, <2>1 DEF IsRanking, Bijection, Injection, Surjection, IsInjective
  <1>4. IsFiniteSet(1..Len(r)) /\ Cardinality(1..Len(r)) = Len(r)
    BY <1>1, FS_Interval
  <1>5. IsFiniteSet(ToSet(r)) /\ Cardinality(ToSet(r)) = Len(r)
    BY <1>3, <1>4, FS_Bijection DEF ExistsBijection
  <1> QED
    BY <1>1, <1>2, <1>5

\* The orders of some images are rankings.
LEMMA SomeRanking ==
  ASSUME NEW S \in SUBSET Images, IsFiniteSet(S), NEW r \in SetToSeqs(S)
  PROVE  IsRanking(r) /\ Len(r) = Cardinality(S) /\ ToSet(r) = S
  <1> DEFINE k == Cardinality(S)
  <1>1. k \in Nat
    BY FS_CardinalityType
  <1>2. r \in [1..k -> S] /\ \A m, n \in 1..k : m # n => r[m] # r[n]
    BY DEF SetToSeqs
  <1>3. r \in Seq(Images) /\ Len(r) = k
    <2>1. r \in Seq(S)
      BY <1>1, <1>2
    <2>2. Len(r) = k
      BY <1>1, <1>2, <2>1, LenProperties
    <2> QED
      BY <2>1, <2>2
  <1>4. r \in Surjection(1..k, S)
    <2>1. r \in Injection(1..k, S)
      BY <1>2 DEF Injection, IsInjective
    <2>2. Cardinality(1..k) = k
      BY <1>1, FS_Interval
    <2> QED
      BY <2>1, <2>2, FS_Injection
  <1>5. ToSet(r) = S
    BY <1>2, <1>4 DEF ToSet, Surjection
  <1> QED
    BY <1>2, <1>3, <1>5 DEF IsRanking

\* What is cut at a limit is a ranking again, and all of it when the limit allows.
LEMMA Cut ==
  ASSUME NEW r, IsRanking(r), NEW limit \in Nat
  PROVE  LET s == UpTo(limit, r)
         IN /\ IsRanking(s) /\ Len(s) <= limit /\ Len(s) <= Len(r) /\ ToSet(s) \subseteq ToSet(r)
            /\ \A n \in 1..Len(s) : s[n] = r[n]
            /\ Len(r) <= limit => Len(s) = Len(r) /\ ToSet(s) = ToSet(r)
            /\ limit <= Len(r) => Len(s) = limit
  <1> DEFINE k == IF Len(r) < limit THEN Len(r) ELSE limit
             s == UpTo(limit, r)
  <1>1. Len(r) \in Nat /\ \A n \in 1..Len(r) : r[n] \in Images
    BY Ranking
  <1>2. k \in Nat /\ k <= Len(r) /\ k <= limit /\ (Len(r) <= limit => k = Len(r))
        /\ (limit <= Len(r) => k = limit)
    BY <1>1
  <1>3. s = SubSeq(r, 1, k)
    BY DEF UpTo
  <1> HIDE DEF s, k
  <1>4. s \in Seq(Images) /\ Len(s) = k /\ \A n \in 1..k : s[n] = r[n]
    BY <1>1, <1>2, <1>3, SubSeqProperties
  <1>5. IsRanking(s)
    BY <1>1, <1>2, <1>4 DEF IsRanking
  <1>6. \A x : x \in ToSet(s) <=> \E n \in 1..k : r[n] = x
    BY <1>4, <1>5, Ranking
  <1>7. \A x : x \in ToSet(r) <=> \E n \in 1..Len(r) : r[n] = x
    BY Ranking
  <1>8. ToSet(s) \subseteq ToSet(r)
    BY <1>1, <1>2, <1>6, <1>7
  <1>9. Len(r) <= limit => ToSet(s) = ToSet(r)
    BY <1>2, <1>6, <1>7
  <1> QED
    BY <1>1, <1>2, <1>4, <1>5, <1>8, <1>9 DEF s

\* An image is taken out of a ranking, and the others stay in their order.
LEMMA TakenOut ==
  ASSUME NEW r, IsRanking(r), NEW i
  PROVE  IsRanking(Without(r, i)) /\ ToSet(Without(r, i)) = ToSet(r) \ {i}
  <1>1. CASE i \notin ToSet(r)
    BY <1>1 DEF Without
  <1>2. CASE i \in ToSet(r)
    <2> DEFINE p == CHOOSE n \in DOMAIN r : r[n] = i
               m == Len(r)
               s == SubSeq(r, 1, p - 1)
               t == SubSeq(r, p + 1, m)
    <2>1. m \in Nat /\ DOMAIN r = 1..m /\ \A n \in 1..m : r[n] \in Images
      BY Ranking
    <2>2. p \in 1..m /\ r[p] = i
      <3>1. \E n \in DOMAIN r : r[n] = i
        BY <1>2, <2>1, Ranking
      <3> QED
        BY <2>1, <3>1
    <2>3. Without(r, i) = s \o t
      BY <1>2 DEF Without, RemoveAt
    <2> HIDE DEF p, m
    <2>4. s \in Seq(Images) /\ Len(s) = p - 1 /\ \A n \in 1..(p - 1) : s[n] = r[n]
      BY <2>1, <2>2, SubSeqProperties
    <2>5. t \in Seq(Images) /\ Len(t) = m - p /\ \A n \in 1..(m - p) : t[n] = r[p + n]
      BY <2>1, <2>2, SubSeqProperties
    <2> HIDE DEF s, t
    <2> DEFINE w == s \o t
    <2>6. /\ w \in Seq(Images) /\ Len(w) = m - 1
          /\ \A n \in 1..(m - 1) : w[n] = IF n <= p - 1 THEN s[n] ELSE t[n - (p - 1)]
      <3>1. Len(s) + Len(t) = m - 1
        BY <2>1, <2>2, <2>4, <2>5
      <3> QED
        BY <2>4, <2>5, <3>1, ConcatProperties
    <2> HIDE DEF w
    <2>7. \A n \in 1..(m - 1) : w[n] = r[IF n < p THEN n ELSE n + 1]
      BY <2>1, <2>2, <2>4, <2>5, <2>6
    <2>8. \A n \in 1..m, l \in 1..m : r[n] = r[l] => n = l
      BY DEF IsRanking, m
    <2>9. IsRanking(w)
      <3>1. ASSUME NEW n \in 1..(m - 1), NEW l \in 1..(m - 1), w[n] = w[l] PROVE n = l
        <4> DEFINE a == IF n < p THEN n ELSE n + 1
                   b == IF l < p THEN l ELSE l + 1
        <4>1. a \in 1..m /\ b \in 1..m
          BY <2>1, <2>2
        <4>2. r[a] = r[b]
          BY <2>7, <3>1
        <4>3. a = b
          BY <2>8, <4>1, <4>2
        <4> QED
          BY <2>1, <2>2, <4>3
      <3> QED
        BY <2>6, <3>1 DEF IsRanking
    <2>10. ToSet(w) = ToSet(r) \ {i}
      <3>1. \A x : x \in ToSet(w) <=> \E n \in 1..(m - 1) : w[n] = x
        BY <2>6, <2>9, Ranking
      <3>2. \A x : x \in ToSet(r) <=> \E n \in 1..m : r[n] = x
        BY Ranking DEF m
      <3>3. ASSUME NEW n \in 1..(m - 1) PROVE w[n] \in ToSet(r) \ {i}
        <4> DEFINE a == IF n < p THEN n ELSE n + 1
        <4>1. a \in 1..m /\ a # p /\ w[n] = r[a]
          BY <2>1, <2>2, <2>7
        <4>2. r[a] # i
          BY <2>2, <2>8, <4>1
        <4> QED
          BY <3>2, <4>1, <4>2
      <3>4. ASSUME NEW n \in 1..m, r[n] # i PROVE r[n] \in ToSet(w)
        <4> DEFINE a == IF n < p THEN n ELSE n - 1
        <4>1. a \in 1..(m - 1) /\ w[a] = r[n]
          <5>1. n # p
            BY <2>2, <3>4
          <5>2. a \in 1..(m - 1) /\ (IF a < p THEN a ELSE a + 1) = n
            BY <2>1, <2>2, <5>1
          <5> QED
            BY <2>7, <5>2
        <4> QED
          BY <3>1, <4>1
      <3> QED
        BY <3>1, <3>2, <3>3, <3>4
    <2> QED
      BY <2>3, <2>9, <2>10 DEF w
  <1> QED
    BY <1>1, <1>2

\* A new image is put into a ranking.
LEMMA PutIn ==
  ASSUME NEW r, IsRanking(r), NEW i \in Images, i \notin ToSet(r), NEW k \in 1..(Len(r) + 1)
  PROVE  IsRanking(InsertAt(r, k, i)) /\ ToSet(InsertAt(r, k, i)) = ToSet(r) \cup {i}
  <1> DEFINE m == Len(r)
             s == SubSeq(r, 1, k - 1)
             t == SubSeq(r, k, m)
             u == s \o <<i>>
             w == u \o t
  <1>1. m \in Nat /\ (\A n \in 1..m : r[n] \in Images) /\ k \in 1..(m + 1)
    BY Ranking
  <1>2. InsertAt(r, k, i) = w
    BY DEF InsertAt
  <1>3. s \in Seq(Images) /\ Len(s) = k - 1 /\ \A n \in 1..(k - 1) : s[n] = r[n]
    BY <1>1, SubSeqProperties
  <1>4. t \in Seq(Images) /\ Len(t) = m - k + 1 /\ \A n \in 1..(m - k + 1) : t[n] = r[k + n - 1]
    BY <1>1, SubSeqProperties
  <1>5. m = Len(r)
    OBVIOUS
  <1> HIDE DEF s, t, m
  <1>6. u \in Seq(Images) /\ Len(u) = k /\ \A n \in 1..k : u[n] = IF n <= k - 1 THEN s[n] ELSE i
    <2>1. <<i>> \in Seq(Images) /\ Len(<<i>>) = 1 /\ <<i>>[1] = i
      OBVIOUS
    <2>2. /\ u \in Seq(Images) /\ Len(u) = Len(s) + 1
          /\ \A n \in 1..(Len(s) + 1) : u[n] = IF n <= Len(s) THEN s[n] ELSE <<i>>[n - Len(s)]
      BY <1>3, <2>1, ConcatProperties
    <2>3. ASSUME NEW n \in 1..k PROVE u[n] = IF n <= k - 1 THEN s[n] ELSE i
      <3>1. n \in 1..(Len(s) + 1) /\ (n <= k - 1 <=> n <= Len(s)) /\ (~(n <= k - 1) => n - Len(s) = 1)
        BY <1>1, <1>3
      <3> QED
        BY <2>1, <2>2, <3>1
    <2> QED
      BY <1>1, <1>3, <2>2, <2>3
  <1> HIDE DEF u
  <1>7. /\ w \in Seq(Images) /\ Len(w) = m + 1
        /\ \A n \in 1..(m + 1) : w[n] = IF n <= k THEN u[n] ELSE t[n - k]
    <2>1. Len(u) + Len(t) = m + 1
      BY <1>1, <1>4, <1>6
    <2>2. /\ w \in Seq(Images) /\ Len(w) = Len(u) + Len(t)
          /\ \A n \in 1..(Len(u) + Len(t)) : w[n] = IF n <= Len(u) THEN u[n] ELSE t[n - Len(u)]
      BY <1>4, <1>6, ConcatProperties
    <2> QED
      BY <1>6, <2>1, <2>2
  <1> HIDE DEF w
  <1>8. ASSUME NEW n \in 1..(m + 1)
        PROVE  w[n] = IF n = k THEN i ELSE r[IF n < k THEN n ELSE n - 1]
    <2>1. CASE n < k
      BY <1>1, <1>3, <1>6, <1>7, <2>1
    <2>2. CASE n = k
      BY <1>1, <1>6, <1>7, <2>2
    <2>3. CASE n > k
      <3>1. n - k \in 1..(m - k + 1) /\ k + (n - k) - 1 = n - 1 /\ ~(n <= k)
        BY <1>1, <2>3
      <3>2. w[n] = t[n - k] /\ t[n - k] = r[k + (n - k) - 1]
        BY <1>4, <1>7, <3>1
      <3> QED
        BY <1>1, <2>3, <3>1, <3>2
    <2> QED
      BY <1>1, <2>1, <2>2, <2>3
  <1>9. (\A n \in 1..m : r[n] # i) /\ \A n \in 1..m, l \in 1..m : r[n] = r[l] => n = l
    BY <1>5, Ranking DEF IsRanking
  <1>10. IsRanking(w)
    <2>1. ASSUME NEW n \in 1..(m + 1), NEW l \in 1..(m + 1), w[n] = w[l] PROVE n = l
      <3> DEFINE a == IF n < k THEN n ELSE n - 1
                 b == IF l < k THEN l ELSE l - 1
      <3>1. (n # k => a \in 1..m /\ w[n] = r[a]) /\ (l # k => b \in 1..m /\ w[l] = r[b])
        BY <1>1, <1>8
      <3>2. (n = k => w[n] = i) /\ (l = k => w[l] = i)
        BY <1>8
      <3> HIDE DEF a, b
      <3>3. n # k /\ l # k => a = b
        BY <1>9, <2>1, <3>1
      <3>4. n = k <=> l = k
        BY <1>9, <2>1, <3>1, <3>2
      <3> QED
        BY <1>1, <3>3, <3>4 DEF a, b
    <2> QED
      BY <1>7, <2>1 DEF IsRanking
  <1>11. ToSet(w) = ToSet(r) \cup {i}
    <2>1. \A x : x \in ToSet(w) <=> \E n \in 1..(m + 1) : w[n] = x
      BY <1>7, <1>10, Ranking
    <2>2. \A x : x \in ToSet(r) <=> \E n \in 1..m : r[n] = x
      BY <1>5, Ranking
    <2>3. ASSUME NEW n \in 1..(m + 1) PROVE w[n] \in ToSet(r) \cup {i}
      <3> DEFINE a == IF n < k THEN n ELSE n - 1
      <3>1. n # k => a \in 1..m /\ w[n] = r[a]
        BY <1>1, <1>8
      <3>2. n = k => w[n] = i
        BY <1>8
      <3> QED
        BY <2>2, <3>1, <3>2
    <2>4. ASSUME NEW n \in 1..m PROVE r[n] \in ToSet(w)
      <3> DEFINE a == IF n < k THEN n ELSE n + 1
      <3>1. a \in 1..(m + 1) /\ a # k /\ (IF a < k THEN a ELSE a - 1) = n
        BY <1>1
      <3>2. w[a] = r[n]
        BY <1>8, <3>1
      <3> QED
        BY <2>1, <3>1, <3>2
    <2>5. i \in ToSet(w)
      BY <1>1, <1>8, <2>1
    <2> QED
      BY <2>1, <2>2, <2>3, <2>4, <2>5
  <1> QED
    BY <1>2, <1>10, <1>11

\* Wherever a written image comes, a channel ranks it or not, and the others as before.
LEMMA Placed ==
  ASSUME NEW c, IsRanking(ranking[c]), NEW i \in Images, NEW r \in Placements(c, i)
  PROVE  /\ IsRanking(r) /\ ToSet(ranking[c]) \ {i} \subseteq ToSet(r)
         /\ ToSet(r) \subseteq ToSet(ranking[c]) \cup {i}
         /\ c = "dense" => ToSet(r) = ToSet(ranking[c]) \cup {i}
  <1> DEFINE others == Without(ranking[c], i)
  <1>1. IsRanking(others) /\ ToSet(others) = ToSet(ranking[c]) \ {i}
    BY TakenOut
  <1>2. CASE \E k \in 1..(Len(others) + 1) : r = InsertAt(others, k, i)
    BY <1>1, <1>2, PutIn
  <1>3. CASE c # "dense" /\ r = others
    BY <1>1, <1>3
  <1> QED
    BY <1>2, <1>3 DEF Placements

-----------------------------------------------------------------------------
(***************************************************************************)
(* Scores.                                                                 *)
(***************************************************************************)

\* Dividing less by more gives no more.
LEMMA Quotients ==
  ASSUME NEW a \in Nat, NEW d \in Nat \ {0}, NEW e \in Nat \ {0}, d <= e
  PROVE  a \div d \in Nat /\ a \div e <= a \div d
  <1>1. a \div d \in Nat /\ a < (a \div d + 1) * d
    OBVIOUS
  <1>2. a \div e \in Nat /\ (a \div e) * e <= a
    OBVIOUS
  <1> DEFINE q == a \div d
             p == a \div e
  <1> HIDE DEF p, q
  <1>3. ASSUME q + 1 <= p PROVE FALSE
    <2>1. PICK f \in Nat : e = d + f
      OBVIOUS
    <2>2. PICK g \in Nat : p = q + 1 + g
      BY <1>1, <1>2, <1>3 DEF p, q
    <2>3. q \in Nat /\ p \in Nat
      BY <1>1, <1>2 DEF p, q
    <2>4. p * e = (q + 1) * d + (q + 1) * f + g * e
      BY <2>1, <2>2, <2>3
    <2>5. (q + 1) * f \in Nat /\ g * e \in Nat /\ (q + 1) * d \in Nat
      BY <2>1, <2>3
    <2>6. p * e <= a /\ a < (q + 1) * d
      BY <1>1, <1>2 DEF p, q
    <2> QED
      BY <2>3, <2>4, <2>5, <2>6
  <1> QED
    BY <1>1, <1>2, <1>3 DEF p, q

\* Two shares of the first rank are no more than the share of their weights' sum.
LEMMA Halves ==
  ASSUME NEW s \in Nat, NEW u \in Nat, NEW v \in Nat, NEW w \in Nat, u + v <= w
  PROVE  (s * u) \div 2 + (s * v) \div 2 <= (s * w) \div 2
  <1>1. s * u \in Nat /\ s * v \in Nat /\ s * w \in Nat
    OBVIOUS
  <1>2. PICK e \in Nat : w = u + v + e
    OBVIOUS
  <1>3. s * w = s * u + s * v + s * e /\ s * e \in Nat
    BY <1>2
  <1> QED
    BY <1>1, <1>3

\* A share is a number, and a better rank has no smaller one.
LEMMA Shares ==
  ASSUME NEW w \in Nat, NEW p \in Nat \ {0}
  PROVE  Share(w, p) \in Nat /\ \A q \in 1..p : Share(w, p) <= Share(w, q)
  <1>1. Scale * w \in Nat
    BY HybridSearchAssumption
  <1>2. ASSUME NEW q \in 1..p PROVE Share(w, q) \in Nat /\ Share(w, p) <= Share(w, q)
    <2>1. 1 + q \in Nat \ {0} /\ 1 + p \in Nat \ {0} /\ 1 + q <= 1 + p
      OBVIOUS
    <2> QED
      BY <1>1, <2>1, Quotients DEF Share, RRF_K
  <1> QED
    BY <1>2

\* The rank of an image in an answer is where it stands.
LEMMA RankIs ==
  ASSUME Typed, NEW c \in Channel, NEW i
  PROVE  /\ Len(answers[c]) \in Nat /\ RankIn(c, i) \in 0..Len(answers[c])
         /\ i \in ToSet(answers[c]) <=> RankIn(c, i) # 0
         /\ RankIn(c, i) # 0 => answers[c][RankIn(c, i)] = i
         /\ \A n \in 1..Len(answers[c]) : answers[c][n] = i => RankIn(c, i) = n
  <1> DEFINE r == answers[c]
  <1>1. IsRanking(r)
    BY DEF Typed
  <1>2. /\ Len(r) \in Nat /\ DOMAIN r = 1..Len(r)
        /\ i \in ToSet(r) <=> \E n \in 1..Len(r) : r[n] = i
    BY <1>1, Ranking
  <1>3. \A m, n \in 1..Len(r) : r[m] = r[n] => m = n
    BY <1>1 DEF IsRanking
  <1>4. RankIn(c, i) = IF \E n \in 1..Len(r) : r[n] = i
                       THEN CHOOSE n \in 1..Len(r) : r[n] = i ELSE 0
    BY <1>2 DEF RankIn
  <1> HIDE DEF r
  <1>5. CASE \E n \in 1..Len(r) : r[n] = i
    <2>1. RankIn(c, i) \in 1..Len(r) /\ r[RankIn(c, i)] = i
      BY <1>4, <1>5
    <2> QED
      BY <1>2, <1>3, <1>5, <2>1 DEF r
  <1>6. CASE ~ \E n \in 1..Len(r) : r[n] = i
    BY <1>2, <1>4, <1>6 DEF r
  <1> QED
    BY <1>5, <1>6

\* An image's share in a channel is a number, 0 where it was not found.
LEMMA ShareIs ==
  ASSUME Typed, NEW c \in Channel, NEW i
  PROVE  /\ ShareIn(c, i, request.weights) \in Nat
         /\ RankIn(c, i) = 0 => ShareIn(c, i, request.weights) = 0
         /\ RankIn(c, i) # 0
              => ShareIn(c, i, request.weights) = Share(request.weights[c], RankIn(c, i))
  <1>1. RankIn(c, i) \in Nat
    BY RankIs
  <1>2. request.weights[c] \in Nat
    BY DEF Typed
  <1> QED
    BY <1>1, <1>2, Shares DEF ShareIn

\* A score is a number.
LEMMA ScoreIs == ASSUME Typed, NEW i PROVE Score(i) \in Nat
  <1>1. \A c \in Channel : ShareIn(c, i, request.weights) \in Nat
    BY ShareIs
  <1>2. "dense" \in Channel /\ "ocr" \in Channel /\ "florence" \in Channel
    BY DEF Channel
  <1> QED
    BY <1>1, <1>2 DEF Score, SumOfShares

\* What was found is finitely many of the images that are there.
LEMMA HitsAre ==
  ASSUME Typed
  PROVE  /\ \A i : i \in Hits <=> \E c \in Channel : RankIn(c, i) # 0
         /\ IsFiniteSet(Hits) /\ Cardinality(Hits) \in Nat
         /\ Hits \subseteq Images /\ Hits \subseteq Indexed
         /\ Cardinality(Hits) <= Len(ranking["dense"])
  <1>1. \A i : i \in Hits <=> \E c \in Channel : RankIn(c, i) # 0
    BY RankIs DEF Hits
  <1>2. Hits \subseteq Indexed
    BY DEF Typed, Hits
  <1>3. IsFiniteSet(Indexed) /\ Cardinality(Indexed) = Len(ranking["dense"]) /\ Indexed \subseteq Images
    <2>1. IsRanking(ranking["dense"])
      BY DEF Typed, Channel
    <2> QED
      BY <2>1, Ranking DEF Indexed
  <1>4. IsFiniteSet(Hits) /\ Cardinality(Hits) <= Cardinality(Indexed)
    BY <1>2, <1>3, FS_Subset
  <1> QED
    BY <1>1, <1>2, <1>3, <1>4, FS_CardinalityType

\* No two images come first at the same place.
LEMMA FirstHits ==
  ASSUME Typed
  PROVE  /\ \A i : FirstHit(i) \in Nat
         /\ \A i, j \in Hits : FirstHit(i) = FirstHit(j) => i = j
  <1> DEFINE D(i) == RankIn("dense", i)
             O(i) == RankIn("ocr", i)
             F(i) == RankIn("florence", i)
             d == Len(answers["dense"])
             o == Len(answers["ocr"])
             f == Len(answers["florence"])
  <1>0. "dense" \in Channel /\ "ocr" \in Channel /\ "florence" \in Channel
    BY DEF Channel
  <1>1. /\ d \in Nat /\ o \in Nat /\ f \in Nat
        /\ \A i : D(i) \in 0..d /\ O(i) \in 0..o /\ F(i) \in 0..f
    BY <1>0, RankIs
  <1>2. \A i, j : /\ D(i) = D(j) /\ D(i) # 0 => i = j
                  /\ O(i) = O(j) /\ O(i) # 0 => i = j
                  /\ F(i) = F(j) /\ F(i) # 0 => i = j
    <2>1. ASSUME NEW c \in Channel, NEW i, NEW j, RankIn(c, i) = RankIn(c, j), RankIn(c, i) # 0
          PROVE  i = j
      <3>1. answers[c][RankIn(c, i)] = i
        BY <2>1, RankIs
      <3>2. answers[c][RankIn(c, j)] = j
        BY <2>1, RankIs
      <3> QED
        BY <2>1, <3>1, <3>2
    <2> QED
      BY <1>0, <2>1
  <1>3. \A i \in Hits : D(i) # 0 \/ O(i) # 0 \/ F(i) # 0
    BY HitsAre DEF Channel
  <1>4. \A i : FirstHit(i) = IF D(i) # 0 THEN D(i) ELSE IF O(i) # 0 THEN d + O(i) ELSE d + o + F(i)
    BY DEF FirstHit
  <1> HIDE DEF D, O, F, d, o, f
  <1>5. \A i : FirstHit(i) \in Nat
    <2> TAKE i
    <2>1. D(i) \in Nat /\ O(i) \in Nat /\ F(i) \in Nat /\ d \in Nat /\ o \in Nat
      BY <1>1
    <2> QED
      BY <1>4, <2>1
  <1>6. ASSUME NEW i \in Hits, NEW j \in Hits, FirstHit(i) = FirstHit(j) PROVE i = j
    <2>1. /\ D(i) \in 0..d /\ O(i) \in 0..o /\ F(i) \in 0..f
          /\ D(j) \in 0..d /\ O(j) \in 0..o /\ F(j) \in 0..f
          /\ d \in Nat /\ o \in Nat /\ f \in Nat
      BY <1>1
    <2>2. (D(i) # 0 \/ O(i) # 0 \/ F(i) # 0) /\ (D(j) # 0 \/ O(j) # 0 \/ F(j) # 0)
      BY <1>3
    <2>3. \/ D(i) = D(j) /\ D(i) # 0
          \/ O(i) = O(j) /\ O(i) # 0
          \/ F(i) = F(j) /\ F(i) # 0
      BY <1>4, <1>6, <2>1, <2>2
    <2> QED
      BY <1>2, <2>3
  <1> QED
    BY <1>5, <1>6

-----------------------------------------------------------------------------
(***************************************************************************)
(* The order of the fusion.                                                *)
(***************************************************************************)

\* Being ahead is a strict order of what was found, and leaves no two side by side.
LEMMA Order ==
  ASSUME Typed, NEW i \in Hits, NEW j \in Hits, NEW k \in Hits
  PROVE  /\ ~ Ahead(i, i)
         /\ Ahead(i, j) \/ Ahead(j, i) \/ i = j
         /\ Ahead(i, j) => ~ Ahead(j, i)
         /\ Ahead(i, j) /\ Ahead(j, k) => Ahead(i, k)
  <1>1. Score(i) \in Nat /\ Score(j) \in Nat /\ Score(k) \in Nat
    BY ScoreIs
  <1>2. FirstHit(i) \in Nat /\ FirstHit(j) \in Nat /\ FirstHit(k) \in Nat
    BY FirstHits
  <1>3. FirstHit(i) = FirstHit(j) => i = j
    BY FirstHits
  <1> QED
    BY <1>1, <1>2, <1>3 DEF Ahead

\* The images that are ahead of one, and the place that is left for it.
Better(i) == {j \in Hits : Ahead(j, i)}
PlaceOf(i) == Cardinality(Better(i)) + 1

\* Every place up to the number of images is one image's, and who is ahead comes first.
LEMMA Places ==
  ASSUME Typed
  PROVE  /\ \A i \in Hits : Cardinality(Better(i)) \in Nat /\ PlaceOf(i) \in 1..Cardinality(Hits)
         /\ \A i, j \in Hits : Ahead(i, j) => PlaceOf(i) < PlaceOf(j)
         /\ \A i, j \in Hits : PlaceOf(i) = PlaceOf(j) => i = j
         /\ \A n \in 1..Cardinality(Hits) : \E i \in Hits : PlaceOf(i) = n
  <1> DEFINE N == Cardinality(Hits)
  <1>1. IsFiniteSet(Hits) /\ N \in Nat
    BY HitsAre
  <1>2. ASSUME NEW i
        PROVE  /\ IsFiniteSet(Better(i)) /\ Cardinality(Better(i)) \in Nat
               /\ Better(i) \subseteq Hits /\ Cardinality(Better(i)) <= N
    <2>1. Better(i) \in SUBSET Hits
      BY DEF Better
    <2> QED
      BY <1>1, <2>1, FS_Subset, FS_CardinalityType
  <1>3. ASSUME NEW i \in Hits PROVE PlaceOf(i) \in 1..N
    <2>1. i \notin Better(i)
      BY Order DEF Better
    <2>2. Better(i) # Hits
      BY <2>1
    <2>3. Cardinality(Better(i)) # N
      BY <1>1, <1>2, <2>2, FS_Subset
    <2> QED
      BY <1>1, <1>2, <2>3 DEF PlaceOf
  <1>4. ASSUME NEW i \in Hits, NEW j \in Hits, Ahead(i, j) PROVE PlaceOf(i) < PlaceOf(j)
    <2>1. Better(i) \subseteq Better(j)
      BY <1>4, Order DEF Better
    <2>2. i \in Better(j) /\ i \notin Better(i)
      BY <1>4, Order DEF Better
    <2>3. /\ Cardinality(Better(i)) <= Cardinality(Better(j))
          /\ Cardinality(Better(i)) # Cardinality(Better(j))
      BY <1>2, <2>1, <2>2, FS_Subset
    <2> QED
      BY <1>2, <2>3 DEF PlaceOf
  <1>5. ASSUME NEW i \in Hits, NEW j \in Hits, PlaceOf(i) = PlaceOf(j) PROVE i = j
    <2>1. PlaceOf(i) \in Nat /\ PlaceOf(j) \in Nat
      BY <1>3
    <2>2. ~ Ahead(i, j) /\ ~ Ahead(j, i)
      BY <1>4, <1>5, <2>1
    <2> QED
      BY <2>2, Order
  <1>6. ASSUME NEW n \in 1..N PROVE \E i \in Hits : PlaceOf(i) = n
    <2> DEFINE f == [i \in Hits |-> PlaceOf(i)]
    <2>1. f \in Injection(Hits, 1..N)
      BY <1>3, <1>5 DEF Injection, IsInjective
    <2>2. IsFiniteSet(1..N) /\ Cardinality(1..N) = N
      BY <1>1, FS_Interval
    <2>3. f \in Surjection(Hits, 1..N)
      BY <2>1, <2>2, FS_Injection
    <2> QED
      BY <2>3 DEF Surjection
  <1> QED
    BY <1>2, <1>3, <1>4, <1>5, <1>6

\* The fusion has every image that was found, at its place.
LEMMA Fusion ==
  ASSUME Typed
  PROVE  /\ IsRanking(Fused) /\ Len(Fused) = Cardinality(Hits) /\ ToSet(Fused) = Hits
         /\ \A i \in Hits : Fused[PlaceOf(i)] = i
  <1> DEFINE N == Cardinality(Hits)
             before == [i \in Hits |-> Cardinality({j \in Hits : Ahead(j, i)})]
             s == [n \in 1..N |-> CHOOSE i \in Hits : before[i] = n - 1]
  <1>1. N \in Nat /\ Hits \subseteq Images
    BY HitsAre
  <1>2. Fused = s
    BY DEF Fused, Sorted
  <1>3. \A i \in Hits : before[i] \in Nat /\ PlaceOf(i) = before[i] + 1
    BY Places DEF PlaceOf, Better
  <1> HIDE DEF before
  <1>4. ASSUME NEW n \in 1..N PROVE s[n] \in Hits /\ PlaceOf(s[n]) = n
    <2>1. PICK i \in Hits : PlaceOf(i) = n
      BY Places
    <2>2. before[i] = n - 1
      BY <1>3, <2>1
    <2>3. s[n] \in Hits /\ before[s[n]] = n - 1
      BY <2>2
    <2> QED
      BY <1>1, <1>3, <2>3
  <1>5. s \in [1..N -> Images]
    BY <1>1, <1>4
  <1> HIDE DEF s
  <1>6. s \in Seq(Images) /\ Len(s) = N
    <2>1. s \in Seq(Images)
      BY <1>1, <1>5
    <2> QED
      BY <1>1, <1>5, <2>1
  <1>7. IsRanking(s)
    <2>1. ASSUME NEW m \in 1..N, NEW n \in 1..N, s[m] = s[n] PROVE m = n
      BY <1>4, <2>1
    <2> QED
      BY <1>6, <2>1 DEF IsRanking
  <1>8. ASSUME NEW i \in Hits PROVE PlaceOf(i) \in 1..N /\ s[PlaceOf(i)] = i
    <2>1. PlaceOf(i) \in 1..N
      BY Places
    <2>2. s[PlaceOf(i)] \in Hits /\ PlaceOf(s[PlaceOf(i)]) = PlaceOf(i)
      BY <1>4, <2>1
    <2> QED
      BY <2>1, <2>2, Places
  <1>9. ToSet(s) = Hits
    <2>1. \A x : x \in ToSet(s) <=> \E n \in 1..N : s[n] = x
      BY <1>6, <1>7, Ranking
    <2> QED
      BY <1>4, <1>8, <2>1
  <1> QED
    BY <1>2, <1>6, <1>7, <1>8, <1>9

\* What is shown is the images whose places are within the limit.
LEMMA ShownAre ==
  ASSUME Typed, Served, at = "done"
  PROVE  /\ Len(results) = Len(Best) /\ Len(Best) \in Nat /\ Len(explained) = Len(Best)
         /\ \A n \in 1..Len(Best) : /\ results[n].image = Best[n] /\ Best[n] = Fused[n] /\ Best[n] \in Hits
                                    /\ results[n].score = Score(Best[n])
                                    /\ explained[n] = Explanation(Best[n])
         /\ \A i \in Hits : PlaceOf(i) <= request.limit => PlaceOf(i) \in 1..Len(Best)
         /\ \A n \in 1..Len(Best) : PlaceOf(Best[n]) = n
         /\ Shown = ToSet(Best)
  <1> DEFINE N == Cardinality(Hits)
  <1>1. request.limit \in Nat
    BY DEF Typed
  <1>2. IsRanking(Fused) /\ Len(Fused) = N /\ ToSet(Fused) = Hits /\ N \in Nat
    BY Fusion, HitsAre
  <1>3. /\ IsRanking(Best) /\ \A n \in 1..Len(Best) : Best[n] = Fused[n]
        /\ ToSet(Best) \subseteq Hits /\ Len(Best) <= N
        /\ Len(Best) = IF N <= request.limit THEN N ELSE request.limit
    BY <1>1, <1>2, Cut DEF Best
  <1>4. Len(Best) \in Nat /\ \A x : x \in ToSet(Best) <=> \E n \in 1..Len(Best) : Best[n] = x
    BY <1>3, Ranking
  <1>5. /\ results = [n \in 1..Len(Best) |-> [image |-> Best[n], score |-> Score(Best[n])]]
        /\ explained = [n \in 1..Len(Best) |-> Explanation(Best[n])]
    BY DEF Served
  <1>6. /\ Len(results) = Len(Best) /\ Len(explained) = Len(Best)
        /\ \A n \in 1..Len(Best) : /\ results[n].image = Best[n] /\ results[n].score = Score(Best[n])
                                   /\ explained[n] = Explanation(Best[n])
    BY <1>4, <1>5
  <1>7. \A n \in 1..Len(Best) : Best[n] \in Hits
    BY <1>3, <1>4
  <1>8. \A i \in Hits : PlaceOf(i) \in 1..N
    BY Places
  <1>9. \A i \in Hits : PlaceOf(i) <= request.limit => PlaceOf(i) \in 1..Len(Best)
    BY <1>1, <1>2, <1>3, <1>8
  <1>10. ASSUME NEW n \in 1..Len(Best) PROVE PlaceOf(Best[n]) = n
    <2>1. n \in 1..N
      BY <1>2, <1>3, <1>4
    <2>2. PlaceOf(Best[n]) \in 1..N /\ Fused[PlaceOf(Best[n])] = Best[n] /\ Fused[n] = Best[n]
      BY <1>3, <1>7, <1>8, Fusion
    <2> QED
      BY <1>2, <2>1, <2>2 DEF IsRanking
  <1>11. Shown = ToSet(Best)
    BY <1>4, <1>6 DEF Shown
  <1> QED
    BY <1>3, <1>4, <1>6, <1>7, <1>9, <1>10, <1>11

-----------------------------------------------------------------------------
(***************************************************************************)
(* What the invariant says of an answer.                                   *)
(***************************************************************************)

\* An image that is better in every channel that found the other one is ahead of it.
LEMMA Dominating ==
  ASSUME Typed, NEW i \in Hits, NEW j \in Hits,
         \A c \in Channel : RankIn(c, j) # 0 => RankIn(c, i) \in 1..(RankIn(c, j) - 1)
  PROVE  Ahead(i, j)
  <1>1. ASSUME NEW c \in Channel
        PROVE  /\ ShareIn(c, j, request.weights) \in Nat /\ ShareIn(c, i, request.weights) \in Nat
               /\ ShareIn(c, j, request.weights) <= ShareIn(c, i, request.weights)
    <2>1. ShareIn(c, j, request.weights) \in Nat /\ ShareIn(c, i, request.weights) \in Nat
      BY ShareIs
    <2>2. CASE RankIn(c, j) = 0
      <3>1. ShareIn(c, j, request.weights) = 0
        BY <2>2, ShareIs
      <3> QED
        BY <2>1, <3>1
    <2>3. CASE RankIn(c, j) # 0
      <3> DEFINE p == RankIn(c, j)
                 q == RankIn(c, i)
      <3>1. p \in Nat \ {0} /\ q \in 1..(p - 1)
        BY <2>3, RankIs
      <3>2. q \in 1..p /\ q # 0
        BY <3>1
      <3>3. request.weights[c] \in Nat
        BY DEF Typed
      <3>4. Share(request.weights[c], p) <= Share(request.weights[c], q)
        BY <3>1, <3>2, <3>3, Shares
      <3> QED
        BY <2>1, <2>3, <3>2, <3>4, ShareIs
    <2> QED
      BY <2>2, <2>3
  <1>2. "dense" \in Channel /\ "ocr" \in Channel /\ "florence" \in Channel
    BY DEF Channel
  <1>3. Score(j) <= Score(i)
    BY <1>1, <1>2 DEF Score, SumOfShares
  <1>4. FirstHit(i) < FirstHit(j)
    <2> DEFINE D(k) == RankIn("dense", k)
               O(k) == RankIn("ocr", k)
               F(k) == RankIn("florence", k)
               d == Len(answers["dense"])
               o == Len(answers["ocr"])
    <2>1. /\ D(i) \in 0..d /\ d \in Nat /\ O(i) \in 0..o /\ o \in Nat /\ F(i) \in Nat
          /\ D(j) \in Nat /\ O(j) \in Nat /\ F(j) \in Nat
      BY <1>2, RankIs
    <2>2. /\ D(j) # 0 => D(i) \in 1..(D(j) - 1)
          /\ O(j) # 0 => O(i) \in 1..(O(j) - 1)
          /\ F(j) # 0 => F(i) \in 1..(F(j) - 1)
      BY <1>2
    <2>3. D(j) # 0 \/ O(j) # 0 \/ F(j) # 0
      BY HitsAre DEF Channel
    <2>4. \A k : FirstHit(k) = IF D(k) # 0 THEN D(k) ELSE IF O(k) # 0 THEN d + O(k) ELSE d + o + F(k)
      BY DEF FirstHit
    <2> HIDE DEF D, O, F, d, o
    <2> QED
      BY <2>1, <2>2, <2>3, <2>4
  <1>5. Score(i) \in Nat /\ Score(j) \in Nat
    BY ScoreIs
  <1> QED
    BY <1>3, <1>4, <1>5 DEF Ahead

\* The invariant has DominanceIsKept.
LEMMA Dominance == IInv => DominanceIsKept
  <1> SUFFICES ASSUME Typed, Served, at = "done", NEW i \in Hits, NEW j \in Shown,
                      \A c \in Channel : RankIn(c, j) # 0 => RankIn(c, i) \in 1..(RankIn(c, j) - 1)
               PROVE  \E m, n \in 1..Len(results) :
                         m < n /\ results[m].image = i /\ results[n].image = j
    BY DEF IInv, DominanceIsKept
  <1>1. request.limit \in Nat
    BY DEF Typed
  <1>2. PICK n \in 1..Len(results) : results[n].image = j
    BY DEF Shown
  <1>3. /\ Len(results) = Len(Best) /\ Len(Best) \in Nat /\ n \in 1..Len(Best)
        /\ j = Best[n] /\ j \in Hits /\ PlaceOf(j) = n
    BY <1>2, ShownAre
  <1>4. Ahead(i, j)
    BY <1>3, Dominating
  <1>5. PlaceOf(i) < PlaceOf(j) /\ PlaceOf(i) \in 1..Cardinality(Hits) /\ Fused[PlaceOf(i)] = i
    BY <1>3, <1>4, Places, Fusion
  <1>6. PlaceOf(i) \in 1..Len(Best) /\ PlaceOf(i) < n
    BY <1>3, <1>5, HitsAre
  <1>7. results[PlaceOf(i)].image = i
    BY <1>5, <1>6, ShownAre
  <1> QED
    BY <1>2, <1>3, <1>6, <1>7

\* The invariant has FirstDenseHitIsShown: only what the dense channel found can be
\* ahead of its best image, and that is fewer images than the limit.
LEMMA FirstDense == IInv => FirstDenseHitIsShown
  <1> SUFFICES ASSUME Typed, Served, at = "done", answers["dense"] # <<>>,
                      request.weights["ocr"] + request.weights["florence"] <= request.weights["dense"]
               PROVE  answers["dense"][1] \in Shown
    BY DEF IInv, FirstDenseHitIsShown
  <1> DEFINE r == answers["dense"]
             a == r[1]
             w == request.weights
  <1>1. "dense" \in Channel /\ "ocr" \in Channel /\ "florence" \in Channel
    BY DEF Channel
  <1>2. /\ w["dense"] \in Nat /\ w["ocr"] \in Nat /\ w["florence"] \in Nat
        /\ request.limit \in Nat /\ IsRanking(r) /\ Len(r) <= request.limit
    BY <1>1 DEF Typed
  <1>3. Len(r) \in Nat /\ 1 \in 1..Len(r)
    <2>1. Len(r) \in Nat /\ r \in Seq(Images)
      BY <1>2, Ranking DEF IsRanking
    <2>2. Len(r) # 0
      BY <2>1
    <2> QED
      BY <2>1, <2>2
  <1>4. RankIn("dense", a) = 1
    BY <1>1, <1>3, RankIs
  <1>5. a \in Hits /\ FirstHit(a) = 1
    <2>1. RankIn("dense", a) # 0
      BY <1>4
    <2>2. a \in Hits
      BY <1>1, <2>1, HitsAre
    <2> QED
      BY <1>4, <2>1, <2>2 DEF FirstHit
  <1>6. Share(w["dense"], 1) \in Nat /\ Share(w["dense"], 1) <= Score(a)
    <2>1. ShareIn("dense", a, w) = Share(w["dense"], 1) /\ ShareIn("dense", a, w) \in Nat
      BY <1>1, <1>4, ShareIs
    <2>2. ShareIn("ocr", a, w) \in Nat /\ ShareIn("florence", a, w) \in Nat
      BY <1>1, ShareIs
    <2> QED
      BY <2>1, <2>2 DEF Score, SumOfShares
  <1>7. Share(w["ocr"], 1) + Share(w["florence"], 1) <= Share(w["dense"], 1)
    <2>1. \A x : Share(x, 1) = (Scale * x) \div 2
      BY DEF Share, RRF_K
    <2>2. Scale \in Nat /\ w["ocr"] + w["florence"] <= w["dense"]
      BY HybridSearchAssumption
    <2> HIDE DEF w
    <2>3. (Scale * w["ocr"]) \div 2 + (Scale * w["florence"]) \div 2 <= (Scale * w["dense"]) \div 2
      BY <1>2, <2>2, Halves
    <2> QED
      BY <2>1, <2>3
  <1>8. ASSUME NEW c \in {"ocr", "florence"}, NEW i PROVE ShareIn(c, i, w) <= Share(w[c], 1)
    <2>1. c \in Channel /\ w[c] \in Nat /\ Share(w[c], 1) \in Nat
      <3>1. c \in Channel /\ w[c] \in Nat /\ 1 \in Nat \ {0}
        BY <1>2 DEF Channel
      <3> QED
        BY <3>1, Shares
    <2>2. CASE RankIn(c, i) = 0
      <3>1. ShareIn(c, i, w) = 0
        BY <2>1, <2>2, ShareIs
      <3> QED
        BY <2>1, <3>1
    <2>3. CASE RankIn(c, i) # 0
      <3>1. RankIn(c, i) \in Nat \ {0} /\ 1 \in 1..RankIn(c, i)
        BY <2>1, <2>3, RankIs
      <3>2. Share(w[c], RankIn(c, i)) <= Share(w[c], 1)
        BY <2>1, <3>1, Shares
      <3> QED
        BY <2>1, <2>3, <3>2, ShareIs
    <2> QED
      BY <2>2, <2>3
  <1>9. ASSUME NEW i \in Hits, Ahead(i, a) PROVE i \in ToSet(r) \ {a}
    <2>1. i # a
      BY <1>5, <1>9, Order
    <2>2. ASSUME RankIn("dense", i) = 0 PROVE FALSE
      <3>1. ShareIn("dense", i, w) = 0
        BY <1>1, <2>2, ShareIs
      <3>2. ShareIn("ocr", i, w) \in Nat /\ ShareIn("florence", i, w) \in Nat
        BY <1>1, ShareIs
      <3>3. ShareIn("ocr", i, w) <= Share(w["ocr"], 1) /\ ShareIn("florence", i, w) <= Share(w["florence"], 1)
        BY <1>8
      <3>4. Share(w["ocr"], 1) \in Nat /\ Share(w["florence"], 1) \in Nat
        <4>1. 1 \in Nat \ {0}
          OBVIOUS
        <4> QED
          BY <1>2, <4>1, Shares
      <3>5. Score(i) = ShareIn("ocr", i, w) + ShareIn("florence", i, w)
        BY <3>1, <3>2 DEF Score, SumOfShares
      <3>6. Score(i) <= Score(a) /\ Score(i) \in Nat /\ Score(a) \in Nat
        BY <1>6, <1>7, <3>2, <3>3, <3>4, <3>5, ScoreIs
      <3>7. FirstHit(i) < 1
        BY <1>5, <1>9, <3>6 DEF Ahead
      <3>8. FirstHit(i) >= 1
        <4>1. RankIn("ocr", i) # 0 \/ RankIn("florence", i) # 0
          BY <2>2, HitsAre DEF Channel
        <4>2. RankIn("ocr", i) \in Nat /\ RankIn("florence", i) \in Nat /\ Len(answers["ocr"]) \in Nat
          BY <1>1, RankIs
        <4> QED
          <5> DEFINE d == Len(r)
                     o == Len(answers["ocr"])
                     O == RankIn("ocr", i)
                     F == RankIn("florence", i)
          <5>1. FirstHit(i) = IF O # 0 THEN d + O ELSE d + o + F
            BY <2>2 DEF FirstHit
          <5>2. d \in Nat /\ o \in Nat /\ O \in Nat /\ F \in Nat /\ (O # 0 \/ F # 0)
            BY <1>3, <4>1, <4>2
          <5> HIDE DEF d, o, O, F
          <5> QED
            BY <5>1, <5>2
      <3>9. FirstHit(i) \in Nat
        BY FirstHits
      <3> QED
        BY <3>7, <3>8, <3>9
    <2> QED
      BY <1>1, <2>1, <2>2, RankIs
  <1>10. PlaceOf(a) <= request.limit
    <2>1. IsFiniteSet(ToSet(r)) /\ Cardinality(ToSet(r)) = Len(r) /\ a \in ToSet(r)
      BY <1>2, <1>3, Ranking
    <2>2. IsFiniteSet(ToSet(r) \ {a}) /\ Cardinality(ToSet(r) \ {a}) = Len(r) - 1
      BY <2>1, FS_RemoveElement
    <2>3. Better(a) \in SUBSET (ToSet(r) \ {a})
      BY <1>9 DEF Better
    <2>4. Cardinality(Better(a)) <= Len(r) - 1
      BY <2>2, <2>3, FS_Subset
    <2>5. Cardinality(Better(a)) \in Nat
      BY <1>5, Places
    <2> QED
      BY <1>2, <1>3, <2>4, <2>5 DEF PlaceOf
  <1>11. PlaceOf(a) \in 1..Len(Best) /\ Fused[PlaceOf(a)] = a
    BY <1>5, <1>10, ShownAre, Fusion
  <1>12. results[PlaceOf(a)].image = a /\ Len(results) = Len(Best)
    BY <1>11, ShownAre
  <1> QED
    BY <1>11, <1>12 DEF Shown

\* The invariant has ScoresAreExplained.
LEMMA Explained == IInv => ScoresAreExplained
  <1> SUFFICES ASSUME Typed, Served, at = "done", NEW n \in 1..Len(results)
               PROVE  results[n].score
                        = explained[n]["dense"] + explained[n]["ocr"] + explained[n]["florence"]
    BY DEF IInv, ScoresAreExplained
  <1>1. results[n].score = Score(Best[n]) /\ explained[n] = Explanation(Best[n])
    BY ShownAre
  <1>2. request.via \in {"api", "script"} /\ (request.via = "script" => request.weights = DEFAULT_RRF_WEIGHTS)
    BY DEF Typed
  <1>3. Explanation(Best[n]) = [c \in Channel |-> ShareIn(c, Best[n], request.weights)]
    BY <1>2 DEF Explanation
  <1> QED
    BY <1>1, <1>3 DEF Score, SumOfShares, Channel

\* The invariant has NobodyIsLost: the images that are found are no more than those
\* that there are, so that the fusion of them is not cut.
LEMMA Nobody == IInv => NobodyIsLost
  <1> SUFFICES ASSUME Typed, Found, Served, at = "done", Len(ranking["dense"]) <= request.limit
               PROVE  known \subseteq Shown
    BY DEF IInv, NobodyIsLost, ServedPlain
  <1>1. known \subseteq ToSet(answers["dense"])
    BY DEF Found
  <1>2. known \subseteq Hits
    BY <1>1 DEF Hits, Channel
  <1>3. ASSUME NEW i \in Hits PROVE i \in Shown
    <2>1. IsRanking(ranking["dense"]) /\ request.limit \in Nat
      BY DEF Typed, Channel
    <2>2. Len(ranking["dense"]) \in Nat
      BY <2>1, Ranking
    <2>3. PlaceOf(i) <= request.limit
      BY <2>1, <2>2, Places, HitsAre
    <2>4. PlaceOf(i) \in 1..Len(Best) /\ Fused[PlaceOf(i)] = i
      BY <2>3, ShownAre, Fusion
    <2>5. results[PlaceOf(i)].image = i /\ Len(results) = Len(Best)
      BY <2>4, ShownAre
    <2> QED
      BY <2>4, <2>5 DEF Shown
  <1> QED
    BY <1>2, <1>3

-----------------------------------------------------------------------------
(***************************************************************************)
(* The invariant.                                                          *)
(***************************************************************************)

\* What there is at the start.
LEMMA AtStart == Init => IInv
  <1> SUFFICES ASSUME Init PROVE IInv
    OBVIOUS
  <1>1. /\ request = NoRequest /\ at = "idle" /\ answers = Nothing /\ known = {}
        /\ ranking \in [Channel -> Rankings(Images)]
        /\ \A c \in Channel : ToSet(ranking[c]) \subseteq Indexed
    BY DEF Init
  <1>2. ASSUME NEW c \in Channel PROVE IsRanking(ranking[c])
    <2>1. PICK T \in SUBSET Images : ranking[c] \in SetToSeqs(T)
      BY <1>1 DEF Rankings
    <2>2. IsFiniteSet(T)
      BY FS_Subset, HybridSearchAssumption
    <2> QED
      BY <2>1, <2>2, SomeRanking
  <1>3. ASSUME NEW c \in Channel
        PROVE  IsRanking(answers[c]) /\ Len(answers[c]) = 0 /\ ToSet(answers[c]) = {}
    <2>1. answers[c] = <<>>
      BY <1>1 DEF Nothing
    <2>2. IsRanking(<<>>) /\ Len(<<>>) = 0
      BY DEF IsRanking
    <2>3. ToSet(<<>>) = {}
      BY DEF ToSet
    <2> QED
      BY <2>1, <2>2, <2>3
  <1>4. DOMAIN ranking = Channel /\ DOMAIN answers = Channel
    BY <1>1 DEF Nothing
  <1>5. /\ request \in [via : {"api", "script"}, limit : Nat, weights : [Channel -> Nat]]
        /\ request.weights = DEFAULT_RRF_WEIGHTS /\ request.limit = 0
    BY <1>1 DEF NoRequest, DEFAULT_RRF_WEIGHTS, Channel
  <1>6. Typed
    BY <1>1, <1>2, <1>3, <1>4, <1>5 DEF Typed
  <1> QED
    BY <1>1, <1>6 DEF IInv, Found, Served, ServedPlain

\* The fusion depends on the answers and on the request alone.
LEMMA SameFusion ==
  ASSUME UNCHANGED <<answers, request>>
  PROVE  /\ Best' = Best /\ \A i : Score(i)' = Score(i) /\ Explanation(i)' = Explanation(i)
  <1>1. \A c, i, w : ShareIn(c, i, w)' = ShareIn(c, i, w)
    BY DEF ShareIn, RankIn, Share
  <1>2. \A i : Score(i)' = Score(i) /\ FirstHit(i)' = FirstHit(i) /\ Explanation(i)' = Explanation(i)
    BY <1>1 DEF Score, SumOfShares, FirstHit, RankIn, Explanation, ShareIn, Share
  <1>3. \A i, j : Ahead(i, j)' = Ahead(i, j)
    BY <1>2 DEF Ahead
  <1>4. Hits' = Hits
    BY DEF Hits
  <1>5. Fused' = Fused
    <2> DEFINE before == [i \in Hits |-> Cardinality({j \in Hits : Ahead(j, i)})]
               after == [i \in Hits' |-> Cardinality({j \in Hits' : Ahead(j, i)'})]
    <2>1. \A i : {j \in Hits' : Ahead(j, i)'} = {j \in Hits : Ahead(j, i)}
      BY <1>3, <1>4
    <2>2. after = before
      BY <1>4, <2>1
    <2>3. Fused = [n \in 1..Cardinality(Hits) |-> CHOOSE i \in Hits : before[i] = n - 1]
      BY DEF Fused, Sorted
    <2>4. Fused' = [n \in 1..Cardinality(Hits') |-> CHOOSE i \in Hits' : after[i] = n - 1]
      BY DEF Fused, Sorted
    <2> HIDE DEF before, after
    <2> QED
      BY <1>4, <2>2, <2>3, <2>4
  <1> QED
    BY <1>2, <1>5 DEF Best, UpTo

\* A request's weights are its own, and the default of the others.
LEMMA Weighted ==
  ASSUME NEW o \in Overriding
  PROVE  /\ Weights(o) \in [Channel -> Nat]
         /\ DOMAIN o = {} => Weights(o) = DEFAULT_RRF_WEIGHTS
  <1>1. PICK D \in SUBSET Channel : o \in [D -> Overrides]
    BY DEF Overriding
  <1>2. \A c \in D : o[c] \in Nat
    BY <1>1, HybridSearchAssumption
  <1>3. DEFAULT_RRF_WEIGHTS \in [Channel -> Nat]
    BY DEF DEFAULT_RRF_WEIGHTS, Channel
  <1>4. Weights(o) \in [Channel -> Nat]
    BY <1>1, <1>2, <1>3 DEF Weights
  <1>5. DOMAIN o = {} => Weights(o) = DEFAULT_RRF_WEIGHTS
    BY <1>3 DEF Weights
  <1> QED
    BY <1>4, <1>5

\* A search begins.
LEMMA BeginKeeps ==
  ASSUME IInv, NEW via \in {"api", "script"}, NEW limit \in Limits, NEW o \in Overriding,
         Begin(via, limit, o)
  PROVE  IInv'
  <1>1. /\ at = "idle" /\ at' = "dense" /\ (via = "script" => DOMAIN o = {})
        /\ request' = [via |-> via, limit |-> limit, weights |-> Weights(o)]
        /\ known' = Indexed /\ ranking' = ranking /\ answers' = answers
    BY DEF Begin
  <1>2. Typed /\ limit \in Nat
    BY HybridSearchAssumption DEF IInv
  <1>3. /\ request'.limit = limit /\ request'.via = via /\ request'.weights = Weights(o)
        /\ request' \in [via : {"api", "script"}, limit : Nat, weights : [Channel -> Nat]]
    BY <1>1, <1>2, Weighted
  <1>4. \A c \in Channel : answers[c] = <<>>
    BY <1>1, <1>2 DEF Typed, Nothing
  <1>5. Len(<<>>) <= limit
    BY <1>2
  <1>6. Typed'
    BY <1>1, <1>2, <1>3, <1>4, <1>5, Weighted DEF Typed, IsRanking, Indexed
  <1> QED
    BY <1>1, <1>6 DEF IInv, Found, Served, ServedPlain

\* A channel answers.
LEMMA QueryKeeps ==
  ASSUME IInv, NEW c \in Channel, Query(c)
  PROVE  IInv'
  <1>1. /\ at = c /\ answers' = [answers EXCEPT ![c] = UpTo(request.limit, ranking[c])]
        /\ at' = CASE c = "dense" -> "ocr" [] c = "ocr" -> "florence" [] OTHER -> "fuse"
        /\ ranking' = ranking /\ request' = request /\ known' = known
    BY DEF Query
  <1>2. at' \in {"ocr", "florence", "fuse"}
    BY <1>1 DEF Channel
  <1>3. Typed /\ request.limit \in Nat
    BY DEF IInv, Typed
  <1> DEFINE s == UpTo(request.limit, ranking[c])
  <1>4. /\ IsRanking(s) /\ Len(s) <= request.limit /\ ToSet(s) \subseteq ToSet(ranking[c])
        /\ Len(ranking[c]) <= request.limit => ToSet(s) = ToSet(ranking[c])
    <2>1. IsRanking(ranking[c])
      BY <1>3 DEF Typed
    <2> QED
      BY <1>3, <2>1, Cut
  <1> HIDE DEF s
  <1>5. /\ DOMAIN answers' = Channel
        /\ \A k \in Channel : answers'[k] = IF k = c THEN s ELSE answers[k]
    BY <1>1, <1>3 DEF Typed, s
  <1>6. Indexed' = Indexed /\ ToSet(ranking[c]) \subseteq Indexed
    BY <1>1, <1>3 DEF Indexed, Typed
  <1>7. ASSUME NEW k \in Channel
        PROVE  /\ IsRanking(answers'[k]) /\ Len(answers'[k]) <= request.limit
               /\ ToSet(answers'[k]) \subseteq Indexed
    BY <1>3, <1>4, <1>5, <1>6 DEF Typed
  <1>8. Typed'
    BY <1>1, <1>2, <1>3, <1>5, <1>6, <1>7 DEF Typed, IsRanking
  <1>9. Found'
    <2> SUFFICES ASSUME Len(ranking["dense"]) <= request.limit
                 PROVE  known \subseteq ToSet(answers'["dense"])
      BY <1>1 DEF Found
    <2>1. CASE c = "dense"
      <3>1. answers'["dense"] = s /\ ToSet(s) = Indexed
        BY <1>4, <1>5, <2>1 DEF Indexed
      <3>2. known \subseteq Indexed
        BY <1>3 DEF Typed
      <3> QED
        BY <3>1, <3>2
    <2>2. CASE c # "dense"
      <3>1. at \in {"ocr", "florence"} /\ answers'["dense"] = answers["dense"]
        BY <1>1, <1>5, <2>2 DEF Channel
      <3> QED
        BY <3>1 DEF IInv, Found
    <2> QED
      BY <2>1, <2>2
  <1> QED
    BY <1>2, <1>8, <1>9 DEF IInv, Served, ServedPlain

\* So do the results, and what is shown beside them.
LEMMA SameAnswer ==
  ASSUME UNCHANGED <<answers, request>>
  PROVE  /\ [n \in 1..Len(Best) |-> [image |-> Best[n], score |-> Score(Best[n])]]'
              = [n \in 1..Len(Best) |-> [image |-> Best[n], score |-> Score(Best[n])]]
         /\ [n \in 1..Len(Best) |-> Explanation(Best[n])]' = [n \in 1..Len(Best) |-> Explanation(Best[n])]
  <1>1. Best' = Best /\ \A i : Score(i)' = Score(i) /\ Explanation(i)' = Explanation(i)
    BY SameFusion
  <1>2. ASSUME NEW n \in 1..Len(Best)
        PROVE  Score(Best[n])' = Score(Best[n]) /\ Explanation(Best[n])' = Explanation(Best[n])
    <2>1. PICK i : i = Best[n]
      OBVIOUS
    <2>2. (Best[n] = i)'
      BY <1>1, <2>1
    <2>3. Score(Best[n])' = Score(i)' /\ Explanation(Best[n])' = Explanation(i)'
      BY <2>2
    <2> QED
      BY <1>1, <2>1, <2>3
  <1> QED
    BY <1>1, <1>2

\* The answers are fused.
LEMMA FuseKeeps == ASSUME IInv, Fuse PROVE IInv'
  <1>1. /\ at = "fuse" /\ at' = "done"
        /\ results' = [n \in 1..Len(Best) |-> [image |-> Best[n], score |-> Score(Best[n])]]
        /\ explained' = [n \in 1..Len(Best) |-> Explanation(Best[n])]
        /\ ranking' = ranking /\ request' = request /\ answers' = answers /\ known' = known
    BY DEF Fuse, Best
  <1>2. Typed'
    BY <1>1 DEF IInv, Typed, IsRanking, Indexed
  <1>3. Found'
    BY <1>1 DEF IInv, Found
  <1>4. Served'
    BY <1>1, SameAnswer DEF Served
  <1> QED
    BY <1>1, <1>2, <1>3, <1>4 DEF IInv, ServedPlain

\* The caller has the answer.
LEMMA ReturnKeeps == ASSUME IInv, Return PROVE IInv'
  <1>1. /\ at' = "idle" /\ request' = NoRequest /\ answers' = Nothing /\ known' = {}
        /\ ranking' = ranking
    BY DEF Return
  <1>2. Typed
    BY DEF IInv
  <1>3. ASSUME NEW c \in Channel
        PROVE  /\ IsRanking(answers'[c]) /\ Len(answers'[c]) <= request'.limit
               /\ ToSet(answers'[c]) = {}
    <2>1. answers'[c] = <<>> /\ request'.limit = 0
      BY <1>1 DEF Nothing, NoRequest
    <2>2. IsRanking(<<>>) /\ Len(<<>>) = 0
      BY DEF IsRanking
    <2>3. ToSet(<<>>) = {}
      BY DEF ToSet
    <2> QED
      BY <2>1, <2>2, <2>3
  <1>4. /\ request' \in [via : {"api", "script"}, limit : Nat, weights : [Channel -> Nat]]
        /\ request'.weights = DEFAULT_RRF_WEIGHTS
    BY <1>1 DEF NoRequest, DEFAULT_RRF_WEIGHTS, Channel
  <1>5. DOMAIN answers' = Channel
    BY <1>1 DEF Nothing
  <1>6. Typed'
    BY <1>1, <1>2, <1>3, <1>4, <1>5 DEF Typed, IsRanking, Indexed
  <1> QED
    BY <1>1, <1>6 DEF IInv, Found, Served, ServedPlain

\* Qdrant's fusion of images that are no more than the limit is an order of them all.
LEMMA FusionOfAll ==
  ASSUME NEW limit \in Nat, NEW found \in SUBSET Images, Cardinality(found) <= limit,
         NEW best \in NativeFusion(limit, found)
  PROVE  IsRanking(best) /\ ToSet(best) = found
  <1>1. IsFiniteSet(found) /\ Cardinality(found) \in Nat
    BY HybridSearchAssumption, FS_Subset, FS_CardinalityType
  <1>2. PICK S \in SUBSET found : Cardinality(S) = Cardinality(found) /\ best \in SetToSeqs(S)
    BY <1>1 DEF NativeFusion
  <1>3. S = found
    BY <1>1, <1>2, FS_Subset
  <1> QED
    BY <1>1, <1>2, <1>3, SomeRanking

\* A search with one query.
LEMMA PlainSearchKeeps ==
  ASSUME IInv, NEW limit \in Limits, PlainSearch(limit)
  PROVE  IInv'
  <1> DEFINE found == UNION {ToSet(answers'[c]) : c \in Channel}
  <1>1. /\ at' = "plain"
        /\ request' = [via |-> "api", limit |-> limit, weights |-> DEFAULT_RRF_WEIGHTS]
        /\ known' = Indexed /\ ranking' = ranking
        /\ answers' = [c \in Channel |-> UpTo(limit, ranking[c])]
    BY DEF PlainSearch
  <1>2. PICK best \in NativeFusion(limit, found) :
           results' = [n \in 1..Len(best) |-> [image |-> best[n], score |-> 0]]
    BY DEF PlainSearch
  <1>3. Typed /\ limit \in Nat
    BY HybridSearchAssumption DEF IInv
  <1>4. ASSUME NEW c \in Channel
        PROVE  /\ IsRanking(answers'[c]) /\ Len(answers'[c]) <= limit
               /\ ToSet(answers'[c]) \subseteq Indexed
               /\ Len(ranking[c]) <= limit => ToSet(answers'[c]) = ToSet(ranking[c])
    <2>1. IsRanking(ranking[c]) /\ ToSet(ranking[c]) \subseteq Indexed
      BY <1>3 DEF Typed
    <2>2. answers'[c] = UpTo(limit, ranking[c])
      BY <1>1
    <2> QED
      BY <1>3, <2>1, <2>2, Cut
  <1>5. /\ request' \in [via : {"api", "script"}, limit : Nat, weights : [Channel -> Nat]]
        /\ request'.weights = DEFAULT_RRF_WEIGHTS /\ request'.limit = limit
    BY <1>1, <1>3 DEF DEFAULT_RRF_WEIGHTS, Channel
  <1>6. DOMAIN answers' = Channel
    BY <1>1
  <1>7. Typed'
    BY <1>1, <1>3, <1>4, <1>5, <1>6 DEF Typed, IsRanking, Indexed
  <1>8. ASSUME Len(ranking["dense"]) <= limit PROVE known' \subseteq Shown'
    <2>1. /\ IsRanking(ranking["dense"]) /\ Indexed \subseteq Images
          /\ Cardinality(Indexed) = Len(ranking["dense"])
      <3>1. IsRanking(ranking["dense"])
        BY <1>3 DEF Typed, Channel
      <3> QED
        BY <3>1, Ranking DEF Indexed
    <2>2. found = Indexed
      BY <1>4, <1>8 DEF Indexed, Channel
    <2>3. IsRanking(best) /\ ToSet(best) = Indexed
      BY <1>2, <1>3, <1>8, <2>1, <2>2, FusionOfAll
    <2>4. Len(best) \in Nat /\ \A x : x \in Indexed <=> \E n \in 1..Len(best) : best[n] = x
      BY <2>3, Ranking
    <2>5. Len(results') = Len(best) /\ \A n \in 1..Len(best) : results'[n].image = best[n]
      BY <1>2, <2>4
    <2> QED
      BY <1>1, <2>4, <2>5 DEF Shown
  <1> QED
    BY <1>1, <1>5, <1>7, <1>8 DEF IInv, Found, Served, ServedPlain

\* A point is written.
LEMMA UpsertKeeps ==
  ASSUME IInv, NEW i \in Images, Upsert(i)
  PROVE  IInv'
  <1>1. /\ request' = request /\ at' = at /\ answers' = answers /\ results' = results
        /\ explained' = explained /\ known' = known
    BY DEF Upsert
  <1>2. PICK d \in Placements("dense", i), o \in Placements("ocr", i), f \in Placements("florence", i) :
           ranking' = [dense |-> d, ocr |-> o, florence |-> f]
    BY DEF Upsert, Channel
  <1>3. Typed
    BY DEF IInv
  <1>4. /\ DOMAIN ranking' = Channel
        /\ \A c \in Channel : ranking'[c] \in Placements(c, i)
    BY <1>2 DEF Channel
  <1>5. ASSUME NEW c \in Channel
        PROVE  /\ IsRanking(ranking'[c]) /\ ToSet(ranking'[c]) \subseteq ToSet(ranking[c]) \cup {i}
               /\ c = "dense" => ToSet(ranking'[c]) = ToSet(ranking[c]) \cup {i}
    <2>1. IsRanking(ranking[c]) /\ ranking'[c] \in Placements(c, i)
      BY <1>3, <1>4 DEF Typed
    <2> QED
      BY <2>1, Placed
  <1>6. Indexed' = Indexed \cup {i}
    BY <1>5 DEF Indexed, Channel
  <1>7. \A c \in Channel : ToSet(ranking'[c]) \subseteq Indexed'
    BY <1>3, <1>5, <1>6 DEF Typed
  <1>8. Typed'
    BY <1>1, <1>3, <1>4, <1>5, <1>6, <1>7 DEF Typed, IsRanking
  <1>9. ASSUME Len(ranking'["dense"]) <= request.limit PROVE Len(ranking["dense"]) <= request.limit
    <2>1. IsRanking(ranking["dense"]) /\ IsRanking(ranking'["dense"])
      BY <1>3, <1>5 DEF Typed, Channel
    <2>2. /\ IsFiniteSet(Indexed') /\ Cardinality(Indexed') = Len(ranking'["dense"])
          /\ IsFiniteSet(Indexed) /\ Cardinality(Indexed) = Len(ranking["dense"])
          /\ Len(ranking["dense"]) \in Nat /\ Len(ranking'["dense"]) \in Nat
      BY <2>1, Ranking DEF Indexed
    <2>3. Cardinality(Indexed) <= Cardinality(Indexed')
      BY <1>6, <2>2, FS_Subset
    <2> QED
      BY <1>3, <1>9, <2>2, <2>3 DEF Typed
  <1>10. Found'
    BY <1>1, <1>9 DEF IInv, Found
  <1>11. Served'
    BY <1>1, SameAnswer DEF IInv, Served
  <1>12. ServedPlain'
    BY <1>1, <1>9 DEF IInv, ServedPlain, Shown
  <1> QED
    BY <1>8, <1>10, <1>11, <1>12 DEF IInv

\* The invariant holds from the start and every step keeps it.
THEOREM SpecIInv == Spec => []IInv
  <1>1. Init => IInv
    BY AtStart
  <1>2. IInv /\ [Next]_vars => IInv'
    <2> SUFFICES ASSUME IInv, [Next]_vars PROVE IInv'
      OBVIOUS
    <2>1. ASSUME NEW via \in {"api", "script"}, NEW limit \in Limits, NEW o \in Overriding,
                 Begin(via, limit, o)
          PROVE  IInv'
      BY <2>1, BeginKeeps
    <2>2. ASSUME NEW c \in Channel, Query(c) PROVE IInv'
      BY <2>2, QueryKeeps
    <2>3. ASSUME NEW limit \in Limits, PlainSearch(limit) PROVE IInv'
      BY <2>3, PlainSearchKeeps
    <2>4. CASE Fuse
      BY <2>4, FuseKeeps
    <2>5. CASE Return
      BY <2>5, ReturnKeeps
    <2>6. ASSUME NEW i \in Images, Upsert(i) PROVE IInv'
      BY <2>6, UpsertKeeps
    <2>7. CASE UNCHANGED vars
      <3>1. /\ ranking' = ranking /\ request' = request /\ at' = at /\ answers' = answers
            /\ results' = results /\ explained' = explained /\ known' = known
        BY <2>7 DEF vars
      <3>2. Typed' /\ Found' /\ ServedPlain'
        BY <3>1 DEF IInv, Typed, IsRanking, Indexed, Found, ServedPlain, Shown
      <3>3. Served'
        BY <3>1, SameAnswer DEF IInv, Served
      <3> QED
        BY <3>2, <3>3 DEF IInv
    <2> QED
      BY <2>1, <2>2, <2>3, <2>4, <2>5, <2>6, <2>7 DEF Next
  <1> QED
    BY <1>1, <1>2, PTL DEF Spec

\* A search that asks for as many images as there are misses none that was indexed
\* when it began, whatever is written between its three queries.
THEOREM SpecNobodyIsLost == Spec => []NobodyIsLost
  BY SpecIInv, Nobody, PTL

\* Where the sparse channels do not outweigh the dense one, its best hit is shown,
\* whatever the other channels answer and however small the limit is.
THEOREM SpecFirstDenseHitIsShown == Spec => []FirstDenseHitIsShown
  BY SpecIInv, FirstDense, PTL

\* The fusion never turns round what all the channels that know an image agree on.
THEOREM SpecDominanceIsKept == Spec => []DominanceIsKept
  BY SpecIInv, Dominance, PTL

\* The shares that are shown beside a result add up to the score it was sorted by.
THEOREM SpecScoresAreExplained == Spec => []ScoresAreExplained
  BY SpecIInv, Explained, PTL
===============================================================================
