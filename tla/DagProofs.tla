------------------------------- MODULE DagProofs -------------------------------
(***************************************************************************)
(* What the pure algorithms compute, for inputs of every size: sorting,    *)
(* the pages of the NetworkRoot, the gaps and the ranges of the reports,   *)
(* and the index of an epoch node.                                         *)
(***************************************************************************)
EXTENDS Dag, FiniteSetTheorems, TLAPS

-----------------------------------------------------------------------------
(* Sorting                                                                 *)

(* R orders S strictly and completely.                                     *)
Orders(R, S) ==
  /\ \A x \in S : <<x, x>> \notin R
  /\ \A x, y, z \in S : <<x, y>> \in R /\ <<y, z>> \in R => <<x, z>> \in R
  /\ \A x, y \in S : x = y \/ <<x, y>> \in R \/ <<y, x>> \in R

(* How many elements of S come before x.                                   *)
Below(R, S, x) == {y \in S : <<y, x>> \in R}
Rank(R, S, x) == Cardinality(Below(R, S, x))

(* An element has fewer elements before it than there are.                 *)
LEMMA RankBound ==
  ASSUME NEW S, NEW R, IsFiniteSet(S), Orders(R, S), NEW x \in S
  PROVE  Rank(R, S, x) \in 0 .. Cardinality(S) - 1 /\ IsFiniteSet(Below(R, S, x))
<1> DEFINE B == Below(R, S, x)
<1>1. B \in SUBSET (S \ {x})
  BY Zenon DEF Below, Orders
<1>2. IsFiniteSet(S \ {x}) /\ Cardinality(S \ {x}) = Cardinality(S) - 1
  BY FS_RemoveElement, Zenon
<1>3. IsFiniteSet(B) /\ Cardinality(B) <= Cardinality(S \ {x})
  BY <1>1, <1>2, FS_Subset
<1>4. Cardinality(B) \in Nat /\ Cardinality(S) \in Nat
  BY <1>3, FS_CardinalityType
<1>5. QED
  BY <1>2, <1>3, <1>4 DEF Rank

(* What comes before another has fewer before it.                          *)
LEMMA RankGrows ==
  ASSUME NEW S, NEW R, IsFiniteSet(S), Orders(R, S), NEW x \in S, NEW y \in S, <<x, y>> \in R
  PROVE  Rank(R, S, x) < Rank(R, S, y)
<1> DEFINE B == Below(R, S, x)
           C == Below(R, S, y)
<1>1. IsFiniteSet(B) /\ IsFiniteSet(C)
  BY RankBound
<1>2. B \cup {x} \in SUBSET C /\ x \notin B
  BY DEF Below, Orders
<1> HIDE DEF B, C
<1>3. Cardinality(B \cup {x}) = Cardinality(B) + 1
  BY <1>1, <1>2, FS_AddElement, Zenon
<1>4. Cardinality(B \cup {x}) <= Cardinality(C)
  BY <1>1, <1>2, FS_Subset
<1>5. Cardinality(B) \in Nat /\ Cardinality(C) \in Nat
  BY <1>1, FS_CardinalityType
<1>6. QED
  BY <1>3, <1>4, <1>5 DEF Rank, B, C

(* No two elements have the same rank, so every rank occurs.               *)
LEMMA RankOnto ==
  ASSUME NEW S, NEW R, IsFiniteSet(S), Orders(R, S)
  PROVE  /\ \A x, y \in S : Rank(R, S, x) = Rank(R, S, y) => x = y
         /\ \A k \in 1 .. Cardinality(S) : \E x \in S : Rank(R, S, x) = k - 1
<1> DEFINE n == Cardinality(S)
           f == [x \in S |-> Rank(R, S, x) + 1]
<1>1. n \in Nat
  BY FS_CardinalityType
<1>2. \A x \in S : Rank(R, S, x) \in 0 .. n - 1
  BY RankBound
<1>3. \A x, y \in S : Rank(R, S, x) = Rank(R, S, y) => x = y
  <2> SUFFICES ASSUME NEW x \in S, NEW y \in S, Rank(R, S, x) = Rank(R, S, y), x # y PROVE FALSE
    OBVIOUS
  <2>1. <<x, y>> \in R \/ <<y, x>> \in R
    BY DEF Orders
  <2>2. Rank(R, S, x) < Rank(R, S, y) \/ Rank(R, S, y) < Rank(R, S, x)
    BY <2>1, RankGrows
  <2>3. Rank(R, S, x) \in Int /\ Rank(R, S, y) \in Int
    BY <1>1, <1>2
  <2>4. QED
    BY <2>2, <2>3
<1>4. \A k \in 1 .. n : \E x \in S : Rank(R, S, x) = k - 1
  <2> HIDE DEF n
  <2>1. \A x \in S : f[x] = Rank(R, S, x) + 1 /\ f[x] \in 1 .. n
    BY <1>1, <1>2
  <2>2. f \in [S -> 1 .. n]
    BY <2>1
  <2>3. f \in Injection(S, 1 .. n)
    BY <1>1, <1>2, <1>3, <2>1, <2>2 DEF Injection, IsInjective
  <2>4. IsFiniteSet(1 .. n) /\ Cardinality(1 .. n) = n
    BY <1>1, FS_Interval
  <2> HIDE DEF f
  <2>5. f \in Surjection(S, 1 .. n)
    BY <2>3, <2>4, FS_Injection, Zenon DEF n
  <2>6. ASSUME NEW k \in 1 .. n PROVE \E x \in S : Rank(R, S, x) = k - 1
    <3>1. PICK x \in S : f[x] = k
      BY <2>5, Zenon DEF Surjection
    <3>2. QED
      BY <1>1, <1>2, <2>1, <3>1
  <2>7. QED
    BY <2>6
<1>5. QED
  BY <1>3, <1>4

(* The element of a given rank.                                            *)
LEMMA RankExists ==
  ASSUME NEW S, NEW R, IsFiniteSet(S), Orders(R, S), NEW k \in 1 .. Cardinality(S)
  PROVE  \E x \in S : Rank(R, S, x) = k - 1
BY RankOnto

(* s lists S in the order of R.                                            *)
Lists(s, R, S) ==
  /\ s \in [1 .. Cardinality(S) -> S]
  /\ \A k \in 1 .. Cardinality(S) : Rank(R, S, s[k]) = k - 1

(* A list of S in the order of R has every element once, and those that    *)
(* come before others at the smaller places.                               *)
LEMMA ListsFacts ==
  ASSUME NEW S, NEW R, NEW s, IsFiniteSet(S), Orders(R, S), Lists(s, R, S)
  PROVE  /\ Cardinality(S) \in Nat
         /\ DOMAIN s = 1 .. Cardinality(S)
         /\ \A k \in 1 .. Cardinality(S) : s[k] \in S
         /\ \A x \in S : \E k \in 1 .. Cardinality(S) : s[k] = x
         /\ \A i, j \in 1 .. Cardinality(S) : i < j => <<s[i], s[j]>> \in R
         /\ \A i, j \in 1 .. Cardinality(S) : s[i] = s[j] => i = j
<1> DEFINE n == Cardinality(S)
<1>1. n \in Nat
  BY FS_CardinalityType, Zenon
<1>2. \A k \in 1 .. n : s[k] \in S /\ Rank(R, S, s[k]) = k - 1
  BY DEF Lists
<1>3. DOMAIN s = 1 .. n
  BY Zenon DEF Lists
<1> HIDE DEF n
<1>4. ASSUME NEW x \in S PROVE \E k \in 1 .. n : s[k] = x
  <2> DEFINE k == Rank(R, S, x) + 1
  <2>1. Rank(R, S, x) \in 0 .. n - 1
    BY RankBound, Zenon DEF n
  <2>2. k \in 1 .. n /\ k - 1 = Rank(R, S, x)
    BY <1>1, <2>1
  <2>3. s[k] \in S /\ Rank(R, S, s[k]) = Rank(R, S, x)
    BY <1>2, <2>2, Zenon
  <2> HIDE DEF k
  <2>4. s[k] = x
    BY <2>3, RankOnto
  <2>5. QED
    BY <2>2, <2>4, Zenon
<1>5. ASSUME NEW i \in 1 .. n, NEW j \in 1 .. n, s[i] = s[j] PROVE i = j
  <2>1. i - 1 = j - 1
    BY <1>2, <1>5, Zenon
  <2>2. QED
    BY <1>1, <2>1
<1>6. ASSUME NEW i \in 1 .. n, NEW j \in 1 .. n, i < j PROVE <<s[i], s[j]>> \in R
  <2> SUFFICES ASSUME <<s[i], s[j]>> \notin R PROVE FALSE
    BY Zenon
  <2>1. s[i] \in S /\ s[j] \in S /\ s[i] # s[j]
    BY <1>1, <1>2, <1>5, <1>6
  <2>2. <<s[j], s[i]>> \in R
    BY <2>1, Zenon DEF Orders
  <2>3. Rank(R, S, s[j]) < Rank(R, S, s[i])
    BY <2>1, <2>2, RankGrows, Zenon
  <2>4. j - 1 < i - 1
    BY <1>2, <2>3, Zenon
  <2>5. QED
    BY <1>1, <1>6, <2>4
<1>7. QED
  BY <1>1, <1>2, <1>3, <1>4, <1>5, <1>6, Zenon DEF n

Less(S) == {p \in S \X S : p[1] < p[2]}

(* Numbers are ordered.                                                    *)
LEMMA LessOrders == ASSUME NEW S \in SUBSET Int PROVE Orders(Less(S), S)
BY DEF Orders, Less

(* sortUint64 lists a set of numbers.                                      *)
LEMMA AscendingLists ==
  ASSUME NEW S \in SUBSET Int, IsFiniteSet(S)
  PROVE  Lists(Ascending(S), Less(S), S)
<1> DEFINE n == Cardinality(S)
           R == Less(S)
<1>1. Orders(R, S)
  BY LessOrders
<1>2. ASSUME NEW x \in S PROVE {y \in S : y < x} = Below(R, S, x)
  BY DEF Less, Below
<1>3. Ascending(S) = [k \in 1 .. n |-> CHOOSE x \in S : Cardinality({y \in S : y < x}) = k - 1]
  BY DEF Ascending, Sorted
<1> HIDE DEF n, R
<1>4. ASSUME NEW k \in 1 .. n
      PROVE  Ascending(S)[k] \in S /\ Rank(R, S, Ascending(S)[k]) = k - 1
  <2>1. Ascending(S)[k] = CHOOSE x \in S : Cardinality({y \in S : y < x}) = k - 1
    BY <1>3, Zenon
  <2>2. \E x \in S : Rank(R, S, x) = k - 1
    BY <1>1, RankExists, Zenon DEF n
  <2>3. \E x \in S : Cardinality({y \in S : y < x}) = k - 1
    BY <1>2, <2>2, Zenon DEF Rank
  <2>4. Ascending(S)[k] \in S /\ Cardinality({y \in S : y < Ascending(S)[k]}) = k - 1
    BY <2>1, <2>3, Zenon
  <2>5. QED
    BY <1>2, <2>4, Zenon DEF Rank
<1>5. Ascending(S) \in [1 .. n -> S]
  BY <1>3, <1>4, Zenon
<1>6. QED
  BY <1>4, <1>5, Zenon DEF Lists, n, R

(* It has every number once, in ascending order.                           *)
LEMMA AscendingFacts ==
  ASSUME NEW S \in SUBSET Int, IsFiniteSet(S)
  PROVE  /\ Cardinality(S) \in Nat
         /\ Ascending(S) \in [1 .. Cardinality(S) -> S]
         /\ Ascending(S) \in Seq(S) /\ Len(Ascending(S)) = Cardinality(S)
         /\ \A x \in S : \E k \in 1 .. Cardinality(S) : Ascending(S)[k] = x
         /\ \A i, j \in 1 .. Cardinality(S) : i < j => Ascending(S)[i] < Ascending(S)[j]
         /\ \A i, j \in 1 .. Cardinality(S) : Ascending(S)[i] = Ascending(S)[j] => i = j
         /\ ToSet(Ascending(S)) = S
<1> DEFINE n == Cardinality(S)
           s == Ascending(S)
<1>1. Orders(Less(S), S) /\ Lists(s, Less(S), S)
  BY LessOrders, AscendingLists
<1> HIDE DEF s
<1>2. /\ n \in Nat /\ DOMAIN s = 1 .. n
      /\ \A k \in 1 .. n : s[k] \in S
      /\ \A x \in S : \E k \in 1 .. n : s[k] = x
      /\ \A i, j \in 1 .. n : i < j => <<s[i], s[j]>> \in Less(S)
      /\ \A i, j \in 1 .. n : s[i] = s[j] => i = j
  BY <1>1, ListsFacts
<1>3. s \in [1 .. n -> S]
  BY <1>1, Zenon DEF Lists
<1> HIDE DEF n
<1>4. s \in Seq(S) /\ Len(s) = n
  BY <1>2, <1>3
<1>5. \A i, j \in 1 .. n : i < j => s[i] < s[j]
  BY <1>2, Zenon DEF Less
<1>6. ToSet(s) = S
  <2>1. \A x \in ToSet(s) : x \in S
    BY <1>2 DEF ToSet
  <2>2. \A x \in S : x \in ToSet(s)
    BY <1>2 DEF ToSet
  <2>3. QED
    BY <2>1, <2>2, Zenon
<1>7. QED
  BY <1>2, <1>3, <1>4, <1>5, <1>6, Zenon DEF n, s

(* Its first and last elements are the minimum and the maximum.            *)
LEMMA AscendingEnds ==
  ASSUME NEW S \in SUBSET Int, IsFiniteSet(S), S # {}
  PROVE  /\ Head(Ascending(S)) \in S /\ \A e \in S : Head(Ascending(S)) <= e
         /\ Last(Ascending(S)) \in S /\ \A e \in S : e <= Last(Ascending(S))
<1> DEFINE n == Cardinality(S)
           s == Ascending(S)
<1>1. /\ n \in Nat /\ s \in Seq(S) /\ Len(s) = n
      /\ \A x \in S : \E k \in 1 .. n : s[k] = x
      /\ \A i, j \in 1 .. n : i < j => s[i] < s[j]
  BY AscendingFacts, Zenon
<1>2. n # 0
  BY FS_EmptySet
<1> HIDE DEF n, s
<1>3. 1 \in 1 .. n /\ n \in 1 .. n /\ s # <<>>
  BY <1>1, <1>2
<1>4. Head(s) = s[1] /\ Last(s) = s[n] /\ \A k \in 1 .. n : s[k] \in S
  BY <1>1, <1>3 DEF Last
<1>5. ASSUME NEW e \in S PROVE s[1] <= e /\ e <= s[n]
  <2>1. PICK k \in 1 .. n : s[k] = e
    BY <1>1, Zenon
  <2>2. (k = 1 \/ 1 < k) /\ (k = n \/ k < n)
    BY <1>1
  <2>3. s[1] \in Int /\ s[n] \in Int /\ e \in Int
    BY <1>3, <1>4, Zenon
  <2>4. (s[1] = e \/ s[1] < e) /\ (e = s[n] \/ e < s[n])
    BY <1>1, <1>3, <2>1, <2>2
  <2>5. QED
    BY <2>3, <2>4
<1>6. QED
  BY <1>3, <1>4, <1>5 DEF s

-----------------------------------------------------------------------------
(* The pages of the NetworkRoot                                            *)

(* The page of an epoch begins at most a page size before it.              *)
LEMMA PageStart ==
  ASSUME NEW e \in Nat, NEW ps \in Nat, ps > 0
  PROVE  (e \div ps) * ps \in Nat /\ (e \div ps) * ps <= e /\ e < (e \div ps) * ps + ps
OBVIOUS

(* For any finite set of epochs and any page size that is asked for: an    *)
(* epoch resolves exactly if it was indexed, pages are neither empty nor   *)
(* larger than the page size, and the root names the latest epoch.         *)
THEOREM NetworkRootPages ==
  ASSUME NEW S \in SUBSET Nat, IsFiniteSet(S), NEW n \in Nat
  PROVE  LET root == BuildNetworkRoot(S, n)
         IN  /\ \A e \in Nat : Resolves(root, e, n) <=> e \in S
             /\ \A s \in DOMAIN root.pages :
                  root.pages[s] # {} /\ Cardinality(root.pages[s]) <= PageSize(n)
             /\ S # {} => root.latestEpoch \in S /\ \A e \in S : e <= root.latestEpoch
<1> DEFINE root == BuildNetworkRoot(S, n)
           ps == PageSize(n)
           start(e) == (e \div ps) * ps
<1>1. ps \in Nat /\ ps > 0
  BY DagAssumption DEF PageSize
<1>2. /\ root.latestEpoch = IF S = {} THEN 0 ELSE Last(Ascending(S))
      /\ root.pages = [s \in {start(e) : e \in S} |-> {e \in S : start(e) = s}]
  BY Zenon DEF BuildNetworkRoot
<1>3. ASSUME NEW e \in Nat PROVE Resolves(root, e, n) <=> e \in S
  <2>1. Resolves(root, e, n) <=> start(e) \in DOMAIN root.pages /\ e \in root.pages[start(e)]
    BY DEF Resolves
  <2>2. QED
    BY <1>2, <2>1
<1>4. ASSUME NEW s \in DOMAIN root.pages
      PROVE  root.pages[s] # {} /\ Cardinality(root.pages[s]) <= ps
  <2>1. PICK x \in S : s = start(x)
    BY <1>2, Zenon
  <2>2. root.pages[s] = {e \in S : start(e) = s}
    BY <1>2, Zenon
  <2>3. s \in Nat
    BY <1>1, <2>1, PageStart
  <2>4. ASSUME NEW e \in S, start(e) = s PROVE e \in s .. s + ps - 1
    <3>1. start(e) <= e /\ e < start(e) + ps
      BY <1>1, PageStart, Zenon
    <3> HIDE DEF start, ps
    <3>2. QED
      BY <1>1, <2>3, <2>4, <3>1
  <2> HIDE DEF root, start, ps
  <2> DEFINE last == s + ps - 1
             page == s .. last
  <2>5. root.pages[s] \in SUBSET page
    BY <2>2, <2>4, Zenon
  <2>6. last \in Int /\ s <= last /\ last - s + 1 = ps
    BY <1>1, <2>3
  <2> HIDE DEF last
  <2>7. IsFiniteSet(page) /\ Cardinality(page) = ps
    BY <2>3, <2>6, FS_Interval
  <2> HIDE DEF page
  <2>9. Cardinality(root.pages[s]) <= ps
    BY <2>5, <2>7, FS_Subset, Zenon
  <2>8. QED
    BY <2>1, <2>2, <2>9, Zenon
<1>5. S # {} => root.latestEpoch \in S /\ \A e \in S : e <= root.latestEpoch
  <2> SUFFICES ASSUME S # {} PROVE root.latestEpoch \in S /\ \A e \in S : e <= root.latestEpoch
    BY Zenon
  <2> HIDE DEF root
  <2>1. root.latestEpoch = Last(Ascending(S))
    BY <1>2, Zenon
  <2>2. S \in SUBSET Int
    OBVIOUS
  <2>3. QED
    BY <2>1, <2>2, AscendingEnds
<1>6. QED
  BY <1>3, <1>4, <1>5, Zenon

-----------------------------------------------------------------------------
(* The gaps of the summary                                                 *)

(* The rows of the query of GetEpochGapRanges, before they are ordered.    *)
Gaps(S) == {<<r[1] + 1, r[2] - 1>> : r \in {x \in Lead(S) : x[2] > x[1] + 1}}

ByStart(G) == {p \in G \X G : p[1][1] < p[2][1]}

(* A gap lies between two rows that follow one another.                    *)
LEMMA GapEnds ==
  ASSUME NEW S \in SUBSET Nat, NEW g \in Gaps(S)
  PROVE  \E a, b \in S : /\ g = <<a + 1, b - 1>> /\ a + 1 < b
                         /\ \A e \in S : e <= a \/ b <= e
<1>1. PICK r \in Lead(S) : r[2] > r[1] + 1 /\ g = <<r[1] + 1, r[2] - 1>>
  BY DEF Gaps
<1>2. r[1] \in S /\ r[2] \in S /\ \A e \in S : e <= r[1] \/ r[2] <= e
  BY DEF Lead
<1>3. r[1] + 1 < r[2]
  BY <1>1, <1>2
<1>4. QED
  BY <1>1, <1>2, <1>3, Zenon

(* Between two such rows there is a gap.                                   *)
LEMMA GapBetween ==
  ASSUME NEW S \in SUBSET Nat, NEW a \in S, NEW b \in S, a + 1 < b,
         \A e \in S : e <= a \/ b <= e
  PROVE  <<a + 1, b - 1>> \in Gaps(S)
<1> DEFINE r == <<a, b>>
<1>1. r[1] = a /\ r[2] = b /\ r \in S \X S
  BY Zenon
<1>2. a < b /\ b > a + 1
  OBVIOUS
<1> HIDE DEF r
<1>3. r \in {x \in Lead(S) : x[2] > x[1] + 1}
  BY <1>1, <1>2 DEF Lead
<1>4. QED
  BY <1>1, <1>3, Zenon DEF Gaps

(* There are finitely many gaps, and their starts order them.              *)
LEMMA GapsOrder ==
  ASSUME NEW S \in SUBSET Nat, IsFiniteSet(S)
  PROVE  IsFiniteSet(Gaps(S)) /\ Orders(ByStart(Gaps(S)), Gaps(S))
<1> DEFINE G == Gaps(S)
<1>1. IsFiniteSet(G)
  <2>1. CASE S = {}
    <3>1. G = {}
      BY <2>1, GapEnds
    <3>2. QED
      BY <3>1, FS_EmptySet, Zenon
  <2>2. CASE S # {}
    <3> DEFINE m == Last(Ascending(S))
               I == 0 .. m
    <3>1. S \in SUBSET Int
      OBVIOUS
    <3>2. m \in S /\ \A e \in S : e <= m
      BY <2>2, <3>1, AscendingEnds, Zenon
    <3> HIDE DEF m, G
    <3>3. ASSUME NEW g \in G PROVE g \in I \X I
      <4>1. PICK a, b \in S : g = <<a + 1, b - 1>> /\ a + 1 < b
        BY GapEnds, Zenon DEF G
      <4>2. a \in Nat /\ b \in Nat /\ b <= m /\ m \in Nat
        BY <3>2
      <4>3. a + 1 \in I /\ b - 1 \in I
        BY <4>1, <4>2
      <4>4. QED
        BY <4>1, <4>3
    <3>4. m \in Int
      BY <3>2
    <3>5. IsFiniteSet(I)
      BY <3>4, FS_Interval
    <3> HIDE DEF I
    <3>6. IsFiniteSet(I \X I)
      BY <3>5, FS_Product, Zenon
    <3>7. G \in SUBSET (I \X I)
      BY <3>3
    <3>8. QED
      BY <3>6, <3>7, FS_Subset
  <2>3. QED
    BY <2>1, <2>2, Zenon
<1>2. ASSUME NEW g \in G PROVE g[1] \in Int
  <2>1. PICK a, b \in S : g = <<a + 1, b - 1>>
    BY GapEnds
  <2>2. QED
    BY <2>1
<1>3. ASSUME NEW g \in G, NEW h \in G, g[1] = h[1] PROVE g = h
  <2>1. PICK a, b \in S : /\ g = <<a + 1, b - 1>> /\ a + 1 < b
                          /\ \A e \in S : e <= a \/ b <= e
    BY GapEnds
  <2>2. PICK c, d \in S : /\ h = <<c + 1, d - 1>> /\ c + 1 < d
                          /\ \A e \in S : e <= c \/ d <= e
    BY GapEnds
  <2>3. a \in Nat /\ b \in Nat /\ c \in Nat /\ d \in Nat
    OBVIOUS
  <2>4. a + 1 = c + 1
    BY <1>3, <2>1, <2>2
  <2>5. a = c
    BY <2>3, <2>4
  <2>6. (b <= a \/ d <= b) /\ (d <= a \/ b <= d)
    BY <2>1, <2>2, <2>5, Zenon
  <2>7. b = d
    BY <2>1, <2>2, <2>3, <2>5, <2>6
  <2>8. QED
    BY <2>1, <2>2, <2>5, <2>7
<1> HIDE DEF G
<1>4. \A g, h \in G : <<g, h>> \in ByStart(G) <=> g[1] < h[1]
  BY DEF ByStart
<1>5. Orders(ByStart(G), G)
  <2>1. \A g \in G : <<g, g>> \notin ByStart(G)
    BY <1>2, <1>4
  <2>2. \A g, h, i \in G : <<g, h>> \in ByStart(G) /\ <<h, i>> \in ByStart(G)
                             => <<g, i>> \in ByStart(G)
    BY <1>2, <1>4
  <2>3. \A g, h \in G : g = h \/ <<g, h>> \in ByStart(G) \/ <<h, g>> \in ByStart(G)
    <3> SUFFICES ASSUME NEW g \in G, NEW h \in G, g # h
                 PROVE  <<g, h>> \in ByStart(G) \/ <<h, g>> \in ByStart(G)
      BY Zenon
    <3>1. g[1] # h[1]
      BY <1>3
    <3>2. g[1] \in Int /\ h[1] \in Int
      BY <1>2
    <3>3. g[1] < h[1] \/ h[1] < g[1]
      BY <3>1, <3>2
    <3>4. QED
      BY <1>4, <3>3
  <2>4. QED
    BY <2>1, <2>2, <2>3, Zenon DEF Orders
<1>6. QED
  BY <1>1, <1>5, Zenon DEF G

(* GetEpochGapRanges lists the gaps by their starts.                       *)
LEMMA GapRangesFacts ==
  ASSUME NEW S \in SUBSET Nat, IsFiniteSet(S)
  PROVE  LET ranges == GetEpochGapRanges(S)
         IN  /\ Len(ranges) \in Nat /\ DOMAIN ranges = 1 .. Len(ranges)
             /\ ToSet(ranges) = Gaps(S)
             /\ \A i, j \in 1 .. Len(ranges) : i < j => ranges[i][1] < ranges[j][1]
<1> DEFINE G == Gaps(S)
           R == ByStart(G)
           n == Cardinality(G)
           s == GetEpochGapRanges(S)
<1>1. IsFiniteSet(G) /\ Orders(R, G)
  BY GapsOrder, Zenon
<1>2. s = [k \in 1 .. n |-> CHOOSE g \in G : Cardinality({h \in G : h[1] < g[1]}) = k - 1]
  BY Zenon DEF GetEpochGapRanges, Sorted, Gaps
<1>3. ASSUME NEW g \in G PROVE {h \in G : h[1] < g[1]} = Below(R, G, g)
  <2> HIDE DEF G
  <2>1. QED
    BY Zenon DEF ByStart, Below
<1> HIDE DEF G, R, n, s
<1>4. ASSUME NEW k \in 1 .. n PROVE s[k] \in G /\ Rank(R, G, s[k]) = k - 1
  <2>1. s[k] = CHOOSE g \in G : Cardinality({h \in G : h[1] < g[1]}) = k - 1
    BY <1>2, Zenon
  <2>2. \E g \in G : Rank(R, G, g) = k - 1
    BY <1>1, RankExists DEF n
  <2>3. \E g \in G : Cardinality({h \in G : h[1] < g[1]}) = k - 1
    BY <1>3, <2>2, Zenon DEF Rank
  <2>4. s[k] \in G /\ Cardinality({h \in G : h[1] < s[k][1]}) = k - 1
    BY <2>1, <2>3, Zenon
  <2>5. QED
    BY <1>3, <2>4, Zenon DEF Rank
<1>5. s \in [1 .. n -> G]
  BY <1>2, <1>4, Zenon
<1>6. Lists(s, R, G)
  BY <1>4, <1>5, Zenon DEF Lists, n
<1>7. /\ n \in Nat /\ DOMAIN s = 1 .. n
      /\ \A k \in 1 .. n : s[k] \in G
      /\ \A g \in G : \E k \in 1 .. n : s[k] = g
      /\ \A i, j \in 1 .. n : i < j => <<s[i], s[j]>> \in R
  BY <1>1, <1>6, ListsFacts DEF n
<1>8. Len(s) = n
  BY <1>5, <1>7
<1>9. \A i, j \in 1 .. n : i < j => s[i][1] < s[j][1]
  BY <1>7, Zenon DEF R, ByStart
<1>10. ToSet(s) = G
  <2>1. \A g \in ToSet(s) : g \in G
    BY <1>7, Zenon DEF ToSet
  <2>2. \A g \in G : g \in ToSet(s)
    BY <1>7, Zenon DEF ToSet
  <2>3. QED
    BY <2>1, <2>2, Zenon
<1>11. QED
  BY <1>7, <1>8, <1>9, <1>10 DEF G, s

(* Ranges cover the union of their elements.                               *)
LEMMA CoversIff ==
  ASSUME NEW ranges, NEW e
  PROVE  e \in Covers(ranges) <=> \E r \in ToSet(ranges) : e \in r[1] .. r[2]
BY DEF Covers

(* The gaps cover what is missing between the first row and the last.      *)
LEMMA GapsCover ==
  ASSUME NEW S \in SUBSET Nat, IsFiniteSet(S), NEW e
  PROVE  e \in Covers(GetEpochGapRanges(S))
           <=> /\ e \in Nat \ S
               /\ \E x \in S : x < e
               /\ \E y \in S : e < y
<1> DEFINE ranges == GetEpochGapRanges(S)
<1>1. e \in Covers(ranges) <=> \E g \in Gaps(S) : e \in g[1] .. g[2]
  <2>1. ToSet(ranges) = Gaps(S)
    BY GapRangesFacts, Zenon
  <2>2. QED
    BY <2>1, CoversIff
<1> HIDE DEF ranges
<1>2. ASSUME NEW g \in Gaps(S), e \in g[1] .. g[2]
      PROVE  e \in Nat \ S /\ (\E x \in S : x < e) /\ (\E y \in S : e < y)
  <2>1. PICK a, b \in S : /\ g = <<a + 1, b - 1>> /\ a + 1 < b
                          /\ \A x \in S : x <= a \/ b <= x
    BY GapEnds, Zenon
  <2>2. a \in Nat /\ b \in Nat /\ e \in (a + 1) .. (b - 1)
    BY <1>2, <2>1, Zenon
  <2>3. e \in Nat /\ a < e /\ e < b
    BY <2>2
  <2>4. e \notin S
    BY <2>1, <2>2, <2>3
  <2>5. QED
    BY <2>3, <2>4
<1>3. ASSUME e \in Nat \ S, NEW x \in S, x < e, NEW y \in S, e < y
      PROVE  \E g \in Gaps(S) : e \in g[1] .. g[2]
  <2> DEFINE L == {z \in S : z < e}
             U == {z \in S : e < z}
             a == Last(Ascending(L))
             b == Head(Ascending(U))
  <2>1. L \in SUBSET S /\ U \in SUBSET S /\ L # {} /\ U # {} /\ e \in Int
    BY <1>3
  <2>2. IsFiniteSet(L) /\ IsFiniteSet(U)
    BY <2>1, FS_Subset
  <2>3. L \in SUBSET Int /\ U \in SUBSET Int
    <3> HIDE DEF L, U
    <3>1. \A z \in S : z \in Int
      OBVIOUS
    <3>2. QED
      BY <2>1, <3>1
  <2>4. /\ a \in L /\ \A z \in L : z <= a
        /\ b \in U /\ \A z \in U : b <= z
    <3> HIDE DEF L, U
    <3>1. QED
      BY <2>1, <2>2, <2>3, AscendingEnds
  <2> HIDE DEF a, b
  <2>5. a \in S /\ b \in S /\ a < e /\ e < b
    BY <2>4
  <2>6. a + 1 < b
    BY <2>1, <2>5
  <2>7. ASSUME NEW z \in S PROVE z <= a \/ b <= z
    <3>1. z < e \/ e < z
      BY <1>3, <2>1
    <3>2. QED
      BY <2>4, <3>1
  <2> DEFINE g == <<a + 1, b - 1>>
  <2>8. g \in Gaps(S)
    BY <2>5, <2>6, <2>7, GapBetween, Zenon
  <2>9. e \in g[1] .. g[2]
    BY <2>1, <2>5
  <2> HIDE DEF g
  <2>10. QED
    BY <2>8, <2>9
<1>4. QED
  BY <1>1, <1>2, <1>3 DEF ranges

(* GapCount counts what the gaps cover.                                    *)
LEMMA GapsCounted ==
  ASSUME NEW S \in SUBSET Nat, IsFiniteSet(S)
  PROVE  GapCount(S) = Cardinality(Covers(GetEpochGapRanges(S)))
<1> DEFINE C == Covers(GetEpochGapRanges(S))
<1>1. \A e : e \in C <=> e \in Nat \ S /\ (\E x \in S : x < e) /\ (\E y \in S : e < y)
  BY GapsCover
<1> HIDE DEF C
<1>2. CASE S = {}
  <2>1. C = {}
    BY <1>1, <1>2
  <2>2. Cardinality(C) = 0
    BY <2>1, FS_EmptySet
  <2>3. QED
    BY <1>2, <2>2 DEF GapCount, C
<1>3. CASE S # {}
  <2> DEFINE lo == Head(Ascending(S))
             hi == Last(Ascending(S))
             I == lo .. hi
  <2>1. S \in SUBSET Int
    OBVIOUS
  <2>2. lo \in S /\ hi \in S /\ \A e \in S : lo <= e /\ e <= hi
    BY <1>3, <2>1, AscendingEnds
  <2>3. GapCount(S) = hi - lo + 1 - Cardinality(S)
    BY <1>3, Zenon DEF GapCount
  <2> HIDE DEF lo, hi
  <2>4. lo \in Nat /\ hi \in Nat /\ lo <= hi
    BY <2>2, Zenon
  <2>5. IsFiniteSet(I) /\ Cardinality(I) = hi - lo + 1
    BY <2>4, FS_Interval
  <2>6. ASSUME NEW e PROVE e \in C <=> e \in I \ S
    <3>1. ASSUME e \in C PROVE e \in I \ S
      <4>1. PICK x \in S, y \in S : e \in Nat \ S /\ x < e /\ e < y
        BY <1>1, <3>1
      <4>2. lo <= x /\ y <= hi /\ x \in Nat /\ y \in Nat
        BY <2>2, Zenon
      <4>3. QED
        BY <2>4, <4>1, <4>2
    <3>2. ASSUME e \in I \ S PROVE e \in C
      <4>1. e \in Nat /\ e # lo /\ e # hi /\ lo <= e /\ e <= hi
        BY <2>2, <2>4, <3>2
      <4>2. lo < e /\ e < hi
        BY <2>4, <4>1
      <4>3. QED
        BY <1>1, <2>2, <3>2, <4>1, <4>2, Zenon
    <3>3. QED
      BY <3>1, <3>2, Zenon
  <2>7. \A e \in S : e \in I
    BY <2>2, <2>4
  <2> HIDE DEF I
  <2>8. C = I \ S
    BY <2>6
  <2>9. Cardinality(C) = hi - lo + 1 - Cardinality(S)
    <3>1. I \cap S = S
      BY <2>7, Zenon
    <3>2. Cardinality(I \ S) = Cardinality(I) - Cardinality(I \cap S)
      BY <2>5, FS_Difference, Zenon
    <3>3. Cardinality(C) = Cardinality(I) - Cardinality(S)
      BY <2>8, <3>1, <3>2, Zenon
    <3>4. Cardinality(S) \in Nat
      BY FS_CardinalityType, Zenon
    <3>5. QED
      BY <2>4, <2>5, <3>3, <3>4
  <2>10. QED
    BY <2>3, <2>9 DEF C
<1>4. QED
  BY <1>2, <1>3

(* For any set of rows: the ranges of the summary are exactly the epochs   *)
(* missing between the first and the last row, GapCount is their number,   *)
(* and no two ranges touch.                                                *)
THEOREM EpochGaps ==
  ASSUME NEW S \in SUBSET Nat, IsFiniteSet(S)
  PROVE  LET ranges == GetEpochGapRanges(S)
         IN  /\ \A e : e \in Covers(ranges) <=>
                  e \in Nat \ S /\ (\E x \in S : x < e) /\ (\E y \in S : e < y)
             /\ GapCount(S) = Cardinality(Covers(ranges))
             /\ \A k \in 1 .. Len(ranges) - 1 : ranges[k][2] + 1 < ranges[k + 1][1]
<1> DEFINE ranges == GetEpochGapRanges(S)
<1>1. /\ Len(ranges) \in Nat /\ DOMAIN ranges = 1 .. Len(ranges)
      /\ ToSet(ranges) = Gaps(S)
      /\ \A i, j \in 1 .. Len(ranges) : i < j => ranges[i][1] < ranges[j][1]
  BY GapRangesFacts, Zenon
<1> HIDE DEF ranges
<1>2. ASSUME NEW k \in 1 .. Len(ranges) - 1 PROVE ranges[k][2] + 1 < ranges[k + 1][1]
  <2>1. k \in 1 .. Len(ranges) /\ k + 1 \in 1 .. Len(ranges) /\ k < k + 1
    BY <1>1
  <2>2. ranges[k] \in Gaps(S) /\ ranges[k + 1] \in Gaps(S) /\ ranges[k][1] < ranges[k + 1][1]
    BY <1>1, <2>1, Zenon DEF ToSet
  <2>3. PICK a, b \in S : /\ ranges[k] = <<a + 1, b - 1>> /\ a + 1 < b
                          /\ \A e \in S : e <= a \/ b <= e
    BY <2>2, GapEnds, Zenon
  <2>4. PICK c, d \in S : /\ ranges[k + 1] = <<c + 1, d - 1>> /\ c + 1 < d
                          /\ \A e \in S : e <= c \/ d <= e
    BY <2>2, GapEnds, Zenon
  <2>5. a \in Nat /\ b \in Nat /\ c \in Nat /\ a + 1 < c + 1
    BY <2>2, <2>3, <2>4
  <2>6. b <= c
    BY <2>3, <2>5
  <2>7. ranges[k][2] = b - 1 /\ ranges[k + 1][1] = c + 1
    BY <2>3, <2>4
  <2>8. QED
    BY <2>5, <2>6, <2>7
<1>3. QED
  BY <1>2, GapsCover, GapsCounted DEF ranges

-----------------------------------------------------------------------------
(* The ranges of the reports                                               *)

(* A step of the loop of collapseRanges.                                   *)
Grow(sorted, n, before) ==
  IF before # <<>> /\ sorted[n] = Last(before)[2] + 1
  THEN Append(Front(before), <<Last(before)[1], sorted[n]>>)
  ELSE Append(before, <<sorted[n], sorted[n]>>)

(* f has the ranges after each of the first n steps.                       *)
Loops(f, sorted, n) == f = [k \in 0 .. n |-> IF k = 0 THEN <<>> ELSE Grow(sorted, k, f[k - 1])]

(* A set of numbers that is not empty has a least element.                 *)
LEMMA LeastNumber ==
  ASSUME NEW S \in SUBSET Nat, S # {}
  PROVE  \E m \in S : \A x \in S : m <= x
<1>1. PICK m \in S : \A y \in S : ~(<<y, m>> \in OpToRel(<, Nat))
  BY NatLessThanWellFounded, WFMin
<1>2. \A y \in S : ~(y < m)
  BY <1>1, Zenon DEF OpToRel
<1>3. QED
  BY <1>2

(* The loop can be taken any number of steps.                              *)
LEMMA LoopExists ==
  ASSUME NEW sorted, NEW N \in Nat
  PROVE  \E f : Loops(f, sorted, N)
<1> DEFINE stuck == {n \in Nat : ~\E f : Loops(f, sorted, n)}
<1> SUFFICES ASSUME stuck # {} PROVE FALSE
  OBVIOUS
<1>1. PICK m \in stuck : \A x \in stuck : m <= x
  <2>1. stuck \in SUBSET Nat
    OBVIOUS
  <2> HIDE DEF stuck
  <2>2. QED
    BY <2>1, LeastNumber, Zenon
<1>2. m # 0
  <2> DEFINE f == [k \in 0 .. 0 |-> <<>>]
  <2>1. f = [k \in 0 .. 0 |-> IF k = 0 THEN <<>> ELSE Grow(sorted, k, f[k - 1])]
    OBVIOUS
  <2> HIDE DEF f
  <2>2. Loops(f, sorted, 0)
    BY <2>1, Zenon DEF Loops
  <2>3. QED
    BY <2>2
<1>3. m - 1 \in Nat /\ m \in Nat /\ m - 1 \notin stuck
  BY <1>1, <1>2
<1>4. PICK g : Loops(g, sorted, m - 1)
  BY <1>3, Zenon
<1> DEFINE f == [k \in 0 .. m |-> IF k = m THEN Grow(sorted, m, g[m - 1]) ELSE g[k]]
<1>5. ASSUME NEW k \in 0 .. m PROVE f[k] = IF k = 0 THEN <<>> ELSE Grow(sorted, k, f[k - 1])
  <2>1. CASE k = m
    <3>1. m - 1 \in 0 .. m /\ m - 1 # m
      BY <1>2, <1>3
    <3>2. f[m - 1] = g[m - 1] /\ f[m] = Grow(sorted, m, g[m - 1])
      BY <1>3, <3>1
    <3> HIDE DEF f
    <3>3. QED
      BY <1>2, <2>1, <3>2, Zenon
  <2>2. CASE k # m
    <3>1. k \in 0 .. (m - 1) /\ (k = 0 \/ (k - 1 \in 0 .. m /\ k - 1 # m))
      BY <1>3, <2>2
    <3>2. f[k] = g[k] /\ (k = 0 \/ f[k - 1] = g[k - 1])
      BY <2>2, <3>1, Zenon
    <3>3. g[k] = IF k = 0 THEN <<>> ELSE Grow(sorted, k, g[k - 1])
      BY <1>4, <3>1, Zenon DEF Loops
    <3> HIDE DEF f
    <3>4. QED
      BY <3>2, <3>3, Zenon
  <2>3. QED
    BY <2>1, <2>2, Zenon
<1>6. f = [k \in 0 .. m |-> f[k]]
  BY Zenon
<1> HIDE DEF f
<1>7. f = [k \in 0 .. m |-> IF k = 0 THEN <<>> ELSE Grow(sorted, k, f[k - 1])]
  BY <1>5, <1>6, Zenon
<1>8. Loops(f, sorted, m)
  BY <1>7, Zenon DEF Loops
<1>9. QED
  BY <1>1, <1>8

(* collapseRanges is what the loop has built after the last epoch.         *)
LEMMA CollapseLoop ==
  ASSUME NEW epochs, NEW sorted, sorted = Ascending(ToSet(epochs)), Len(sorted) \in Nat
  PROVE  \E f : Loops(f, sorted, Len(sorted)) /\ collapseRanges(epochs) = f[Len(sorted)]
<1> DEFINE out[n \in 0 .. Len(sorted)] == IF n = 0 THEN <<>> ELSE Grow(sorted, n, out[n - 1])
<1>1. collapseRanges(epochs) = out[Len(sorted)]
  BY DEF collapseRanges, Grow
<1>2. Loops(out, sorted, Len(sorted))
  <2>1. out = CHOOSE f : Loops(f, sorted, Len(sorted))
    BY DEF Loops
  <2> HIDE DEF out
  <2>2. QED
    BY <2>1, LoopExists, Zenon
<1> HIDE DEF out
<1>3. QED
  BY <1>1, <1>2

(* What the loop has built after n epochs: ranges in order that neither    *)
(* touch nor leave out one of those epochs, the last of which ends at the  *)
(* last of them.                                                           *)
Built(o, sorted, n) ==
  /\ o \in Seq(Nat \X Nat)
  /\ (o = <<>>) <=> (n = 0)
  /\ n > 0 => o[Len(o)][2] = sorted[n]
  /\ \A i \in 1 .. Len(o) : o[i][1] <= o[i][2]
  /\ \A i \in 1 .. Len(o) - 1 : o[i][2] + 1 < o[i + 1][1]
  /\ \A e \in Nat : (\E i \in 1 .. Len(o) : e \in o[i][1] .. o[i][2])
                      <=> \E j \in 1 .. n : e = sorted[j]

(* The last range grows.                                                   *)
LEMMA GrowLast ==
  ASSUME NEW n \in Nat, n > 0, NEW sorted, sorted[n] \in Nat, NEW o, Built(o, sorted, n - 1),
         o # <<>>, sorted[n] = Last(o)[2] + 1
  PROVE  Built(Append(Front(o), <<Last(o)[1], sorted[n]>>), sorted, n)
<1> DEFINE L == Len(o)
           p == <<Last(o)[1], sorted[n]>>
           q == Append(Front(o), p)
<1>1. o \in Seq(Nat \X Nat) /\ L \in Nat /\ L > 0
  BY DEF Built
<1>2. Last(o) = o[L] /\ o[L] \in Nat \X Nat /\ o[L][1] \in Nat /\ o[L][2] \in Nat
  BY <1>1 DEF Last
<1>3. p \in Nat \X Nat /\ p[1] = o[L][1] /\ p[2] = sorted[n]
  BY <1>2, Zenon
<1> HIDE DEF p, L
<1>4. /\ Front(o) \in Seq(Nat \X Nat) /\ Len(Front(o)) = L - 1
      /\ \A i \in 1 .. L - 1 : Front(o)[i] = o[i]
  <2>1. L - 1 \in 0 .. Len(o)
    BY <1>1 DEF L
  <2>2. Front(o) = SubSeq(o, 1, L - 1)
    BY DEF Front, L
  <2>3. Front(o) \in Seq(Nat \X Nat)
    BY <1>1, <2>1, <2>2
  <2>4. Len(Front(o)) = L - 1
    BY <1>1, <2>1, <2>2
  <2>5. \A i \in 1 .. L - 1 : Front(o)[i] = o[i]
    BY <1>1, <2>1, <2>2
  <2>6. QED
    BY <2>3, <2>4, <2>5
<1>5. q \in Seq(Nat \X Nat) /\ Len(q) = L /\ q[L] = p /\ \A i \in 1 .. L - 1 : q[i] = o[i]
  <2>1. q \in Seq(Nat \X Nat) /\ Len(q) = L - 1 + 1
    BY <1>3, <1>4
  <2>2. L - 1 + 1 = L
    BY <1>1
  <2>3. q[Len(Front(o)) + 1] = p /\ \A i \in 1 .. Len(Front(o)) : q[i] = Front(o)[i]
    BY <1>3, <1>4
  <2>4. QED
    BY <1>4, <2>1, <2>2, <2>3, Zenon
<1> HIDE DEF q
<1>6. \A i \in 1 .. L : o[i][1] \in Nat /\ o[i][2] \in Nat
  <2>1. \A i \in 1 .. L : o[i] \in Nat \X Nat
    BY <1>1 DEF L
  <2>2. QED
    BY <2>1, Zenon
<1>7. \A i \in 1 .. L : q[i][1] = o[i][1] /\ (i # L => q[i][2] = o[i][2])
  <2>1. \A i \in 1 .. L : i # L => i \in 1 .. L - 1
    BY <1>1
  <2>2. q[L][1] = o[L][1]
    BY <1>3, <1>5, Zenon
  <2>3. QED
    BY <1>5, <2>1, <2>2, Zenon
<1>8. q[L][2] = sorted[n] /\ sorted[n] = o[L][2] + 1
  BY <1>2, <1>3, <1>5, Zenon
<1>9. \A i \in 1 .. L : q[i][1] <= q[i][2]
  <2>1. \A i \in 1 .. L : o[i][1] <= o[i][2]
    BY Zenon DEF Built, L
  <2>2. o[L][1] <= o[L][2] + 1
    BY <1>1, <1>2, <2>1
  <2>3. QED
    BY <1>1, <1>7, <1>8, <2>1, <2>2, Zenon
<1>10. \A i \in 1 .. L - 1 : q[i][2] + 1 < q[i + 1][1]
  <2> SUFFICES ASSUME NEW i \in 1 .. L - 1 PROVE q[i][2] + 1 < q[i + 1][1]
    BY Zenon
  <2>1. i \in 1 .. L /\ i # L /\ i + 1 \in 1 .. L
    BY <1>1
  <2>2. o[i][2] + 1 < o[i + 1][1]
    BY Zenon DEF Built, L
  <2>3. QED
    BY <1>7, <2>1, <2>2, Zenon
<1>11. ASSUME NEW e \in Nat
       PROVE  (\E i \in 1 .. L : e \in q[i][1] .. q[i][2]) <=> \E j \in 1 .. n : e = sorted[j]
  <2>1. (\E i \in 1 .. L : e \in o[i][1] .. o[i][2]) <=> \E j \in 1 .. n - 1 : e = sorted[j]
    BY Zenon DEF Built, L
  <2>2. (\E j \in 1 .. n : e = sorted[j]) <=> (\E j \in 1 .. n - 1 : e = sorted[j]) \/ e = sorted[n]
    <3>1. 1 .. n = (1 .. n - 1) \cup {n}
      OBVIOUS
    <3>2. QED
      BY <3>1, Zenon
  <2>3. (\E i \in 1 .. L : e \in q[i][1] .. q[i][2])
          <=> (\E i \in 1 .. L : e \in o[i][1] .. o[i][2]) \/ e = sorted[n]
    <3>1. o[L][1] <= o[L][2]
      BY <1>1 DEF Built, L
    <3>2. e \in q[L][1] .. q[L][2] <=> e \in o[L][1] .. o[L][2] \/ e = sorted[n]
      <4>1. q[L][1] = o[L][1] /\ q[L][2] = o[L][2] + 1 /\ sorted[n] = o[L][2] + 1
        BY <1>3, <1>5, <1>8, Zenon
      <4>2. QED
        BY <1>2, <3>1, <4>1
    <3>3. \A i \in 1 .. L : i # L => q[i][1] = o[i][1] /\ q[i][2] = o[i][2]
      BY <1>7, Zenon
    <3>4. L \in 1 .. L
      BY <1>1
    <3>5. QED
      BY <3>2, <3>3, <3>4, Zenon
  <2>4. QED
    BY <2>1, <2>2, <2>3, Zenon
<1>12. (q = <<>>) <=> (n = 0)
  BY <1>1, <1>5
<1>13. QED
  BY <1>5, <1>8, <1>9, <1>10, <1>11, <1>12, Zenon DEF Built, q, p

(* The next range begins.                                                  *)
LEMMA GrowNext ==
  ASSUME NEW n \in Nat, n > 0, NEW sorted, sorted[n] \in Nat, NEW o, Built(o, sorted, n - 1),
         n > 1 => sorted[n - 1] \in Nat /\ sorted[n - 1] < sorted[n],
         o = <<>> \/ sorted[n] # Last(o)[2] + 1
  PROVE  Built(Append(o, <<sorted[n], sorted[n]>>), sorted, n)
<1> DEFINE L == Len(o)
           p == <<sorted[n], sorted[n]>>
           q == Append(o, p)
<1>1. o \in Seq(Nat \X Nat) /\ L \in Nat
  BY DEF Built
<1>2. p \in Nat \X Nat /\ p[1] = sorted[n] /\ p[2] = sorted[n]
  BY Zenon
<1> HIDE DEF p
<1>3. q \in Seq(Nat \X Nat) /\ Len(q) = L + 1 /\ q[L + 1] = p /\ \A i \in 1 .. L : q[i] = o[i]
  BY <1>1, <1>2
<1> HIDE DEF q, L
<1>4. \A i \in 1 .. L + 1 : q[i][1] <= q[i][2]
  <2>1. \A i \in 1 .. L : o[i][1] <= o[i][2]
    BY Zenon DEF Built, L
  <2>2. q[L + 1][1] <= q[L + 1][2]
    BY <1>2, <1>3
  <2>3. \A i \in 1 .. L + 1 : i \in 1 .. L \/ i = L + 1
    BY <1>1
  <2>4. QED
    BY <1>3, <2>1, <2>2, <2>3, Zenon
<1>5. \A i \in 1 .. L : q[i][2] + 1 < q[i + 1][1]
  <2> SUFFICES ASSUME NEW i \in 1 .. L PROVE q[i][2] + 1 < q[i + 1][1]
    BY Zenon
  <2>1. CASE i \in 1 .. L - 1
    <3>1. i + 1 \in 1 .. L
      BY <1>1, <2>1
    <3>2. o[i][2] + 1 < o[i + 1][1]
      BY <2>1, Zenon DEF Built, L
    <3>3. QED
      BY <1>3, <3>1, <3>2, Zenon
  <2>2. CASE i = L
    <3>1. L > 0 /\ o # <<>>
      BY <1>1, <2>2 DEF L
    <3>2. n > 1 /\ o[L][2] = sorted[n - 1]
      BY <3>1 DEF Built, L
    <3>3. sorted[n] # sorted[n - 1] + 1
      BY <3>1, <3>2 DEF Last, L
    <3>4. sorted[n - 1] + 1 < sorted[n]
      BY <3>2, <3>3
    <3>5. QED
      BY <1>2, <1>3, <2>2, <3>2, <3>4, Zenon
  <2>3. QED
    BY <1>1, <2>1, <2>2
<1>6. ASSUME NEW e \in Nat
      PROVE  (\E i \in 1 .. L + 1 : e \in q[i][1] .. q[i][2]) <=> \E j \in 1 .. n : e = sorted[j]
  <2>1. (\E i \in 1 .. L : e \in o[i][1] .. o[i][2]) <=> \E j \in 1 .. n - 1 : e = sorted[j]
    BY Zenon DEF Built, L
  <2>2. (\E j \in 1 .. n : e = sorted[j]) <=> (\E j \in 1 .. n - 1 : e = sorted[j]) \/ e = sorted[n]
    <3>1. 1 .. n = (1 .. n - 1) \cup {n}
      OBVIOUS
    <3>2. QED
      BY <3>1, Zenon
  <2>3. e \in q[L + 1][1] .. q[L + 1][2] <=> e = sorted[n]
    BY <1>2, <1>3
  <2>4. 1 .. L + 1 = (1 .. L) \cup {L + 1}
    BY <1>1
  <2>5. QED
    BY <1>3, <2>1, <2>2, <2>3, <2>4, Zenon
<1>7. (q = <<>>) <=> (n = 0)
  BY <1>1, <1>3
<1>8. Len(q) - 1 = L /\ q[Len(q)][2] = sorted[n]
  BY <1>1, <1>2, <1>3
<1>9. Built(q, sorted, n)
  <2>1. \A i \in 1 .. Len(q) : q[i][1] <= q[i][2]
    BY <1>3, <1>4, Zenon
  <2>2. \A i \in 1 .. Len(q) - 1 : q[i][2] + 1 < q[i + 1][1]
    BY <1>5, <1>8, Zenon
  <2>3. \A e \in Nat : (\E i \in 1 .. Len(q) : e \in q[i][1] .. q[i][2])
                          <=> \E j \in 1 .. n : e = sorted[j]
    BY <1>3, <1>6, Zenon
  <2>4. QED
    BY <1>3, <1>7, <1>8, <2>1, <2>2, <2>3, Zenon DEF Built
<1>10. QED
  BY <1>9, Zenon DEF q, p

(* Nothing is built of no epoch.                                           *)
LEMMA BuiltNothing == ASSUME NEW sorted PROVE Built(<<>>, sorted, 0)
<1>1. <<>> \in Seq(Nat \X Nat) /\ Len(<<>>) = 0
  OBVIOUS
<1>2. 1 .. 0 = {} /\ 1 .. 0 - 1 = {}
  OBVIOUS
<1>3. QED
  BY <1>1, <1>2 DEF Built

(* The loop keeps what it has built in order.                              *)
LEMMA LoopBuilt ==
  ASSUME NEW N \in Nat, NEW sorted \in [1 .. N -> Nat],
         \A i, j \in 1 .. N : i < j => sorted[i] < sorted[j],
         NEW f, Loops(f, sorted, N), NEW n \in 0 .. N
  PROVE  Built(f[n], sorted, n)
<1> DEFINE bad == {k \in 0 .. N : ~Built(f[k], sorted, k)}
<1> SUFFICES ASSUME bad # {} PROVE FALSE
  BY Zenon
<1>1. PICK m \in bad : \A x \in bad : m <= x
  <2>1. bad \in SUBSET Nat
    OBVIOUS
  <2> HIDE DEF bad
  <2>2. QED
    BY <2>1, LeastNumber, Zenon
<1>2. m \in 0 .. N /\ ~Built(f[m], sorted, m)
  BY Zenon
<1>3. f[m] = IF m = 0 THEN <<>> ELSE Grow(sorted, m, f[m - 1])
  BY <1>2, Zenon DEF Loops
<1>4. m # 0
  BY <1>2, <1>3, BuiltNothing, Zenon
<1>5. m - 1 \in 0 .. N /\ m \in Nat /\ m > 0 /\ m \in 1 .. N
  BY <1>2, <1>4
<1>6. Built(f[m - 1], sorted, m - 1)
  BY <1>1, <1>5
<1> HIDE DEF bad
<1> DEFINE o == f[m - 1]
<1>7. sorted[m] \in Nat /\ (m > 1 => sorted[m - 1] \in Nat /\ sorted[m - 1] < sorted[m])
  <2>1. m > 1 => m - 1 \in 1 .. N /\ m - 1 < m
    BY <1>5
  <2>2. QED
    BY <1>5, <2>1, Zenon
<1>8. Built(o, sorted, m - 1) /\ f[m] = Grow(sorted, m, o)
  BY <1>3, <1>4, <1>6, Zenon
<1> HIDE DEF o
<1>9. Built(Grow(sorted, m, o), sorted, m)
  <2>1. CASE o # <<>> /\ sorted[m] = Last(o)[2] + 1
    <3>1. Built(Append(Front(o), <<Last(o)[1], sorted[m]>>), sorted, m)
      BY <1>5, <1>7, <1>8, <2>1, GrowLast, Zenon
    <3>2. QED
      BY <2>1, <3>1 DEF Grow
  <2>2. CASE ~(o # <<>> /\ sorted[m] = Last(o)[2] + 1)
    <3>1. Built(Append(o, <<sorted[m], sorted[m]>>), sorted, m)
      BY <1>5, <1>7, <1>8, <2>2, GrowNext, Zenon
    <3>2. QED
      BY <2>2, <3>1 DEF Grow
  <2>3. QED
    BY <2>1, <2>2, Zenon
<1>10. QED
  BY <1>2, <1>8, <1>9, Zenon

(* For any list of epochs, in any order and with repetitions: the ranges   *)
(* collapseRanges makes of it cover exactly its epochs, ascend, and do not *)
(* touch.                                                                  *)
THEOREM CollapsedRanges ==
  ASSUME NEW epochs, ToSet(epochs) \in SUBSET Nat, IsFiniteSet(ToSet(epochs))
  PROVE  LET ranges == collapseRanges(epochs)
         IN  /\ \A e : e \in Covers(ranges) <=> e \in ToSet(epochs)
             /\ \A k \in 1 .. Len(ranges) - 1 : ranges[k][2] + 1 < ranges[k + 1][1]
<1> DEFINE T == ToSet(epochs)
           N == Cardinality(T)
           sorted == Ascending(T)
           ranges == collapseRanges(epochs)
<1>1. T \in SUBSET Int /\ IsFiniteSet(T)
  OBVIOUS
<1>2. /\ N \in Nat /\ sorted \in [1 .. N -> T] /\ Len(sorted) = N
      /\ \A x \in T : \E k \in 1 .. N : sorted[k] = x
      /\ \A i, j \in 1 .. N : i < j => sorted[i] < sorted[j]
  <2> HIDE DEF T
  <2>1. QED
    BY <1>1, AscendingFacts, Zenon
<1>3. PICK f : Loops(f, sorted, N) /\ ranges = f[N]
  <2>1. Len(sorted) \in Nat
    BY <1>2, Zenon
  <2>2. \E f : Loops(f, sorted, Len(sorted)) /\ ranges = f[Len(sorted)]
    BY <2>1, CollapseLoop, Zenon
  <2> HIDE DEF sorted, ranges
  <2>3. QED
    BY <1>2, <2>2, Zenon
<1>4. T \in SUBSET Nat
  BY Zenon
<1> HIDE DEF T, N, sorted, ranges
<1>5. sorted \in [1 .. N -> Nat]
  BY <1>2, <1>4, Zenon
<1>6. Built(ranges, sorted, N)
  <2>1. N \in 0 .. N
    BY <1>2
  <2>2. QED
    BY <1>2, <1>3, <1>5, <2>1, LoopBuilt, Zenon
<1>7. ToSet(ranges) = {ranges[i] : i \in 1 .. Len(ranges)}
  BY <1>6 DEF Built, ToSet
<1>8. ASSUME NEW e PROVE e \in Covers(ranges) <=> e \in T
  <2>1. e \in Covers(ranges) <=> \E i \in 1 .. Len(ranges) : e \in ranges[i][1] .. ranges[i][2]
    BY <1>7, CoversIff
  <2>2. ASSUME NEW i \in 1 .. Len(ranges), e \in ranges[i][1] .. ranges[i][2] PROVE e \in Nat
    <3>1. ranges[i] \in Nat \X Nat
      BY <1>6 DEF Built
    <3>2. ranges[i][1] \in Nat /\ ranges[i][2] \in Nat
      BY <3>1, Zenon
    <3>3. QED
      BY <2>2, <3>2
  <2>3. e \in T => e \in Nat
    BY <1>4, Zenon
  <2>4. e \in T <=> \E k \in 1 .. N : e = sorted[k]
    BY <1>2
  <2>5. e \in Nat => ((\E i \in 1 .. Len(ranges) : e \in ranges[i][1] .. ranges[i][2])
                        <=> \E k \in 1 .. N : e = sorted[k])
    BY <1>6, Zenon DEF Built
  <2>6. QED
    BY <2>1, <2>2, <2>3, <2>4, <2>5, Zenon
<1>9. \A k \in 1 .. Len(ranges) - 1 : ranges[k][2] + 1 < ranges[k + 1][1]
  BY <1>6 DEF Built
<1>10. QED
  BY <1>8, <1>9, Zenon DEF T, ranges

-----------------------------------------------------------------------------
(* The index of an epoch node                                              *)

Blob == [hash : Int, slot : Nat, index : Nat]

(* The blobs of an epoch: slot and index name a blob.                      *)
Epoch(blobs) ==
  /\ blobs \in Seq(Blob)
  /\ \A i, j \in DOMAIN blobs :
       i # j => blobs[i].slot # blobs[j].slot \/ blobs[i].index # blobs[j].index

Hashes(blobs) == {b.hash : b \in ToSet(blobs)}

(* Where a versioned hash occurs, and the order of the occurrences.        *)
Places(blobs, h) == {i \in DOMAIN blobs : blobs[i].hash = h}
ByPlace(blobs, h) ==
  {p \in Places(blobs, h) \X Places(blobs, h) : Before(blobs[p[1]], blobs[p[2]])}
Occurrences(blobs, h) ==
  Sorted({i \in DOMAIN blobs : blobs[i].hash = h}, LAMBDA i, j : Before(blobs[i], blobs[j]))

(* The fields of a blob.                                                   *)
LEMMA BlobFields ==
  ASSUME NEW blobs, Epoch(blobs)
  PROVE  /\ Len(blobs) \in Nat /\ DOMAIN blobs = 1 .. Len(blobs)
         /\ \A i \in DOMAIN blobs :
              blobs[i].hash \in Int /\ blobs[i].slot \in Nat /\ blobs[i].index \in Nat
<1>1. Len(blobs) \in Nat /\ DOMAIN blobs = 1 .. Len(blobs) /\ \A i \in DOMAIN blobs : blobs[i] \in Blob
  BY DEF Epoch
<1>2. QED
  BY <1>1, Zenon DEF Blob

(* Slot and index order the occurrences of a hash.                         *)
LEMMA PlacesOrder ==
  ASSUME NEW blobs, Epoch(blobs), NEW h
  PROVE  IsFiniteSet(Places(blobs, h)) /\ Orders(ByPlace(blobs, h), Places(blobs, h))
<1> DEFINE P == Places(blobs, h)
           R == ByPlace(blobs, h)
<1>1. IsFiniteSet(P)
  <2>1. IsFiniteSet(DOMAIN blobs)
    BY BlobFields, FS_Interval
  <2>2. P \in SUBSET DOMAIN blobs
    BY DEF Places
  <2>3. QED
    BY <2>1, <2>2, FS_Subset
<1>2. \A i \in P : i \in DOMAIN blobs /\ blobs[i].slot \in Nat /\ blobs[i].index \in Nat
  BY BlobFields DEF Places
<1>3. \A i, j \in P : i # j => blobs[i].slot # blobs[j].slot \/ blobs[i].index # blobs[j].index
  BY <1>2 DEF Epoch
<1>4. \A i, j \in P : <<i, j>> \in R <=> Before(blobs[i], blobs[j])
  BY DEF ByPlace
<1> HIDE DEF P, R
<1>5. \A i \in P : <<i, i>> \notin R
  BY <1>2, <1>4 DEF Before
<1>6. \A i, j, k \in P : <<i, j>> \in R /\ <<j, k>> \in R => <<i, k>> \in R
  BY <1>2, <1>4 DEF Before
<1>7. \A i, j \in P : i = j \/ <<i, j>> \in R \/ <<j, i>> \in R
  <2> SUFFICES ASSUME NEW i \in P, NEW j \in P, i # j PROVE <<i, j>> \in R \/ <<j, i>> \in R
    OBVIOUS
  <2>1. /\ blobs[i].slot \in Nat /\ blobs[i].index \in Nat
        /\ blobs[j].slot \in Nat /\ blobs[j].index \in Nat
    BY <1>2, Zenon
  <2>2. blobs[i].slot # blobs[j].slot \/ blobs[i].index # blobs[j].index
    BY <1>3
  <2>3. Before(blobs[i], blobs[j]) \/ Before(blobs[j], blobs[i])
    BY <2>1, <2>2 DEF Before
  <2>4. QED
    BY <1>4, <2>3
<1>8. QED
  BY <1>1, <1>5, <1>6, <1>7, Zenon DEF Orders, P, R

(* groupByVersionedHash lists the occurrences of a hash by slot and index. *)
LEMMA OccurrencesList ==
  ASSUME NEW blobs, Epoch(blobs), NEW h
  PROVE  Lists(Occurrences(blobs, h), ByPlace(blobs, h), Places(blobs, h))
<1> DEFINE P == Places(blobs, h)
           R == ByPlace(blobs, h)
           n == Cardinality(P)
           s == Occurrences(blobs, h)
<1>1. IsFiniteSet(P) /\ Orders(R, P)
  BY PlacesOrder, Zenon
<1>2. s = [k \in 1 .. n |->
             CHOOSE i \in P : Cardinality({j \in P : Before(blobs[j], blobs[i])}) = k - 1]
  BY DEF Occurrences, Sorted, Places
<1>3. ASSUME NEW i \in P PROVE {j \in P : Before(blobs[j], blobs[i])} = Below(R, P, i)
  <2> HIDE DEF P
  <2>1. QED
    BY DEF ByPlace, Below, P
<1> HIDE DEF P, R, n, s
<1>4. ASSUME NEW k \in 1 .. n PROVE s[k] \in P /\ Rank(R, P, s[k]) = k - 1
  <2>1. s[k] = CHOOSE i \in P : Cardinality({j \in P : Before(blobs[j], blobs[i])}) = k - 1
    BY <1>2, Zenon
  <2>2. \E i \in P : Rank(R, P, i) = k - 1
    BY <1>1, RankExists DEF n
  <2>3. \E i \in P : Cardinality({j \in P : Before(blobs[j], blobs[i])}) = k - 1
    BY <1>3, <2>2, Zenon DEF Rank
  <2>4. s[k] \in P /\ Cardinality({j \in P : Before(blobs[j], blobs[s[k]])}) = k - 1
    BY <2>1, <2>3, Zenon
  <2>5. QED
    BY <1>3, <2>4, Zenon DEF Rank
<1>5. s \in [1 .. n -> P]
  BY <1>2, <1>4, Zenon
<1>6. QED
  BY <1>4, <1>5, Zenon DEF Lists, P, R, n, s

(* Each occurrence is listed once, in order.                               *)
LEMMA OccurrencesFacts ==
  ASSUME NEW blobs, Epoch(blobs), NEW h
  PROVE  LET m == Occurrences(blobs, h)
             n == Cardinality(Places(blobs, h))
         IN  /\ n \in Nat /\ DOMAIN m = 1 .. n
             /\ m \in [1 .. n -> Places(blobs, h)]
             /\ \A i \in Places(blobs, h) : \E k \in 1 .. n : m[k] = i
             /\ \A k, l \in 1 .. n : k < l => Before(blobs[m[k]], blobs[m[l]])
             /\ \A k, l \in 1 .. n : m[k] = m[l] => k = l
<1> DEFINE P == Places(blobs, h)
           R == ByPlace(blobs, h)
           n == Cardinality(P)
           m == Occurrences(blobs, h)
<1>1. IsFiniteSet(P) /\ Orders(R, P) /\ Lists(m, R, P)
  BY PlacesOrder, OccurrencesList, Zenon
<1> HIDE DEF m
<1>2. m \in [1 .. n -> P]
  BY <1>1, Zenon DEF Lists
<1> HIDE DEF P, R
<1>3. /\ n \in Nat /\ DOMAIN m = 1 .. n
      /\ \A k \in 1 .. n : m[k] \in P
      /\ \A i \in P : \E k \in 1 .. n : m[k] = i
      /\ \A k, l \in 1 .. n : k < l => <<m[k], m[l]>> \in R
      /\ \A k, l \in 1 .. n : m[k] = m[l] => k = l
  BY <1>1, ListsFacts
<1> HIDE DEF n
<1>4. \A k, l \in 1 .. n : k < l => Before(blobs[m[k]], blobs[m[l]])
  BY <1>3, Zenon DEF R, ByPlace
<1>5. QED
  BY <1>2, <1>3, <1>4, Zenon DEF P, n, m

(* There are finitely many hashes, all of them numbers.                    *)
LEMMA HashesFinite ==
  ASSUME NEW blobs, Epoch(blobs)
  PROVE  /\ IsFiniteSet(Hashes(blobs)) /\ Hashes(blobs) \in SUBSET Int
         /\ \A h : h \in Hashes(blobs) <=> \E i \in DOMAIN blobs : blobs[i].hash = h
<1> DEFINE H == Hashes(blobs)
           D == DOMAIN blobs
           f == [i \in D |-> blobs[i].hash]
<1>1. \A h : h \in H <=> \E i \in D : blobs[i].hash = h
  BY DEF Hashes, ToSet
<1>2. IsFiniteSet(D)
  BY BlobFields, FS_Interval
<1>3. \A i \in D : blobs[i].hash \in Int
  BY BlobFields, Zenon
<1> HIDE DEF H, D
<1>4. f \in [D -> H] /\ \A h \in H : \E i \in D : f[i] = h
  BY <1>1, Zenon
<1> HIDE DEF f
<1>5. f \in Surjection(D, H)
  BY <1>4, Zenon DEF Surjection
<1>6. IsFiniteSet(H)
  BY <1>2, <1>5, FS_Surjection, Zenon
<1>7. H \in SUBSET Int
  BY <1>1, <1>3, Zenon
<1>8. QED
  BY <1>1, <1>6, <1>7, Zenon DEF H, D

(* The entry of a hash.                                                    *)
Entry(blobs, metas, h) ==
  [hash |-> h,
   metas |-> [k \in DOMAIN Occurrences(blobs, h) |-> metas[Occurrences(blobs, h)[k]]]]

(* The groups are the entries of the hashes, in ascending order.           *)
LEMMA GroupsFacts ==
  ASSUME NEW blobs, NEW metas, Epoch(blobs)
  PROVE  LET groups == groupByVersionedHash(blobs, metas)
             n == Cardinality(Hashes(blobs))
         IN  /\ n \in Nat
             /\ groups = [g \in 1 .. n |-> Entry(blobs, metas, Ascending(Hashes(blobs))[g])]
             /\ groups \in Seq(ToSet(groups)) /\ Len(groups) = n
             /\ ToSet(groups) = {Entry(blobs, metas, h) : h \in Hashes(blobs)}
<1> DEFINE H == Hashes(blobs)
           n == Cardinality(H)
           hs == Ascending(H)
           groups == groupByVersionedHash(blobs, metas)
<1>1. IsFiniteSet(H) /\ H \in SUBSET Int
  BY HashesFinite
<1>2. n \in Nat /\ hs \in [1 .. n -> H] /\ \A h \in H : \E k \in 1 .. n : hs[k] = h
  <2> HIDE DEF H
  <2>1. QED
    BY <1>1, AscendingFacts
<1>3. groups = [g \in DOMAIN hs |-> Entry(blobs, metas, hs[g])]
  BY DEF groupByVersionedHash, Entry, Occurrences, Hashes
<1> HIDE DEF H, n, hs, groups
<1>4. groups = [g \in 1 .. n |-> Entry(blobs, metas, hs[g])]
  BY <1>2, <1>3
<1>5. DOMAIN groups = 1 .. n /\ \A g \in 1 .. n : groups[g] = Entry(blobs, metas, hs[g])
  BY <1>4
<1>6. ToSet(groups) = {Entry(blobs, metas, h) : h \in H}
  <2>1. ASSUME NEW x \in ToSet(groups) PROVE x \in {Entry(blobs, metas, h) : h \in H}
    <3>1. PICK g \in 1 .. n : x = groups[g]
      BY <1>5 DEF ToSet
    <3>2. hs[g] \in H /\ x = Entry(blobs, metas, hs[g])
      BY <1>2, <1>5, <3>1
    <3>3. QED
      BY <3>2
  <2>2. ASSUME NEW h \in H PROVE Entry(blobs, metas, h) \in ToSet(groups)
    <3>1. PICK k \in 1 .. n : hs[k] = h
      BY <1>2
    <3>2. groups[k] = Entry(blobs, metas, h) /\ k \in DOMAIN groups
      BY <1>5, <3>1
    <3>3. QED
      BY <3>2 DEF ToSet
  <2>3. QED
    BY <2>1, <2>2
<1>7. groups \in Seq(ToSet(groups)) /\ Len(groups) = n
  <2> DEFINE T == ToSet(groups)
  <2>1. \A g \in 1 .. n : groups[g] \in T
    BY <1>5, Zenon DEF ToSet
  <2> HIDE DEF T
  <2>2. groups \in [1 .. n -> T]
    BY <1>4, <1>5, <2>1, Zenon
  <2>3. groups \in Seq(T) /\ Len(groups) = n
    BY <1>2, <2>2
  <2>4. QED
    BY <2>3, Zenon DEF T
<1>8. QED
  BY <1>2, <1>4, <1>6, <1>7, Zenon DEF H, n, hs, groups

(* Multiplication preserves the order.                                     *)
LEMMA TimesMonotone ==
  ASSUME NEW a \in Nat, NEW b \in Nat, NEW c \in Nat, a <= b
  PROVE  a * c <= b * c
OBVIOUS

(* Every place of the list of groups is in a shard.                        *)
LEMMA ShardOf ==
  ASSUME NEW n \in Nat, NEW z \in Nat, z > 0, NEW g \in 1 .. n
  PROVE  \E s \in 1 .. (n + z - 1) \div z : (s - 1) * z + 1 <= g /\ g <= s * z
<1> DEFINE q == (g - 1) \div z
           M == (n + z - 1) \div z
<1>1. q \in Nat /\ q * z <= g - 1 /\ g - 1 < q * z + z
  BY PageStart
<1>2. M \in Nat /\ M * z <= n + z - 1 /\ n + z - 1 < M * z + z
  BY PageStart
<1> HIDE DEF q, M
<1>3. q + 1 <= M
  <2> SUFFICES ASSUME M <= q PROVE FALSE
    BY <1>1, <1>2
  <2>1. M * z <= q * z
    BY <1>1, <1>2, TimesMonotone, Zenon
  <2>2. M * z \in Nat /\ q * z \in Nat
    BY <1>1, <1>2
  <2>3. QED
    BY <1>1, <1>2, <2>1, <2>2
<1>4. (q + 1) * z = q * z + z /\ q * z \in Nat
  BY <1>1
<1> DEFINE s == q + 1
<1>5. s \in 1 .. M /\ s - 1 = q
  BY <1>1, <1>2, <1>3
<1>6. (s - 1) * z + 1 <= g /\ g <= s * z
  BY <1>1, <1>4, <1>5
<1> HIDE DEF s
<1>7. QED
  BY <1>5, <1>6, Zenon DEF M

(* buildHAMTBlobIndex puts every group into a shard and adds none.         *)
LEMMA ShardsCover ==
  ASSUME NEW T, NEW groups \in Seq(T), NEW x
  PROVE  (\E s \in ToSet(Shards(groups)) : x \in ToSet(s)) <=> x \in ToSet(groups)
<1> DEFINE n == Len(groups)
           z == ShardSize
           M == (n + z - 1) \div z
           from(s) == (s - 1) * z + 1
           to(s) == IF s * z > n THEN n ELSE s * z
<1>1. n \in Nat /\ z \in Nat /\ z > 0 /\ DOMAIN groups = 1 .. n
  BY DagAssumption
<1>2. Shards(groups) = [s \in 1 .. M |-> SubSeq(groups, from(s), to(s))]
  BY Zenon DEF Shards
<1> HIDE DEF n, z, M
<1>3. ASSUME NEW s \in 1 .. M
      PROVE  /\ from(s) \in Nat /\ from(s) >= 1 /\ to(s) \in Nat /\ to(s) <= n
             /\ DOMAIN SubSeq(groups, from(s), to(s)) = 1 .. to(s) - from(s) + 1
             /\ \A i \in 1 .. to(s) - from(s) + 1 :
                  SubSeq(groups, from(s), to(s))[i] = groups[from(s) + i - 1]
  <2>1. s \in Nat /\ s - 1 \in Nat
    BY <1>1
  <2>2. (s - 1) * z \in Nat /\ s * z \in Nat
    BY <1>1, <2>1
  <2>3. from(s) \in Nat /\ from(s) >= 1 /\ to(s) \in Nat /\ to(s) <= n
    BY <1>1, <2>2
  <2> DEFINE a == from(s)
             b == to(s)
  <2> HIDE DEF a, b
  <2>4. a \in Nat /\ a >= 1 /\ b \in Nat /\ b <= Len(groups)
    BY <2>3, Zenon DEF a, b, n
  <2>5. DOMAIN SubSeq(groups, a, b) = 1 .. b - a + 1
    BY <2>4
  <2>6. \A i \in 1 .. b - a + 1 : SubSeq(groups, a, b)[i] = groups[a + i - 1]
    BY <2>4
  <2>7. QED
    BY <2>3, <2>5, <2>6, Zenon DEF a, b
<1>4. ASSUME NEW s \in ToSet(Shards(groups)), x \in ToSet(s) PROVE x \in ToSet(groups)
  <2>1. PICK k \in 1 .. M : s = SubSeq(groups, from(k), to(k))
    BY <1>2, Zenon DEF ToSet
  <2> DEFINE a == from(k)
             b == to(k)
  <2>2. a \in Nat /\ a >= 1 /\ b \in Nat /\ b <= n
    BY <1>3, Zenon
  <2>3. DOMAIN s = 1 .. b - a + 1 /\ \A i \in 1 .. b - a + 1 : s[i] = groups[a + i - 1]
    BY <1>3, <2>1, Zenon
  <2> HIDE DEF a, b
  <2>4. PICK i \in 1 .. b - a + 1 : x = groups[a + i - 1]
    BY <1>4, <2>3 DEF ToSet
  <2>5. a + i - 1 \in 1 .. n
    BY <1>1, <2>2
  <2>6. QED
    BY <1>1, <2>4, <2>5, Zenon DEF ToSet
<1>5. ASSUME x \in ToSet(groups) PROVE \E s \in ToSet(Shards(groups)) : x \in ToSet(s)
  <2>1. PICK g \in 1 .. n : x = groups[g]
    BY <1>1, <1>5 DEF ToSet
  <2>2. PICK k \in 1 .. M : (k - 1) * z + 1 <= g /\ g <= k * z
    BY <1>1, ShardOf, Zenon DEF M
  <2> DEFINE a == from(k)
             b == to(k)
             s == SubSeq(groups, a, b)
             i == g - a + 1
  <2>3. a <= g /\ g <= b
    BY <1>1, <2>2
  <2>4. a \in Nat /\ a >= 1 /\ b \in Nat /\ b <= n
    BY <1>3, Zenon
  <2>5. DOMAIN s = 1 .. b - a + 1 /\ \A j \in 1 .. b - a + 1 : s[j] = groups[a + j - 1]
    BY <1>3, Zenon
  <2>6. s \in ToSet(Shards(groups))
    BY <1>2, Zenon DEF ToSet
  <2> HIDE DEF a, b, s
  <2>7. i \in 1 .. b - a + 1 /\ a + i - 1 = g
    BY <1>1, <2>3, <2>4
  <2> HIDE DEF i
  <2>8. x \in ToSet(s)
    BY <2>1, <2>5, <2>7, Zenon DEF ToSet
  <2>9. QED
    BY <2>6, <2>8, Zenon
<1>6. QED
  BY <1>4, <1>5

(* A reader of the node finds the entry of a hash, and nothing else.       *)
LEMMA IndexLookup ==
  ASSUME NEW blobs, NEW metas, Epoch(blobs), NEW h \in Hashes(blobs)
  PROVE  Lookup(BuildEpochNode(blobs, metas), h) = {Entry(blobs, metas, h).metas}
<1> DEFINE groups == groupByVersionedHash(blobs, metas)
           node == BuildEpochNode(blobs, metas)
           T == ToSet(groups)
<1>1. groups \in Seq(T) /\ T = {Entry(blobs, metas, g) : g \in Hashes(blobs)}
  BY GroupsFacts, Zenon
<1>2. node.shards = Shards(groups) \/ node.shards = <<groups>>
  BY Zenon DEF BuildEpochNode
<1> HIDE DEF groups, node
<1>3. ASSUME NEW x PROVE (\E s \in ToSet(node.shards) : x \in ToSet(s)) <=> x \in T
  <2>1. CASE node.shards = Shards(groups)
    BY <1>1, <2>1, ShardsCover, Zenon
  <2>2. CASE node.shards = <<groups>>
    <3>1. ToSet(node.shards) = {groups}
      BY <2>2 DEF ToSet
    <3>2. QED
      BY <3>1
  <2>3. QED
    BY <1>2, <2>1, <2>2, Zenon
<1> HIDE DEF T
<1>4. \A g : Entry(blobs, metas, g).hash = g
  BY DEF Entry
<1> DEFINE found == {x \in UNION {ToSet(s) : s \in ToSet(node.shards)} : x.hash = h}
<1>5. \A x : x \in found <=> x \in T /\ x.hash = h
  BY <1>3
<1>6. \A x : x \in found <=> x = Entry(blobs, metas, h)
  BY <1>1, <1>4, <1>5
<1>7. Lookup(node, h) = {g.metas : g \in found}
  BY DEF Lookup
<1> HIDE DEF found
<1>8. found = {Entry(blobs, metas, h)}
  BY <1>6
<1>9. QED
  BY <1>7, <1>8 DEF node

(* For epochs of any size, below the threshold and above it: under every   *)
(* versioned hash the node has the metadata of exactly its occurrences, in *)
(* the order of slot and index. The metadata of a blob is its place here.  *)
THEOREM EpochIndex ==
  ASSUME NEW blobs, Epoch(blobs), NEW h \in Hashes(blobs)
  PROVE  LET node == BuildEpochNode(blobs, [i \in DOMAIN blobs |-> i])
         IN  \E m \in Lookup(node, h) :
               /\ Lookup(node, h) = {m}
               /\ IsInjective(m)
               /\ ToSet(m) = {i \in DOMAIN blobs : blobs[i].hash = h}
               /\ \A k, l \in DOMAIN m : k < l => Before(blobs[m[k]], blobs[m[l]])
<1> DEFINE metas == [i \in DOMAIN blobs |-> i]
           node == BuildEpochNode(blobs, metas)
           P == Places(blobs, h)
           n == Cardinality(P)
           o == Occurrences(blobs, h)
           m == Entry(blobs, metas, h).metas
<1>1. Lookup(node, h) = {m}
  BY IndexLookup
<1>2. /\ n \in Nat /\ DOMAIN o = 1 .. n /\ o \in [1 .. n -> P]
      /\ \A i \in P : \E k \in 1 .. n : o[k] = i
      /\ \A k, l \in 1 .. n : k < l => Before(blobs[o[k]], blobs[o[l]])
      /\ \A k, l \in 1 .. n : o[k] = o[l] => k = l
  BY OccurrencesFacts
<1>3. m = [k \in DOMAIN o |-> metas[o[k]]]
  BY DEF Entry
<1>4. \A i \in P : metas[i] = i
  BY DEF Places
<1> HIDE DEF metas, node, o, m, n
<1>5. P = {i \in DOMAIN blobs : blobs[i].hash = h}
  BY DEF Places
<1> HIDE DEF P
<1>6. DOMAIN m = 1 .. n /\ \A k \in 1 .. n : m[k] = o[k] /\ o[k] \in P
  BY <1>2, <1>3, <1>4
<1>7. IsInjective(m)
  BY <1>2, <1>6 DEF IsInjective
<1>8. ToSet(m) = P
  <2>1. \A i \in ToSet(m) : i \in P
    BY <1>6, Zenon DEF ToSet
  <2>2. \A i \in P : i \in ToSet(m)
    BY <1>2, <1>6 DEF ToSet
  <2>3. QED
    BY <2>1, <2>2
<1>9. \A k, l \in DOMAIN m : k < l => Before(blobs[m[k]], blobs[m[l]])
  BY <1>2, <1>6
<1>10. m \in Lookup(node, h)
  BY <1>1
<1>11. QED
  BY <1>1, <1>5, <1>7, <1>8, <1>9, <1>10, Zenon DEF node, metas

(* A permutation of the blobs of an epoch reaches all of them.             *)
LEMMA PermutationOnto ==
  ASSUME NEW D, IsFiniteSet(D), NEW p \in [D -> D], IsInjective(p)
  PROVE  \A j \in D : \E i \in D : p[i] = j
<1>1. p \in Injection(D, D)
  BY DEF Injection
<1>2. p \in Surjection(D, D)
  BY <1>1, FS_Injection
<1>3. QED
  BY <1>2, Zenon DEF Surjection

(* An injection onto a finite set leaves the number of elements.           *)
LEMMA SameSize ==
  ASSUME NEW D, NEW p \in [D -> D], IsInjective(p), NEW A \in SUBSET D, NEW B \in SUBSET D,
         IsFiniteSet(A), \A i \in A : p[i] \in B, \A j \in B : \E i \in A : p[i] = j
  PROVE  Cardinality(A) = Cardinality(B)
<1> DEFINE f == [i \in A |-> p[i]]
<1>1. f \in [A -> B] /\ \A i \in A : f[i] = p[i]
  BY Zenon
<1> HIDE DEF f
<1>2. f \in Surjection(A, B)
  BY <1>1, Zenon DEF Surjection
<1>3. f \in Injection(A, B)
  BY <1>1 DEF Injection, IsInjective
<1>4. QED
  BY <1>2, <1>3, FS_Surjection, Zenon

(* The blobs in another order.                                             *)
Permuted(blobs, p) == [i \in DOMAIN blobs |-> blobs[p[i]]]

(* They are the blobs of the same epoch.                                   *)
LEMMA PermutedEpoch ==
  ASSUME NEW blobs, Epoch(blobs), NEW p \in [DOMAIN blobs -> DOMAIN blobs], IsInjective(p)
  PROVE  /\ Epoch(Permuted(blobs, p)) /\ DOMAIN Permuted(blobs, p) = DOMAIN blobs
         /\ \A i \in DOMAIN blobs : Permuted(blobs, p)[i] = blobs[p[i]]
         /\ Hashes(Permuted(blobs, p)) = Hashes(blobs)
<1> DEFINE D == DOMAIN blobs
           c == Permuted(blobs, p)
           n == Len(blobs)
<1>1. n \in Nat /\ D = 1 .. n /\ \A i \in D : blobs[i] \in Blob
  BY DEF Epoch
<1>2. DOMAIN c = D /\ \A i \in D : c[i] = blobs[p[i]] /\ p[i] \in D
  BY DEF Permuted
<1>3. IsFiniteSet(D)
  BY <1>1, FS_Interval
<1>4. \A j \in D : \E i \in D : p[i] = j
  BY <1>3, PermutationOnto
<1>5. c \in [D -> Blob]
  BY <1>1, <1>2 DEF Permuted
<1> HIDE DEF c, n
<1>6. c \in Seq(Blob)
  BY <1>1, <1>5
<1>7. \A i, j \in D : i # j => c[i].slot # c[j].slot \/ c[i].index # c[j].index
  <2> SUFFICES ASSUME NEW i \in D, NEW j \in D, i # j
               PROVE  c[i].slot # c[j].slot \/ c[i].index # c[j].index
    BY Zenon
  <2>1. p[i] \in D /\ p[j] \in D /\ p[i] # p[j]
    BY Zenon DEF IsInjective
  <2>2. QED
    BY <1>2, <2>1 DEF Epoch
<1>8. Epoch(c)
  BY <1>2, <1>6, <1>7 DEF Epoch
<1>9. Hashes(c) = Hashes(blobs)
  <2>1. \A h : h \in Hashes(blobs) <=> \E i \in D : blobs[i].hash = h
    BY HashesFinite, Zenon
  <2>2. \A h : h \in Hashes(c) <=> \E i \in D : c[i].hash = h
    BY <1>2, <1>8, HashesFinite
  <2>3. \A h : h \in Hashes(c) <=> h \in Hashes(blobs)
    BY <1>2, <1>4, <2>1, <2>2
  <2>4. QED
    BY <2>3
<1>10. QED
  BY <1>2, <1>8, <1>9, Zenon DEF c

(* A permutation takes the occurrences of a hash to its occurrences, and   *)
(* keeps their number and their ranks.                                     *)
LEMMA PermutedRank ==
  ASSUME NEW blobs, Epoch(blobs), NEW p \in [DOMAIN blobs -> DOMAIN blobs], IsInjective(p), NEW h
  PROVE  LET c == Permuted(blobs, p)
         IN  /\ Cardinality(Places(c, h)) = Cardinality(Places(blobs, h))
             /\ \A i \in Places(c, h) :
                  /\ i \in DOMAIN blobs /\ p[i] \in Places(blobs, h)
                  /\ Rank(ByPlace(c, h), Places(c, h), i)
                       = Rank(ByPlace(blobs, h), Places(blobs, h), p[i])
<1> DEFINE D == DOMAIN blobs
           c == Permuted(blobs, p)
           P == Places(blobs, h)
           Q == Places(c, h)
<1>1. Epoch(c) /\ DOMAIN c = D /\ \A i \in D : c[i] = blobs[p[i]] /\ p[i] \in D
  BY PermutedEpoch
<1>2. IsFiniteSet(D)
  <2>1. Len(blobs) \in Nat /\ D = 1 .. Len(blobs)
    BY BlobFields, Zenon
  <2>2. QED
    BY <2>1, FS_Interval
<1>3. \A j \in D : \E i \in D : p[i] = j
  BY <1>2, PermutationOnto
<1> HIDE DEF c
<1>4. P \in SUBSET D /\ Q \in SUBSET D /\ \A i \in D : i \in Q <=> p[i] \in P
  BY <1>1 DEF Places
<1>5. \A i \in P, j \in P : <<i, j>> \in ByPlace(blobs, h) <=> Before(blobs[i], blobs[j])
  BY DEF ByPlace
<1>6. \A i \in Q, j \in Q : <<i, j>> \in ByPlace(c, h) <=> Before(blobs[p[i]], blobs[p[j]])
  BY <1>1, <1>4 DEF ByPlace
<1> HIDE DEF D, P, Q
<1>7. IsFiniteSet(Q)
  BY <1>2, <1>4, FS_Subset
<1>8. Cardinality(Q) = Cardinality(P)
  <2>1. \A j \in P : \E i \in Q : p[i] = j
    BY <1>3, <1>4, Zenon
  <2>2. \A i \in Q : p[i] \in P
    BY <1>4, Zenon
  <2>3. QED
    BY <1>4, <1>7, <2>1, <2>2, SameSize DEF D
<1>9. ASSUME NEW i \in Q
      PROVE  /\ i \in D /\ p[i] \in P
             /\ Rank(ByPlace(c, h), Q, i) = Rank(ByPlace(blobs, h), P, p[i])
  <2> DEFINE A == Below(ByPlace(c, h), Q, i)
             B == Below(ByPlace(blobs, h), P, p[i])
  <2>1. i \in D /\ p[i] \in P
    BY <1>4, Zenon
  <2>2. A \in SUBSET Q /\ \A j \in Q : j \in A <=> Before(blobs[p[j]], blobs[p[i]])
    BY <1>6, Zenon DEF Below
  <2>3. B \in SUBSET P /\ \A j \in P : j \in B <=> Before(blobs[j], blobs[p[i]])
    BY <1>5, <2>1, Zenon DEF Below
  <2> HIDE DEF A, B
  <2>4. A \in SUBSET D /\ B \in SUBSET D
    BY <1>4, <2>2, <2>3, Zenon
  <2>5. IsFiniteSet(A)
    BY <1>7, <2>2, FS_Subset, Zenon
  <2>6. \A j \in A : p[j] \in B
    BY <1>4, <2>2, <2>3, Zenon
  <2>7. \A k \in B : \E j \in A : p[j] = k
    BY <1>3, <1>4, <2>2, <2>3
  <2>8. Cardinality(A) = Cardinality(B)
    BY <2>4, <2>5, <2>6, <2>7, SameSize DEF D
  <2>9. QED
    BY <2>1, <2>8, Zenon DEF Rank, A, B
<1>10. QED
  BY <1>8, <1>9, Zenon DEF c, D, P, Q

(* The entry of a hash does not depend on the order of the blobs.          *)
LEMMA PermutedEntry ==
  ASSUME NEW blobs, Epoch(blobs), NEW p \in [DOMAIN blobs -> DOMAIN blobs], IsInjective(p),
         NEW metas, NEW h
  PROVE  Entry(Permuted(blobs, p), [i \in DOMAIN blobs |-> metas[p[i]]], h)
           = Entry(blobs, metas, h)
<1> DEFINE c == Permuted(blobs, p)
           mp == [i \in DOMAIN blobs |-> metas[p[i]]]
           P == Places(blobs, h)
           Q == Places(c, h)
           n == Cardinality(P)
           o == Occurrences(blobs, h)
           q == Occurrences(c, h)
           RP == ByPlace(blobs, h)
           RQ == ByPlace(c, h)
<1>1. Epoch(c)
  BY PermutedEpoch, Zenon
<1>2. /\ Cardinality(Q) = n
      /\ \A i \in Q : /\ i \in DOMAIN blobs /\ p[i] \in P
                      /\ Rank(RQ, Q, i) = Rank(RP, P, p[i])
  BY PermutedRank
<1>3. IsFiniteSet(P) /\ Orders(RP, P) /\ Lists(o, RP, P)
  BY PlacesOrder, OccurrencesList
<1>4. Lists(q, RQ, Q)
  <2> HIDE DEF c
  <2>1. QED
    BY <1>1, OccurrencesList
<1>5. \A i \in DOMAIN blobs : mp[i] = metas[p[i]]
  OBVIOUS
<1> HIDE DEF c, mp, P, Q, o, q, RP, RQ
<1>6. /\ DOMAIN o = 1 .. n /\ \A k \in 1 .. n : o[k] \in P /\ Rank(RP, P, o[k]) = k - 1
  BY <1>3, Zenon DEF Lists
<1>7. /\ DOMAIN q = 1 .. n /\ \A k \in 1 .. n : q[k] \in Q /\ Rank(RQ, Q, q[k]) = k - 1
  BY <1>2, <1>4, Zenon DEF Lists
<1> HIDE DEF n
<1>8. ASSUME NEW k \in 1 .. n PROVE mp[q[k]] = metas[o[k]]
  <2>1. q[k] \in DOMAIN blobs /\ p[q[k]] \in P /\ Rank(RP, P, p[q[k]]) = Rank(RP, P, o[k])
    BY <1>2, <1>6, <1>7, Zenon
  <2>2. p[q[k]] = o[k]
    BY <1>3, <1>6, <2>1, RankOnto
  <2>3. QED
    BY <1>5, <2>1, <2>2, Zenon
<1>9. [k \in DOMAIN q |-> mp[q[k]]] = [k \in DOMAIN o |-> metas[o[k]]]
  BY <1>6, <1>7, <1>8, Zenon
<1>10. QED
  BY <1>9, Zenon DEF Entry, c, mp, o, q

(* For epochs of any size: the node, and with it the root CID, is the same *)
(* for every order in which the blobs and their metadata are handed over.  *)
THEOREM NodeOrderIndependent ==
  ASSUME NEW blobs, Epoch(blobs), NEW p \in [DOMAIN blobs -> DOMAIN blobs], IsInjective(p),
         NEW metas, DOMAIN metas = DOMAIN blobs
  PROVE  BuildEpochNode([i \in DOMAIN blobs |-> blobs[p[i]]], [i \in DOMAIN blobs |-> metas[p[i]]])
           = BuildEpochNode(blobs, metas)
<1> DEFINE c == Permuted(blobs, p)
           mp == [i \in DOMAIN blobs |-> metas[p[i]]]
           n == Cardinality(Hashes(blobs))
<1>1. Epoch(c) /\ Hashes(c) = Hashes(blobs)
  BY PermutedEpoch, Zenon
<1>2. groupByVersionedHash(blobs, metas)
        = [g \in 1 .. n |-> Entry(blobs, metas, Ascending(Hashes(blobs))[g])]
  BY GroupsFacts
<1>3. groupByVersionedHash(c, mp)
        = [g \in 1 .. n |-> Entry(c, mp, Ascending(Hashes(blobs))[g])]
  <2> HIDE DEF c, mp
  <2>1. groupByVersionedHash(c, mp)
          = [g \in 1 .. Cardinality(Hashes(c)) |-> Entry(c, mp, Ascending(Hashes(c))[g])]
    BY <1>1, GroupsFacts
  <2>2. QED
    BY <1>1, <2>1
<1>4. \A h : Entry(c, mp, h) = Entry(blobs, metas, h)
  BY PermutedEntry
<1> HIDE DEF mp
<1>5. groupByVersionedHash(c, mp) = groupByVersionedHash(blobs, metas)
  BY <1>2, <1>3, <1>4, Zenon
<1>6. Len(mp) = Len(metas)
  <2>1. DOMAIN mp = DOMAIN metas
    BY Zenon DEF mp
  <2>2. Len(blobs) \in Nat /\ DOMAIN blobs = 1 .. Len(blobs)
    BY BlobFields, Zenon
  <2>3. QED
    BY <2>1, <2>2
<1>7. BuildEpochNode(c, mp) = BuildEpochNode(blobs, metas)
  BY <1>5, <1>6, Zenon DEF BuildEpochNode
<1>8. QED
  BY <1>7, Zenon DEF c, mp, Permuted

=============================================================================
