---------------------------- MODULE RankingProofs ----------------------------
(* The sort, the fusion of two searches, the fit score and the cuts, for   *)
(* any lists, limits and metrics, where TLC sees small lists and samples.  *)
EXTENDS Ranking, FiniteSetTheorems, SequenceTheorems, TLAPS

(***************************************************************************)
(* Sorting a finite set by a strict order.                                 *)
(***************************************************************************)

StrictOrder(S, R) ==
    /\ \A x \in S : <<x, x>> \notin R
    /\ \A x, y, z \in S : <<x, y>> \in R /\ <<y, z>> \in R => <<x, z>> \in R
    /\ \A x, y \in S : x # y => <<x, y>> \in R \/ <<y, x>> \in R

Before(d, S, R) == Cardinality(Predecessors(d, S, R))

LEMMA BeforeIsLess ==
    ASSUME NEW S, IsFiniteSet(S), NEW R, StrictOrder(S, R), NEW d \in S
    PROVE  /\ IsFiniteSet(Predecessors(d, S, R))
           /\ Before(d, S, R) \in Nat
           /\ Cardinality(S) \in Nat
           /\ Before(d, S, R) < Cardinality(S)
<1> DEFINE P == Predecessors(d, S, R)
<1>1. P \subseteq S /\ d \notin P
  BY DEF Predecessors, StrictOrder
<1>2. IsFiniteSet(P) /\ Cardinality(P) <= Cardinality(S)
      /\ (Cardinality(S) = Cardinality(P) => S = P)
  BY <1>1, FS_Subset
<1>3. Cardinality(P) \in Nat /\ Cardinality(S) \in Nat
  BY <1>2, FS_CardinalityType
<1>4. Cardinality(P) # Cardinality(S)
  BY <1>1, <1>2
<1> HIDE DEF P
<1>5. Cardinality(P) < Cardinality(S)
  BY <1>2, <1>3, <1>4, SMT
<1> QED
  BY <1>2, <1>3, <1>5 DEF Before, P

\* Who comes earlier in the order has fewer before him.
LEMMA BeforeFollowsOrder ==
    ASSUME NEW S, IsFiniteSet(S), NEW R, StrictOrder(S, R),
           NEW x \in S, NEW y \in S, <<x, y>> \in R
    PROVE  Before(x, S, R) < Before(y, S, R)
<1> DEFINE A == Predecessors(x, S, R)
           B == Predecessors(y, S, R)
<1>1. A \subseteq B /\ x \in B /\ x \notin A
  BY DEF Predecessors, StrictOrder
<1>2. IsFiniteSet(B) /\ Cardinality(A) \in Nat /\ Cardinality(B) \in Nat
  BY BeforeIsLess DEF Before
<1>3. Cardinality(A) <= Cardinality(B) /\ Cardinality(A) # Cardinality(B)
  BY <1>1, <1>2, FS_Subset
<1> HIDE DEF A, B
<1>4. Cardinality(A) < Cardinality(B)
  BY <1>2, <1>3, SMT
<1> QED
  BY <1>4 DEF Before, A, B

LEMMA OrderFollowsBefore ==
    ASSUME NEW S, IsFiniteSet(S), NEW R, StrictOrder(S, R),
           NEW x \in S, NEW y \in S
    PROVE  /\ Before(x, S, R) < Before(y, S, R) => <<x, y>> \in R
           /\ Before(x, S, R) = Before(y, S, R) => x = y
<1>1. Before(x, S, R) \in Nat /\ Before(y, S, R) \in Nat
  BY BeforeIsLess
<1>2. /\ <<x, y>> \in R => Before(x, S, R) < Before(y, S, R)
      /\ <<y, x>> \in R => Before(y, S, R) < Before(x, S, R)
  BY BeforeFollowsOrder
<1>3. x # y => <<x, y>> \in R \/ <<y, x>> \in R
  BY DEF StrictOrder
<1> QED
  BY <1>1, <1>2, <1>3, SMT

\* Every place of the sorted list is somebody's: places are injective, and
\* there are as many of them as elements.
LEMMA EveryPlaceIsTaken ==
    ASSUME NEW S, IsFiniteSet(S), NEW R, StrictOrder(S, R),
           NEW i \in 1 .. Cardinality(S)
    PROVE  \E d \in S : Before(d, S, R) = i - 1
<1> DEFINE N == Cardinality(S)
           T == 0 .. N - 1
           f == [d \in S |-> Before(d, S, R)]
<1>1. N \in Nat
  BY FS_CardinalityType
<1>2. IsFiniteSet(T) /\ Cardinality(T) = N
  <2>1. N - 1 \in Int /\ 0 \in Int /\ (IF 0 > N - 1 THEN 0 ELSE (N - 1) - 0 + 1) = N
    BY <1>1, SMT
  <2> QED
    BY <2>1, FS_Interval
<1>3. f \in [S -> T]
  <2>1. ASSUME NEW d \in S
        PROVE  Before(d, S, R) \in T
    <3>1. Before(d, S, R) \in Nat /\ Before(d, S, R) < N
      BY BeforeIsLess
    <3> QED
      BY <1>1, <3>1, SMT
  <2> QED
    BY <2>1
<1>4. \A x, y \in S : f[x] = f[y] => x = y
  BY OrderFollowsBefore
<1>5. f \in Injection(S, T)
  BY <1>3, <1>4 DEF Injection, IsInjective
<1>6. f \in Surjection(S, T)
  BY <1>2, <1>5, FS_Injection
<1>7. i - 1 \in T
  BY <1>1, SMT
<1> QED
  BY <1>6, <1>7 DEF Surjection

\* What Python's sort gives, in terms of how many come before.
LEMMA SortedIs ==
    ASSUME NEW S, IsFiniteSet(S), NEW R, StrictOrder(S, R)
    PROVE  /\ Cardinality(S) \in Nat
           /\ Sorted(S, R) \in [1 .. Cardinality(S) -> S]
           /\ \A i \in 1 .. Cardinality(S) : Before(Sorted(S, R)[i], S, R) = i - 1
           /\ \A d \in S : /\ Before(d, S, R) + 1 \in 1 .. Cardinality(S)
                           /\ Sorted(S, R)[Before(d, S, R) + 1] = d
<1> DEFINE N == Cardinality(S)
           s == Sorted(S, R)
<1>1. N \in Nat
  BY FS_CardinalityType
<1>2. s = [i \in 1 .. N |-> CHOOSE d \in S : Before(d, S, R) = i - 1]
  BY DEF Sorted, Before
<1>3. ASSUME NEW i \in 1 .. N
      PROVE  s[i] \in S /\ Before(s[i], S, R) = i - 1
  <2>1. \E d \in S : Before(d, S, R) = i - 1
    BY EveryPlaceIsTaken
  <2>2. s[i] = CHOOSE d \in S : Before(d, S, R) = i - 1
    BY <1>2
  <2> QED
    BY <2>1, <2>2
<1>4. s \in [1 .. N -> S]
  BY <1>2, <1>3
<1>5. ASSUME NEW d \in S
      PROVE  Before(d, S, R) + 1 \in 1 .. N /\ s[Before(d, S, R) + 1] = d
  <2>1. Before(d, S, R) \in Nat /\ Before(d, S, R) < N
    BY BeforeIsLess
  <2>2. Before(d, S, R) + 1 \in 1 .. N /\ (Before(d, S, R) + 1) - 1 = Before(d, S, R)
    BY <1>1, <2>1, SMT
  <2>3. s[Before(d, S, R) + 1] \in S /\ Before(s[Before(d, S, R) + 1], S, R) = Before(d, S, R)
    BY <1>3, <2>2
  <2> QED
    BY <2>2, <2>3, OrderFollowsBefore
<1> QED
  BY <1>1, <1>3, <1>4, <1>5

-----------------------------------------------------------------------------
(* Lists of stocks, and the first few of a sorted one.                     *)

LEMMA IntervalEnd ==
    ASSUME NEW m \in Nat, NEW n \in Nat, 1 .. m = 1 .. n
    PROVE  m = n
<1>1. \A i \in Int : 1 <= i /\ i <= m <=> 1 <= i /\ i <= n
  <2>1. \A i \in Int : i \in 1 .. m <=> i \in 1 .. n
    OBVIOUS
  <2> QED
    BY <2>1, SMT
<1>2. (1 <= m => m <= n) /\ (1 <= n => n <= m)
  BY <1>1, SMT
<1> QED
  BY <1>2, SMT

LEMMA ListIs ==
    ASSUME NEW n \in Nat, NEW s
    PROVE  s \in Lists(n) <=> s \in Seq(Stocks) /\ Len(s) <= n /\ IsInjective(s)
<1>1. ASSUME s \in Lists(n)
      PROVE  s \in Seq(Stocks) /\ Len(s) <= n /\ IsInjective(s)
  <2>1. PICK k \in 0 .. n : s \in [1 .. k -> Stocks] /\ IsInjective(s)
    BY <1>1 DEF Lists
  <2>2. k \in Nat /\ k <= n
    BY SMT
  <2>3. s \in Seq(Stocks)
    BY <2>1, <2>2, SeqDef
  <2>4. Len(s) = k
    <3>1. Len(s) \in Nat /\ DOMAIN s = 1 .. Len(s) /\ DOMAIN s = 1 .. k
      BY <2>1, <2>3, LenProperties
    <3> QED
      BY <2>2, <3>1, IntervalEnd
  <2> QED
    BY <2>1, <2>2, <2>3, <2>4
<1>2. ASSUME s \in Seq(Stocks), Len(s) <= n, IsInjective(s)
      PROVE  s \in Lists(n)
  <2>1. Len(s) \in Nat /\ s \in [1 .. Len(s) -> Stocks]
    BY <1>2, LenProperties
  <2>2. Len(s) \in 0 .. n
    BY <1>2, <2>1, SMT
  <2>3. s \in {t \in [1 .. Len(s) -> Stocks] : IsInjective(t)}
    BY <1>2, <2>1
  <2> QED
    BY <2>2, <2>3 DEF Lists
<1> QED
  BY <1>1, <1>2

LEMMA ListDomain ==
    ASSUME NEW s \in Seq(Stocks)
    PROVE  Len(s) \in Nat /\ DOMAIN s = 1 .. Len(s) /\ ToSet(s) \subseteq Stocks
  BY LenProperties DEF ToSet

LEMMA EmptyListIs == ASSUME NEW n \in Nat PROVE <<>> \in Lists(n) /\ ToSet(<<>>) = {}
<1>1. <<>> \in Seq(Stocks) /\ Len(<<>>) = 0
  BY EmptySeq
<1>2. DOMAIN <<>> = {}
  <2>1. DOMAIN <<>> = 1 .. 0
    BY <1>1, LenProperties
  <2> QED
    BY <2>1, SMT
<1>3. IsInjective(<<>>) /\ ToSet(<<>>) = {}
  BY <1>2 DEF ToSet, IsInjective
<1>4. 0 <= n
  BY SMT
<1> QED
  BY <1>1, <1>3, <1>4, ListIs

\* The place of a stock in a list that has it once.
LEMMA RankInIs ==
    ASSUME NEW s \in Seq(Stocks), IsInjective(s), NEW d, Has(s, d)
    PROVE  /\ RankIn(d, s) \in 1 .. Len(s)
           /\ s[RankIn(d, s)] = d
           /\ \A i \in 1 .. Len(s) : s[i] = d => i = RankIn(d, s)
<1>1. \E i \in DOMAIN s : s[i] = d
  BY DEF Has, ToSet
<1>2. RankIn(d, s) \in DOMAIN s /\ s[RankIn(d, s)] = d
  BY <1>1 DEF RankIn
<1>3. DOMAIN s = 1 .. Len(s)
  BY ListDomain
<1> QED
  BY <1>2, <1>3 DEF IsInjective

\* As many stocks as places.
LEMMA ListCount ==
    ASSUME NEW s \in Seq(Stocks), IsInjective(s)
    PROVE  IsFiniteSet(ToSet(s)) /\ Cardinality(ToSet(s)) = Len(s)
<1>1. Len(s) \in Nat /\ DOMAIN s = 1 .. Len(s)
  BY ListDomain
<1>2. s \in Bijection(1 .. Len(s), ToSet(s))
  <2>1. s \in [1 .. Len(s) -> ToSet(s)]
    BY <1>1, LenProperties DEF ToSet
  <2>2. \A t \in ToSet(s) : \E i \in 1 .. Len(s) : s[i] = t
    BY <1>1 DEF ToSet
  <2> QED
    BY <2>1, <2>2 DEF Bijection, Injection, Surjection
<1>3. ExistsBijection(1 .. Len(s), ToSet(s))
  BY <1>2 DEF ExistsBijection
<1> QED
  BY <1>1, <1>3, FS_CountingElements, FS_NatBijection

LEMMA FirstOfIs ==
    ASSUME NEW s \in Seq(Stocks), NEW n \in Nat
    PROVE  LET m == IF n < Len(s) THEN n ELSE Len(s)
           IN  /\ m \in 0 .. Len(s)
               /\ FirstOf(n, s) \in Seq(Stocks)
               /\ Len(FirstOf(n, s)) = m
               /\ DOMAIN FirstOf(n, s) = 1 .. m
               /\ \A i \in 1 .. m : FirstOf(n, s)[i] = s[i]
<1> DEFINE m == IF n < Len(s) THEN n ELSE Len(s)
           t == SubSeq(s, 1, m)
<1>1. Len(s) \in Nat
  BY LenProperties
<1>2. m \in 0 .. Len(s) /\ m \in Int
  BY <1>1, SMT
<1>3. t = FirstOf(n, s)
  BY DEF FirstOf
<1> HIDE DEF m
<1>4. \A i \in 1 .. m : s[i] \in Stocks
  <2>1. \A i \in 1 .. m : i \in 1 .. Len(s)
    BY <1>1, <1>2, SMT
  <2> QED
    BY <2>1, ElementOfSeq
<1>5. /\ t \in Seq(Stocks)
      /\ Len(t) = IF 1 <= m THEN m - 1 + 1 ELSE 0
      /\ \A i \in 1 .. m - 1 + 1 : t[i] = s[1 + i - 1]
  BY <1>2, <1>4, SubSeqProperties
<1> HIDE DEF t
<1>6. Len(t) = m /\ \A i \in 1 .. m : t[i] = s[i]
  BY <1>2, <1>5, SMT
<1>7. DOMAIN t = 1 .. m
  BY <1>5, <1>6, LenProperties
<1> QED
  BY <1>2, <1>3, <1>5, <1>6, <1>7 DEF m

\* The first n of a sorted set: a list in the order, that has exactly those
\* with fewer than n before them, each at its place.
LEMMA FirstSorted ==
    ASSUME NEW S \in SUBSET Stocks, IsFiniteSet(S), NEW R, StrictOrder(S, R), NEW n \in Nat
    PROVE  LET L == FirstOf(n, Sorted(S, R))
           IN  /\ L \in Lists(n)
               /\ DOMAIN L = 1 .. Len(L)
               /\ \A i \in DOMAIN L : L[i] \in S /\ Before(L[i], S, R) = i - 1
               /\ \A d \in S : Has(L, d) <=> Before(d, S, R) < n
               /\ \A d \in S : Has(L, d) => RankIn(d, L) = Before(d, S, R) + 1
<1> DEFINE s == Sorted(S, R)
           N == Cardinality(S)
           L == FirstOf(n, s)
           m == IF n < Len(s) THEN n ELSE Len(s)
<1>1. /\ N \in Nat
      /\ s \in [1 .. N -> S]
      /\ \A i \in 1 .. N : Before(s[i], S, R) = i - 1
      /\ \A d \in S : Before(d, S, R) + 1 \in 1 .. N /\ s[Before(d, S, R) + 1] = d
  BY SortedIs
<1>2. s \in Seq(Stocks) /\ Len(s) = N
  <2>1. s \in [1 .. N -> Stocks]
    BY <1>1
  <2>2. s \in Seq(Stocks)
    BY <1>1, <2>1, SeqDef
  <2>3. Len(s) \in Nat /\ DOMAIN s = 1 .. Len(s) /\ DOMAIN s = 1 .. N
    BY <1>1, <2>2, LenProperties
  <2>4. Len(s) = N
    BY <1>1, <2>3, SMT
  <2> QED
    BY <2>2, <2>4
<1>3. /\ m \in 0 .. N
      /\ L \in Seq(Stocks)
      /\ Len(L) = m
      /\ DOMAIN L = 1 .. m
      /\ \A i \in 1 .. m : L[i] = s[i]
  BY <1>2, FirstOfIs
<1>4. \A i \in 1 .. m : i \in 1 .. N /\ i <= n
  BY <1>1, <1>2, SMT
<1>5. \A i \in 1 .. m : L[i] \in S /\ Before(L[i], S, R) = i - 1
  BY <1>1, <1>3, <1>4
<1>6. IsInjective(L)
  <2>1. ASSUME NEW i \in 1 .. m, NEW j \in 1 .. m, L[i] = L[j]
        PROVE  i = j
    <3>1. i - 1 = j - 1
      BY <1>5, <2>1
    <3>2. i \in Int /\ j \in Int
      BY SMT
    <3> QED
      BY <3>1, <3>2, SMT
  <2> QED
    BY <1>3, <2>1 DEF IsInjective
<1>7. m <= n
  BY <1>1, <1>2, SMT
<1>8. L \in Lists(n)
  BY <1>3, <1>6, <1>7, ListIs
<1>9. ASSUME NEW d \in S
      PROVE  /\ Has(L, d) => Before(d, S, R) < n /\ RankIn(d, L) = Before(d, S, R) + 1
             /\ Before(d, S, R) < n => Has(L, d)
  <2>1. /\ Before(d, S, R) \in Nat
        /\ Before(d, S, R) + 1 \in 1 .. N
        /\ s[Before(d, S, R) + 1] = d
    BY <1>1, BeforeIsLess
  <2>2. ASSUME Has(L, d)
        PROVE  Before(d, S, R) < n /\ RankIn(d, L) = Before(d, S, R) + 1
    <3>1. RankIn(d, L) \in 1 .. m /\ L[RankIn(d, L)] = d
      BY <1>3, <1>6, <2>2, RankInIs
    <3>2. Before(d, S, R) = RankIn(d, L) - 1
      BY <1>5, <3>1
    <3>3. RankIn(d, L) \in 1 .. m /\ m \in Int /\ m <= n
      BY <1>3, <1>7, <3>1, SMT
    <3> HIDE DEF m
    <3> QED
      BY <2>1, <3>2, <3>3, SMT
  <2>3. ASSUME Before(d, S, R) < n
        PROVE  Has(L, d)
    <3>1. Before(d, S, R) + 1 \in 1 .. m
      BY <1>1, <1>2, <2>1, <2>3, SMT
    <3>2. L[Before(d, S, R) + 1] = d
      BY <1>3, <2>1, <3>1
    <3> QED
      BY <1>3, <3>1, <3>2 DEF Has, ToSet
  <2> QED
    BY <2>2, <2>3
<1> QED
  BY <1>3, <1>5, <1>8, <1>9

-----------------------------------------------------------------------------
(* Sums of 1 / (k + rank) compared as fractions.                           *)

LEMMA Times ==
    ASSUME NEW a \in Nat, NEW b \in Nat, NEW k \in Nat \ {0}
    PROVE  (a >= b => a * k >= b * k) /\ (a > b => a * k > b * k)
<1>1. ASSUME a >= b
      PROVE  a * k >= b * k /\ (a > b => a * k > b * k)
  <2> DEFINE d == a - b
  <2>1. d \in Nat /\ a = b + d /\ (a > b => d >= 1)
    BY <1>1, SMT
  <2> HIDE DEF d
  <2>2. a * k = b * k + d * k /\ b * k \in Nat /\ d * k \in Nat
    BY <2>1, SMT
  <2>3. d >= 1 => d * k >= 1
    BY <2>1, SMT
  <2> QED
    BY <2>1, <2>2, <2>3, SMT
<1> QED
  BY <1>1, SMT

LEMMA Cancelled ==
    ASSUME NEW a \in Nat, NEW b \in Nat, NEW k \in Nat \ {0}
    PROVE  (a * k >= b * k => a >= b) /\ (a * k > b * k => a > b)
<1>1. (b >= a => b * k >= a * k) /\ (b > a => b * k > a * k)
  BY Times
<1>2. a * k \in Nat /\ b * k \in Nat
  BY SMT
<1> QED
  BY <1>1, <1>2, SMT

LEMMA FractionsOrdered ==
    ASSUME NEW p1 \in Nat \ {0}, NEW p2 \in Nat \ {0}, NEW q1 \in Nat \ {0},
           NEW q2 \in Nat \ {0}, NEW r1 \in Nat \ {0}, NEW r2 \in Nat \ {0},
           p1 * q2 >= q1 * p2, q1 * r2 >= r1 * q2
    PROVE  /\ p1 * r2 >= r1 * p2
           /\ p1 * q2 > q1 * p2 \/ q1 * r2 > r1 * q2 => p1 * r2 > r1 * p2
<1> DEFINE x == p1 * q2
           y == q1 * p2
           u == q1 * r2
           w == r1 * q2
           a == p1 * r2
           b == r1 * p2
<1>1. x \in Nat /\ y \in Nat /\ u \in Nat /\ w \in Nat /\ a \in Nat /\ b \in Nat
  BY SMT
<1>2. a * q2 = x * r2 /\ y * r2 = u * p2 /\ w * p2 = b * q2
  BY SMT
<1>3. x >= y /\ u >= w
  OBVIOUS
<1>4. /\ x * r2 >= y * r2 /\ (x > y => x * r2 > y * r2)
      /\ u * p2 >= w * p2 /\ (u > w => u * p2 > w * p2)
  <2> HIDE DEF x, y, u, w
  <2> QED
    BY <1>1, <1>3, Times
<1>5. (a * q2 >= b * q2 => a >= b) /\ (a * q2 > b * q2 => a > b)
  <2> HIDE DEF a, b
  <2> QED
    BY <1>1, Cancelled
<1>6. x * r2 \in Nat /\ y * r2 \in Nat /\ w * p2 \in Nat
  <2> HIDE DEF x, y, w
  <2> QED
    BY <1>1, SMT
<1> HIDE DEF x, y, u, w, a, b
<1>7. a >= b /\ (x > y \/ u > w => a > b)
  BY <1>2, <1>4, <1>5, <1>6, SMT
<1> QED
  BY <1>7 DEF x, y, u, w, a, b

\* 1/v + 1/w is more than 1/u if v and w are less than twice u.
LEMMA TwoBeatOne ==
    ASSUME NEW u \in Nat \ {0}, NEW v \in Nat \ {0}, NEW w \in Nat \ {0},
           v < 2 * u, w < 2 * u
    PROVE  (v + w) * u > v * w
<1>1. (2 * u) * w > v * w /\ (2 * u) * v > w * v
  <2>1. 2 * u \in Nat
    BY SMT
  <2> QED
    BY <2>1, Times
<1>2. (2 * u) * w = 2 * (w * u) /\ (2 * u) * v = 2 * (v * u) /\ w * v = v * w
  BY SMT
<1>3. (v + w) * u = v * u + w * u
  BY SMT
<1>4. v * u \in Nat /\ w * u \in Nat /\ v * w \in Nat
  BY SMT
<1> QED
  BY <1>1, <1>2, <1>3, <1>4, SMT

-----------------------------------------------------------------------------
(* The order of the fused list.                                            *)

Searched == byVector \in Lists(TopK) /\ byKeyword \in Lists(TopK)

InBoth(d) == Has(byVector, d) /\ Has(byKeyword, d)

LEMMA Limits == TopK \in Nat \ {0} /\ TopN \in Nat \ {0} /\ RRFK \in Nat \ {0}
                /\ TopK < RRFK + 2
  BY RankingAssumption, SMT

LEMMA ListsAre ==
    ASSUME Searched
    PROVE  /\ byVector \in Seq(Stocks) /\ Len(byVector) \in 0 .. TopK /\ IsInjective(byVector)
           /\ byKeyword \in Seq(Stocks) /\ Len(byKeyword) \in 0 .. TopK /\ IsInjective(byKeyword)
<1>1. /\ byVector \in Seq(Stocks) /\ Len(byVector) <= TopK /\ IsInjective(byVector)
      /\ byKeyword \in Seq(Stocks) /\ Len(byKeyword) <= TopK /\ IsInjective(byKeyword)
  BY ListIs, Limits DEF Searched
<1>2. Len(byVector) \in Nat /\ Len(byKeyword) \in Nat
  BY <1>1, ListDomain
<1> QED
  BY <1>1, <1>2, Limits, SMT

LEMMA FoundIs ==
    ASSUME Searched
    PROVE  /\ Found \subseteq Stocks
           /\ IsFiniteSet(Found)
           /\ \A d : d \in Found <=> Has(byVector, d) \/ Has(byKeyword, d)
<1>1. ToSet(byVector) \subseteq Stocks /\ ToSet(byKeyword) \subseteq Stocks
  BY ListsAre, ListDomain
<1>2. IsFiniteSet(ToSet(byVector)) /\ IsFiniteSet(ToSet(byKeyword))
  BY ListsAre, ListCount
<1>3. IsFiniteSet(Found)
  BY <1>2, FS_Union DEF Found
<1> QED
  BY <1>1, <1>3 DEF Found, Has

LEMMA RanksAre ==
    ASSUME Searched, NEW d
    PROVE  /\ Has(byVector, d) =>
                 /\ RankIn(d, byVector) \in 1 .. Len(byVector)
                 /\ RankIn(d, byVector) <= TopK
                 /\ byVector[RankIn(d, byVector)] = d
           /\ Has(byKeyword, d) =>
                 /\ RankIn(d, byKeyword) \in 1 .. Len(byKeyword)
                 /\ RankIn(d, byKeyword) <= TopK
                 /\ byKeyword[RankIn(d, byKeyword)] = d
<1>1. Has(byVector, d) => RankIn(d, byVector) \in 1 .. Len(byVector)
                          /\ byVector[RankIn(d, byVector)] = d
  BY ListsAre, RankInIs
<1>2. Has(byKeyword, d) => RankIn(d, byKeyword) \in 1 .. Len(byKeyword)
                           /\ byKeyword[RankIn(d, byKeyword)] = d
  BY ListsAre, RankInIs
<1>3. \A r : r \in 1 .. Len(byVector) => r <= TopK
  BY ListsAre, Limits, SMT
<1>4. \A r : r \in 1 .. Len(byKeyword) => r <= TopK
  BY ListsAre, Limits, SMT
<1> QED
  BY <1>1, <1>2, <1>3, <1>4

\* A stock that one search found has one term, and the largest only as best.
LEMMA SingleTerm ==
    ASSUME Searched, NEW d \in Found, ~InBoth(d)
    PROVE  \E u \in Nat : /\ RRF(d) = <<1, u>>
                          /\ RRFK + 1 <= u /\ u <= RRFK + TopK
                          /\ u = RRFK + 1 => \/ byVector # <<>> /\ d = byVector[1]
                                             \/ byKeyword # <<>> /\ d = byKeyword[1]
                          /\ Has(byVector, d) => u = RRFK + RankIn(d, byVector)
                          /\ Has(byKeyword, d) => u = RRFK + RankIn(d, byKeyword)
<1>1. CASE ~Has(byKeyword, d)
  <2>1. Has(byVector, d)
    BY <1>1, FoundIs
  <2>2. /\ RankIn(d, byVector) \in 1 .. Len(byVector)
        /\ RankIn(d, byVector) <= TopK
        /\ byVector[RankIn(d, byVector)] = d
    BY <2>1, RanksAre
  <2>3. byVector # <<>>
    BY <2>1, EmptyListIs, Limits DEF Has
  <2> DEFINE u == RRFK + RankIn(d, byVector)
  <2>4. RRF(d) = <<1, u>>
    BY <1>1, <2>1 DEF RRF
  <2>5. u \in Nat /\ RRFK + 1 <= u /\ u <= RRFK + TopK /\ (u = RRFK + 1 => RankIn(d, byVector) = 1)
    BY <2>2, Limits, ListsAre, SMT
  <2> QED
    BY <1>1, <2>2, <2>3, <2>4, <2>5
<1>2. CASE ~Has(byVector, d)
  <2>1. Has(byKeyword, d)
    BY <1>2, FoundIs
  <2>2. /\ RankIn(d, byKeyword) \in 1 .. Len(byKeyword)
        /\ RankIn(d, byKeyword) <= TopK
        /\ byKeyword[RankIn(d, byKeyword)] = d
    BY <2>1, RanksAre
  <2>3. byKeyword # <<>>
    BY <2>1, EmptyListIs, Limits DEF Has
  <2> DEFINE u == RRFK + RankIn(d, byKeyword)
  <2>4. RRF(d) = <<1, u>>
    BY <1>2, <2>1 DEF RRF
  <2>5. u \in Nat /\ RRFK + 1 <= u /\ u <= RRFK + TopK /\ (u = RRFK + 1 => RankIn(d, byKeyword) = 1)
    BY <2>2, Limits, ListsAre, SMT
  <2> QED
    BY <1>2, <2>2, <2>3, <2>4, <2>5
<1> QED
  BY <1>1, <1>2 DEF InBoth

LEMMA TwoTerms ==
    ASSUME Searched, NEW d \in Found, InBoth(d)
    PROVE  \E v, w \in Nat : /\ RRF(d) = <<v + w, v * w>>
                             /\ RRFK + 1 <= v /\ v <= RRFK + TopK
                             /\ RRFK + 1 <= w /\ w <= RRFK + TopK
<1> DEFINE v == RRFK + RankIn(d, byVector)
           w == RRFK + RankIn(d, byKeyword)
<1>1. /\ RankIn(d, byVector) \in 1 .. Len(byVector) /\ RankIn(d, byVector) <= TopK
      /\ RankIn(d, byKeyword) \in 1 .. Len(byKeyword) /\ RankIn(d, byKeyword) <= TopK
  BY RanksAre DEF InBoth
<1>2. RRF(d) = <<v + w, v * w>>
  BY DEF RRF, InBoth
<1>3. /\ v \in Nat /\ RRFK + 1 <= v /\ v <= RRFK + TopK
      /\ w \in Nat /\ RRFK + 1 <= w /\ w <= RRFK + TopK
  BY <1>1, Limits, ListsAre, SMT
<1> QED
  BY <1>2, <1>3

LEMMA RRFIsPositive ==
    ASSUME Searched, NEW d \in Found
    PROVE  RRF(d)[1] \in Nat \ {0} /\ RRF(d)[2] \in Nat \ {0}
<1>1. CASE InBoth(d)
  <2>1. PICK v \in Nat, w \in Nat : RRF(d) = <<v + w, v * w>> /\ RRFK + 1 <= v /\ RRFK + 1 <= w
    BY <1>1, TwoTerms
  <2>2. v \in Nat \ {0} /\ w \in Nat \ {0}
    BY <2>1, Limits, SMT
  <2>3. v + w \in Nat \ {0} /\ v * w \in Nat \ {0}
    BY <2>2, SMT
  <2> QED
    BY <2>1, <2>3
<1>2. CASE ~InBoth(d)
  <2>1. PICK u \in Nat : RRF(d) = <<1, u>> /\ RRFK + 1 <= u
    BY <1>2, SingleTerm
  <2>2. u \in Nat \ {0}
    BY <2>1, Limits, SMT
  <2> QED
    BY <2>1, <2>2
<1> QED
  BY <1>1, <1>2

LEMMA BothAbove ==
    ASSUME Searched, NEW d \in Found, NEW e \in Found, InBoth(d), ~InBoth(e)
    PROVE  Above(RRF(d), RRF(e)) /\ ~Above(RRF(e), RRF(d))
<1>1. PICK v \in Nat, w \in Nat :
          /\ RRF(d) = <<v + w, v * w>>
          /\ RRFK + 1 <= v /\ v <= RRFK + TopK
          /\ RRFK + 1 <= w /\ w <= RRFK + TopK
  BY TwoTerms
<1>2. PICK u \in Nat : RRF(e) = <<1, u>> /\ RRFK + 1 <= u
  BY SingleTerm
<1>3. /\ u \in Nat \ {0} /\ v \in Nat \ {0} /\ w \in Nat \ {0}
      /\ v < 2 * u /\ w < 2 * u
  BY <1>1, <1>2, Limits, SMT
<1>4. (v + w) * u > v * w
  BY <1>3, TwoBeatOne
<1>5. (v + w) * u \in Nat /\ v * w \in Nat /\ 1 * (v * w) = v * w
  BY <1>3, SMT
<1> QED
  BY <1>1, <1>2, <1>4, <1>5, SMT DEF Above

LEMMA EnteredIs ==
    ASSUME Searched, NEW d \in Found, NEW e \in Found
    PROVE  Entered(d) \in Nat \ {0} /\ (Entered(d) = Entered(e) => d = e)
<1>1. \A x \in Found :
          \/ /\ Has(byVector, x)
             /\ Entered(x) = RankIn(x, byVector)
             /\ RankIn(x, byVector) \in 1 .. Len(byVector)
             /\ byVector[RankIn(x, byVector)] = x
          \/ /\ ~Has(byVector, x)
             /\ Entered(x) = Len(byVector) + RankIn(x, byKeyword)
             /\ RankIn(x, byKeyword) \in 1 .. Len(byKeyword)
             /\ byKeyword[RankIn(x, byKeyword)] = x
  BY FoundIs, RanksAre DEF Entered
<1>2. Len(byVector) \in Nat /\ Len(byKeyword) \in Nat
  BY ListsAre, SMT
<1> QED
  BY <1>1, <1>2, SMT

LEMMA FusionIsStrict ==
    ASSUME Searched
    PROVE  StrictOrder(Found, FusionOrder)
<1>1. \A x, y \in Found : <<x, y>> \in FusionOrder <=> Fused(x, y)
  BY DEF FusionOrder
<1>2. ASSUME NEW x \in Found
      PROVE  ~Fused(x, x)
  <2>1. RRF(x)[1] \in Nat /\ RRF(x)[2] \in Nat /\ Entered(x) \in Nat
    BY RRFIsPositive, EnteredIs
  <2>2. RRF(x)[1] * RRF(x)[2] \in Nat
    BY <2>1, SMT
  <2> QED
    BY <2>1, <2>2, SMT DEF Fused, Above
<1>3. ASSUME NEW x \in Found, NEW y \in Found, NEW z \in Found, Fused(x, y), Fused(y, z)
      PROVE  Fused(x, z)
  <2> DEFINE xy == RRF(x)[1] * RRF(y)[2]
             yx == RRF(y)[1] * RRF(x)[2]
             yz == RRF(y)[1] * RRF(z)[2]
             zy == RRF(z)[1] * RRF(y)[2]
             xz == RRF(x)[1] * RRF(z)[2]
             zx == RRF(z)[1] * RRF(x)[2]
  <2>1. /\ RRF(x)[1] \in Nat \ {0} /\ RRF(x)[2] \in Nat \ {0}
        /\ RRF(y)[1] \in Nat \ {0} /\ RRF(y)[2] \in Nat \ {0}
        /\ RRF(z)[1] \in Nat \ {0} /\ RRF(z)[2] \in Nat \ {0}
    BY RRFIsPositive
  <2>2. {xy, yx, yz, zy, xz, zx} \subseteq Nat
    BY <2>1, SMT
  <2>3. xy >= yx /\ yz >= zy => xz >= zx /\ (xy > yx \/ yz > zy => xz > zx)
    BY <2>1, FractionsOrdered
  <2>4. /\ xy > yx \/ (~(yx > xy) /\ Entered(x) < Entered(y))
        /\ yz > zy \/ (~(zy > yz) /\ Entered(y) < Entered(z))
    BY <1>3 DEF Fused, Above
  <2>5. Entered(x) \in Nat /\ Entered(y) \in Nat /\ Entered(z) \in Nat
    BY EnteredIs
  <2>6. Fused(x, z) <=> xz > zx \/ (~(zx > xz) /\ Entered(x) < Entered(z))
    BY DEF Fused, Above
  <2> HIDE DEF xy, yx, yz, zy, xz, zx
  <2> QED
    BY <2>2, <2>3, <2>4, <2>5, <2>6, SMT
<1>4. ASSUME NEW x \in Found, NEW y \in Found, x # y
      PROVE  Fused(x, y) \/ Fused(y, x)
  <2>1. Entered(x) \in Nat /\ Entered(y) \in Nat /\ Entered(x) # Entered(y)
    BY <1>4, EnteredIs
  <2>2. Entered(x) < Entered(y) \/ Entered(y) < Entered(x)
    BY <2>1, SMT
  <2> QED
    BY <2>2 DEF Fused
<1> QED
  BY <1>1, <1>2, <1>3, <1>4 DEF StrictOrder

-----------------------------------------------------------------------------
(* The fit score, for all metrics.                                         *)

\* The numerator of the score: the valuation in 100 000ths, the others in 60ths.
Weighted(v, p, w) == 7 * Whole * v + 6 * Unit * p + 7 * Unit * w

\* r is x / d, rounded.
IsRounded(r, x, d) == r \in Int /\ 2 * d * r <= 2 * x + d /\ 2 * x + d < 2 * d * r + 2 * d

LEMMA RoundedValuation ==
    ASSUME NEW x \in 0 .. Whole
    PROVE  IsRounded(Rounded(Unit * x, Whole), Unit * x, Whole)
  BY SMT DEF Rounded, IsRounded, Whole, Unit

LEMMA RoundedScore ==
    ASSUME NEW x \in Int
    PROVE  IsRounded(Rounded(x, 20 * Whole), x, 20 * Whole)
  BY SMT DEF Rounded, IsRounded, Whole

LEMMA FitsInRange ==
    ASSUME NEW m \in Metrics, NEW level \in RiskLevels
    PROVE  /\ ValuationFit(m) \in 0 .. Whole
           /\ ProfitabilityFit(m) \in 0 .. Whole
           /\ VolatilityFit(m, level) \in 0 .. Whole
<1>1. m.per \in Int /\ m.pbr \in Int /\ m.roe \in Int /\ m.vol \in Int
  BY SMT DEF Metrics
<1>2. \A x \in Int : Clamp(x) \in 0 .. Whole
  BY SMT DEF Clamp, Whole
<1>3. ValuationFit(m) \in 0 .. Whole
  BY <1>1, <1>2, SMT DEF ValuationFit, Whole
<1>4. ProfitabilityFit(m) \in 0 .. Whole
  BY <1>1, <1>2, SMT DEF ProfitabilityFit
<1>5. Distance(m, level) \in Int
  BY <1>1, SMT DEF Distance, Low, High, RiskLevels
<1> QED
  BY <1>2, <1>3, <1>4, <1>5, SMT DEF VolatilityFit, Whole

(***************************************************************************)
(* compute_fit_score returns a score between 0 and 1, whatever the         *)
(* metrics: negative ratios, huge ones, any volatility, any risk level.    *)
(***************************************************************************)
THEOREM ScoreIsAFraction ==
    ASSUME NEW m \in Metrics, NEW level \in RiskLevels
    PROVE  Score(m, level) \in 0 .. Unit
<1> DEFINE v == Rounded(Unit * ValuationFit(m), Whole)
           x == Weighted(v, ProfitabilityFit(m), VolatilityFit(m, level))
<1>1. IsRounded(v, Unit * ValuationFit(m), Whole)
  BY FitsInRange, RoundedValuation
<1> HIDE DEF v
<1>2. /\ ValuationFit(m) \in 0 .. Whole
      /\ ProfitabilityFit(m) \in 0 .. Whole
      /\ VolatilityFit(m, level) \in 0 .. Whole
  BY FitsInRange
<1>4. v \in Int /\ 0 <= v /\ v <= Unit
  BY <1>1, <1>2, SMT DEF IsRounded, Whole, Unit
<1>5. x \in Int /\ 0 <= x /\ x <= 20 * Whole * Unit
  BY <1>2, <1>4, SMT DEF Weighted, Whole, Unit
<1>3. Score(m, level) = Rounded(x, 20 * Whole)
  BY DEF Score, Weighted, v
<1> HIDE DEF x
<1>6. IsRounded(Score(m, level), x, 20 * Whole)
  BY <1>3, <1>5, RoundedScore
<1>7. Score(m, level) \in Int /\ 0 <= Score(m, level) /\ Score(m, level) <= Unit
  BY <1>5, <1>6, SMT DEF IsRounded, Whole, Unit
<1>8. Unit \in Int
  BY DEF Unit
<1> QED
  BY <1>7, <1>8

(***************************************************************************)
(* Metrics that are on no axis worse never score less, through every edge  *)
(* of the bands, clamps and both roundings.                                *)
(***************************************************************************)
THEOREM NoWorseScoresNoLess ==
    ASSUME NEW m \in Metrics, NEW n \in Metrics, NEW level \in RiskLevels,
           NoWorse(m, n, level)
    PROVE  Score(m, level) >= Score(n, level)
<1>1. /\ m.per \in Int /\ m.pbr \in Int /\ m.roe \in Int /\ m.vol \in Int
      /\ n.per \in Int /\ n.pbr \in Int /\ n.roe \in Int /\ n.vol \in Int
  BY SMT DEF Metrics
<1>2. ValuationFit(m) >= ValuationFit(n)
  BY <1>1, SMT DEF NoWorse, ValuationFit, Clamp, Whole
<1>3. ProfitabilityFit(m) >= ProfitabilityFit(n)
  BY <1>1, SMT DEF NoWorse, ProfitabilityFit, Clamp, Whole
<1>4. VolatilityFit(m, level) >= VolatilityFit(n, level)
  <2>1. Distance(m, level) \in Int /\ Distance(n, level) \in Int
    BY <1>1, SMT DEF Distance, Low, High, RiskLevels
  <2> QED
    BY <2>1, SMT DEF NoWorse, VolatilityFit, Clamp, Whole
<1> DEFINE vm == Rounded(Unit * ValuationFit(m), Whole)
           vn == Rounded(Unit * ValuationFit(n), Whole)
           xm == Weighted(vm, ProfitabilityFit(m), VolatilityFit(m, level))
           xn == Weighted(vn, ProfitabilityFit(n), VolatilityFit(n, level))
<1>5. /\ IsRounded(vm, Unit * ValuationFit(m), Whole)
      /\ IsRounded(vn, Unit * ValuationFit(n), Whole)
  BY FitsInRange, RoundedValuation
<1>6. Score(m, level) = Rounded(xm, 20 * Whole) /\ Score(n, level) = Rounded(xn, 20 * Whole)
  BY DEF Score, Weighted
<1> HIDE DEF vm, vn
<1>7. /\ {ValuationFit(m), ProfitabilityFit(m), VolatilityFit(m, level)} \subseteq Int
      /\ {ValuationFit(n), ProfitabilityFit(n), VolatilityFit(n, level)} \subseteq Int
  BY FitsInRange, SMT
<1>8. vm \in Int /\ vn \in Int /\ vm >= vn
  BY <1>2, <1>5, <1>7, SMT DEF IsRounded, Whole, Unit
<1>9. xm \in Int /\ xn \in Int /\ xm >= xn
  BY <1>3, <1>4, <1>7, <1>8, SMT DEF Weighted, Whole, Unit
<1> HIDE DEF xm, xn
<1>10. IsRounded(Score(m, level), xm, 20 * Whole) /\ IsRounded(Score(n, level), xn, 20 * Whole)
  BY <1>6, <1>9, RoundedScore
<1> QED
  BY <1>9, <1>10, SMT DEF IsRounded, Whole

(***************************************************************************)
(* A score below one half comes with an axis to improve: the tags, which   *)
(* look at the single fits, never stay silent about a low total.           *)
(***************************************************************************)
THEOREM LowScoreHasATag ==
    ASSUME NEW m \in Metrics, NEW level \in RiskLevels,
           Score(m, level) < Unit \div 2
    PROVE  ImprovementTags(m, level) # {}
<1> SUFFICES ASSUME ImprovementTags(m, level) = {}
             PROVE  ~(Score(m, level) < Unit \div 2)
  OBVIOUS
<1>1. /\ ~(ValuationFit(m) < Half)
      /\ ~(ProfitabilityFit(m) < Half)
      /\ ~(VolatilityFit(m, level) < Half)
  BY DEF ImprovementTags, Fits
<1>2. /\ ValuationFit(m) \in 0 .. Whole
      /\ ProfitabilityFit(m) \in 0 .. Whole
      /\ VolatilityFit(m, level) \in 0 .. Whole
  BY FitsInRange
<1> DEFINE v == Rounded(Unit * ValuationFit(m), Whole)
           x == Weighted(v, ProfitabilityFit(m), VolatilityFit(m, level))
<1>3. Score(m, level) = Rounded(x, 20 * Whole)
  BY DEF Score, Weighted
<1>4. IsRounded(v, Unit * ValuationFit(m), Whole)
  BY <1>2, RoundedValuation
<1> HIDE DEF v
<1>5. v \in Int /\ 2 * v >= Unit
  BY <1>1, <1>2, <1>4, SMT DEF IsRounded, Half, Whole, Unit
<1>6. x \in Int /\ x >= 10 * Whole * Unit
  BY <1>1, <1>2, <1>5, SMT DEF Weighted, Half, Whole, Unit
<1> HIDE DEF x
<1>7. IsRounded(Score(m, level), x, 20 * Whole)
  BY <1>3, <1>6, RoundedScore
<1> QED
  BY <1>6, <1>7, SMT DEF IsRounded, Whole, Unit

-----------------------------------------------------------------------------
(* The order of the scored list.                                           *)

Priced(c, m) == {d \in ToSet(c) : m[d] # NoMetrics}

LEMMA PricedIs ==
    ASSUME NEW c \in Lists(TopK), NEW m \in [ToSet(c) -> Samples \cup {NoMetrics}],
           NEW level \in RiskLevels
    PROVE  /\ Priced(c, m) \subseteq Stocks
           /\ IsFiniteSet(Priced(c, m))
           /\ \A d \in Priced(c, m) : /\ m[d] \in Metrics
                                      /\ Score(m[d], level) \in 0 .. Unit
<1>1. c \in Seq(Stocks) /\ IsInjective(c)
  BY ListIs, Limits
<1>2. Priced(c, m) \subseteq ToSet(c)
  BY DEF Priced
<1>3. ToSet(c) \subseteq Stocks /\ IsFiniteSet(ToSet(c))
  BY <1>1, ListDomain, ListCount
<1>4. IsFiniteSet(Priced(c, m))
  BY <1>2, <1>3, FS_Subset
<1>5. \A d \in Priced(c, m) : m[d] \in Metrics
  BY RankingAssumption DEF Priced
<1> QED
  BY <1>2, <1>3, <1>4, <1>5, ScoreIsAFraction

\* The candidates are read and their metrics, too.
Measured ==
    /\ candidates \in Lists(TopK)
    /\ metrics \in [ToSet(candidates) -> Samples \cup {NoMetrics}]
    /\ risk \in RiskLevels

LEMMA CompleteIs ==
    ASSUME Measured
    PROVE  /\ Complete \in SUBSET Stocks
           /\ IsFiniteSet(Complete)
           /\ \A d \in Complete :
                 /\ metrics[d] \in Metrics
                 /\ ScoreOf(d) \in Nat
                 /\ RankIn(d, candidates) \in Nat
                 /\ candidates[RankIn(d, candidates)] = d
<1>1. Complete = Priced(candidates, metrics)
  BY DEF Complete, Priced
<1>2. \A d \in Complete : ScoreOf(d) \in 0 .. Unit
  BY <1>1, PricedIs DEF Measured, ScoreOf
<1>3. \A x \in 0 .. Unit : x \in Nat
  OBVIOUS
<1>4. candidates \in Seq(Stocks) /\ IsInjective(candidates)
  BY ListIs, Limits DEF Measured
<1>5. ASSUME NEW d \in Complete
      PROVE  RankIn(d, candidates) \in Nat /\ candidates[RankIn(d, candidates)] = d
  <2>1. Has(candidates, d)
    BY DEF Complete, Has
  <2>2. RankIn(d, candidates) \in 1 .. Len(candidates) /\ candidates[RankIn(d, candidates)] = d
    BY <1>4, <2>1, RankInIs
  <2>3. Len(candidates) \in Nat
    BY <1>4, ListDomain
  <2> QED
    BY <2>2, <2>3, SMT
<1>6. /\ Complete \subseteq Stocks /\ IsFiniteSet(Complete)
      /\ \A d \in Complete : metrics[d] \in Metrics
  BY <1>1, PricedIs DEF Measured
<1> QED
  BY <1>2, <1>3, <1>5, <1>6

LEMMA ScoreIsStrict ==
    ASSUME Measured
    PROVE  StrictOrder(Complete, ScoreOrder)
<1>1. \A x, y \in Complete : <<x, y>> \in ScoreOrder <=> Better(x, y)
  BY DEF ScoreOrder
<1>2. \A d \in Complete : /\ ScoreOf(d) \in Nat
                          /\ RankIn(d, candidates) \in Nat
                          /\ candidates[RankIn(d, candidates)] = d
  BY CompleteIs
<1>3. \A x \in Complete : ~Better(x, x)
  BY <1>2, SMT DEF Better
<1>4. \A x, y, z \in Complete : Better(x, y) /\ Better(y, z) => Better(x, z)
  BY <1>2, SMT DEF Better
<1>5. ASSUME NEW x \in Complete, NEW y \in Complete, x # y
      PROVE  Better(x, y) \/ Better(y, x)
  <2>1. RankIn(x, candidates) # RankIn(y, candidates)
    BY <1>2, <1>5
  <2> QED
    BY <1>2, <2>1, SMT DEF Better
<1> QED
  BY <1>1, <1>3, <1>4, <1>5 DEF StrictOrder

\* What the step rank leaves: the TopN best of the candidates with metrics.
LEMMA BestIs ==
    ASSUME Measured
    PROVE  /\ Best \in Lists(TopN)
           /\ \A i \in DOMAIN Best : Best[i] \in Complete
           /\ \A d \in Complete :
                 /\ Has(Best, d) <=> Before(d, Complete, ScoreOrder) < TopN
                 /\ Has(Best, d) => RankIn(d, Best) = Before(d, Complete, ScoreOrder) + 1
<1>1. Complete \in SUBSET Stocks /\ IsFiniteSet(Complete) /\ StrictOrder(Complete, ScoreOrder)
  BY CompleteIs, ScoreIsStrict
<1>2. TopN \in Nat
  BY Limits
<1> QED
  BY <1>1, <1>2, FirstSorted DEF Best

\* What the fusion leaves: the TopK first of the stocks that were found.
FusedList == FirstOf(TopK, Sorted(Found, FusionOrder))

LEMMA FusedListIs ==
    ASSUME Searched
    PROVE  /\ FusedList \in Lists(TopK)
           /\ \A i \in DOMAIN FusedList :
                 /\ i \in Nat
                 /\ FusedList[i] \in Found
                 /\ Before(FusedList[i], Found, FusionOrder) = i - 1
           /\ \A d \in Found : Has(FusedList, d) <=> Before(d, Found, FusionOrder) < TopK
<1>1. Found \in SUBSET Stocks /\ IsFiniteSet(Found) /\ StrictOrder(Found, FusionOrder)
  BY FoundIs, FusionIsStrict
<1>2. TopK \in Nat
  BY Limits
<1>3. /\ FusedList \in Lists(TopK)
      /\ DOMAIN FusedList = 1 .. Len(FusedList)
      /\ \A i \in DOMAIN FusedList : FusedList[i] \in Found
                                     /\ Before(FusedList[i], Found, FusionOrder) = i - 1
      /\ \A d \in Found : Has(FusedList, d) <=> Before(d, Found, FusionOrder) < TopK
  BY <1>1, <1>2, FirstSorted DEF FusedList
<1>4. \A i \in DOMAIN FusedList : i \in Nat
  BY <1>3, SMT
<1> QED
  BY <1>3, <1>4

-----------------------------------------------------------------------------
(* The inductive invariant: the lists have their types, and each was made  *)
(* from the ones before it that are still there.                           *)
Placed ==
    /\ stage = "read" => candidates = FusedList
    /\ stage = "done" => scored = Best

Inv == TypeOK /\ Placed

LEMMA InitInv == Init => Inv
<1> SUFFICES ASSUME Init PROVE Inv
  OBVIOUS
<1>1. <<>> \in Lists(TopK) /\ <<>> \in Lists(TopN)
  BY EmptyListIs, Limits
<1> QED
  BY <1>1 DEF Init, Inv, TypeOK, Placed

LEMMA NextInv == Inv /\ [Next]_vars => Inv'
<1> SUFFICES ASSUME Inv, [Next]_vars PROVE Inv'
  OBVIOUS
<1> USE DEF Inv
<1>1. CASE Search
  BY <1>1 DEF Search, TypeOK, Placed
<1>2. CASE Fuse
  <2>1. Found' = Found
    BY <1>2 DEF Fuse, Found
  <2>2. FusionOrder' = FusionOrder
    BY <1>2, <2>1 DEF Fuse, FusionOrder, Fused, RRF, Entered
  <2>3. candidates' = FusedList /\ FusedList' = FusedList
    BY <1>2, <2>1, <2>2 DEF Fuse, FusedList
  <2>4. candidates' \in Lists(TopK)
    BY <2>3, FusedListIs DEF TypeOK, Searched
  <2> QED
    BY <1>2, <2>3, <2>4 DEF Fuse, TypeOK, Placed
<1>3. CASE ReadMetrics
  <2>1. <<>> \in Lists(TopK)
    BY EmptyListIs, Limits
  <2>2. \A d \in Complete' : ScoreOf(d)' \in 0 .. Unit
    <3>1. candidates \in Lists(TopK) /\ risk \in RiskLevels
      BY DEF TypeOK
    <3>2. \A d \in Priced(candidates, metrics') : Score(metrics'[d], risk) \in 0 .. Unit
      BY <1>3, <3>1, PricedIs DEF ReadMetrics
    <3> QED
      BY <1>3, <3>2 DEF ReadMetrics, Complete, Priced, ScoreOf
  <2> QED
    BY <1>3, <2>1, <2>2 DEF ReadMetrics, TypeOK, Placed
<1>4. CASE Rank
  <2>1. Measured
    BY <1>4 DEF Rank, TypeOK, Measured
  <2>2. Complete' = Complete
    BY <1>4 DEF Rank, Complete
  <2>3. ScoreOrder' = ScoreOrder
    BY <1>4, <2>2 DEF Rank, ScoreOrder, Better, ScoreOf
  <2>4. Best' = Best
    BY <2>2, <2>3 DEF Best
  <2>5. scored' \in Lists(TopN)
    BY <1>4, <2>1, BestIs DEF Rank
  <2>6. \A d \in Complete' : ScoreOf(d)' \in 0 .. Unit
    BY <1>4, <2>2 DEF Rank, TypeOK, ScoreOf
  <2> QED
    BY <1>4, <2>4, <2>5, <2>6 DEF Rank, TypeOK, Placed
<1>5. CASE UNCHANGED vars
  <2>1. Complete' = Complete /\ Found' = Found
    BY <1>5 DEF vars, Complete, Found
  <2>2. ScoreOrder' = ScoreOrder /\ Best' = Best
    BY <1>5, <2>1 DEF vars, ScoreOrder, Better, ScoreOf, Best
  <2>3. FusionOrder' = FusionOrder /\ FusedList' = FusedList
    BY <1>5, <2>1 DEF vars, FusionOrder, Fused, RRF, Entered, FusedList
  <2>4. \A d \in Complete' : ScoreOf(d)' = ScoreOf(d)
    BY <1>5 DEF vars, ScoreOf
  <2> QED
    BY <1>5, <2>1, <2>2, <2>3, <2>4 DEF vars, TypeOK, Placed
<1> QED
  BY <1>1, <1>2, <1>3, <1>4, <1>5 DEF Next

LEMMA Invariance == Spec => []Inv
  BY InitInv, NextInv, PTL DEF Spec

(***************************************************************************)
(* Whatever the searches return and the metrics are, hybrid_search and     *)
(* score_candidates hand on lists within their limits, in which no stock   *)
(* comes twice, and every score is between 0 and 1.                        *)
(***************************************************************************)
THEOREM TypeCorrect == Spec => []TypeOK
<1>1. Inv => TypeOK
  BY DEF Inv
<1> QED
  BY <1>1, Invariance, PTL

-----------------------------------------------------------------------------
(* Nobody whom only one search found is before one whom both found.        *)

LEMMA BeforeIt ==
    ASSUME Searched, NEW d \in Found, NEW e \in Predecessors(d, Found, FusionOrder)
    PROVE  /\ e \in Found /\ e # d /\ Fused(e, d)
           /\ InBoth(d) => InBoth(e)
<1>1. e \in Found /\ Fused(e, d)
  BY DEF Predecessors, FusionOrder
<1>2. e # d
  BY FusionIsStrict DEF Predecessors, StrictOrder
<1>3. InBoth(d) => InBoth(e)
  BY <1>1, BothAbove DEF Fused
<1> QED
  BY <1>1, <1>2, <1>3

(***************************************************************************)
(* If RRF_K + 2 > top_k, _reciprocal_rank_fusion puts every                *)
(* stock that both searches found before every stock that only one found.  *)
(***************************************************************************)
THEOREM FoundByBothFirst == Spec => []BothBeatOne
<1>1. ASSUME Inv, stage = "read",
             NEW i \in DOMAIN candidates, NEW j \in DOMAIN candidates,
             i < j, InBoth(candidates[j])
      PROVE  InBoth(candidates[i])
  <2>1. Searched
    BY <1>1 DEF Inv, TypeOK, Searched
  <2>2. /\ i \in Nat /\ j \in Nat
        /\ candidates[i] \in Found /\ candidates[j] \in Found
        /\ Before(candidates[i], Found, FusionOrder) = i - 1
        /\ Before(candidates[j], Found, FusionOrder) = j - 1
    BY <1>1, <2>1, FusedListIs DEF Inv, Placed
  <2>3. Before(candidates[i], Found, FusionOrder) < Before(candidates[j], Found, FusionOrder)
    BY <1>1, <2>2, SMT
  <2>4. <<candidates[i], candidates[j]>> \in FusionOrder
    BY <2>1, <2>2, <2>3, FoundIs, FusionIsStrict, OrderFollowsBefore
  <2>5. candidates[i] \in Predecessors(candidates[j], Found, FusionOrder)
    BY <2>2, <2>4 DEF Predecessors
  <2> QED
    BY <1>1, <2>1, <2>2, <2>5, BeforeIt
<1>2. Inv => BothBeatOne
  BY <1>1 DEF BothBeatOne, InBoth
<1> QED
  BY <1>2, Invariance, PTL

\* The best of a search has rank 1.
LEMMA Headed ==
    ASSUME Searched
    PROVE  /\ byVector # <<>> =>
                 Has(byVector, byVector[1]) /\ RankIn(byVector[1], byVector) = 1
           /\ byKeyword # <<>> =>
                 Has(byKeyword, byKeyword[1]) /\ RankIn(byKeyword[1], byKeyword) = 1
<1>1. ASSUME NEW s \in Seq(Stocks), IsInjective(s), s # <<>>
      PROVE  Has(s, s[1]) /\ RankIn(s[1], s) = 1
  <2>1. Len(s) \in Nat /\ Len(s) # 0 /\ DOMAIN s = 1 .. Len(s)
    BY <1>1, EmptySeq, ListDomain
  <2>2. 1 \in 1 .. Len(s)
    BY <2>1, SMT
  <2>3. Has(s, s[1])
    BY <2>1, <2>2 DEF Has, ToSet
  <2> QED
    BY <1>1, <2>2, <2>3, RankInIs
<1> QED
  BY <1>1, ListsAre

\* Before the best of one search are only stocks that both searches found,
\* and perhaps the best of the other.
LEMMA BeforeTheBest ==
    ASSUME Searched, NEW d \in Found,
           NEW e \in Predecessors(d, Found, FusionOrder), ~InBoth(e)
    PROVE  /\ ~(byVector # <<>> /\ d = byVector[1])
           /\ byKeyword # <<>> /\ d = byKeyword[1] => byVector # <<>> /\ e = byVector[1]
<1>1. e \in Found /\ e # d /\ Fused(e, d) /\ ~InBoth(d)
  BY BeforeIt
<1>2. PICK u \in Nat :
          /\ RRF(d) = <<1, u>>
          /\ RRFK + 1 <= u
          /\ Has(byVector, d) => u = RRFK + RankIn(d, byVector)
          /\ Has(byKeyword, d) => u = RRFK + RankIn(d, byKeyword)
  BY <1>1, SingleTerm
<1>3. PICK w \in Nat :
          /\ RRF(e) = <<1, w>>
          /\ RRFK + 1 <= w
          /\ w = RRFK + 1 => \/ byVector # <<>> /\ e = byVector[1]
                             \/ byKeyword # <<>> /\ e = byKeyword[1]
  BY <1>1, SingleTerm
<1>4. RRFK \in Nat
  BY Limits
<1>5. u > w \/ (~(w > u) /\ Entered(e) < Entered(d))
  <2>1. Above(RRF(e), RRF(d)) <=> 1 * u > 1 * w
    BY <1>2, <1>3 DEF Above
  <2>2. Above(RRF(d), RRF(e)) <=> 1 * w > 1 * u
    BY <1>2, <1>3 DEF Above
  <2> QED
    BY <1>1, <2>1, <2>2, SMT DEF Fused
<1>6. ASSUME byVector # <<>>, d = byVector[1]
      PROVE  FALSE
  <2>1. Has(byVector, d) /\ RankIn(d, byVector) = 1
    BY <1>6, Headed
  <2>2. Entered(d) = 1
    BY <2>1 DEF Entered
  <2>3. u = RRFK + 1
    BY <1>2, <2>1
  <2>4. Entered(e) \in Nat \ {0}
    BY <1>1, EnteredIs
  <2> QED
    BY <1>3, <1>4, <1>5, <2>2, <2>3, <2>4, SMT
<1>7. ASSUME byKeyword # <<>>, d = byKeyword[1]
      PROVE  byVector # <<>> /\ e = byVector[1]
  <2>1. Has(byKeyword, d) /\ RankIn(d, byKeyword) = 1
    BY <1>7, Headed
  <2>2. u = RRFK + 1
    BY <1>2, <2>1
  <2>3. w = RRFK + 1
    BY <1>3, <1>4, <1>5, <2>2, SMT
  <2> QED
    BY <1>1, <1>3, <1>7, <2>3
<1> QED
  BY <1>6, <1>7

\* If all that is before the best of a search is of that search, it is kept.
LEMMA FewBefore ==
    ASSUME Searched, NEW s \in {byVector, byKeyword}, s # <<>>,
           Predecessors(s[1], Found, FusionOrder) \subseteq ToSet(s)
    PROVE  Before(s[1], Found, FusionOrder) < TopK
<1> DEFINE P == Predecessors(s[1], Found, FusionOrder)
<1>1. s \in Seq(Stocks) /\ IsInjective(s) /\ Len(s) \in 0 .. TopK /\ Has(s, s[1])
  BY ListsAre, Headed
<1>2. s[1] \in Found
  BY <1>1, FoundIs
<1>3. s[1] \notin P
  BY <1>2, BeforeIt
<1>4. IsFiniteSet(ToSet(s)) /\ Cardinality(ToSet(s)) = Len(s)
  BY <1>1, ListCount
<1>5. P # ToSet(s)
  BY <1>1, <1>3 DEF Has
<1>6. Cardinality(P) <= Len(s) /\ Cardinality(P) # Len(s) /\ IsFiniteSet(P)
  BY <1>4, <1>5, FS_Subset
<1>7. Cardinality(P) \in Nat
  BY <1>6, FS_CardinalityType
<1> HIDE DEF P
<1>8. Cardinality(P) < TopK
  BY <1>1, <1>6, <1>7, Limits, SMT
<1> QED
  BY <1>8 DEF Before, P

\* When the best by keyword is not among the first TopK.
LEMMA BestByKeywordDropped ==
    ASSUME Searched, byKeyword # <<>>,
           ~(Before(byKeyword[1], Found, FusionOrder) < TopK)
    PROVE  /\ Len(byKeyword) = TopK
           /\ \A i \in 2 .. TopK : Has(byVector, byKeyword[i])
           /\ ~Has(byKeyword, byVector[1])
<1> DEFINE d == byKeyword[1]
           b == byVector[1]
           P == Predecessors(d, Found, FusionOrder)
           K == ToSet(byKeyword)
<1>1. /\ byKeyword \in Seq(Stocks) /\ IsInjective(byKeyword) /\ Len(byKeyword) \in 0 .. TopK
      /\ d \in K /\ DOMAIN byKeyword = 1 .. Len(byKeyword)
  BY ListsAre, ListDomain, Headed DEF Has
<1>2. d \in Found
  BY <1>1, FoundIs DEF Has
<1>3. \A e \in P : e \in K \/ (e = b /\ b \notin K)
  <2>1. \A e \in P : InBoth(e) \/ e = b
    BY <1>2, BeforeTheBest
  <2> QED
    BY <2>1 DEF InBoth, Has
<1>4. b \in P /\ b \notin K
  <2>1. ~(P \subseteq K)
    BY FewBefore
  <2> QED
    BY <1>3, <2>1
<1>5. P \ {b} \subseteq K \ {d}
  BY <1>2, <1>3, BeforeIt
<1>6. IsFiniteSet(P) /\ Cardinality(P) \in Nat /\ IsFiniteSet(K) /\ Cardinality(K) = Len(byKeyword)
  BY <1>1, <1>2, FoundIs, FusionIsStrict, BeforeIsLess, ListCount DEF Before
<1>7. /\ IsFiniteSet(P \ {b}) /\ Cardinality(P \ {b}) = Cardinality(P) - 1
      /\ IsFiniteSet(K \ {d}) /\ Cardinality(K \ {d}) = Cardinality(K) - 1
  BY <1>1, <1>4, <1>6, FS_RemoveElement
<1>8. Cardinality(P \ {b}) <= Cardinality(K \ {d})
      /\ (Cardinality(P \ {b}) = Cardinality(K \ {d}) => P \ {b} = K \ {d})
  BY <1>5, <1>7, FS_Subset
<1>9. ~(Cardinality(P) < TopK)
  BY DEF Before
<1>10. Len(byKeyword) = TopK /\ P \ {b} = K \ {d}
  <2>1. \A p, k, t \in Nat : k <= t /\ p - 1 <= k - 1 /\ ~(p < t) => k = t /\ p - 1 = k - 1
    BY SMT
  <2>2. Len(byKeyword) \in Nat /\ Len(byKeyword) <= TopK /\ TopK \in Nat
    BY <1>1, Limits, SMT
  <2>3. Len(byKeyword) = TopK /\ Cardinality(P) - 1 = Cardinality(K) - 1
    <3>1. Cardinality(P) - 1 <= Len(byKeyword) - 1
      BY <1>6, <1>7, <1>8
    <3> QED
      BY <1>6, <1>9, <2>1, <2>2, <3>1
  <2> QED
    BY <1>7, <1>8, <2>3
<1>11. ASSUME NEW i \in 2 .. TopK
       PROVE  Has(byVector, byKeyword[i])
  <2>1. i \in DOMAIN byKeyword /\ 1 \in DOMAIN byKeyword /\ i # 1
    BY <1>1, <1>10, Limits, SMT
  <2>2. byKeyword[i] \in K \ {d}
    BY <1>1, <2>1 DEF ToSet, IsInjective
  <2>3. byKeyword[i] \in P /\ byKeyword[i] # b
    BY <1>10, <2>2
  <2> QED
    BY <1>2, <2>3, BeforeTheBest DEF InBoth
<1> QED
  BY <1>4, <1>10, <1>11 DEF Has

(***************************************************************************)
(* The cut of hybrid_search to top_k never drops the best hit of the vector *)
(* search; the best hit of the keyword search it drops only when the other *)
(* keyword hits, a full list of them, were all found by both, and the best *)
(* by vector, with the same score and entered first, by vector alone.      *)
(***************************************************************************)
THEOREM BestHitsSurvive == Spec => []BestHitsKept
<1>1. ASSUME Inv, stage = "read"
      PROVE  Searched /\ candidates = FusedList
  BY <1>1 DEF Inv, TypeOK, Searched, Placed
<1>2. ASSUME Inv, stage = "read", byVector # <<>>
      PROVE  Has(candidates, byVector[1])
  <2>1. byVector[1] \in Found
    BY <1>1, <1>2, Headed, FoundIs
  <2>2. \A e \in Predecessors(byVector[1], Found, FusionOrder) : InBoth(e)
    BY <1>1, <1>2, <2>1, BeforeTheBest
  <2>3. Before(byVector[1], Found, FusionOrder) < TopK
    BY <1>1, <1>2, <2>2, FewBefore DEF InBoth, Has
  <2> QED
    BY <1>1, <1>2, <2>1, <2>3, FusedListIs
<1>3. ASSUME Inv, stage = "read", byKeyword # <<>>, ~Has(candidates, byKeyword[1])
      PROVE  /\ Len(byKeyword) = TopK
             /\ \A i \in 2 .. TopK : Has(byVector, byKeyword[i])
             /\ ~Has(byKeyword, byVector[1])
  <2>1. byKeyword[1] \in Found
    BY <1>1, <1>3, Headed, FoundIs
  <2>2. ~(Before(byKeyword[1], Found, FusionOrder) < TopK)
    BY <1>1, <1>3, <2>1, FusedListIs
  <2> QED
    BY <1>1, <1>3, <2>2, BestByKeywordDropped
<1>4. Inv => BestHitsKept
  BY <1>2, <1>3 DEF BestHitsKept
<1> QED
  BY <1>4, Invariance, PTL

-----------------------------------------------------------------------------
(* The recommended stocks.                                                 *)

LEMMA AtTheEnd ==
    ASSUME Inv, stage = "done"
    PROVE  Measured /\ scored = Best
  BY DEF Inv, TypeOK, Placed, Measured

(***************************************************************************)
(* score_candidates never recommends a candidate after one that is on some *)
(* axis worse and on none better, nor leaves it out in favour of that one, *)
(* unless they score the same: the sort and the cut agree with the score,  *)
(* and the score with the axes.                                            *)
(***************************************************************************)
THEOREM NoWorseIsNoLater == Spec => []NoWorseNoLater
<1>1. ASSUME Inv, stage = "done", NEW d \in Complete, NEW e \in Complete,
             NoWorse(metrics[d], metrics[e], risk), Has(scored, e),
             ScoreOf(d) # ScoreOf(e)
      PROVE  Has(scored, d) /\ RankIn(d, scored) <= RankIn(e, scored)
  <2>1. Measured /\ scored = Best
    BY <1>1, AtTheEnd
  <2>2. /\ Complete \in SUBSET Stocks /\ IsFiniteSet(Complete)
        /\ StrictOrder(Complete, ScoreOrder)
        /\ metrics[d] \in Metrics /\ metrics[e] \in Metrics /\ risk \in RiskLevels
        /\ ScoreOf(d) \in Nat /\ ScoreOf(e) \in Nat
    BY <2>1, CompleteIs, ScoreIsStrict DEF Measured
  <2>3. ScoreOf(d) >= ScoreOf(e)
    BY <1>1, <2>2, NoWorseScoresNoLess DEF ScoreOf
  <2>4. ScoreOf(d) > ScoreOf(e)
    BY <1>1, <2>2, <2>3, SMT
  <2>5. <<d, e>> \in ScoreOrder
    BY <2>4 DEF ScoreOrder, Better
  <2> DEFINE x == Before(d, Complete, ScoreOrder)
             y == Before(e, Complete, ScoreOrder)
  <2>6. x \in Nat /\ y \in Nat /\ x < y
    BY <2>2, <2>5, BeforeIsLess, BeforeFollowsOrder
  <2>7. /\ Has(scored, d) <=> x < TopN
        /\ Has(scored, d) => RankIn(d, scored) = x + 1
        /\ y < TopN
        /\ RankIn(e, scored) = y + 1
    BY <1>1, <2>1, BestIs
  <2> HIDE DEF x, y
  <2> QED
    BY <2>6, <2>7, Limits, SMT
<1>2. Inv => NoWorseNoLater
  BY <1>1 DEF NoWorseNoLater
<1> QED
  BY <1>2, Invariance, PTL

(***************************************************************************)
(* Every stock that is recommended with a score below one half comes with  *)
(* at least one axis to improve, for any metrics and any risk tolerance.   *)
(***************************************************************************)
THEOREM LowScoresExplained == Spec => []LowScoresAreExplained
<1>1. ASSUME Inv, stage = "done", NEW i \in DOMAIN scored,
             ScoreOf(scored[i]) < Unit \div 2
      PROVE  ImprovementTags(metrics[scored[i]], risk) # {}
  <2>1. Measured /\ scored[i] \in Complete
    BY <1>1, AtTheEnd, BestIs
  <2>2. metrics[scored[i]] \in Metrics /\ risk \in RiskLevels
    BY <2>1, CompleteIs DEF Measured
  <2> QED
    BY <1>1, <2>2, LowScoreHasATag DEF ScoreOf
<1>2. Inv => LowScoresAreExplained
  BY <1>1 DEF LowScoresAreExplained
<1> QED
  BY <1>2, Invariance, PTL
=============================================================================
