-------------------------- MODULE GroupLayersProofs --------------------------
(***************************************************************************)
(* What is served from the layers of groups (GroupSchedule, Gateway), for  *)
(* any proxies, weights, latencies, groups and clients.  An answer comes   *)
(* from the primary layer while that is usable, and every round of the     *)
(* smooth weighted round-robin gives each proxy exactly its share.  A      *)
(* request goes no further than MaxProxyAttempts proxies, each another     *)
(* one; its body is written whole at most once, refusals mean what they    *)
(* say, and usage is counted once.                                         *)
(*                                                                         *)
(* Sums and the flattening of lists are recursive functions: what they     *)
(* compute is proved by induction on the length of the list, from the      *)
(* least number at which the claim would fail (Inductively).               *)
(***************************************************************************)
EXTENDS Gateway, GroupSchedule, FiniteSetTheorems, WellFoundedInduction, TLAPS

-----------------------------------------------------------------------------
(* Sums *)

\* A set of numbers has a least one.
LEMMA LeastNatural ==
  ASSUME NEW T, T \subseteq Nat, T # {}
  PROVE  \E x \in T : \A y \in T : x <= y
<1>1. IsWellFoundedOn({xy \in Nat \X Nat : xy[1] < xy[2]}, Nat)
  BY NatLessThanWellFounded DEF OpToRel
<1>2. PICK R : R = {xy \in Nat \X Nat : xy[1] < xy[2]}
  OBVIOUS
<1>3. PICK x \in T : \A y \in T : ~(<<y, x>> \in R)
  BY <1>1, <1>2, WFMin
<1>4. ASSUME NEW y \in T PROVE x <= y
  <2>1. <<y, x>> \in Nat \X Nat /\ <<y, x>>[1] = y /\ <<y, x>>[2] = x
    OBVIOUS
  <2>2. ~(y < x)
    BY <1>2, <1>3, <2>1
  <2>3. QED
    BY <2>2
<1>5. QED
  BY <1>4

\* What is true at 0, and with every number at the next one, is true of all
\* numbers up to n: the set of those it is false of has no least member.
LEMMA Inductively ==
  ASSUME NEW n \in Nat, NEW T, T \subseteq 0..n, 0 \notin T,
         \A k \in 1..n : k \in T => k - 1 \in T
  PROVE  T = {}
<1>1. SUFFICES ASSUME T # {} PROVE FALSE
  OBVIOUS
<1>2. PICK x \in T : \A y \in T : x <= y
  <2>1. T \subseteq Nat
    OBVIOUS
  <2>2. QED
    BY <1>1, <2>1, LeastNatural
<1>3. x \in 1..n
  BY <1>2
<1>4. QED
  BY <1>2, <1>3

\* f adds up s as far as n.
AddsUp(f, s, n) == f = [k \in 0..n |-> IF k = 0 THEN 0 ELSE f[k - 1] + s[k]]

\* Every list can be added up, so Sums does.
LEMMA SumsExist ==
  ASSUME NEW n \in Nat, NEW s
  PROVE  \E f : AddsUp(f, s, n)
<1> DEFINE T == {k \in 0..n : ~\E f : AddsUp(f, s, k)}
<1>1. 0 \notin T
  <2>1. AddsUp([k \in 0..0 |-> 0], s, 0)
    BY DEF AddsUp
  <2>2. QED
    BY <2>1
<1>2. ASSUME NEW k \in 1..n, k - 1 \notin T PROVE k \notin T
  <2>1. PICK f : AddsUp(f, s, k - 1)
    BY <1>2
  <2>2. PICK g : g = [j \in 0..k |-> IF j = k THEN f[k - 1] + s[k] ELSE f[j]]
    OBVIOUS
  <2>3. ASSUME NEW j \in 0..k PROVE g[j] = IF j = 0 THEN 0 ELSE g[j - 1] + s[j]
    <3>1. f = [i \in 0..(k - 1) |-> IF i = 0 THEN 0 ELSE f[i - 1] + s[i]]
      BY <2>1 DEF AddsUp
    <3>2. CASE j = k
      BY <2>2, <3>2
    <3>3. CASE j # k
      <4>1. j \in 0..(k - 1) /\ g[j] = f[j]
        BY <2>2, <3>3
      <4>2. j # 0 => j - 1 \in 0..k /\ j - 1 # k /\ g[j - 1] = f[j - 1]
        BY <2>2, <4>1
      <4>3. QED
        BY <3>1, <4>1, <4>2
    <3>4. QED
      BY <3>2, <3>3
  <2>4. AddsUp(g, s, k)
    BY <2>2, <2>3 DEF AddsUp
  <2>5. QED
    BY <2>4
<1>3. T = {}
  <2>1. \A k \in 1..n : k \in T => k - 1 \in T
    BY <1>2
  <2>2. T \subseteq 0..n
    OBVIOUS
  <2> HIDE DEF T
  <2>3. QED
    BY <1>1, <2>1, <2>2, Inductively
<1>4. QED
  BY <1>3

\* A list of n numbers is a function on 1..n.
Numbers(n) == [1..n -> Int]

\* The sums up to each place of a list.
LEMMA SumsFact ==
  ASSUME NEW n \in Nat, NEW s \in Numbers(n)
  PROVE  /\ Len(s) = n /\ Total(s) = Sums(s)[n]
         /\ Sums(s)[0] = 0
         /\ \A k \in 1..n : Sums(s)[k] = Sums(s)[k - 1] + s[k]
         /\ \A k \in 0..n : Sums(s)[k] \in Int
<1>1. s \in Seq(Int) /\ Len(s) = n
  BY DEF Numbers
<1>2. PICK f : AddsUp(f, s, n)
  BY SumsExist
<1>3. AddsUp(Sums(s), s, n)
  BY <1>1, <1>2 DEF AddsUp, Sums
<1>4. PICK g : g = Sums(s)
  OBVIOUS
<1>5. g = [k \in 0..n |-> IF k = 0 THEN 0 ELSE g[k - 1] + s[k]]
  BY <1>3, <1>4 DEF AddsUp
<1>6. g[0] = 0 /\ \A k \in 1..n : g[k] = g[k - 1] + s[k]
  BY <1>5
<1> DEFINE T == {k \in 0..n : g[k] \notin Int}
<1>7. T = {}
  <2>1. 0 \notin T
    BY <1>6
  <2>2. ASSUME NEW k \in 1..n, k \in T PROVE k - 1 \in T
    <3>1. s[k] \in Int /\ k - 1 \in 0..n /\ g[k] = g[k - 1] + s[k]
      BY <1>6 DEF Numbers
    <3>2. QED
      BY <2>2, <3>1
  <2>3. T \subseteq 0..n
    OBVIOUS
  <2> HIDE DEF T
  <2>4. QED
    BY <2>1, <2>2, <2>3, Inductively
<1>8. QED
  BY <1>1, <1>4, <1>6, <1>7 DEF Total

\* Sums over two lists, one of which is nowhere larger than the other.
LEMMA TotalMonotone ==
  ASSUME NEW n \in Nat, NEW s \in Numbers(n), NEW t \in Numbers(n),
         \A k \in 1..n : s[k] <= t[k], NEW j \in 1..n
  PROVE  Total(s) + t[j] - s[j] <= Total(t)
<1>1. PICK f : f = Sums(s)
  OBVIOUS
<1>2. PICK g : g = Sums(t)
  OBVIOUS
<1>3. /\ f[0] = 0 /\ g[0] = 0 /\ Total(s) = f[n] /\ Total(t) = g[n]
      /\ \A k \in 1..n : f[k] = f[k - 1] + s[k] /\ g[k] = g[k - 1] + t[k]
      /\ \A k \in 0..n : f[k] \in Int /\ g[k] \in Int
      /\ \A k \in 1..n : s[k] \in Int /\ t[k] \in Int
  <2>1. \A k \in 1..n : s[k] \in Int /\ t[k] \in Int
    BY DEF Numbers
  <2>2. QED
    BY <1>1, <1>2, <2>1, SumsFact
<1> DEFINE T == {k \in 0..n : ~(f[k] + (IF j <= k THEN t[j] - s[j] ELSE 0) <= g[k])}
<1>4. T = {}
  <2>1. 0 \notin T
    BY <1>3
  <2>2. ASSUME NEW k \in 1..n, k \in T PROVE k - 1 \in T
    <3>1. k - 1 \in 0..n /\ k \in 0..n /\ k - 1 \in Int
      OBVIOUS
    <3>2. f[k] = f[k - 1] + s[k] /\ g[k] = g[k - 1] + t[k] /\ s[k] <= t[k]
      BY <1>3
    <3>3. f[k - 1] \in Int /\ g[k - 1] \in Int /\ s[k] \in Int /\ t[k] \in Int
          /\ s[j] \in Int /\ t[j] \in Int
      BY <1>3, <3>1
    <3>4. ~(f[k] + (IF j <= k THEN t[j] - s[j] ELSE 0) <= g[k])
      BY <2>2
    <3>5. ~(f[k - 1] + (IF j <= k - 1 THEN t[j] - s[j] ELSE 0) <= g[k - 1])
      <4>1. CASE j = k
        BY <3>2, <3>3, <3>4, <4>1
      <4>2. CASE j # k
        <5>1. j <= k <=> j <= k - 1
          BY <4>2
        <5>2. QED
          BY <3>2, <3>3, <3>4, <5>1
      <4>3. QED
        BY <4>1, <4>2
    <3>6. QED
      BY <3>1, <3>5
  <2>3. T \subseteq 0..n
    OBVIOUS
  <2> HIDE DEF T
  <2>4. QED
    BY <2>1, <2>2, <2>3, Inductively
<1>5. n \notin T /\ n \in 0..n /\ j <= n
  BY <1>4
<1>6. f[n] + (t[j] - s[j]) <= g[n]
  BY <1>5
<1>7. QED
  BY <1>3, <1>6

\* The sum of what two lists have at each place.
LEMMA TotalAdds ==
  ASSUME NEW n \in Nat, NEW s \in Numbers(n), NEW t \in Numbers(n), NEW u \in Numbers(n),
         \A k \in 1..n : u[k] = s[k] + t[k]
  PROVE  Total(u) = Total(s) + Total(t)
<1>1. PICK f : f = Sums(s)
  OBVIOUS
<1>2. PICK g : g = Sums(t)
  OBVIOUS
<1>3. PICK h : h = Sums(u)
  OBVIOUS
<1>4. /\ f[0] = 0 /\ g[0] = 0 /\ h[0] = 0
      /\ Total(s) = f[n] /\ Total(t) = g[n] /\ Total(u) = h[n]
      /\ \A k \in 1..n : /\ f[k] = f[k - 1] + s[k] /\ g[k] = g[k - 1] + t[k]
                         /\ h[k] = h[k - 1] + u[k]
      /\ \A k \in 0..n : f[k] \in Int /\ g[k] \in Int /\ h[k] \in Int
      /\ \A k \in 1..n : s[k] \in Int /\ t[k] \in Int
  <2>1. \A k \in 1..n : s[k] \in Int /\ t[k] \in Int
    BY DEF Numbers
  <2>2. QED
    BY <1>1, <1>2, <1>3, <2>1, SumsFact
<1> DEFINE T == {k \in 0..n : h[k] # f[k] + g[k]}
<1>5. T = {}
  <2>1. 0 \notin T
    BY <1>4
  <2>2. ASSUME NEW k \in 1..n, k \in T PROVE k - 1 \in T
    <3>1. k - 1 \in 0..n /\ k \in 0..n
      OBVIOUS
    <3>2. /\ f[k] = f[k - 1] + s[k] /\ g[k] = g[k - 1] + t[k] /\ h[k] = h[k - 1] + u[k]
          /\ u[k] = s[k] + t[k]
      BY <1>4
    <3>3. f[k - 1] \in Int /\ g[k - 1] \in Int /\ h[k - 1] \in Int /\ s[k] \in Int /\ t[k] \in Int
      BY <1>4, <3>1
    <3>4. QED
      BY <2>2, <3>1, <3>2, <3>3
  <2>3. T \subseteq 0..n
    OBVIOUS
  <2> HIDE DEF T
  <2>4. QED
    BY <2>1, <2>2, <2>3, Inductively
<1>6. n \notin T /\ n \in 0..n
  BY <1>5
<1>7. QED
  BY <1>4, <1>6

\* A list of zeros, and one that has d at place j alone.
LEMMA TotalSpike ==
  ASSUME NEW n \in Nat, NEW j \in 1..n, NEW d \in Int, NEW s \in Numbers(n),
         \A k \in 1..n : s[k] = IF k = j THEN d ELSE 0
  PROVE  Total(s) = d
<1>1. PICK f : f = Sums(s)
  OBVIOUS
<1>2. /\ f[0] = 0 /\ Total(s) = f[n]
      /\ \A k \in 1..n : f[k] = f[k - 1] + s[k]
  BY <1>1, SumsFact
<1> DEFINE T == {k \in 0..n : f[k] # IF j <= k THEN d ELSE 0}
<1>3. T = {}
  <2>1. 0 \notin T
    BY <1>2
  <2>2. ASSUME NEW k \in 1..n, k \in T PROVE k - 1 \in T
    <3>1. k - 1 \in 0..n /\ f[k] = f[k - 1] + s[k] /\ s[k] = IF k = j THEN d ELSE 0
      BY <1>2
    <3>2. f[k] # IF j <= k THEN d ELSE 0
      BY <2>2
    <3>3. f[k - 1] # IF j <= k - 1 THEN d ELSE 0
      BY <3>1, <3>2
    <3>4. QED
      BY <3>1, <3>3
  <2>3. T \subseteq 0..n
    OBVIOUS
  <2> HIDE DEF T
  <2>4. QED
    BY <2>1, <2>2, <2>3, Inductively
<1>4. n \notin T /\ n \in 0..n /\ j <= n
  BY <1>3
<1>5. QED
  BY <1>2, <1>4

\* A list of zeros adds up to 0.
LEMMA TotalZeros ==
  ASSUME NEW n \in Nat, NEW s \in Numbers(n), \A k \in 1..n : s[k] = 0
  PROVE  Total(s) = 0
<1>1. CASE n = 0
  BY <1>1, SumsFact
<1>2. CASE n # 0
  <2>1. 1 \in 1..n
    BY <1>2
  <2>2. QED
    BY <2>1, TotalSpike
<1>3. QED
  BY <1>1, <1>2

\* Among the numbers of a list there is a first largest one.
LEMMA FirstLargest ==
  ASSUME NEW n \in Nat, n > 0, NEW v \in Numbers(n)
  PROVE  \E k \in 1..n : /\ \A j \in 1..n : v[j] <= v[k]
                         /\ \A j \in 1..(k - 1) : v[j] < v[k]
<1> DEFINE P(m) == \E k \in 1..m : /\ \A j \in 1..m : v[j] <= v[k]
                                   /\ \A j \in 1..(k - 1) : v[j] < v[k]
           T == {m \in 0..n : m > 0 /\ ~P(m)}
<1>1. \A k \in 1..n : v[k] \in Int
  BY DEF Numbers
<1>2. 0 \notin T
  OBVIOUS
<1>3. ASSUME NEW m \in 1..n, m - 1 \notin T PROVE m \notin T
  <2>1. CASE m = 1
    <3>1. /\ 1 \in 1..m
          /\ \A j \in 1..m : v[j] <= v[1]
          /\ \A j \in 1..(1 - 1) : v[j] < v[1]
      BY <1>1, <2>1
    <3>2. P(m)
      BY <3>1
    <3>3. QED
      BY <3>2
  <2>2. CASE m # 1
    <3>1. m - 1 \in 0..n /\ m - 1 > 0
      BY <2>2
    <3>2. P(m - 1)
      BY <1>3, <3>1
    <3>3. PICK k \in 1..(m - 1) : /\ \A j \in 1..(m - 1) : v[j] <= v[k]
                                  /\ \A j \in 1..(k - 1) : v[j] < v[k]
      BY <3>2
    <3>4. v[k] \in Int /\ v[m] \in Int /\ k \in 1..m
      BY <1>1
    <3>5. CASE v[m] <= v[k]
      <4>1. \A j \in 1..m : v[j] <= v[k]
        BY <3>3, <3>5
      <4>2. P(m)
        BY <3>3, <3>4, <4>1
      <4>3. QED
        BY <4>2
    <3>6. CASE ~(v[m] <= v[k])
      <4>1. ASSUME NEW j \in 1..(m - 1) PROVE v[j] < v[m] /\ v[j] <= v[m]
        <5>1. v[j] <= v[k] /\ v[j] \in Int
          BY <1>1, <3>3
        <5>2. QED
          BY <3>4, <3>6, <5>1
      <4>2. \A j \in 1..m : v[j] <= v[m]
        BY <3>4, <4>1
      <4>3. m \in 1..m
        OBVIOUS
      <4>4. P(m)
        BY <4>1, <4>2, <4>3
      <4>5. QED
        BY <4>4
    <3>7. QED
      BY <3>5, <3>6
  <2>3. QED
    BY <2>1, <2>2
<1>4. T = {}
  <2>1. \A k \in 1..n : k \in T => k - 1 \in T
    BY <1>3
  <2>2. T \subseteq 0..n
    OBVIOUS
  <2> HIDE DEF T
  <2>3. QED
    BY <1>2, <2>1, <2>2, Inductively
<1>5. n \in 0..n
  OBVIOUS
<1>6. P(n)
  BY <1>4, <1>5
<1>7. QED
  BY <1>6

-----------------------------------------------------------------------------
(* The lists of the layers *)

\* The provider of a proxy that a layer may list is mentioned somewhere first.
LEMMA MentionFact ==
  ASSUME NEW providers, NEW n \in Nat, DOMAIN providers = 1..n,
         NEW p, ProviderOf[p] \in Range(providers)
  PROVE  Mention(providers, p) \in Nat /\ providers[Mention(providers, p)] = ProviderOf[p]
<1> DEFINE T == {k \in DOMAIN providers : providers[k] = ProviderOf[p]}
<1>1. T \subseteq Nat /\ T # {}
  BY DEF Range
<1>2. PICK x \in T : \A y \in T : x <= y
  <2> HIDE DEF T
  <2>1. QED
    BY <1>1, LeastNatural
<1>3. Mention(providers, p) \in T
  BY <1>2 DEF Mention, Min
<1>4. QED
  BY <1>1, <1>3

\* R is a strict total order on S.
StrictlyOrdered(S, R) ==
    /\ \A p, q \in S : <<p, q>> \in R => <<q, p>> \notin R
    /\ \A p, q, r \in S : <<p, q>> \in R /\ <<q, r>> \in R => <<p, r>> \in R
    /\ \A p, q \in S : p = q \/ <<p, q>> \in R \/ <<q, p>> \in R

\* How many members of S are before each.
RankIn(S, R) == [p \in S |-> Cardinality({q \in S : <<q, p>> \in R})]

\* rank numbers the members of S from 0.
Ranked(S, rank) ==
    /\ Cardinality(S) \in Nat
    /\ \A p \in S : rank[p] \in 0..(Cardinality(S) - 1)
    /\ \A p, q \in S : rank[p] = rank[q] => p = q
    /\ \A k \in 0..(Cardinality(S) - 1) : \E p \in S : rank[p] = k

\* In a finite set with a strict total order the number of predecessors is
\* different for each element and takes every value below the cardinality.
LEMMA Ranks ==
  ASSUME NEW S, IsFiniteSet(S), NEW R, StrictlyOrdered(S, R)
  PROVE  Ranked(S, RankIn(S, R))
<1> PICK rank : rank = RankIn(S, R)
  OBVIOUS
<1> USE DEF RankIn
<1> DEFINE before(p) == {q \in S : <<q, p>> \in R}
           n == Cardinality(S)
<1>1. n \in Nat
  BY FS_CardinalityType
<1>2. ASSUME NEW p \in S PROVE rank[p] \in Nat /\ rank[p] < n
  <2>1. before(p) \in SUBSET S /\ p \in S /\ p \notin before(p)
    BY DEF StrictlyOrdered
  <2>2. rank[p] = Cardinality(before(p))
    OBVIOUS
  <2> HIDE DEF before
  <2>3. IsFiniteSet(before(p)) /\ Cardinality(before(p)) <= n /\ n # Cardinality(before(p))
    BY <2>1, FS_Subset
  <2>4. Cardinality(before(p)) \in Nat
    BY <2>3, FS_CardinalityType
  <2>5. QED
    BY <1>1, <2>2, <2>3, <2>4
<1>3. ASSUME NEW p \in S, NEW q \in S, <<p, q>> \in R PROVE rank[p] # rank[q]
  <2>1. before(p) \in SUBSET before(q) /\ p \in before(q) /\ p \notin before(p)
    BY <1>3 DEF StrictlyOrdered
  <2>2. before(q) \in SUBSET S
    OBVIOUS
  <2>3. rank[p] = Cardinality(before(p)) /\ rank[q] = Cardinality(before(q))
    OBVIOUS
  <2> HIDE DEF before
  <2>4. IsFiniteSet(before(q))
    BY <2>2, FS_Subset
  <2>5. Cardinality(before(q)) # Cardinality(before(p))
    BY <2>1, <2>4, FS_Subset
  <2>6. QED
    BY <2>3, <2>5
<1>4. \A p, q \in S : rank[p] = rank[q] => p = q
  BY <1>3 DEF StrictlyOrdered
<1> HIDE DEF n
<1>5. rank \in Injection(S, 0..(n - 1))
  <2>1. ASSUME NEW p \in S PROVE rank[p] \in 0..(n - 1)
    BY <1>1, <1>2
  <2>2. rank \in [S -> 0..(n - 1)]
    BY <2>1
  <2>3. IsInjective(rank)
    BY <1>4, <2>2 DEF IsInjective
  <2>4. QED
    BY <2>2, <2>3 DEF Injection
<1>6. IsFiniteSet(0..(n - 1)) /\ Cardinality(0..(n - 1)) = n
  BY <1>1, FS_Interval
<1>7. rank \in Surjection(S, 0..(n - 1))
  BY <1>5, <1>6, FS_Injection DEF n
<1>8. \A k \in 0..(n - 1) : \E p \in S : rank[p] = k
  BY <1>7 DEF Surjection
<1>9. \A p \in S : rank[p] \in 0..(n - 1)
  BY <1>1, <1>2
<1>10. QED
  BY <1>1, <1>4, <1>8, <1>9 DEF n, Ranked

\* The list of a layer names each member of the set once.
LEMMA ListingFact ==
  ASSUME NEW S, IsFiniteSet(S), NEW providers, NEW n \in Nat, DOMAIN providers = 1..n,
         NEW ord, S \subseteq DOMAIN ord, \A p \in S : ord[p] \in Nat, IsInjective(ord),
         \A p \in S : ProviderOf[p] \in Range(providers)
  PROVE  LET list == Listing(S, providers, ord)
         IN  /\ Cardinality(S) \in Nat /\ list \in [1..Cardinality(S) -> S]
             /\ IsInjective(list) /\ Range(list) = S
<1> DEFINE R == {pq \in S \X S : Before(providers, ord, pq[1], pq[2])}
           rank == [p \in S |-> Cardinality({q \in S : Before(providers, ord, q, p)})]
           list == Listing(S, providers, ord)
           m == Cardinality(S)
<1>1. ASSUME NEW p \in S, NEW q \in S
      PROVE  <<p, q>> \in R <=> \/ Mention(providers, p) < Mention(providers, q)
                                \/ /\ Mention(providers, p) = Mention(providers, q)
                                   /\ ord[p] < ord[q]
  BY DEF Before
<1>2. \A p \in S : Mention(providers, p) \in Nat /\ ord[p] \in Nat
  BY MentionFact
<1>3. \A p, q \in S : <<p, q>> \in R => <<q, p>> \notin R
  <2> HIDE DEF R
  <2>1. QED
    BY <1>1, <1>2
<1>4. \A p, q, r \in S : <<p, q>> \in R /\ <<q, r>> \in R => <<p, r>> \in R
  <2> HIDE DEF R
  <2>1. QED
    BY <1>1, <1>2
<1>5. \A p, q \in S : p = q \/ <<p, q>> \in R \/ <<q, p>> \in R
  <2> HIDE DEF R
  <2>1. \A p, q \in S : ord[p] = ord[q] => p = q
    BY DEF IsInjective
  <2>2. ASSUME NEW p \in S, NEW q \in S, p # q PROVE <<p, q>> \in R \/ <<q, p>> \in R
    <3>1. ord[p] # ord[q] /\ ord[p] \in Nat /\ ord[q] \in Nat
      BY <1>2, <2>1, <2>2
    <3>2. Mention(providers, p) \in Nat /\ Mention(providers, q) \in Nat
      BY <1>2
    <3>3. QED
      BY <1>1, <3>1, <3>2
  <2>3. QED
    BY <2>2
<1>6. rank = [p \in S |-> Cardinality({q \in S : <<q, p>> \in R})]
  <2>1. ASSUME NEW p \in S
        PROVE  {q \in S : Before(providers, ord, q, p)} = {q \in S : <<q, p>> \in R}
    OBVIOUS
  <2>2. QED
    BY <2>1
<1>7. list = [k \in 1..m |-> CHOOSE p \in S : rank[p] = k - 1]
  BY DEF Listing
<1> HIDE DEF R, rank, list, m
<1>8. /\ m \in Nat
      /\ \A p \in S : rank[p] \in 0..(m - 1)
      /\ \A p, q \in S : rank[p] = rank[q] => p = q
      /\ \A k \in 0..(m - 1) : \E p \in S : rank[p] = k
  <2>1. StrictlyOrdered(S, R) /\ rank = RankIn(S, R)
    BY <1>3, <1>4, <1>5, <1>6 DEF StrictlyOrdered, RankIn
  <2>2. Ranked(S, rank)
    BY <2>1, Ranks
  <2>3. QED
    BY <2>2 DEF m, Ranked
<1>9. ASSUME NEW k \in 1..m PROVE list[k] \in S /\ rank[list[k]] = k - 1
  <2>1. k - 1 \in 0..(m - 1)
    BY <1>8
  <2>2. \E p \in S : rank[p] = k - 1
    BY <1>8, <2>1
  <2>3. QED
    BY <1>7, <2>2
<1>10. list \in [1..m -> S]
  BY <1>7, <1>9
<1>11. IsInjective(list)
  <2>1. ASSUME NEW j \in 1..m, NEW k \in 1..m, list[j] = list[k] PROVE j = k
    BY <1>9, <2>1
  <2>2. QED
    BY <1>10, <2>1 DEF IsInjective
<1>12. Range(list) = S
  <2>1. ASSUME NEW p \in S PROVE p \in Range(list)
    <3>1. rank[p] + 1 \in 1..m
      BY <1>8
    <3>2. rank[list[rank[p] + 1]] = rank[p]
      BY <1>8, <1>9, <3>1
    <3>3. list[rank[p] + 1] = p
      BY <1>8, <1>9, <3>1, <3>2
    <3>4. QED
      BY <1>10, <3>1, <3>3 DEF Range
  <2>2. QED
    BY <1>10, <2>1 DEF Range
<1>13. QED
  BY <1>8, <1>10, <1>11, <1>12 DEF list, m

\* f joins the lists of s from the first to each, as far as the n-th.
Joins(f, s, n) == f = [k \in 1..n |-> IF k = 1 THEN s[k] ELSE f[k - 1] \o s[k]]

\* Lists can be joined, so FlattenSeq does.
LEMMA JoinsExist ==
  ASSUME NEW X, NEW s, NEW n \in Nat, n > 0, \A k \in 1..n : s[k] \in Seq(X)
  PROVE  \E f : Joins(f, s, n)
<1> DEFINE T == {k \in 0..n : k > 0 /\ ~\E f : Joins(f, s, k)}
<1>1. 0 \notin T
  OBVIOUS
<1>2. ASSUME NEW k \in 1..n, k - 1 \notin T PROVE k \notin T
  <2>1. CASE k = 1
    <3>1. Joins([j \in 1..1 |-> s[1]], s, 1)
      BY DEF Joins
    <3>2. QED
      BY <2>1, <3>1
  <2>2. CASE k # 1
    <3>1. PICK f : Joins(f, s, k - 1)
      BY <1>2, <2>2
    <3>2. PICK g : g = [j \in 1..k |-> IF j = k THEN f[k - 1] \o s[k] ELSE f[j]]
      OBVIOUS
    <3>3. ASSUME NEW j \in 1..k PROVE g[j] = IF j = 1 THEN s[j] ELSE g[j - 1] \o s[j]
      <4>1. f = [i \in 1..(k - 1) |-> IF i = 1 THEN s[i] ELSE f[i - 1] \o s[i]]
        BY <3>1 DEF Joins
      <4>2. CASE j = k
        <5>1. k - 1 \in 1..k /\ g[k - 1] = f[k - 1]
          BY <2>2, <3>2
        <5>2. g[j] = f[k - 1] \o s[k]
          BY <3>2, <4>2
        <5>3. QED
          BY <2>2, <4>2, <5>1, <5>2
      <4>3. CASE j # k
        <5>1. j \in 1..(k - 1) /\ g[j] = f[j]
          BY <3>2, <4>3
        <5>2. j # 1 => j - 1 \in 1..k /\ j - 1 # k /\ g[j - 1] = f[j - 1]
          BY <3>2, <5>1
        <5>3. f[j] = IF j = 1 THEN s[j] ELSE f[j - 1] \o s[j]
          BY <4>1, <5>1
        <5>4. QED
          BY <5>1, <5>2, <5>3
      <4>4. QED
        BY <4>2, <4>3
    <3>4. Joins(g, s, k)
      BY <3>2, <3>3 DEF Joins
    <3>5. QED
      BY <3>4
  <2>3. QED
    BY <2>1, <2>2
<1>3. T = {}
  <2>1. \A k \in 1..n : k \in T => k - 1 \in T
    BY <1>2
  <2>2. T \subseteq 0..n
    OBVIOUS
  <2> HIDE DEF T
  <2>3. QED
    BY <1>1, <2>1, <2>2, Inductively
<1>4. QED
  BY <1>3

\* FlattenSeq of lists over X is a list over X.
LEMMA FlattenType ==
  ASSUME NEW X, NEW s, NEW n \in Nat, s \in [1..n -> Seq(X)]
  PROVE  FlattenSeq(s) \in Seq(X)
<1>1. s \in Seq(Seq(X)) /\ Len(s) = n /\ DOMAIN s = 1..n
  OBVIOUS
<1>2. CASE n = 0
  BY <1>1, <1>2 DEF FlattenSeq
<1>3. CASE n # 0
  <2>1. PICK f : Joins(f, s, n)
    BY <1>3, JoinsExist
  <2> DEFINE flatten == CHOOSE h : h = [i \in 1..Len(s) |->
                                          IF i = 1 THEN s[i] ELSE h[i - 1] \o s[i]]
  <2>2. flatten = [i \in 1..n |-> IF i = 1 THEN s[i] ELSE flatten[i - 1] \o s[i]]
    BY <1>1, <2>1 DEF Joins
  <2>3. FlattenSeq(s) = flatten[n]
    BY <1>1, <1>3 DEF FlattenSeq
  <2> HIDE DEF flatten
  <2> DEFINE T == {k \in 0..n : k > 0 /\ flatten[k] \notin Seq(X)}
  <2>4. \A k \in 1..n : flatten[k] = IF k = 1 THEN s[k] ELSE flatten[k - 1] \o s[k]
    BY <2>2
  <2>5. \A k \in 1..n : k \in T => k - 1 \in T
    <3>1. ASSUME NEW k \in 1..n, k \in T PROVE k - 1 \in T
      <4>1. s[k] \in Seq(X) /\ flatten[k] \notin Seq(X)
        BY <3>1
      <4>2. k # 1 /\ flatten[k] = flatten[k - 1] \o s[k]
        BY <2>4, <4>1
      <4>3. flatten[k - 1] \notin Seq(X)
        BY <4>1, <4>2
      <4>4. QED
        BY <4>2, <4>3
    <3>2. QED
      BY <3>1
  <2>6. T \subseteq 0..n /\ 0 \notin T
    OBVIOUS
  <2>7. T = {}
    <3> HIDE DEF T
    <3>1. QED
      BY <2>5, <2>6, Inductively
  <2>8. n \in 0..n /\ n > 0
    BY <1>3
  <2>9. QED
    BY <2>3, <2>7, <2>8
<1>4. QED
  BY <1>2, <1>3

-----------------------------------------------------------------------------
(* Layers and picks *)

\* A layer lists its live proxies once each and has a weight for each.
LayerOK(l) ==
    /\ l.aliveCount \in Nat /\ l.proxies \in [1..l.aliveCount -> Proxies]
    /\ IsInjective(l.proxies)
    /\ \A p \in Range(l.proxies) : l.weight[p] \in Nat \ {0}

\* The pool's part of the state is of its type.
PoolOK(reg, live, ord) == reg \subseteq Proxies /\ live \subseteq reg /\ ord \in Orders

\* Latencies as the weights need them.
Measures == [Proxies -> Nat]

\* buildLayer makes such a layer for every list of providers.
LEMMA BuildLayerOK ==
  ASSUME NEW g, NEW providers, NEW n \in Nat, DOMAIN providers = 1..n, NEW weights,
         \A pn \in DOMAIN weights : weights[pn] \in Int,
         NEW minRatio, NEW reg, NEW live, NEW ord, PoolOK(reg, live, ord)
  PROVE  LET l == BuildLayer(g, providers, weights, minRatio, reg, live, ord)
         IN  /\ LayerOK(l)
             /\ \A p \in Range(l.proxies) :
                   /\ ProviderOf[p] \in Range(providers)
                   /\ RegionMatches(g.regions, CountryOf[p])
             /\ l.useSWRR \in BOOLEAN
<1> DEFINE listed == UNION {ByProv(g, pn, reg \cap live) : pn \in Range(providers)}
           l == BuildLayer(g, providers, weights, minRatio, reg, live, ord)
<1>1. /\ l.proxies = Listing(listed, providers, ord) /\ l.aliveCount = Cardinality(listed)
      /\ l.weight = [p \in listed |-> LayerWeight(weights, p)]
      /\ l.useSWRR = (listed \cap Tunnels = {})
  BY DEF BuildLayer
<1>2. /\ listed \subseteq Proxies
      /\ \A p \in listed : /\ ProviderOf[p] \in Range(providers)
                           /\ RegionMatches(g.regions, CountryOf[p])
  BY DEF ByProv, PoolOK
<1> HIDE DEF listed, l
<1>3. IsFiniteSet(listed)
  BY <1>2, GroupAssumption, FS_Subset
<1>4. ord \in [Proxies -> Nat] /\ IsInjective(ord)
  BY GroupAssumption DEF PoolOK
<1>5. /\ Cardinality(listed) \in Nat /\ l.proxies \in [1..Cardinality(listed) -> listed]
      /\ IsInjective(l.proxies) /\ Range(l.proxies) = listed
  <2>1. listed \subseteq DOMAIN ord /\ \A p \in listed : ord[p] \in Nat
    BY <1>2, <1>4
  <2>2. QED
    BY <1>1, <1>2, <1>3, <1>4, <2>1, ListingFact
<1>6. ASSUME NEW p \in listed PROVE l.weight[p] \in Nat \ {0}
  <2>1. WeightOf[p] \in Nat \ {0}
    BY <1>2, GroupAssumption
  <2>2. LayerWeight(weights, p) \in Nat \ {0}
    BY <2>1 DEF LayerWeight
  <2>3. QED
    BY <1>1, <2>2
<1>7. LayerOK(l)
  BY <1>1, <1>2, <1>5, <1>6 DEF LayerOK
<1>8. QED
  BY <1>1, <1>2, <1>5, <1>7 DEF l

\* Division of natural numbers.
LEMMA Division ==
  ASSUME NEW a \in Nat, NEW b \in Nat, b > 0
  PROVE  a \div b \in Nat
OBVIOUS

\* latencyScaledWeight: a weight is never scaled to 0, so nobody leaves the
\* rotation, and never to more than twice the weight (docs/scheduling.md:71).
THEOREM ScaledWeightBounds ==
  ASSUME NEW ref \in Nat, NEW base \in Nat, base > 0, NEW lat \in Nat
  PROVE  LatencyScaledWeight(ref, base, lat) \in 1..(2 * base)
<1> DEFINE scaled == IF lat = 0 \/ ref = 0 THEN base
                     ELSE IF ref > 2 * lat THEN 2 * base
                     ELSE IF 2 * ref < lat THEN base \div 2
                     ELSE Product(ref, base, lat)
<1>1. scaled \in Int /\ scaled <= 2 * base
  <2>1. CASE lat # 0 /\ ref # 0 /\ ref <= 2 * lat /\ ~(2 * ref < lat)
    <3>1. PICK a \in Nat : a = base * ref
      OBVIOUS
    <3>2. a <= (2 * base) * lat
      <4>1. base * ref <= base * (2 * lat)
        BY <2>1
      <4>2. base * (2 * lat) = (2 * base) * lat
        OBVIOUS
      <4>3. QED
        BY <3>1, <4>1, <4>2
    <3>3. PICK c \in Nat : c = 2 * base
      OBVIOUS
    <3>4. a \div lat \in Nat /\ a \div lat <= c
      BY <2>1, <3>2, <3>3
    <3>5. Product(ref, base, lat) \in {a \div lat, a \div lat - 1}
      BY <3>1 DEF Product
    <3>6. QED
      BY <2>1, <3>3, <3>4, <3>5
  <2>2. CASE ~(lat # 0 /\ ref # 0 /\ ref <= 2 * lat /\ ~(2 * ref < lat))
    BY <2>2
  <2>3. QED
    BY <2>1, <2>2
<1>2. LatencyScaledWeight(ref, base, lat) = IF scaled < 1 THEN 1 ELSE scaled
  BY DEF LatencyScaledWeight
<1> HIDE DEF scaled
<1>3. QED
  BY <1>1, <1>2

\* The mean of the samples is a natural number.
LEMMA RefLatencyType ==
  ASSUME NEW l, LayerOK(l), NEW lat \in Measures
  PROVE  RefLatency(l, lat) \in Nat
<1> DEFINE n == l.aliveCount
           sampled == {k \in DOMAIN l.proxies : lat[l.proxies[k]] > 0}
           list == [k \in DOMAIN l.proxies |-> lat[l.proxies[k]]]
           zeros == [k \in 1..n |-> 0]
<1>1. n \in Nat /\ DOMAIN l.proxies = 1..n /\ list \in [1..n -> Nat]
  BY DEF LayerOK, Measures
<1>2. list \in Numbers(n) /\ zeros \in Numbers(n)
  BY <1>1 DEF Numbers
<1>3. Total(list) \in Nat
  <2>1. Total(list) \in Int
    <3>1. n \in 0..n
      BY <1>1
    <3> HIDE DEF list, n
    <3>2. QED
      BY <1>1, <1>2, <3>1, SumsFact
  <2>2. CASE n = 0
    <3> HIDE DEF list, n
    <3>1. QED
      BY <1>2, <2>2, SumsFact
  <2>3. CASE n # 0
    <3>1. 1 \in 1..n /\ \A k \in 1..n : zeros[k] <= list[k] /\ zeros[k] = 0
      BY <1>1, <2>3
    <3>2. zeros[1] = 0 /\ list[1] \in Nat
      BY <1>1, <3>1
    <3> HIDE DEF list, n, zeros
    <3>3. Total(zeros) = 0
      BY <1>1, <1>2, <3>1, TotalZeros
    <3>4. Total(zeros) + list[1] - zeros[1] <= Total(list)
      BY <1>1, <1>2, <3>1, TotalMonotone
    <3>5. QED
      BY <2>1, <3>2, <3>3, <3>4
  <2>4. QED
    BY <2>2, <2>3
<1>4. sampled # {} => Cardinality(sampled) \in Nat /\ Cardinality(sampled) > 0
  <2>1. sampled \in SUBSET (1..n) /\ IsFiniteSet(1..n)
    BY <1>1, FS_Interval
  <2> HIDE DEF sampled
  <2>2. IsFiniteSet(sampled)
    BY <2>1, FS_Subset
  <2>3. QED
    BY <2>2, FS_CardinalityType, FS_EmptySet
<1>5. RefLatency(l, lat) = IF sampled = {} THEN 0 ELSE Total(list) \div Cardinality(sampled)
  BY DEF RefLatency
<1> HIDE DEF sampled, list
<1>6. QED
  BY <1>3, <1>4, <1>5, Division

\* What each proxy of the list gains in a turn.
Gains(l, lat) == [k \in 1..l.aliveCount |-> EffectiveWeight(l, l.proxies[k], lat)]

\* Weights are positive, and so is their sum if there are any.
LEMMA WeightsFact ==
  ASSUME NEW l, LayerOK(l), NEW lat \in Measures
  PROVE  /\ \A p \in Range(l.proxies) : EffectiveWeight(l, p, lat) \in Nat \ {0}
         /\ Gains(l, lat) \in Numbers(l.aliveCount)
         /\ \A k \in 1..l.aliveCount : Gains(l, lat)[k] > 0
         /\ TotalWeight(l, lat) = Total(Gains(l, lat))
         /\ TotalWeight(l, lat) \in Nat
         /\ l.aliveCount > 0 => TotalWeight(l, lat) > 0
<1>1. PICK n : n = l.aliveCount
  OBVIOUS
<1>2. n \in Nat /\ l.proxies \in [1..n -> Proxies] /\ DOMAIN l.proxies = 1..n
  BY <1>1 DEF LayerOK
<1>3. ASSUME NEW p \in Range(l.proxies) PROVE EffectiveWeight(l, p, lat) \in Nat \ {0}
  <2>1. l.weight[p] \in Nat \ {0}
    BY DEF LayerOK
  <2>2. p \in Proxies
    BY <1>2 DEF Range
  <2>3. lat[p] \in Nat /\ RefLatency(l, lat) \in Nat
    BY <2>2, RefLatencyType DEF Measures
  <2>4. LatencyScaledWeight(RefLatency(l, lat), l.weight[p], lat[p]) \in 1..(2 * l.weight[p])
    BY <2>1, <2>3, ScaledWeightBounds
  <2>5. QED
    BY <2>4, <2>1 DEF EffectiveWeight
<1>4. PICK gains : gains = Gains(l, lat)
  OBVIOUS
<1>5. gains = [k \in 1..n |-> EffectiveWeight(l, l.proxies[k], lat)]
  BY <1>1, <1>4 DEF Gains
<1>6. ASSUME NEW k \in 1..n PROVE gains[k] \in Nat \ {0}
  <2>1. l.proxies[k] \in Range(l.proxies)
    BY <1>2 DEF Range
  <2>2. QED
    BY <1>3, <1>5, <2>1
<1>7. gains \in Numbers(n)
  BY <1>5, <1>6 DEF Numbers
<1>8. TotalWeight(l, lat) = Total(gains)
  BY <1>2, <1>5 DEF TotalWeight
<1>9. Total(gains) \in Int
  <2>1. n \in 0..n
    BY <1>2
  <2>2. QED
    BY <1>2, <1>7, <2>1, SumsFact
<1>10. n > 0 => Total(gains) > 0
  <2>1. PICK zeros : zeros = [k \in 1..n |-> 0]
    OBVIOUS
  <2>2. zeros \in Numbers(n) /\ \A k \in 1..n : zeros[k] = 0
    BY <2>1 DEF Numbers
  <2>3. Total(zeros) = 0
    BY <1>2, <2>2, TotalZeros
  <2>4. ASSUME n > 0 PROVE Total(gains) > 0
    <3>1. 1 \in 1..n
      BY <1>2, <2>4
    <3>2. \A k \in 1..n : zeros[k] <= gains[k]
      BY <1>6, <2>2
    <3>3. Total(zeros) + gains[1] - zeros[1] <= Total(gains)
      BY <1>2, <1>7, <2>2, <3>1, <3>2, TotalMonotone
    <3>4. gains[1] \in Nat \ {0} /\ zeros[1] = 0
      BY <1>6, <2>2, <3>1
    <3>5. QED
      BY <1>9, <2>3, <3>3, <3>4
  <2>5. QED
    BY <2>4
<1>11. n = 0 => Total(gains) = 0
  BY <1>7, SumsFact
<1>12. QED
  BY <1>1, <1>2, <1>3, <1>4, <1>6, <1>7, <1>8, <1>9, <1>10, <1>11

\* The state of the round-robin.
Counters == [Proxies -> Int]

\* pickSWRR: everybody in the layer gains its weight, and the one picked, which
\* then has the most, pays the total.
LEMMA PickFact ==
  ASSUME NEW l, LayerOK(l), l.aliveCount > 0, NEW s \in Counters, NEW lat \in Measures
  PROVE  LET turn == PickSWRR(l, s, lat)
         IN  /\ turn.best \in Range(l.proxies)
             /\ turn.swrr \in Counters
             /\ \A p \in Proxies :
                  turn.swrr[p] = s[p]
                     + (IF p \in Range(l.proxies) THEN EffectiveWeight(l, p, lat) ELSE 0)
                     - (IF p = turn.best THEN TotalWeight(l, lat) ELSE 0)
             /\ \A p \in Range(l.proxies) :
                  s[p] + EffectiveWeight(l, p, lat)
                    <= s[turn.best] + EffectiveWeight(l, turn.best, lat)
<1>1. PICK n : n = l.aliveCount
  OBVIOUS
<1>2. PICK list : list = l.proxies
  OBVIOUS
<1>3. n \in Nat /\ n > 0 /\ list \in [1..n -> Proxies] /\ DOMAIN list = 1..n
  BY <1>1, <1>2 DEF LayerOK
<1>4. PICK up : up = [p \in Proxies |-> IF p \in Range(list)
                                        THEN s[p] + EffectiveWeight(l, p, lat) ELSE s[p]]
  OBVIOUS
<1>5. PICK total \in Nat : total = TotalWeight(l, lat)
  BY WeightsFact
<1>6. \A p \in Range(list) : EffectiveWeight(l, p, lat) \in Nat \ {0}
  BY <1>2, WeightsFact
<1>7. \A p \in Proxies : s[p] \in Int
  BY DEF Counters
<1>8. up \in [Proxies -> Int]
  <2>1. ASSUME NEW p \in Proxies
        PROVE  (IF p \in Range(list) THEN s[p] + EffectiveWeight(l, p, lat) ELSE s[p]) \in Int
    BY <1>6, <1>7
  <2>2. QED
    BY <1>4, <2>1
<1>9. PICK v : v = [k \in 1..n |-> up[list[k]]]
  OBVIOUS
<1>10. v \in Numbers(n)
  BY <1>3, <1>8, <1>9 DEF Numbers
<1>11. PICK k : k = CHOOSE m \in DOMAIN list :
                      /\ \A j \in DOMAIN list : up[list[j]] <= up[list[m]]
                      /\ \A j \in 1..(m - 1) : up[list[j]] < up[list[m]]
  OBVIOUS
<1>12. k \in 1..n /\ \A j \in 1..n : up[list[j]] <= up[list[k]]
  <2>1. PICK i \in 1..n : /\ \A j \in 1..n : v[j] <= v[i]
                          /\ \A j \in 1..(i - 1) : v[j] < v[i]
    BY <1>3, <1>10, FirstLargest
  <2>2. /\ \A j \in DOMAIN list : up[list[j]] <= up[list[i]]
        /\ \A j \in 1..(i - 1) : up[list[j]] < up[list[i]]
    <3>1. \A j \in 1..n : v[j] = up[list[j]]
      BY <1>9
    <3>2. \A j \in 1..(i - 1) : j \in 1..n
      BY <1>3
    <3>3. QED
      BY <1>3, <2>1, <3>1, <3>2
  <2>3. k \in DOMAIN list /\ \A j \in DOMAIN list : up[list[j]] <= up[list[k]]
    BY <1>3, <1>11, <2>2
  <2>4. QED
    BY <1>3, <2>3
<1>13. PICK best : best = list[k]
  OBVIOUS
<1>14. best \in Range(list) /\ best \in Proxies
  BY <1>3, <1>12, <1>13 DEF Range
<1>15. PickSWRR(l, s, lat) = [best |-> best, swrr |-> [up EXCEPT ![best] = @ - total]]
  BY <1>2, <1>4, <1>5, <1>11, <1>13 DEF PickSWRR
<1>16. PICK after : after = [up EXCEPT ![best] = @ - total]
  OBVIOUS
<1>17. after \in [Proxies -> Int]
  BY <1>8, <1>14, <1>16
<1>18. ASSUME NEW p \in Proxies
       PROVE  after[p] = s[p] + (IF p \in Range(list) THEN EffectiveWeight(l, p, lat) ELSE 0)
                              - (IF p = best THEN total ELSE 0)
  <2>1. PICK gain : gain = IF p \in Range(list) THEN EffectiveWeight(l, p, lat) ELSE 0
    OBVIOUS
  <2>2. PICK paid : paid = IF p = best THEN total ELSE 0
    OBVIOUS
  <2>3. gain \in Int /\ paid \in Int /\ s[p] \in Int
    BY <1>6, <1>7, <2>1, <2>2
  <2>4. up[p] = s[p] + gain
    BY <1>4, <2>1, <2>3
  <2>5. after[p] = IF p = best THEN up[p] - total ELSE up[p]
    BY <1>8, <1>14, <1>16
  <2>6. after[p] = up[p] - paid
    BY <1>8, <2>2, <2>5
  <2>7. QED
    BY <2>1, <2>2, <2>3, <2>4, <2>6
<1>19. ASSUME NEW p \in Range(list)
       PROVE  up[p] <= up[best] /\ up[p] = s[p] + EffectiveWeight(l, p, lat)
  <2>1. PICK j \in 1..n : p = list[j]
    BY <1>3 DEF Range
  <2>2. p \in Proxies
    BY <1>3, <2>1
  <2>3. QED
    BY <1>4, <1>12, <1>13, <2>1, <2>2
<1>20. up[best] = s[best] + EffectiveWeight(l, best, lat)
  BY <1>14, <1>19
<1>21. QED
  BY <1>2, <1>5, <1>14, <1>15, <1>16, <1>17, <1>18, <1>19, <1>20 DEF Counters

\* The lists of providers of a group.
LEMMA GroupFact ==
  ASSUME NEW g \in Groups
  PROVE  /\ DOMAIN g.primary = 1..Len(g.primary) /\ Len(g.primary) \in Nat
         /\ \A pn \in DOMAIN g.primaryWeights : g.primaryWeights[pn] \in Int
         /\ DOMAIN BackupProviders(g) = 1..Len(BackupProviders(g))
         /\ Len(BackupProviders(g)) \in Nat
         /\ \A pn \in DOMAIN g.backupWeights : g.backupWeights[pn] \in Int
<1>1. g.primary \in Seq(Range(ProviderOf))
  BY GroupAssumption
<1>2. g.backups \in Seq(Range(g.backups))
  BY GroupAssumption
<1>3. PICK X : X = Range(ProviderOf)
  OBVIOUS
<1>4. PICK s : s = [k \in DOMAIN g.backups |-> g.backups[k].providers]
  OBVIOUS
<1>5. PICK n \in Nat : DOMAIN g.backups = 1..n
  BY <1>2
<1>6. s \in [1..n -> Seq(X)]
  BY <1>3, <1>4, <1>5, GroupAssumption
<1>7. BackupProviders(g) \in Seq(X)
  BY <1>4, <1>6, FlattenType DEF BackupProviders
<1>8. QED
  BY <1>1, <1>7, GroupAssumption

\* A proxy that the group may be served with.
MayServe(g, p) ==
    /\ ProviderOf[p] \in Range(g.primary) \cup Range(BackupProviders(g))
    /\ RegionMatches(g.regions, CountryOf[p])

\* The layers of a group.
LEMMA LayersOK ==
  ASSUME NEW g \in Groups, NEW reg, NEW live, NEW ord, PoolOK(reg, live, ord)
  PROVE  /\ DOMAIN BuildLayers(g, reg, live, ord) \in {{1}, {1, 2}}
         /\ \A k \in DOMAIN BuildLayers(g, reg, live, ord) :
               LET l == BuildLayers(g, reg, live, ord)[k]
               IN  LayerOK(l) /\ l.useSWRR \in BOOLEAN /\ \A p \in Range(l.proxies) : MayServe(g, p)
<1>1. PICK l1 : l1 = PrimaryLayer(g, reg, live, ord)
  OBVIOUS
<1>2. PICK l2 : l2 = BackupLayer(g, reg, live, ord)
  OBVIOUS
<1>3. LayerOK(l1) /\ l1.useSWRR \in BOOLEAN /\ \A p \in Range(l1.proxies) : MayServe(g, p)
  BY <1>1, GroupFact, BuildLayerOK DEF PrimaryLayer, MayServe
<1>4. LayerOK(l2) /\ l2.useSWRR \in BOOLEAN /\ \A p \in Range(l2.proxies) : MayServe(g, p)
  BY <1>2, GroupFact, BuildLayerOK DEF BackupLayer, MayServe
<1>5. PICK layers : layers = BuildLayers(g, reg, live, ord)
  OBVIOUS
<1>6. layers = <<l1>> \/ layers = <<l1, l2>>
  BY <1>1, <1>2, <1>5 DEF BuildLayers
<1>7. DOMAIN layers = {1} \/ DOMAIN layers = {1, 2}
  BY <1>6
<1>8. \A k \in DOMAIN layers : layers[k] = l1 \/ layers[k] = l2
  BY <1>6
<1>9. QED
  BY <1>3, <1>4, <1>5, <1>7, <1>8

-----------------------------------------------------------------------------
(* Rounds of a round-robin *)

\* The history of a group.
Tallies == [round : BOOLEAN, served : Nat, count : [Proxies -> Nat]]

\* The counts and the counters of the proxies of the list.
Listed(l, f) == [k \in 1..l.aliveCount |-> f[l.proxies[k]]]

\* In a round that began level, the counters say how far everybody is from its
\* share after served answers, they add up to 0, and nobody owes a whole round.
Balanced(l, served, count, s, lat) ==
    /\ Total(Listed(l, count)) = served
    /\ Total(Listed(l, s)) = 0
    /\ \A p \in Range(l.proxies) :
         /\ s[p] = served * EffectiveWeight(l, p, lat) - TotalWeight(l, lat) * count[p]
         /\ s[p] > -TotalWeight(l, lat)

\* A round-robin primary layer l is at some point of a round.
InRound(l, t, s, lat) ==
    l.useSWRR /\ Usable(l) /\ t.round =>
        t.served <= TotalWeight(l, lat) /\ Balanced(l, t.served, t.count, s, lat)

\* Lists taken of the state are lists of numbers.
LEMMA ListedFact ==
  ASSUME NEW l, LayerOK(l), NEW f, \A p \in Proxies : f[p] \in Int
  PROVE  Listed(l, f) \in Numbers(l.aliveCount)
<1>1. ASSUME NEW k \in 1..l.aliveCount PROVE f[l.proxies[k]] \in Int
  BY DEF LayerOK
<1>2. QED
  BY <1>1 DEF Listed, Numbers

\* A level start.
LEMMA LevelStart ==
  ASSUME NEW l, LayerOK(l), l.aliveCount > 0, NEW s \in Counters, NEW lat \in Measures,
         \A p \in Range(l.proxies) : s[p] = 0
  PROVE  Balanced(l, 0, [p \in Proxies |-> 0], s, lat)
<1>1. PICK n : n = l.aliveCount
  OBVIOUS
<1>2. n \in Nat /\ l.proxies \in [1..n -> Proxies]
  BY <1>1 DEF LayerOK
<1>3. PICK zero : zero = [p \in Proxies |-> 0]
  OBVIOUS
<1>4. \A p \in Proxies : zero[p] \in Int /\ zero[p] = 0 /\ s[p] \in Int
  BY <1>3 DEF Counters
<1>5. Listed(l, zero) \in Numbers(n) /\ Listed(l, s) \in Numbers(n)
  BY <1>1, <1>4, ListedFact
<1>6. ASSUME NEW k \in 1..n PROVE Listed(l, zero)[k] = 0 /\ Listed(l, s)[k] = 0
  <2>1. l.proxies[k] \in Proxies /\ l.proxies[k] \in Range(l.proxies)
    BY <1>2 DEF Range
  <2>2. QED
    BY <1>1, <1>4, <2>1 DEF Listed
<1>7. Total(Listed(l, zero)) = 0 /\ Total(Listed(l, s)) = 0
  BY <1>2, <1>5, <1>6, TotalZeros
<1>8. PICK total \in Nat : total = TotalWeight(l, lat) /\ total > 0
  BY WeightsFact
<1>9. ASSUME NEW p \in Range(l.proxies)
      PROVE  /\ s[p] = 0 * EffectiveWeight(l, p, lat) - total * zero[p]
             /\ s[p] > -total
  <2>1. PICK w \in Nat : w = EffectiveWeight(l, p, lat)
    BY WeightsFact
  <2>2. zero[p] = 0 /\ s[p] = 0
    BY <1>2, <1>4 DEF Range
  <2>3. 0 * w = 0 /\ total * 0 = 0
    OBVIOUS
  <2>4. QED
    BY <1>8, <2>1, <2>2, <2>3
<1>10. QED
  BY <1>3, <1>7, <1>8, <1>9 DEF Balanced

\* Who owes less than a whole round was served no more often than its weight.
LEMMA NoWholeRound ==
  ASSUME NEW total \in Nat, total > 0, NEW w \in Nat, NEW c \in Nat,
         total * w - total * c > -total
  PROVE  c <= w
<1>1. SUFFICES ASSUME c >= w + 1 PROVE FALSE
  OBVIOUS
<1>2. PICK d \in Nat : c = w + 1 + d
  <2>1. c - w - 1 \in Nat /\ c = w + 1 + (c - w - 1)
    BY <1>1
  <2>2. QED
    BY <2>1
<1>3. total * c = total * w + total + total * d
  BY <1>2
<1>4. total * d >= 0 /\ total * w \in Int /\ total * d \in Int
  OBVIOUS
<1>5. QED
  BY <1>3, <1>4

\* The end of a round: nobody was served more often than its share, so, as all
\* of them together were served as often as all the shares say, nobody less.
LEMMA RoundIsExact ==
  ASSUME NEW l, LayerOK(l), l.aliveCount > 0, NEW count \in [Proxies -> Nat],
         NEW s \in Counters, NEW lat \in Measures,
         Balanced(l, TotalWeight(l, lat), count, s, lat)
  PROVE  \A p \in Range(l.proxies) : count[p] = EffectiveWeight(l, p, lat) /\ s[p] = 0
<1>1. PICK n : n = l.aliveCount
  OBVIOUS
<1>2. n \in Nat /\ l.proxies \in [1..n -> Proxies] /\ DOMAIN l.proxies = 1..n
  BY <1>1 DEF LayerOK
<1>3. PICK total \in Nat : total = TotalWeight(l, lat) /\ total > 0
  BY WeightsFact
<1>4. PICK gains : gains = Gains(l, lat)
  OBVIOUS
<1>5. PICK counts : counts = Listed(l, count)
  OBVIOUS
<1>6. gains \in Numbers(n) /\ Total(gains) = total
  BY <1>1, <1>3, <1>4, WeightsFact
<1>7. counts \in Numbers(n)
  BY <1>1, <1>5, ListedFact
<1>8. Total(counts) = total
  BY <1>3, <1>5 DEF Balanced
<1>9. ASSUME NEW p \in Range(l.proxies)
      PROVE  /\ EffectiveWeight(l, p, lat) \in Nat /\ count[p] \in Nat
             /\ count[p] <= EffectiveWeight(l, p, lat)
             /\ s[p] = total * EffectiveWeight(l, p, lat) - total * count[p]
  <2>1. PICK w \in Nat : w = EffectiveWeight(l, p, lat)
    BY WeightsFact
  <2>2. count[p] \in Nat
    BY <1>2 DEF Range
  <2>3. s[p] = total * w - total * count[p] /\ s[p] > -total
    BY <1>3, <2>1 DEF Balanced
  <2>4. count[p] <= w
    BY <1>3, <2>2, <2>3, NoWholeRound
  <2>5. QED
    BY <2>1, <2>2, <2>3, <2>4
<1>10. ASSUME NEW k \in 1..n
       PROVE  /\ l.proxies[k] \in Range(l.proxies)
              /\ counts[k] = count[l.proxies[k]]
              /\ gains[k] = EffectiveWeight(l, l.proxies[k], lat)
              /\ counts[k] <= gains[k]
  <2>1. l.proxies[k] \in Range(l.proxies)
    BY <1>2 DEF Range
  <2>2. counts[k] = count[l.proxies[k]] /\ gains[k] = EffectiveWeight(l, l.proxies[k], lat)
    BY <1>1, <1>4, <1>5 DEF Listed, Gains
  <2>3. QED
    BY <1>9, <2>1, <2>2
<1>11. ASSUME NEW k \in 1..n PROVE counts[k] = gains[k]
  <2>1. Total(counts) + gains[k] - counts[k] <= Total(gains)
    BY <1>2, <1>6, <1>7, <1>10, TotalMonotone
  <2>2. counts[k] \in Int /\ gains[k] \in Int /\ counts[k] <= gains[k]
    BY <1>6, <1>7, <1>10 DEF Numbers
  <2>3. QED
    BY <1>6, <1>8, <2>1, <2>2
<1>12. ASSUME NEW p \in Range(l.proxies)
       PROVE  count[p] = EffectiveWeight(l, p, lat) /\ s[p] = 0
  <2>1. PICK k \in 1..n : p = l.proxies[k]
    BY <1>2 DEF Range
  <2>2. count[p] = EffectiveWeight(l, p, lat)
    BY <1>10, <1>11, <2>1
  <2>3. PICK x \in Int : x = total * count[p]
    BY <1>9
  <2>4. QED
    BY <1>9, <2>2, <2>3
<1>13. QED
  BY <1>12

\* A turn: who is picked had more than nothing, as all of them together had the
\* whole round, so afterwards it does not owe one either.
LEMMA TurnBalances ==
  ASSUME NEW l, LayerOK(l), l.aliveCount > 0, NEW s \in Counters, NEW lat \in Measures,
         NEW served \in Nat, NEW count \in [Proxies -> Nat], Balanced(l, served, count, s, lat),
         NEW counted \in [Proxies -> Nat],
         \A p \in Proxies : counted[p] = count[p] + (IF p = PickSWRR(l, s, lat).best THEN 1 ELSE 0)
  PROVE  Balanced(l, served + 1, counted, PickSWRR(l, s, lat).swrr, lat)
<1>1. PICK n : n = l.aliveCount
  OBVIOUS
<1>2. PICK list : list = l.proxies
  OBVIOUS
<1>3. n \in Nat /\ n > 0 /\ list \in [1..n -> Proxies] /\ DOMAIN list = 1..n /\ IsInjective(list)
  BY <1>1, <1>2 DEF LayerOK
<1>4. PICK total \in Nat : total = TotalWeight(l, lat) /\ total > 0
  BY WeightsFact
<1>5. PICK best : best = PickSWRR(l, s, lat).best
  OBVIOUS
<1>6. PICK after : after = PickSWRR(l, s, lat).swrr
  OBVIOUS
<1>7. PICK weight : weight = [p \in Range(list) |-> EffectiveWeight(l, p, lat)]
  OBVIOUS
<1>8. \A p \in Range(list) : weight[p] = EffectiveWeight(l, p, lat) /\ weight[p] \in Nat \ {0}
  BY <1>2, <1>7, WeightsFact
<1>9. /\ best \in Range(list) /\ after \in Counters
      /\ \A p \in Range(list) :
           /\ after[p] = s[p] + weight[p] - (IF p = best THEN total ELSE 0)
           /\ s[p] + weight[p] <= s[best] + weight[best]
  <2>1. Range(list) \subseteq Proxies
    BY <1>3 DEF Range
  <2>2. QED
    BY <1>2, <1>4, <1>5, <1>6, <1>8, <2>1, PickFact
<1>10. PICK j \in 1..n : list[j] = best
  BY <1>3, <1>9 DEF Range
<1>11. \A k \in 1..n : list[k] \in Range(list) /\ list[k] \in Proxies /\ (list[k] = best <=> k = j)
  BY <1>3, <1>10 DEF Range, IsInjective
<1>12. \A p \in Proxies : s[p] \in Int /\ after[p] \in Int /\ count[p] \in Nat /\ counted[p] \in Nat
  BY <1>9 DEF Counters
<1>13. PICK owed : owed = Listed(l, s)
  OBVIOUS
<1>14. PICK gains : gains = Gains(l, lat)
  OBVIOUS
<1>15. PICK up : up = [k \in 1..n |-> owed[k] + gains[k]]
  OBVIOUS
<1>16. /\ owed \in Numbers(n) /\ \A k \in 1..n : owed[k] = s[list[k]]
       /\ gains \in Numbers(n) /\ \A k \in 1..n : gains[k] = weight[list[k]]
  <2>1. owed \in Numbers(n)
    BY <1>1, <1>12, <1>13, ListedFact
  <2>2. gains \in Numbers(n)
    BY <1>1, <1>14, WeightsFact
  <2>3. \A k \in 1..n : owed[k] = s[list[k]]
    BY <1>1, <1>2, <1>13 DEF Listed
  <2>4. \A k \in 1..n : gains[k] = weight[list[k]]
    BY <1>1, <1>2, <1>8, <1>11, <1>14 DEF Gains
  <2>5. QED
    BY <2>1, <2>2, <2>3, <2>4
<1>17. \A k \in 1..n : up[k] \in Int /\ up[k] = owed[k] + gains[k]
  BY <1>15, <1>16 DEF Numbers
<1>18. up \in Numbers(n)
  BY <1>15, <1>17 DEF Numbers
<1>19. Total(up) = total
  <2>1. Total(owed) = 0
    BY <1>13 DEF Balanced
  <2>2. Total(gains) = total
    BY <1>4, <1>14, WeightsFact
  <2>3. Total(up) = Total(owed) + Total(gains)
    BY <1>3, <1>16, <1>17, <1>18, TotalAdds
  <2>4. QED
    BY <2>1, <2>2, <2>3
<1>20. s[best] + weight[best] > 0
  <2>1. SUFFICES ASSUME ~(s[best] + weight[best] > 0) PROVE FALSE
    OBVIOUS
  <2>2. PICK zeros : zeros = [k \in 1..n |-> 0]
    OBVIOUS
  <2>3. zeros \in Numbers(n) /\ \A k \in 1..n : zeros[k] = 0
    BY <2>2 DEF Numbers
  <2>4. ASSUME NEW k \in 1..n PROVE up[k] <= zeros[k]
    <3>1. s[list[k]] + weight[list[k]] <= s[best] + weight[best]
      BY <1>9, <1>11
    <3>2. s[best] \in Int /\ weight[best] \in Int /\ best \in Proxies
      BY <1>8, <1>9, <1>10, <1>11, <1>12
    <3>3. up[k] = s[list[k]] + weight[list[k]] /\ up[k] \in Int /\ zeros[k] = 0
      BY <1>16, <1>17, <2>3
    <3>4. QED
      BY <2>1, <3>1, <3>2, <3>3
  <2>5. Total(up) + zeros[j] - up[j] <= Total(zeros)
    BY <1>3, <1>18, <2>3, <2>4, TotalMonotone
  <2>6. Total(zeros) = 0
    BY <1>3, <2>3, TotalZeros
  <2>7. zeros[j] = 0 /\ up[j] <= 0 /\ up[j] \in Int
    BY <1>17, <2>3, <2>4
  <2>8. QED
    BY <1>4, <1>19, <2>5, <2>6, <2>7
<1>21. Total(Listed(l, after)) = 0
  <2>1. PICK owing : owing = Listed(l, after)
    OBVIOUS
  <2>2. PICK paid : paid = [k \in 1..n |-> IF k = j THEN -total ELSE 0]
    OBVIOUS
  <2>3. paid \in Numbers(n) /\ \A k \in 1..n : paid[k] = IF k = j THEN -total ELSE 0
    BY <1>4, <2>2 DEF Numbers
  <2>4. owing \in Numbers(n) /\ \A k \in 1..n : owing[k] = after[list[k]]
    <3>1. owing \in Numbers(n)
      BY <1>1, <1>12, <2>1, ListedFact
    <3>2. \A k \in 1..n : owing[k] = after[list[k]]
      BY <1>1, <1>2, <2>1 DEF Listed
    <3>3. QED
      BY <3>1, <3>2
  <2>5. ASSUME NEW k \in 1..n PROVE owing[k] = up[k] + paid[k]
    <3>1. after[list[k]] = s[list[k]] + weight[list[k]] - (IF k = j THEN total ELSE 0)
      BY <1>9, <1>11
    <3>2. s[list[k]] \in Int /\ weight[list[k]] \in Int
      BY <1>8, <1>11, <1>12
    <3>3. up[k] = s[list[k]] + weight[list[k]]
      BY <1>16, <1>17
    <3>4. QED
      BY <1>4, <2>3, <2>4, <3>1, <3>2, <3>3
  <2>6. Total(owing) = Total(up) + Total(paid)
    BY <1>3, <1>18, <2>3, <2>4, <2>5, TotalAdds
  <2>7. PICK d \in Int : d = -total
    OBVIOUS
  <2>8. Total(paid) = d
    BY <1>3, <2>3, <2>7, TotalSpike
  <2>9. QED
    BY <1>4, <1>19, <2>1, <2>6, <2>7, <2>8
<1>22. Total(Listed(l, counted)) = served + 1
  <2>1. PICK old : old = Listed(l, count)
    OBVIOUS
  <2>2. PICK new : new = Listed(l, counted)
    OBVIOUS
  <2>3. PICK one : one = [k \in 1..n |-> IF k = j THEN 1 ELSE 0]
    OBVIOUS
  <2>4. one \in Numbers(n) /\ \A k \in 1..n : one[k] = IF k = j THEN 1 ELSE 0
    BY <2>3 DEF Numbers
  <2>5. old \in Numbers(n) /\ new \in Numbers(n)
    BY <1>1, <1>12, <2>1, <2>2, ListedFact
  <2>6. \A k \in 1..n : old[k] = count[list[k]] /\ new[k] = counted[list[k]]
    BY <1>1, <1>2, <2>1, <2>2 DEF Listed
  <2>7. \A k \in 1..n : new[k] = old[k] + one[k]
    BY <1>5, <1>11, <2>4, <2>6
  <2>8. Total(new) = Total(old) + Total(one)
    BY <1>3, <2>4, <2>5, <2>7, TotalAdds
  <2>9. Total(one) = 1
    <3>1. PICK d \in Int : d = 1
      OBVIOUS
    <3>2. \A k \in 1..n : one[k] = IF k = j THEN d ELSE 0
      BY <2>4, <3>1
    <3>3. QED
      BY <1>3, <2>4, <3>1, <3>2, TotalSpike
  <2>10. Total(old) = served
    BY <2>1 DEF Balanced
  <2>11. QED
    BY <2>2, <2>8, <2>9, <2>10
<1>23. ASSUME NEW p \in Range(list)
       PROVE  /\ after[p] = (served + 1) * weight[p] - total * counted[p]
              /\ after[p] > -total
  <2>1. p \in Proxies
    BY <1>3 DEF Range
  <2>2. PICK w \in Nat : w = weight[p] /\ w > 0
    BY <1>8
  <2>3. PICK c \in Nat : c = count[p]
    BY <1>12, <2>1
  <2>4. s[p] = served * w - total * c /\ s[p] > -total /\ s[p] \in Int
    BY <1>2, <1>4, <1>8, <1>12, <2>1, <2>2, <2>3 DEF Balanced
  <2>5. PICK a \in Nat : a = served * w
    OBVIOUS
  <2>6. PICK b \in Nat : b = total * c
    OBVIOUS
  <2>7. (served + 1) * w = a + w /\ total * (c + 1) = b + total
    BY <2>5, <2>6
  <2>8. after[p] = s[p] + w - (IF p = best THEN total ELSE 0)
    BY <1>9, <2>2
  <2>9. counted[p] = c + (IF p = best THEN 1 ELSE 0)
    BY <1>5, <2>1, <2>3
  <2>10. CASE p = best
    <3>1. s[p] + w > 0
      BY <1>20, <2>2, <2>10
    <3>2. after[p] = s[p] + w - total /\ counted[p] = c + 1
      BY <2>8, <2>9, <2>10
    <3>3. total * counted[p] = b + total
      BY <2>7, <3>2
    <3>4. QED
      BY <2>2, <2>4, <2>5, <2>6, <2>7, <3>1, <3>2, <3>3
  <2>11. CASE p # best
    <3>1. after[p] = s[p] + w /\ counted[p] = c
      BY <2>2, <2>3, <2>4, <2>8, <2>9, <2>11
    <3>2. total * counted[p] = b
      BY <2>6, <3>1
    <3>3. QED
      BY <2>2, <2>4, <2>5, <2>6, <2>7, <3>1, <3>2
  <2>12. QED
    BY <2>10, <2>11
<1>24. QED
  BY <1>2, <1>4, <1>6, <1>8, <1>21, <1>22, <1>23 DEF Balanced

\* An answer of the group keeps its round in order: the end of one is the level
\* start of the next.
LEMMA RoundStep ==
  ASSUME NEW l, LayerOK(l), Usable(l), l.useSWRR, NEW t \in Tallies, NEW s \in Counters,
         NEW lat \in Measures, InRound(l, t, s, lat)
  PROVE  LET turn == PickSWRR(l, s, lat)
         IN  InRound(l, Count(t, turn.best, TotalWeight(l, lat)), turn.swrr, lat)
<1>1. PICK best : best = PickSWRR(l, s, lat).best
  OBVIOUS
<1>2. PICK total \in Nat : total = TotalWeight(l, lat) /\ total > 0
  BY WeightsFact DEF Usable
<1>3. l.aliveCount > 0
  BY DEF Usable
<1>4. PICK u : u = Count(t, best, total)
  OBVIOUS
<1>5. /\ t.round \in BOOLEAN /\ t.served \in Nat /\ t.count \in [Proxies -> Nat]
      /\ t = [round |-> t.round, served |-> t.served, count |-> t.count]
  BY DEF Tallies
<1>6. PICK count \in [Proxies -> Nat] :
        count = IF t.served >= total THEN [p \in Proxies |-> 0] ELSE t.count
  BY <1>5
<1>7. PICK served \in Nat : served = IF t.served >= total THEN 0 ELSE t.served
  BY <1>5
<1>8. u.round = t.round /\ u.served = served + 1
  BY <1>4, <1>5, <1>7 DEF Count
<1>9. u.count = [p \in Proxies |-> count[p] + (IF p = best THEN 1 ELSE 0)]
  BY <1>4, <1>5, <1>6 DEF Count
<1>10. SUFFICES ASSUME t.round
                PROVE  /\ u.served <= total
                       /\ Balanced(l, u.served, u.count, PickSWRR(l, s, lat).swrr, lat)
  BY <1>1, <1>2, <1>4, <1>8 DEF InRound
<1>11. t.served <= total /\ Balanced(l, t.served, t.count, s, lat)
  BY <1>2, <1>10 DEF InRound
<1>12. served < total /\ Balanced(l, served, count, s, lat)
  <2>1. CASE t.served >= total
    <3>1. t.served = total
      BY <1>5, <1>11, <2>1
    <3>2. \A p \in Range(l.proxies) : s[p] = 0
      BY <1>2, <1>3, <1>5, <1>11, <3>1, RoundIsExact
    <3>3. QED
      BY <1>2, <1>3, <1>6, <1>7, <2>1, <3>2, LevelStart
  <2>2. CASE ~(t.served >= total)
    BY <1>5, <1>6, <1>7, <1>11, <2>2
  <2>3. QED
    BY <2>1, <2>2
<1>13. /\ u.count \in [Proxies -> Nat]
       /\ \A p \in Proxies : u.count[p] = count[p] + (IF p = best THEN 1 ELSE 0)
  BY <1>9
<1>14. Balanced(l, served + 1, u.count, PickSWRR(l, s, lat).swrr, lat)
  BY <1>1, <1>3, <1>12, <1>13, TurnBalances
<1>15. QED
  BY <1>2, <1>7, <1>8, <1>12, <1>14

\* A round does not notice what happens to the counters of other proxies.
LEMMA RoundElsewhere ==
  ASSUME NEW l, LayerOK(l), NEW t, NEW s, NEW r, NEW lat, InRound(l, t, s, lat),
         \A p \in Range(l.proxies) : r[p] = s[p]
  PROVE  InRound(l, t, r, lat)
<1>1. ASSUME NEW k \in 1..l.aliveCount PROVE r[l.proxies[k]] = s[l.proxies[k]]
  BY DEF LayerOK, Range
<1>2. Listed(l, r) = Listed(l, s)
  BY <1>1 DEF Listed
<1>3. QED
  BY <1>2 DEF InRound, Balanced

-----------------------------------------------------------------------------
(* Changes of the pool *)

\* The pool's part of a state, as the lemmas about layers need it.
LEMMA PoolTyped ==
  ASSUME LayersTypeOK
  PROVE  PoolOK(registered, alive, order) /\ latency \in Measures /\ swrr \in Counters
<1>1. latency \in [Proxies -> Nat]
  BY GroupAssumption DEF LayersTypeOK
<1>2. QED
  BY <1>1 DEF LayersTypeOK, PoolOK, Measures, Counters

\* The pool starts in its type.
LEMMA LayersTypeInit ==
  ASSUME LayersInit
  PROVE  LayersTypeOK
BY GroupAssumption DEF LayersInit, LayersTypeOK

\* Whatever changes in the pool leaves it in its type.
LEMMA LayersTypeStep ==
  ASSUME LayersTypeOK, LayersChange
  PROVE  LayersTypeOK'
<1>1. /\ registered \subseteq Proxies /\ alive \subseteq registered /\ order \in Orders
      /\ latency \in [Proxies -> Latencies] /\ swrr \in [Proxies -> Int] /\ 0 \in Latencies
  BY GroupAssumption DEF LayersTypeOK
<1>2. ASSUME NEW p \in Churning, Die(p) PROVE LayersTypeOK'
  BY <1>1, <1>2 DEF Die, Rebuilt, LayersTypeOK
<1>3. ASSUME NEW p \in Churning, Recover(p) PROVE LayersTypeOK'
  BY <1>1, <1>3 DEF Recover, Rebuilt, LayersTypeOK
<1>4. ASSUME NEW p \in Churning, RemoveProxy(p) PROVE LayersTypeOK'
  BY <1>1, <1>4 DEF RemoveProxy, Rebuilt, LayersTypeOK
<1>5. ASSUME NEW p \in Churning, RemoveExpired(p) PROVE LayersTypeOK'
  BY <1>1, <1>5 DEF RemoveExpired, Rebuilt, LayersTypeOK
<1>6. ASSUME NEW p \in Churning, AddProxy(p) PROVE LayersTypeOK'
  <2>1. p \in Proxies
    BY <1>6, GroupAssumption
  <2>2. QED
    BY <1>1, <1>6, <2>1 DEF AddProxy, Rebuilt, LayersTypeOK
<1>7. ASSUME NEW p \in Measured, NEW lat \in Latencies, Measure(p, lat) PROVE LayersTypeOK'
  BY <1>1, <1>7 DEF Measure, LayersTypeOK
<1>8. QED
  BY <1>2, <1>3, <1>4, <1>5, <1>6, <1>7 DEF LayersChange

-----------------------------------------------------------------------------
(* What a group is served *)

\* A layer that is usable yields one of its proxies.
LEMMA PickLayerFact ==
  ASSUME NEW l, LayerOK(l), Usable(l), NEW s \in Counters, NEW lat \in Measures,
         NEW o \in PickLayer(l, s, lat)
  PROVE  /\ o.proxy \in Range(l.proxies) /\ o.swrr \in Counters
         /\ \A p \in Proxies : p \notin Range(l.proxies) => o.swrr[p] = s[p]
         /\ l.useSWRR => LET turn == PickSWRR(l, s, lat)
                         IN  o.proxy = turn.best /\ o.swrr = turn.swrr
<1>1. CASE l.useSWRR
  <2>1. PICK turn : turn = PickSWRR(l, s, lat)
    OBVIOUS
  <2>2. o.proxy = turn.best /\ o.swrr = turn.swrr
    BY <1>1, <2>1 DEF PickLayer
  <2>3. PICK total \in Nat : total = TotalWeight(l, lat)
    BY WeightsFact
  <2>4. turn.best \in Range(l.proxies) /\ turn.swrr \in Counters
    BY <2>1, PickFact DEF Usable
  <2>5. ASSUME NEW p \in Proxies, p \notin Range(l.proxies) PROVE turn.swrr[p] = s[p]
    <3>1. turn.swrr[p] = s[p] + (IF p \in Range(l.proxies) THEN EffectiveWeight(l, p, lat) ELSE 0)
                              - (IF p = turn.best THEN TotalWeight(l, lat) ELSE 0)
      BY <2>1, PickFact DEF Usable
    <3>2. p # turn.best /\ s[p] \in Int
      BY <2>4, <2>5 DEF Counters
    <3>3. turn.swrr[p] = s[p] + 0 - 0
      BY <2>5, <3>1, <3>2
    <3>4. QED
      BY <3>2, <3>3
  <2>6. QED
    BY <2>1, <2>2, <2>4, <2>5
<1>2. CASE ~l.useSWRR
  BY <1>2 DEF PickLayer
<1>3. QED
  BY <1>1, <1>2

\* A proxy of the group's primary layer.
ServesFirst(g, p) ==
    ProviderOf[p] \in Range(g.primary) /\ RegionMatches(g.regions, CountryOf[p])

\* The primary layer of a group is the first of its layers.
LEMMA PrimaryFact ==
  ASSUME NEW g \in Groups, NEW reg, NEW live, NEW ord, PoolOK(reg, live, ord)
  PROVE  LET l == BuildLayers(g, reg, live, ord)[1]
         IN  LayerOK(l) /\ \A p \in Range(l.proxies) : p \in Proxies /\ ServesFirst(g, p)
<1>1. PICK l : l = PrimaryLayer(g, reg, live, ord)
  OBVIOUS
<1>2. BuildLayers(g, reg, live, ord)[1] = l
  BY <1>1 DEF BuildLayers
<1>3. LayerOK(l) /\ \A p \in Range(l.proxies) : ServesFirst(g, p)
  BY <1>1, GroupFact, BuildLayerOK DEF PrimaryLayer, ServesFirst
<1>4. Range(l.proxies) \subseteq Proxies
  BY <1>3 DEF LayerOK, Range
<1>5. QED
  BY <1>2, <1>3, <1>4

\* nextFromGroup: the primary layer serves while it is usable, and only proxies
\* that the group may be served with have their counters changed.
LEMMA NextFromFact ==
  ASSUME NEW g \in Groups, NEW reg, NEW live, NEW ord, PoolOK(reg, live, ord),
         NEW s \in Counters, NEW lat \in Measures,
         NEW o \in NextFrom(BuildLayers(g, reg, live, ord), s, lat)
  PROVE  LET l == BuildLayers(g, reg, live, ord)[1]
         IN  /\ o.proxy \in Proxies \cup {Nil} /\ o.swrr \in Counters
             /\ \A p \in Proxies : ~MayServe(g, p) => o.swrr[p] = s[p]
             /\ Usable(l) => o.proxy \in Range(l.proxies)
             /\ Usable(l) /\ l.useSWRR => LET turn == PickSWRR(l, s, lat)
                                          IN  o.proxy = turn.best /\ o.swrr = turn.swrr
<1>1. PICK layers : layers = BuildLayers(g, reg, live, ord)
  OBVIOUS
<1>2. /\ DOMAIN layers \in {{1}, {1, 2}}
      /\ \A k \in DOMAIN layers :
            LayerOK(layers[k]) /\ \A p \in Range(layers[k].proxies) : MayServe(g, p)
  BY <1>1, LayersOK
<1> DEFINE usable == {k \in DOMAIN layers : Usable(layers[k])}
<1>3. usable \subseteq Nat /\ (Usable(layers[1]) => 1 \in usable)
  BY <1>2
<1>4. o \in IF usable = {} THEN {[proxy |-> Nil, swrr |-> s]}
            ELSE PickLayer(layers[Min(usable)], s, lat)
  BY <1>1 DEF NextFrom
<1>5. CASE usable = {}
  <2>1. o.proxy = Nil /\ o.swrr = s /\ ~Usable(layers[1])
    BY <1>3, <1>4, <1>5
  <2>2. QED
    BY <1>1, <2>1
<1>6. CASE usable # {}
  <2>1. PICK k : k = Min(usable)
    OBVIOUS
  <2>2. k \in usable /\ \A j \in usable : k <= j
    <3> HIDE DEF usable
    <3>1. PICK x \in usable : \A y \in usable : x <= y
      BY <1>3, <1>6, LeastNatural
    <3>2. QED
      BY <2>1, <3>1 DEF Min
  <2>3. Usable(layers[1]) => k = 1
    BY <1>2, <1>3, <2>2
  <2>4. /\ LayerOK(layers[k]) /\ Usable(layers[k])
        /\ \A p \in Range(layers[k].proxies) : MayServe(g, p)
    BY <1>2, <2>2
  <2>5. o \in PickLayer(layers[k], s, lat)
    BY <1>4, <1>6, <2>1
  <2>6. PICK l : l = layers[k]
    OBVIOUS
  <2>7. /\ o.proxy \in Range(l.proxies) /\ o.swrr \in Counters
        /\ \A p \in Proxies : p \notin Range(l.proxies) => o.swrr[p] = s[p]
        /\ l.useSWRR => LET turn == PickSWRR(l, s, lat)
                        IN  o.proxy = turn.best /\ o.swrr = turn.swrr
    BY <2>4, <2>5, <2>6, PickLayerFact
  <2>8. Range(l.proxies) \subseteq Proxies
    BY <2>4, <2>6 DEF LayerOK, Range
  <2>9. \A p \in Proxies : ~MayServe(g, p) => o.swrr[p] = s[p]
    BY <2>4, <2>6, <2>7
  <2>10. QED
    BY <1>1, <2>3, <2>6, <2>7, <2>8, <2>9
<1>7. QED
  BY <1>5, <1>6

-----------------------------------------------------------------------------
(* The schedule of the groups *)

\* Where the properties of the schedule hold whatever groups there are.
ScheduleInv == ScheduleTypeOK /\ PrimaryFirst /\ tally \in [Groups -> Tallies]

\* Counting that starts over.
LEMMA StartOverFact ==
  ASSUME NEW g \in Groups
  PROVE  /\ StartOver(g) \in Tallies
         /\ StartOver(g).served = 0 /\ StartOver(g).count = [p \in Proxies |-> 0]
         /\ StartOver(g).round = TRUE <=> \A p \in Range(Primary(g)'.proxies) : swrr'[p] = 0
<1> DEFINE level == \A p \in Range(Primary(g)'.proxies) : swrr'[p] = 0
<1>1. StartOver(g) = [round |-> level, served |-> 0, count |-> [p \in Proxies |-> 0]]
  BY DEF StartOver
<1>2. level \in BOOLEAN
  OBVIOUS
<1>3. PICK b \in BOOLEAN : b = level
  BY <1>2
<1>4. [p \in Proxies |-> 0] \in [Proxies -> Nat]
  OBVIOUS
<1>5. b = TRUE <=> level
  BY <1>3
<1> HIDE DEF level
<1>6. StartOver(g) = [round |-> b, served |-> 0, count |-> [p \in Proxies |-> 0]]
  BY <1>1, <1>3
<1>7. QED
  BY <1>4, <1>5, <1>6 DEF Tallies, level

\* Counting goes on.
LEMMA CountType ==
  ASSUME NEW t \in Tallies, NEW p, NEW length
  PROVE  Count(t, p, length) \in Tallies
<1>1. PICK over \in BOOLEAN : over = (t.served >= length)
  <2>1. (t.served >= length) \in BOOLEAN
    OBVIOUS
  <2>2. QED
    BY <2>1
<1>2. t.served \in Nat /\ t.count \in [Proxies -> Nat]
  BY DEF Tallies
<1>3. PICK count : count = [q \in Proxies |-> (IF over THEN 0 ELSE t.count[q])
                                                + (IF q = p THEN 1 ELSE 0)]
  OBVIOUS
<1>4. count \in [Proxies -> Nat]
  <2>1. ASSUME NEW q \in Proxies
        PROVE  (IF over THEN 0 ELSE t.count[q]) + (IF q = p THEN 1 ELSE 0) \in Nat
    BY <1>2
  <2>2. QED
    BY <1>3, <2>1
<1>5. PICK served \in Nat : served = IF over THEN 1 ELSE t.served + 1
  BY <1>2
<1>6. Count(t, p, length) = [t EXCEPT !.served = served, !.count = count]
  BY <1>1, <1>3, <1>5 DEF Count
<1>7. QED
  BY <1>4, <1>5, <1>6 DEF Tallies

\* The pool starts out with nothing answered.
LEMMA ScheduleInvInit ==
  ASSUME ScheduleInit
  PROVE  ScheduleInv
<1>1. LayersTypeOK
  BY LayersTypeInit DEF ScheduleInit
<1>2. answer \in Outcome /\ answer.group = Nil
  BY DEF ScheduleInit, NoAnswer, Outcome
<1>3. tally \in [Groups -> Tallies]
  <2>1. [round |-> TRUE, served |-> 0, count |-> [p \in Proxies |-> 0]] \in Tallies
    BY DEF Tallies
  <2>2. QED
    BY <2>1 DEF ScheduleInit
<1>4. PrimaryFirst
  BY <1>2, GroupAssumption DEF PrimaryFirst
<1>5. QED
  BY <1>1, <1>2, <1>3, <1>4 DEF ScheduleInv, ScheduleTypeOK

\* A change of the pool.
LEMMA ScheduleInvChange ==
  ASSUME ScheduleInv, ScheduleChange
  PROVE  ScheduleInv'
<1>1. LayersTypeOK'
  BY LayersTypeStep DEF ScheduleInv, ScheduleTypeOK, ScheduleChange
<1>2. answer' \in Outcome /\ answer'.group = Nil
  BY DEF ScheduleChange, NoAnswer, Outcome
<1>3. tally' \in [Groups -> Tallies]
  BY StartOverFact DEF ScheduleChange
<1>4. PrimaryFirst'
  BY <1>2, GroupAssumption DEF PrimaryFirst
<1>5. QED
  BY <1>1, <1>2, <1>3, <1>4 DEF ScheduleInv, ScheduleTypeOK

\* The answer of a group.
LEMMA ScheduleInvAnswer ==
  ASSUME ScheduleInv, NEW g \in Groups, NextInGroup(g)
  PROVE  ScheduleInv'
<1>1. PICK o \in NextFrom(Layers(g), swrr, latency) :
        /\ swrr' = o.swrr
        /\ answer' = [group |-> g, proxy |-> o.proxy, turn |-> 1 - answer.turn]
        /\ UNCHANGED <<registered, alive, order, latency>>
        /\ tally' = [tally EXCEPT ![g] = IF o.proxy = Nil THEN StartOver(g)
                                         ELSE Count(@, o.proxy, RoundLength(g))]
  BY DEF NextInGroup
<1>2. /\ LayersTypeOK /\ PoolOK(registered, alive, order)
      /\ latency \in Measures /\ swrr \in Counters
  BY PoolTyped DEF ScheduleInv, ScheduleTypeOK
<1>3. /\ o.proxy \in Proxies \cup {Nil} /\ o.swrr \in Counters
      /\ Usable(Primary(g)) => o.proxy \in Range(Primary(g).proxies)
  BY <1>1, <1>2, NextFromFact DEF Layers, Primary
<1>4. LayersTypeOK'
  BY <1>1, <1>2, <1>3 DEF LayersTypeOK, Counters
<1>5. answer' \in Outcome
  BY <1>1, <1>3 DEF ScheduleInv, ScheduleTypeOK, Outcome
<1>6. tally' \in [Groups -> Tallies]
  <2>1. StartOver(g) \in Tallies
    BY StartOverFact
  <2>2. Count(tally[g], o.proxy, RoundLength(g)) \in Tallies
    BY CountType DEF ScheduleInv
  <2>3. QED
    BY <1>1, <2>1, <2>2 DEF ScheduleInv
<1>7. PrimaryFirst'
  <2>1. Primary(g)' = Primary(g)
    BY <1>1 DEF Primary, Layers
  <2>2. ASSUME NEW h \in Groups, answer'.group = h, Usable(Primary(h))'
        PROVE  answer'.proxy \in Range(Primary(h)'.proxies)
    <3>1. h = g
      BY <1>1, <2>2
    <3>2. Usable(Primary(g))
      BY <2>1, <2>2, <3>1
    <3>3. QED
      BY <1>1, <1>3, <2>1, <3>1, <3>2
  <2>3. QED
    BY <2>2 DEF PrimaryFirst
<1>8. QED
  BY <1>4, <1>5, <1>6, <1>7 DEF ScheduleInv, ScheduleTypeOK

\* It holds in every state.
LEMMA ScheduleInvariant == ScheduleSpec => []ScheduleInv
<1>1. ScheduleInv /\ [ScheduleNext]_scheduleVars => ScheduleInv'
  <2>1. SUFFICES ASSUME ScheduleInv, [ScheduleNext]_scheduleVars PROVE ScheduleInv'
    OBVIOUS
  <2>2. CASE ScheduleChange
    BY <2>1, <2>2, ScheduleInvChange
  <2>3. CASE \E g \in Groups : NextInGroup(g)
    BY <2>1, <2>3, ScheduleInvAnswer
  <2>4. CASE UNCHANGED scheduleVars
    BY <2>1, <2>4 DEF scheduleVars, layerVars, ScheduleInv, ScheduleTypeOK, LayersTypeOK,
                      PrimaryFirst, Primary, Layers
  <2>5. QED
    BY <2>1, <2>2, <2>3, <2>4 DEF ScheduleNext
<1>2. QED
  BY <1>1, ScheduleInvInit, PTL DEF ScheduleSpec

\* Type correctness (pool.go:454): whatever the configuration, an answer is a
\* proxy of the pool or none, and the counters stay numbers.
THEOREM ScheduleTyped == ScheduleSpec => []ScheduleTypeOK
BY ScheduleInvariant, PTL DEF ScheduleInv

\* Fallback (pool.go:454-476): no client is served a backup while the primary
\* layer of its group is usable.
THEOREM ServesPrimaryFirst == ScheduleSpec => []PrimaryFirst
BY ScheduleInvariant, PTL DEF ScheduleInv

-----------------------------------------------------------------------------
(* Exact shares *)

\* No proxy of a group's primary layer is one that another group may be served
\* with: the counters of the round-robin are one map for all groups.
Separate ==
    \A g, h \in Groups : g # h =>
        \A p \in Proxies : ServesFirst(g, p) => ~MayServe(h, p)

\* The inductive invariant: every group is at some point of a round.
Rounds == \A g \in Groups : InRound(Primary(g), tally[g], swrr, latency)
ShareInv == ScheduleInv /\ Rounds

\* Everything is level at the start, and where counting starts over.
LEMMA FreshRound ==
  ASSUME NEW l, LayerOK(l), NEW t, t.served = 0, t.count = [p \in Proxies |-> 0],
         NEW s \in Counters, NEW lat \in Measures,
         t.round = TRUE => \A p \in Range(l.proxies) : s[p] = 0, t.round \in BOOLEAN
  PROVE  InRound(l, t, s, lat)
<1>1. SUFFICES ASSUME l.useSWRR, Usable(l), t.round
               PROVE  /\ t.served <= TotalWeight(l, lat)
                      /\ Balanced(l, t.served, t.count, s, lat)
  BY DEF InRound
<1>2. TotalWeight(l, lat) \in Nat
  BY WeightsFact
<1>3. l.aliveCount > 0
  BY <1>1 DEF Usable
<1>4. \A p \in Range(l.proxies) : s[p] = 0
  BY <1>1
<1>5. Balanced(l, 0, [p \in Proxies |-> 0], s, lat)
  BY <1>3, <1>4, LevelStart
<1>6. QED
  BY <1>2, <1>5

\* The pool starts out level.
LEMMA RoundsInit ==
  ASSUME ScheduleInit
  PROVE  Rounds
<1>1. LayersTypeOK
  BY LayersTypeInit DEF ScheduleInit
<1>2. PoolOK(registered, alive, order) /\ latency \in Measures /\ swrr \in Counters
  BY <1>1, PoolTyped
<1>3. ASSUME NEW g \in Groups PROVE InRound(Primary(g), tally[g], swrr, latency)
  <2>1. /\ tally[g].round = TRUE /\ tally[g].served = 0
        /\ tally[g].count = [p \in Proxies |-> 0]
    BY DEF ScheduleInit
  <2>2. PICK l : l = Primary(g)
    OBVIOUS
  <2>3. LayerOK(l) /\ \A p \in Range(l.proxies) : p \in Proxies
    BY <1>2, <2>2, PrimaryFact DEF Primary, Layers
  <2>4. \A p \in Range(l.proxies) : swrr[p] = 0
    BY <2>3 DEF ScheduleInit, LayersInit
  <2>5. QED
    BY <1>2, <2>1, <2>2, <2>3, <2>4, FreshRound
<1>4. QED
  BY <1>3 DEF Rounds

\* A change of the pool.
LEMMA RoundsChange ==
  ASSUME ScheduleInv, ScheduleChange
  PROVE  Rounds'
<1>1. ScheduleInv'
  BY ScheduleInvChange
<1>2. PoolOK(registered, alive, order)' /\ latency' \in Measures /\ swrr' \in Counters
  BY <1>1, GroupAssumption DEF ScheduleInv, ScheduleTypeOK, LayersTypeOK, PoolOK, Measures, Counters
<1>3. ASSUME NEW g \in Groups PROVE InRound(Primary(g)', tally'[g], swrr', latency')
  <2>1. PICK t : t = StartOver(g)
    OBVIOUS
  <2>2. PICK l : l = Primary(g)'
    OBVIOUS
  <2>3. tally'[g] = t
    BY <2>1 DEF ScheduleChange
  <2>4. /\ t \in Tallies /\ t.served = 0 /\ t.count = [p \in Proxies |-> 0]
        /\ t.round = TRUE <=> \A p \in Range(l.proxies) : swrr'[p] = 0
    BY <2>1, <2>2, StartOverFact
  <2>5. LayerOK(l)
    BY <1>2, <2>2, PrimaryFact DEF Primary, Layers, PoolOK
  <2>6. t.round \in BOOLEAN
    BY <2>4 DEF Tallies
  <2>7. InRound(l, t, swrr', latency')
    BY <1>2, <2>4, <2>5, <2>6, FreshRound
  <2>8. QED
    BY <2>2, <2>3, <2>7
<1>4. QED
  BY <1>3 DEF Rounds, Primary, InRound, Balanced

\* The answer of a group: its own round goes on, those of the others do not
\* notice.
LEMMA RoundsAnswer ==
  ASSUME Separate, ShareInv, NEW g \in Groups, NextInGroup(g)
  PROVE  Rounds'
<1>1. PICK o \in NextFrom(Layers(g), swrr, latency) :
        /\ swrr' = o.swrr
        /\ UNCHANGED <<registered, alive, order, latency>>
        /\ tally' = [tally EXCEPT ![g] = IF o.proxy = Nil THEN StartOver(g)
                                         ELSE Count(@, o.proxy, RoundLength(g))]
  BY DEF NextInGroup
<1>2. PoolOK(registered, alive, order) /\ latency \in Measures /\ swrr \in Counters
  BY PoolTyped DEF ShareInv, ScheduleInv, ScheduleTypeOK
<1>3. /\ \A p \in Proxies : ~MayServe(g, p) => swrr'[p] = swrr[p]
      /\ Usable(Primary(g)) /\ Primary(g).useSWRR =>
           LET turn == PickSWRR(Primary(g), swrr, latency)
           IN  o.proxy = turn.best /\ swrr' = turn.swrr
      /\ Usable(Primary(g)) => o.proxy \in Range(Primary(g).proxies)
  BY <1>1, <1>2, NextFromFact DEF Layers, Primary
<1>4. \A h \in Groups : Primary(h)' = Primary(h)
  BY <1>1 DEF Primary, Layers
<1>5. ASSUME NEW h \in Groups PROVE InRound(Primary(h), tally'[h], swrr', latency)
  <2>1. PICK l : l = Primary(h)
    OBVIOUS
  <2>2. PICK t \in Tallies : t = tally[h]
    BY DEF ShareInv, ScheduleInv
  <2>3. InRound(l, t, swrr, latency)
    BY <2>1, <2>2 DEF ShareInv, Rounds
  <2>4. LayerOK(l) /\ \A p \in Range(l.proxies) : p \in Proxies /\ ServesFirst(h, p)
    BY <1>2, <2>1, PrimaryFact DEF Primary, Layers
  <2>5. CASE h # g
    <3>1. \A p \in Range(l.proxies) : swrr'[p] = swrr[p]
      BY <1>3, <2>4, <2>5 DEF Separate
    <3>2. tally'[h] = t
      BY <1>1, <2>2, <2>5 DEF ShareInv, ScheduleInv
    <3>3. QED
      BY <2>1, <2>3, <2>4, <3>1, <3>2, RoundElsewhere
  <2>6. CASE h = g /\ l.useSWRR /\ Usable(l)
    <3>1. o.proxy = PickSWRR(l, swrr, latency).best /\ swrr' = PickSWRR(l, swrr, latency).swrr
      BY <1>3, <2>1, <2>6
    <3>2. o.proxy # Nil
      BY <1>3, <2>1, <2>4, <2>6, GroupAssumption
    <3>3. tally'[h] = Count(t, o.proxy, TotalWeight(l, latency))
      BY <1>1, <2>1, <2>2, <2>6, <3>2 DEF ShareInv, ScheduleInv, RoundLength
    <3>4. QED
      BY <1>2, <2>1, <2>3, <2>4, <2>6, <3>1, <3>3, RoundStep
  <2>7. CASE ~(l.useSWRR /\ Usable(l))
    BY <2>1, <2>7 DEF InRound
  <2>8. QED
    BY <2>5, <2>6, <2>7
<1>6. latency' = latency
  BY <1>1
<1>7. QED
  BY <1>4, <1>5, <1>6 DEF Rounds, InRound, Balanced

\* Precise weighted sharing (docs/scheduling.md, pool.go:582): after every round that
\* began level, each proxy of the primary layer has been served as often as its
\* weight says, for all weights, latencies and sizes of the layer.
THEOREM SharesAreExact ==
  ASSUME Separate
  PROVE  ScheduleSpec => []ExactShare
<1>1. ScheduleInit => ShareInv
  BY ScheduleInvInit, RoundsInit DEF ShareInv
<1>2. ShareInv /\ [ScheduleNext]_scheduleVars => ShareInv'
  <2>1. SUFFICES ASSUME ShareInv, [ScheduleNext]_scheduleVars PROVE ShareInv'
    OBVIOUS
  <2>2. CASE ScheduleChange
    BY <2>1, <2>2, ScheduleInvChange, RoundsChange DEF ShareInv
  <2>3. CASE \E g \in Groups : NextInGroup(g)
    BY <2>1, <2>3, ScheduleInvAnswer, RoundsAnswer DEF ShareInv
  <2>4. CASE UNCHANGED scheduleVars
    <3>1. ScheduleInv'
      BY <2>1, <2>4 DEF ShareInv, scheduleVars, layerVars, ScheduleInv, ScheduleTypeOK,
                        LayersTypeOK, PrimaryFirst, Primary, Layers
    <3>2. Rounds'
      BY <2>1, <2>4 DEF ShareInv, scheduleVars, layerVars, Rounds, Primary, Layers
    <3>3. QED
      BY <3>1, <3>2 DEF ShareInv
  <2>5. QED
    BY <2>1, <2>2, <2>3, <2>4 DEF ScheduleNext
<1>3. ShareInv => ExactShare
  <2>1. SUFFICES ASSUME ShareInv, NEW g \in Groups, Primary(g).useSWRR, Usable(Primary(g)),
                        tally[g].round, tally[g].served = RoundLength(g),
                        NEW p \in Range(Primary(g).proxies)
                 PROVE  tally[g].count[p] = Weight(g, p)
    BY DEF ExactShare
  <2>2. PICK l : l = Primary(g)
    OBVIOUS
  <2>3. PoolOK(registered, alive, order) /\ latency \in Measures /\ swrr \in Counters
    BY <2>1, PoolTyped DEF ShareInv, ScheduleInv, ScheduleTypeOK
  <2>4. LayerOK(l)
    BY <2>2, <2>3, PrimaryFact DEF Primary, Layers
  <2>5. PICK t \in Tallies : t = tally[g]
    BY <2>1 DEF ShareInv, ScheduleInv
  <2>6. InRound(l, t, swrr, latency)
    BY <2>1, <2>2, <2>5 DEF ShareInv, Rounds
  <2>7. Balanced(l, TotalWeight(l, latency), t.count, swrr, latency)
    BY <2>1, <2>2, <2>5, <2>6 DEF InRound, RoundLength
  <2>8. t.count \in [Proxies -> Nat] /\ l.aliveCount > 0
    BY <2>1, <2>2, <2>5 DEF Tallies, Usable
  <2>9. t.count[p] = EffectiveWeight(l, p, latency)
    BY <2>1, <2>2, <2>3, <2>4, <2>7, <2>8, RoundIsExact
  <2>10. QED
    BY <2>2, <2>5, <2>9 DEF Weight
<1>4. QED
  BY <1>1, <1>2, <1>3, PTL DEF ScheduleSpec

-----------------------------------------------------------------------------
(* The requests of the gateway *)

\* A request is a record with these fields.
Fields == {"stage", "kind", "group", "excluded", "tried", "rest", "rounds", "bodyLeft",
           "reply", "empty", "whole"}
Shaped(r) == r = [f \in Fields |-> r[f]]

\* Every attempt has excluded another proxy, and there is one to come while a
\* proxy is picked.
AttemptsOK(r) ==
    /\ IsFiniteSet(r.excluded) /\ r.tried \in Nat /\ Cardinality(r.excluded) = r.tried
    /\ r.tried <= MaxProxyAttempts
    /\ r.stage = "pick" => r.tried < MaxProxyAttempts
    /\ r.stage \in {"dial", "send", "read"} => r.tried > 0

\* A body that has been written whole is gone.
BodyOK(r) ==
    /\ r.bodyLeft \in BOOLEAN /\ r.whole \in {0, 1}
    /\ r.bodyLeft = TRUE \/ r.kind # "post" => r.whole = 0
    /\ r.kind = "post" /\ r.stage = "read" => r.whole = 1

\* A tunnel was asked for.
TunnelOK(r) == r.stage = "tunnel" => r.kind = "connect"

\* The first pick goes without a proxy only if there was no layer.
EmptyOK(r) ==
    /\ r.empty \in BOOLEAN
    /\ r.stage = "pick" /\ r.tried = 0 /\ r.rest = << >> => r.empty = TRUE

Core(r)      == Shaped(r) /\ AttemptsOK(r) /\ BodyOK(r) /\ TunnelOK(r)
RequestOK(r) == Core(r) /\ EmptyOK(r)

IInv == req = [c \in Clients |-> req[c]] /\ \A c \in Clients : RequestOK(req[c])

\* What the properties say of a step of one request from r to q.
Sound(r, q) ==
    /\ q.whole <= 1
    /\ r.stage # "idle" /\ q.stage = "idle" =>
         /\ r.kind = "post" /\ q.reply = "relayed" => r.whole = 1
         /\ q.reply = "noProxy" => r.empty = TRUE
         /\ q.reply = "allFailed" => r.tried > 0 /\ Cardinality(r.excluded) = r.tried

\* A step of the request of c, from req[c] to q.
Moves(c, q) ==
    /\ req' = [req EXCEPT ![c] = q]
    /\ RequestOK(q) /\ Sound(req[c], q)

-----------------------------------------------------------------------------
(* The forms a request takes *)

\* The code makes an attempt at least (gateway.go:37).
LEMMA AttemptsFact == MaxProxyAttempts \in Nat /\ MaxProxyAttempts > 0
BY GatewayAssumption

\* A request whose locals are gone.
LEMMA BlankFact ==
  ASSUME NEW s
  PROVE  /\ Shaped(Blank(s)) /\ Blank(s).stage = s /\ Blank(s).kind = "none"
         /\ Blank(s).excluded = {} /\ Blank(s).tried = 0 /\ Blank(s).bodyLeft = TRUE
         /\ Blank(s).whole = 0 /\ Blank(s).empty = FALSE
         /\ Blank(s).rest = << >>
BY DEF Blank, Shaped, Fields

\* An attempt at a request without exclusions.
LEMMA NoneExcluded == IsFiniteSet({}) /\ Cardinality({}) = 0
BY FS_EmptySet

\* The handler returns.
LEMMA AnswerOK ==
  ASSUME NEW c \in Clients, IInv, NEW rep, Answer(c, rep),
         req[c].stage # "idle",
         req[c].kind = "post" /\ rep = "relayed" => req[c].whole = 1,
         rep = "noProxy" => req[c].empty = TRUE,
         rep = "allFailed" => req[c].tried > 0
  PROVE  \E q : Moves(c, q)
<1>1. RequestOK(req[c])
  BY DEF IInv
<1>2. PICK b : b = Blank("idle")
  OBVIOUS
<1>3. /\ Shaped(b) /\ b.stage = "idle" /\ b.kind = "none" /\ b.excluded = {} /\ b.tried = 0
      /\ b.bodyLeft = TRUE /\ b.whole = 0 /\ b.empty = FALSE /\ b.rest = << >>
  BY <1>2, BlankFact
<1> DEFINE q == [b EXCEPT !.reply = rep]
<1>4. req' = [req EXCEPT ![c] = q]
  BY <1>2 DEF Answer
<1>5. /\ Shaped(q) /\ q.stage = "idle" /\ q.kind = "none" /\ q.excluded = {} /\ q.tried = 0
      /\ q.bodyLeft = TRUE /\ q.whole = 0 /\ q.empty = FALSE /\ q.reply = rep
  BY <1>3 DEF Shaped, Fields
<1> HIDE DEF q
<1>6. RequestOK(q)
  <2>1. AttemptsOK(q)
    BY <1>5, NoneExcluded, AttemptsFact DEF AttemptsOK
  <2>2. BodyOK(q)
    BY <1>5 DEF BodyOK
  <2>3. TunnelOK(q)
    BY <1>5 DEF TunnelOK
  <2>4. EmptyOK(q)
    BY <1>5 DEF EmptyOK
  <2>5. QED
    BY <1>5, <2>1, <2>2, <2>3, <2>4 DEF RequestOK, Core
<1>7. Sound(req[c], q)
  BY <1>1, <1>5 DEF Sound, RequestOK, Core, AttemptsOK
<1>8. QED
  BY <1>4, <1>6, <1>7 DEF Moves

\* The snapshot is loaded for another attempt.
LEMMA LoadOK ==
  ASSUME NEW r, Core(r), r.stage # "idle", r.tried < MaxProxyAttempts
  PROVE  RequestOK(LoadLayers(r)) /\ LoadLayers(r).stage = "pick" /\ LoadLayers(r).whole = r.whole
<1> DEFINE layers == IF r.group \in configured THEN UsableLayers(r.group) ELSE << >>
<1>1. PICK b \in BOOLEAN : b = TRUE <=> layers = << >>
  <2>1. (layers = << >>) \in BOOLEAN
    OBVIOUS
  <2>2. QED
    BY <2>1
<1>2. LoadLayers(r) = [r EXCEPT !.stage = "pick", !.rest = layers, !.rounds = 0,
                                !.empty = (layers = << >>)]
  BY DEF LoadLayers
<1>3. b = (layers = << >>)
  BY <1>1
<1> HIDE DEF layers
<1>4. PICK q : q = [r EXCEPT !.stage = "pick", !.rest = layers, !.rounds = 0, !.empty = b]
  OBVIOUS
<1>5. LoadLayers(r) = q
  BY <1>2, <1>3, <1>4
<1>6. /\ Shaped(q) /\ q.stage = "pick" /\ q.kind = r.kind /\ q.excluded = r.excluded
      /\ q.tried = r.tried /\ q.bodyLeft = r.bodyLeft /\ q.whole = r.whole
      /\ q.rest = layers /\ q.empty = b
  BY <1>4 DEF Core, Shaped, Fields
<1>7. RequestOK(q)
  BY <1>1, <1>6 DEF RequestOK, Core, AttemptsOK, BodyOK, TunnelOK, EmptyOK
<1>8. QED
  BY <1>5, <1>6, <1>7

\* A request that goes on: nothing is said of it yet.
LEMMA GoesOn ==
  ASSUME NEW c \in Clients, NEW q, req' = [req EXCEPT ![c] = q], RequestOK(q), q.stage # "idle"
  PROVE  \E x : Moves(c, x)
<1>1. Sound(req[c], q)
  BY DEF Sound, RequestOK, Core, BodyOK
<1>2. QED
  BY <1>1 DEF Moves

\* A request that is left to its upstream has no locals.
LEMMA LeftOK ==
  ASSUME NEW s \in {"silent", "tunnel"}, NEW q, Shaped(q), q.stage = s, q.excluded = {},
         q.tried = 0, q.bodyLeft = TRUE, q.whole = 0, q.empty = FALSE,
         s = "tunnel" => q.kind = "connect"
  PROVE  RequestOK(q) /\ q.stage # "idle"
<1>1. AttemptsOK(q)
  BY NoneExcluded, AttemptsFact DEF AttemptsOK
<1>2. BodyOK(q)
  BY DEF BodyOK
<1>3. TunnelOK(q)
  BY DEF TunnelOK
<1>4. EmptyOK(q)
  BY DEF EmptyOK
<1>5. QED
  BY <1>1, <1>2, <1>3, <1>4 DEF RequestOK, Core

\* An attempt has failed: the next one, or the answer that all have.
LEMMA RetryOK ==
  ASSUME NEW c \in Clients, IInv, NEW r, Core(r), r.stage # "idle", Retry(c, r),
         req[c].stage \in {"dial", "send", "read"}
  PROVE  \E q : Moves(c, q)
<1>1. req[c].tried > 0 /\ req[c].stage # "idle"
  BY DEF IInv, RequestOK, Core, AttemptsOK
<1>2. CASE r.kind = "plain" \/ r.tried >= MaxProxyAttempts
  <2>1. Answer(c, "allFailed")
    BY <1>2 DEF Retry
  <2>2. QED
    BY <1>1, <2>1, AnswerOK
<1>3. CASE ~(r.kind = "plain" \/ r.tried >= MaxProxyAttempts)
  <2>1. r.tried < MaxProxyAttempts
    BY <1>3, AttemptsFact DEF Core, AttemptsOK
  <2>2. RequestOK(LoadLayers(r)) /\ LoadLayers(r).stage # "idle"
    BY <2>1, LoadOK
  <2>3. req' = [req EXCEPT ![c] = LoadLayers(r)]
    BY <1>3 DEF Retry
  <2>4. QED
    BY <2>2, <2>3, GoesOn
<1>4. QED
  BY <1>2, <1>3

-----------------------------------------------------------------------------
(* The steps of a request *)

\* ServeHTTP has found the group.
LEMMA ArriveMoves ==
  ASSUME NEW c \in Clients, IInv, NEW k, NEW g, Arrive(c, k, g)
  PROVE  \E q : Moves(c, q)
<1>1. PICK b : b = Blank("pick")
  OBVIOUS
<1>2. /\ Shaped(b) /\ b.stage = "pick" /\ b.excluded = {} /\ b.tried = 0
      /\ b.bodyLeft = TRUE /\ b.whole = 0
  BY <1>1, BlankFact
<1>3. PICK r : r = [b EXCEPT !.kind = k, !.group = g]
  OBVIOUS
<1>4. /\ Shaped(r) /\ r.stage = "pick" /\ r.excluded = {} /\ r.tried = 0
      /\ r.bodyLeft = TRUE /\ r.whole = 0
  BY <1>2, <1>3 DEF Shaped, Fields
<1>5. AttemptsOK(r)
  BY <1>4, NoneExcluded, AttemptsFact DEF AttemptsOK
<1>6. BodyOK(r) /\ TunnelOK(r)
  <2>1. BodyOK(r)
    BY <1>4 DEF BodyOK
  <2>2. TunnelOK(r)
    BY <1>4 DEF TunnelOK
  <2>3. QED
    BY <2>1, <2>2
<1>7. Core(r) /\ r.stage # "idle" /\ r.tried < MaxProxyAttempts
  <2>1. r.tried < MaxProxyAttempts
    BY <1>4, AttemptsFact
  <2>2. QED
    BY <1>4, <1>5, <1>6, <2>1 DEF Core
<1>8. RequestOK(LoadLayers(r)) /\ LoadLayers(r).stage # "idle"
  BY <1>7, LoadOK
<1>9. req' = [req EXCEPT ![c] = LoadLayers(r)]
  BY <1>1, <1>3 DEF Arrive
<1>10. QED
  BY <1>8, <1>9, GoesOn

\* The pick returns a proxy that was not tried before.
LEMMA ChosenOK ==
  ASSUME NEW r, RequestOK(r), r.stage = "pick", NEW p, p \notin r.excluded
  PROVE  RequestOK(Chosen(r, p)) /\ Chosen(r, p).stage # "idle"
<1>1. PICK q : q = Chosen(r, p)
  OBVIOUS
<1>2. /\ Shaped(q) /\ q.stage = "dial" /\ q.excluded = r.excluded \cup {p}
      /\ q.tried = r.tried + 1 /\ q.kind = r.kind /\ q.bodyLeft = r.bodyLeft
      /\ q.whole = r.whole /\ q.empty = r.empty
  BY <1>1 DEF Chosen, RequestOK, Core, Shaped, Fields
<1>3. AttemptsOK(q)
  <2>1. /\ IsFiniteSet(r.excluded) /\ r.tried \in Nat /\ Cardinality(r.excluded) = r.tried
        /\ r.tried < MaxProxyAttempts
    BY DEF RequestOK, Core, AttemptsOK
  <2>2. IsFiniteSet(q.excluded) /\ Cardinality(q.excluded) = Cardinality(r.excluded) + 1
    <3>1. PICK S : S = r.excluded
      OBVIOUS
    <3>2. IsFiniteSet(S) /\ p \notin S
      BY <2>1, <3>1
    <3>3. IsFiniteSet(S \cup {p}) /\ Cardinality(S \cup {p}) = Cardinality(S) + 1
      BY ONLY <3>2, FS_AddElement, Zenon
    <3>4. QED
      BY <1>2, <3>1, <3>3
  <2>3. QED
    BY <1>2, <2>1, <2>2, AttemptsFact DEF AttemptsOK
<1>4. BodyOK(q)
  BY <1>2 DEF RequestOK, Core, BodyOK
<1>5. TunnelOK(q)
  BY <1>2 DEF RequestOK, Core, TunnelOK
<1>6. EmptyOK(q)
  BY <1>2 DEF RequestOK, EmptyOK
<1>7. QED
  BY <1>1, <1>2, <1>3, <1>4, <1>5, <1>6 DEF RequestOK, Core

\* A request that goes on in the layer, or to the next one, after it has tried
\* a proxy.
LEMMA NextRoundOK ==
  ASSUME NEW r, RequestOK(r), r.stage = "pick", r.tried # 0, NEW q, Shaped(q),
         q.stage = r.stage, q.excluded = r.excluded, q.tried = r.tried, q.kind = r.kind,
         q.bodyLeft = r.bodyLeft, q.whole = r.whole, q.empty = r.empty
  PROVE  RequestOK(q) /\ q.stage # "idle"
<1>1. AttemptsOK(q)
  BY DEF RequestOK, Core, AttemptsOK
<1>2. BodyOK(q)
  BY DEF RequestOK, Core, BodyOK
<1>3. TunnelOK(q)
  BY DEF RequestOK, Core, TunnelOK
<1>4. EmptyOK(q)
  BY DEF RequestOK, EmptyOK
<1>5. QED
  BY <1>1, <1>2, <1>3, <1>4 DEF RequestOK, Core

\* Only after an attempt is a proxy excluded.
LEMMA ExcludedTried ==
  ASSUME NEW r, RequestOK(r), NEW p \in r.excluded
  PROVE  r.tried # 0
<1>1. IsFiniteSet(r.excluded) /\ Cardinality(r.excluded) = r.tried
  BY DEF RequestOK, Core, AttemptsOK
<1>2. Cardinality(r.excluded) = 0 <=> r.excluded = {}
  BY <1>1, FS_EmptySet
<1>3. QED
  BY <1>1, <1>2

\* The layer yields nothing.
LEMMA NextLayerOK ==
  ASSUME NEW r, RequestOK(r), r.stage = "pick", NEW p \in r.excluded
  PROVE  RequestOK(NextLayer(r)) /\ NextLayer(r).stage # "idle"
<1>1. r.tried # 0
  BY ExcludedTried
<1>2. PICK q : q = NextLayer(r)
  OBVIOUS
<1>3. /\ Shaped(q) /\ q.stage = r.stage /\ q.excluded = r.excluded /\ q.tried = r.tried
      /\ q.kind = r.kind /\ q.bodyLeft = r.bodyLeft /\ q.whole = r.whole
      /\ q.empty = r.empty
  BY <1>2 DEF NextLayer, RequestOK, Core, Shaped, Fields
<1>4. QED
  BY <1>1, <1>2, <1>3, NextRoundOK

\* The SWRR has had an excluded proxy's turn.
LEMMA RoundGoesOn ==
  ASSUME NEW r, RequestOK(r), r.stage = "pick", NEW p \in r.excluded
  PROVE  /\ RequestOK([r EXCEPT !.rounds = @ + 1])
         /\ [r EXCEPT !.rounds = @ + 1].stage # "idle"
<1>1. r.tried # 0
  BY ExcludedTried
<1>2. PICK q : q = [r EXCEPT !.rounds = @ + 1]
  OBVIOUS
<1>3. /\ Shaped(q) /\ q.stage = r.stage /\ q.excluded = r.excluded /\ q.tried = r.tried
      /\ q.kind = r.kind /\ q.bodyLeft = r.bodyLeft /\ q.whole = r.whole
      /\ q.empty = r.empty
  BY <1>2 DEF RequestOK, Core, Shaped, Fields
<1>4. QED
  BY <1>1, <1>2, <1>3, NextRoundOK

\* One round of pickLayer.
LEMMA PickRoundMoves ==
  ASSUME NEW c \in Clients, IInv, PickRound(c)
  PROVE  \E q : Moves(c, q)
<1>1. PICK r : r = req[c]
  OBVIOUS
<1>2. RequestOK(r) /\ r.stage = "pick"
  BY <1>1 DEF IInv, PickRound
<1>3. CASE \E p : p \notin r.excluded /\ req' = [req EXCEPT ![c] = Chosen(r, p)]
  BY <1>2, <1>3, ChosenOK, GoesOn
<1>4. CASE \E p : p \in r.excluded /\ req' = [req EXCEPT ![c] = NextLayer(r)]
  BY <1>2, <1>4, NextLayerOK, GoesOn
<1>5. CASE \E p : p \in r.excluded /\ req' = [req EXCEPT ![c] = [r EXCEPT !.rounds = @ + 1]]
  <2>1. /\ RequestOK([r EXCEPT !.rounds = @ + 1])
        /\ [r EXCEPT !.rounds = @ + 1].stage # "idle"
    BY <1>2, <1>5, RoundGoesOn
  <2>2. PICK q : q = [r EXCEPT !.rounds = @ + 1]
    OBVIOUS
  <2>3. QED
    BY <1>5, <2>1, <2>2, GoesOn
<1>6. \/ \E p : p \notin r.excluded /\ req' = [req EXCEPT ![c] = Chosen(r, p)]
      \/ \E p : p \in r.excluded /\ req' = [req EXCEPT ![c] = NextLayer(r)]
      \/ \E p : p \in r.excluded /\ req' = [req EXCEPT ![c] = [r EXCEPT !.rounds = @ + 1]]
  <2>1. PICK l : l = Head(r.rest)
    OBVIOUS
  <2>2. PICK best : best = PickSWRR(l, swrr, latency).best
    OBVIOUS
  <2>3. CASE req' = [req EXCEPT ![c] = IF best \notin r.excluded THEN Chosen(r, best)
                                       ELSE IF r.rounds + 1 = Len(l.proxies) THEN NextLayer(r)
                                       ELSE [r EXCEPT !.rounds = @ + 1]]
    <3>1. CASE best \notin r.excluded
      BY <2>3, <3>1
    <3>2. CASE best \in r.excluded /\ r.rounds + 1 = Len(l.proxies)
      BY <2>3, <3>2
    <3>3. CASE best \in r.excluded /\ ~(r.rounds + 1 = Len(l.proxies))
      BY <2>3, <3>3
    <3>4. QED
      BY <3>1, <3>2, <3>3
  <2>4. CASE \E p \in Range(l.proxies) \ r.excluded : req' = [req EXCEPT ![c] = Chosen(r, p)]
    BY <2>4
  <2>5. CASE /\ Range(l.proxies) \cap r.excluded # {}
             /\ req' = [req EXCEPT ![c] = NextLayer(r)]
    BY <2>5
  <2>6. QED
    BY <1>1, <2>1, <2>2, <2>3, <2>4, <2>5 DEF PickRound
<1>7. QED
  BY <1>3, <1>4, <1>5, <1>6

\* The pick returns nil: before the first attempt only without a layer.
LEMMA NoneLeftMoves ==
  ASSUME NEW c \in Clients, IInv, NoneLeft(c)
  PROVE  \E q : Moves(c, q)
<1>1. RequestOK(req[c]) /\ req[c].stage = "pick" /\ req[c].rest = << >>
  BY DEF IInv, NoneLeft
<1>2. req[c].tried \in Nat /\ (req[c].tried = 0 => req[c].empty = TRUE)
  BY <1>1 DEF RequestOK, Core, AttemptsOK, EmptyOK
<1>3. CASE req[c].tried > 0
  <2>1. Answer(c, "allFailed")
    BY <1>3 DEF NoneLeft
  <2>2. QED
    BY <1>1, <1>3, <2>1, AnswerOK
<1>4. CASE ~(req[c].tried > 0)
  <2>1. Answer(c, "noProxy")
    BY <1>4 DEF NoneLeft
  <2>2. req[c].empty = TRUE
    BY <1>2, <1>4
  <2>3. QED
    BY <1>1, <2>1, <2>2, AnswerOK
<1>5. QED
  BY <1>3, <1>4

\* An upstream that says nothing keeps the request.
LEMMA HangMoves ==
  ASSUME NEW c \in Clients, Hang(c)
  PROVE  \E q : Moves(c, q)
<1>1. PICK q : q = Blank("silent")
  OBVIOUS
<1>2. /\ Shaped(q) /\ q.stage = "silent" /\ q.excluded = {} /\ q.tried = 0
      /\ q.bodyLeft = TRUE /\ q.whole = 0 /\ q.empty = FALSE
  BY <1>1, BlankFact
<1>3. RequestOK(q) /\ q.stage # "idle"
  BY <1>2, LeftOK
<1>4. QED
  BY <1>1, <1>3, GoesOn DEF Hang

\* The next stage of an attempt.
LEMMA GotoMoves ==
  ASSUME NEW c \in Clients, IInv, NEW s \in {"send", "read"}, Goto(c, s),
         req[c].stage \in {"dial", "send"}, s = "read" => req[c].kind # "post"
  PROVE  \E q : Moves(c, q)
<1>1. PICK r : r = req[c]
  OBVIOUS
<1>2. RequestOK(r) /\ r.stage \in {"dial", "send"}
  BY <1>1 DEF IInv
<1>3. PICK q : q = [r EXCEPT !.stage = s]
  OBVIOUS
<1>4. /\ Shaped(q) /\ q.stage = s /\ q.excluded = r.excluded /\ q.tried = r.tried
      /\ q.kind = r.kind /\ q.bodyLeft = r.bodyLeft /\ q.whole = r.whole
      /\ q.empty = r.empty
  BY <1>2, <1>3 DEF RequestOK, Core, Shaped, Fields
<1>5. req' = [req EXCEPT ![c] = q]
  BY <1>1, <1>3 DEF Goto
<1>6. AttemptsOK(q)
  BY <1>2, <1>4 DEF RequestOK, Core, AttemptsOK
<1>7. BodyOK(q)
  BY <1>1, <1>2, <1>4 DEF RequestOK, Core, BodyOK
<1>8. TunnelOK(q)
  BY <1>2, <1>4 DEF RequestOK, Core, TunnelOK
<1>9. EmptyOK(q)
  BY <1>2, <1>4 DEF RequestOK, EmptyOK
<1>10. RequestOK(q) /\ q.stage # "idle"
  BY <1>4, <1>6, <1>7, <1>8, <1>9 DEF RequestOK, Core
<1>11. QED
  BY <1>5, <1>10, GoesOn

\* dialUpstream returns.
LEMMA DialMoves ==
  ASSUME NEW c \in Clients, IInv, Dial(c)
  PROVE  \E q : Moves(c, q)
<1>1. RequestOK(req[c]) /\ req[c].stage = "dial"
  BY DEF IInv, Dial
<1>2. CASE Goto(c, "send")
  BY <1>1, <1>2, GotoMoves
<1>3. CASE Hang(c)
  BY <1>3, HangMoves
<1>4. CASE Retry(c, req[c])
  BY <1>1, <1>4, RetryOK DEF RequestOK
<1>5. QED
  BY <1>2, <1>3, <1>4 DEF Dial

\* A body is written from a reader that has not been read from.
LEMMA BodyWritten ==
  ASSUME NEW c \in Clients, IInv, req[c].stage = "send", req[c].kind = "post",
         req[c].bodyLeft = TRUE,
         req' = [req EXCEPT ![c].stage = "read", ![c].bodyLeft = FALSE,
                            ![c].whole = IF req[c].bodyLeft THEN @ + 1 ELSE @]
  PROVE  \E q : Moves(c, q)
<1>1. PICK r : r = req[c]
  OBVIOUS
<1>2. RequestOK(r) /\ r.stage = "send" /\ r.kind = "post" /\ r.whole = 0
  BY <1>1 DEF IInv, RequestOK, Core, BodyOK
<1>3. PICK q : q = [r EXCEPT !.stage = "read", !.bodyLeft = FALSE, !.whole = 1]
  OBVIOUS
<1>4. /\ Shaped(q) /\ q.stage = "read" /\ q.excluded = r.excluded /\ q.tried = r.tried
      /\ q.kind = "post" /\ q.bodyLeft = FALSE /\ q.whole = 1
      /\ q.empty = r.empty
  BY <1>2, <1>3 DEF RequestOK, Core, Shaped, Fields
<1>5. req' = [req EXCEPT ![c] = q]
  <2>1. r = [f \in Fields |-> r[f]]
    BY <1>2 DEF RequestOK, Core, Shaped
  <2>2. req = [x \in Clients |-> req[x]]
    BY DEF IInv
  <2>3. 0 + 1 = 1
    OBVIOUS
  <2>4. QED
    BY <1>1, <1>2, <1>3, <2>1, <2>2, <2>3 DEF Fields
<1>6. AttemptsOK(q)
  BY <1>2, <1>4 DEF RequestOK, Core, AttemptsOK
<1>7. BodyOK(q)
  BY <1>4 DEF BodyOK
<1>8. TunnelOK(q)
  BY <1>2, <1>4 DEF RequestOK, Core, TunnelOK
<1>9. EmptyOK(q)
  BY <1>2, <1>4 DEF RequestOK, EmptyOK
<1>10. RequestOK(q) /\ q.stage # "idle"
  BY <1>4, <1>6, <1>7, <1>8, <1>9 DEF RequestOK, Core
<1>11. QED
  BY <1>5, <1>10, GoesOn

\* The request is written.
LEMMA SendMoves ==
  ASSUME NEW c \in Clients, IInv, Send(c)
  PROVE  \E q : Moves(c, q)
<1>1. RequestOK(req[c]) /\ req[c].stage = "send" /\ CanWrite(req[c])
  BY DEF IInv, Send
<1>2. CASE Hang(c)
  BY <1>2, HangMoves
<1>3. CASE req[c].kind # "post" /\ Goto(c, "read")
  BY <1>1, <1>3, GotoMoves
<1>4. CASE /\ req[c].kind = "post"
           /\ req' = [req EXCEPT ![c].stage = "read", ![c].bodyLeft = FALSE,
                                 ![c].whole = IF req[c].bodyLeft THEN @ + 1 ELSE @]
  <2>1. req[c].bodyLeft = TRUE
    BY <1>1, <1>4 DEF CanWrite, RequestOK, Core, BodyOK
  <2>2. QED
    BY <1>1, <1>4, <2>1, BodyWritten
<1>5. QED
  BY <1>2, <1>3, <1>4 DEF Send

\* The request cannot be written.
LEMMA SendFailsMoves ==
  ASSUME NEW c \in Clients, IInv, SendFails(c)
  PROVE  \E q : Moves(c, q)
<1>1. RequestOK(req[c]) /\ req[c].stage = "send"
  BY DEF IInv, SendFails
<1>2. CASE req[c].kind = "connect"
  <2>1. Answer(c, "refused")
    BY <1>2 DEF SendFails
  <2>2. QED
    BY <1>1, <2>1, AnswerOK
<1>3. CASE req[c].kind # "connect"
  <2>1. PICK r : r = req[c]
    OBVIOUS
  <2>2. PICK left \in BOOLEAN : left = TRUE <=> r.kind # "post"
    <3>1. (r.kind # "post") \in BOOLEAN
      OBVIOUS
    <3>2. QED
      BY <3>1
  <2>3. left = (r.kind # "post")
    BY <2>2
  <2>4. PICK q : q = [r EXCEPT !.bodyLeft = left]
    OBVIOUS
  <2>5. Retry(c, q)
    BY <1>3, <2>1, <2>3, <2>4 DEF SendFails
  <2>6. /\ Shaped(q) /\ q.stage = "send" /\ q.excluded = r.excluded /\ q.tried = r.tried
        /\ q.kind = r.kind /\ q.bodyLeft = left /\ q.whole = r.whole
    BY <1>1, <2>1, <2>4 DEF RequestOK, Core, Shaped, Fields
  <2>7. Core(r) /\ r.stage = "send"
    BY <1>1, <2>1 DEF RequestOK
  <2>8. AttemptsOK(q)
    BY <2>6, <2>7 DEF Core, AttemptsOK
  <2>9. BodyOK(q)
    BY <2>2, <2>6, <2>7 DEF Core, BodyOK
  <2>10. TunnelOK(q)
    BY <2>6, <2>7 DEF Core, TunnelOK
  <2>11. Core(q) /\ q.stage # "idle"
    BY <2>6, <2>8, <2>9, <2>10 DEF Core
  <2>12. QED
    BY <1>1, <2>5, <2>11, RetryOK
<1>4. QED
  BY <1>2, <1>3

\* An answer has been read.
LEMMA ReadMoves ==
  ASSUME NEW c \in Clients, IInv, Read(c)
  PROVE  \E q : Moves(c, q)
<1>1. RequestOK(req[c]) /\ req[c].stage = "read"
  BY DEF IInv, Read
<1>2. req[c].kind = "post" => req[c].whole = 1
  BY <1>1 DEF RequestOK, Core, BodyOK
<1>3. CASE Answer(c, "relayed")
  BY <1>1, <1>2, <1>3, AnswerOK
<1>4. CASE Answer(c, "refused")
  BY <1>1, <1>4, AnswerOK
<1>5. CASE OpenTunnel(c)
  <2>1. PICK b : b = Blank("tunnel")
    OBVIOUS
  <2>2. /\ Shaped(b) /\ b.stage = "tunnel" /\ b.excluded = {} /\ b.tried = 0
        /\ b.bodyLeft = TRUE /\ b.whole = 0 /\ b.empty = FALSE
    BY <2>1, BlankFact
  <2>3. PICK q : q = [b EXCEPT !.kind = "connect"]
    OBVIOUS
  <2>4. /\ Shaped(q) /\ q.stage = "tunnel" /\ q.excluded = {} /\ q.tried = 0
        /\ q.bodyLeft = TRUE /\ q.whole = 0 /\ q.empty = FALSE
        /\ q.kind = "connect"
    BY <2>2, <2>3 DEF Shaped, Fields
  <2>5. RequestOK(q) /\ q.stage # "idle"
    BY <2>4, LeftOK
  <2>6. QED
    BY <1>5, <2>1, <2>3, <2>5, GoesOn DEF OpenTunnel
<1>6. CASE Retry(c, req[c])
  BY <1>1, <1>6, RetryOK DEF RequestOK
<1>7. QED
  BY <1>3, <1>4, <1>5, <1>6 DEF Read

\* The tunnel is closed.
LEMMA TunnelEndsMoves ==
  ASSUME NEW c \in Clients, IInv, TunnelEnds(c)
  PROVE  \E q : Moves(c, q)
<1>1. RequestOK(req[c]) /\ req[c].stage = "tunnel" /\ Answer(c, "relayed")
  BY DEF IInv, TunnelEnds
<1>2. req[c].kind = "connect"
  BY <1>1 DEF RequestOK, Core, TunnelOK
<1>3. QED
  BY <1>1, <1>2, AnswerOK

-----------------------------------------------------------------------------
(* The invariant is inductive *)

\* No request has arrived at the start.
LEMMA InitOK == Init => IInv
<1> SUFFICES ASSUME Init PROVE IInv
  OBVIOUS
<1>1. PICK q : q = Blank("idle")
  OBVIOUS
<1>2. /\ Shaped(q) /\ q.stage = "idle" /\ q.kind = "none" /\ q.excluded = {} /\ q.tried = 0
      /\ q.bodyLeft = TRUE /\ q.whole = 0 /\ q.empty = FALSE
  BY <1>1, BlankFact
<1>3. AttemptsOK(q)
  BY <1>2, NoneExcluded, AttemptsFact DEF AttemptsOK
<1>4. BodyOK(q)
  BY <1>2 DEF BodyOK
<1>5. TunnelOK(q)
  BY <1>2 DEF TunnelOK
<1>6. EmptyOK(q)
  BY <1>2 DEF EmptyOK
<1>7. RequestOK(q)
  BY <1>2, <1>3, <1>4, <1>5, <1>6 DEF RequestOK, Core
<1>8. req = [c \in Clients |-> q]
  BY <1>1 DEF Init
<1>9. QED
  BY <1>7, <1>8 DEF IInv

\* A step is one of a single request, or one of the pool under them.
LEMMA StepMoves ==
  ASSUME IInv, [Next]_vars
  PROVE  req' = req \/ \E c \in Clients : \E q : Moves(c, q)
<1>1. CASE UNCHANGED vars
  BY <1>1 DEF vars
<1>2. CASE PoolChanges
  BY <1>2 DEF PoolChanges
<1>3. CASE \E g \in Groups : SetGroups(g)
  BY <1>3 DEF SetGroups
<1>4. CASE \E c \in Clients, g \in Groups : \E k \in KindsOf[c] : Arrive(c, k, g)
  BY <1>4, ArriveMoves
<1>5. ASSUME NEW c \in Clients, Step(c) \/ TunnelEnds(c)
      PROVE  \E q : Moves(c, q)
  BY <1>5, PickRoundMoves, NoneLeftMoves, DialMoves, SendMoves, SendFailsMoves, ReadMoves,
     TunnelEndsMoves DEF Step
<1>6. QED
  BY <1>1, <1>2, <1>3, <1>4, <1>5 DEF Next

\* Such a step keeps the invariant, and does to each request what the
\* properties demand.
LEMMA StepOK ==
  ASSUME IInv, [Next]_vars
  PROVE  IInv' /\ \A c \in Clients : Sound(req[c], req'[c])
<1>1. CASE req' = req
  <2>1. IInv'
    BY <1>1 DEF IInv, RequestOK, Core, Shaped, AttemptsOK, BodyOK, TunnelOK, EmptyOK, Fields
  <2>2. ASSUME NEW c \in Clients PROVE Sound(req[c], req'[c])
    BY <1>1 DEF IInv, RequestOK, Core, BodyOK, Sound
  <2>3. QED
    BY <2>1, <2>2
<1>2. CASE \E c \in Clients : \E q : Moves(c, q)
  <2>0. PICK d \in Clients : \E q : Moves(d, q)
    BY <1>2
  <2>1. PICK q : Moves(d, q)
    BY <2>0
  <2>2. /\ req' = [req EXCEPT ![d] = q]
        /\ req = [c \in Clients |-> req[c]]
        /\ RequestOK(q) /\ Sound(req[d], q)
    BY <2>1 DEF Moves, IInv
  <2>3. PICK after : after = req'
    OBVIOUS
  <2>4. after = [c \in Clients |-> IF c = d THEN q ELSE req[c]]
    BY <2>2, <2>3
  <2>5. ASSUME NEW c \in Clients PROVE RequestOK(after[c]) /\ Sound(req[c], after[c])
    <3>1. CASE c = d
      BY <2>2, <2>4, <3>1
    <3>2. CASE c # d
      <4>1. after[c] = req[c] /\ RequestOK(req[c])
        BY <2>4, <3>2 DEF IInv
      <4>2. Sound(req[c], req[c])
        BY <4>1 DEF RequestOK, Core, BodyOK, Sound
      <4>3. QED
        BY <4>1, <4>2
    <3>3. QED
      BY <3>1, <3>2
  <2>6. after = [c \in Clients |-> after[c]]
    BY <2>4
  <2>7. IInv'
    BY <2>3, <2>5, <2>6 DEF IInv, RequestOK, Core, Shaped, AttemptsOK, BodyOK, TunnelOK,
       EmptyOK, Fields
  <2>8. QED
    BY <2>3, <2>5, <2>7
<1>3. QED
  BY <1>1, <1>2, StepMoves

\* The invariant holds always.
LEMMA Inductive == Spec => []IInv
<1>1. Init => IInv
  BY InitOK
<1>2. IInv /\ [Next]_vars => IInv'
  BY StepOK
<1>3. QED
  BY <1>1, <1>2, PTL DEF Spec

-----------------------------------------------------------------------------
(* What the requests promise *)

\* However many attempts a request is given, its body is written whole to one
\* upstream at most, and what the client gets is the answer to the whole of it
\* (gateway.go:316, 328: the clone shares the body, which WriteProxy closes).
THEOREM BodiesGoOnce == Spec => BodyAtMostOnce
<1> DEFINE Once == \A c \in Clients :
             /\ req'[c].whole <= 1
             /\ req[c].kind = "post" /\ Told(c, "relayed") => req[c].whole = 1
<1>1. ASSUME IInv, [Next]_vars
      PROVE  Once
  <2>1. \A c \in Clients : Sound(req[c], req'[c])
    BY <1>1, StepOK
  <2>2. ASSUME NEW c \in Clients
        PROVE  /\ req'[c].whole <= 1
               /\ req[c].kind = "post" /\ Told(c, "relayed") => req[c].whole = 1
    BY <2>1, <2>2 DEF Sound, Told
  <2>3. QED
    BY <2>2
<1>2. IInv /\ [Next]_vars => [Once]_vars
  BY <1>1
<1>3. QED
  BY <1>2, Inductive, PTL DEF BodyAtMostOnce, Spec

\* A client is told that there is no proxy only if the snapshot had no usable
\* layer, and that all have failed only after as many different proxies as
\* there were attempts, whatever becomes of pool and groups meanwhile
\* (gateway.go:278-300, 381-404).
THEOREM RefusalsAreHonest == Spec => HonestRefusal
<1> DEFINE Honest == \A c \in Clients :
             /\ Told(c, "noProxy") => req[c].empty
             /\ Told(c, "allFailed") =>
                   req[c].tried > 0 /\ Cardinality(req[c].excluded) = req[c].tried
<1>1. ASSUME IInv, [Next]_vars
      PROVE  Honest
  <2>1. \A c \in Clients : Sound(req[c], req'[c])
    BY <1>1, StepOK
  <2>2. ASSUME NEW c \in Clients
        PROVE  Told(c, "noProxy") => req[c].empty
    BY <2>1, <2>2 DEF Sound, Told
  <2>3. ASSUME NEW c \in Clients
        PROVE  Told(c, "allFailed") =>
                  req[c].tried > 0 /\ Cardinality(req[c].excluded) = req[c].tried
    BY <2>1, <2>3 DEF Sound, Told
  <2>4. QED
    BY <2>2, <2>3
<1>2. IInv /\ [Next]_vars => [Honest]_vars
  BY <1>1
<1>3. QED
  BY <1>2, Inductive, PTL DEF HonestRefusal, Spec

\* No request is tried more than MaxProxyAttempts times, and never twice
\* through one proxy (gateway.go:278, 381: excluded grows with every attempt).
THEOREM AttemptsBounded ==
  Spec => [](\A c \in Clients : /\ req[c].tried <= MaxProxyAttempts
                                /\ Cardinality(req[c].excluded) = req[c].tried)
<1>1. IInv => \A c \in Clients : /\ req[c].tried <= MaxProxyAttempts
                                 /\ Cardinality(req[c].excluded) = req[c].tried
  BY DEF IInv, RequestOK, Core, AttemptsOK
<1>2. QED
  BY <1>1, Inductive, PTL

-----------------------------------------------------------------------------
(* The types of a request *)

Stages  == {"idle", "pick", "dial", "send", "read", "tunnel", "silent"}
Replies == {"none", "noProxy", "allFailed", "refused", "relayed"}

\* The layers still to be looked at are layers with live proxies.
LayersIn(X, rest) ==
    rest \in Seq(X) /\ \A l \in X : LayerOK(l) /\ l.aliveCount > 0
RestOK(r) ==
    /\ \E X : LayersIn(X, r.rest)
    /\ r.rounds \in Nat /\ (r.rest # << >> => r.rounds < Head(r.rest).aliveCount)

Typed(c, r) ==
    /\ r.stage \in Stages /\ r.kind \in KindsOf[c] \cup {"none"}
    /\ r.group \in Groups \cup {Nil} /\ r.excluded \subseteq Proxies
    /\ r.reply \in Replies /\ RestOK(r)

\* The types as far as they are needed to keep them.
TypeInv ==
    /\ LayersTypeOK /\ configured \subseteq Groups
    /\ \A c \in Clients : Typed(c, req[c])

\* A step of the request of c to one of its type.
Evolves(c) == \E q : req' = [req EXCEPT ![c] = q] /\ Typed(c, q)

\* Nothing left to be looked at.
LEMMA NoRest ==
  ASSUME NEW r, r.rest = << >>, r.rounds = 0
  PROVE  RestOK(r)
<1>1. LayersIn({}, r.rest)
  BY DEF LayersIn
<1>2. QED
  BY <1>1 DEF RestOK

\* A request whose locals are gone.
LEMMA BlankTyped ==
  ASSUME NEW c \in Clients, NEW s \in Stages
  PROVE  /\ Typed(c, Blank(s)) /\ Blank(s).rounds = 0
         /\ Blank(s).group = Nil /\ Blank(s).reply = "none"
<1>1. PICK b : b = Blank(s)
  OBVIOUS
<1>2. /\ b.stage = s /\ b.kind = "none" /\ b.group = Nil /\ b.excluded = {}
      /\ b.reply = "none" /\ b.rest = << >> /\ b.rounds = 0
  BY <1>1 DEF Blank
<1>3. Typed(c, b)
  BY <1>2, NoRest DEF Typed, Replies
<1>4. QED
  BY <1>1, <1>2, <1>3

\* The type of a request is that of these fields.
LEMMA KeepsType ==
  ASSUME NEW c \in Clients, NEW r, Typed(c, r), NEW q,
         q.stage \in Stages, q.kind \in {r.kind, "none"}, q.group = r.group,
         q.excluded \in {r.excluded, {}}, q.reply \in Replies,
         q.rest = r.rest, q.rounds = r.rounds
  PROVE  Typed(c, q)
<1>1. RestOK(q)
  BY DEF Typed, RestOK
<1>2. QED
  BY <1>1 DEF Typed

\* The handler returns.
LEMMA AnswerTyped ==
  ASSUME NEW c \in Clients, NEW rep \in Replies, Answer(c, rep)
  PROVE  Evolves(c)
<1>1. PICK b : b = Blank("idle")
  OBVIOUS
<1>2. /\ Typed(c, b) /\ Shaped(b) /\ b.stage = "idle" /\ b.kind = "none"
      /\ b.excluded = {}
  BY <1>1, BlankTyped, BlankFact DEF Stages
<1>3. PICK q : q = [b EXCEPT !.reply = rep]
  OBVIOUS
<1>4. /\ q.stage = b.stage /\ q.kind = b.kind /\ q.group = b.group /\ q.reply = rep
      /\ q.excluded = b.excluded /\ q.rest = b.rest /\ q.rounds = b.rounds
  BY <1>2, <1>3 DEF Shaped, Fields
<1>5. Typed(c, q)
  BY <1>2, <1>4, KeepsType DEF Stages
<1>6. req' = [req EXCEPT ![c] = q]
  BY <1>1, <1>3 DEF Answer
<1>7. QED
  BY <1>5, <1>6 DEF Evolves

\* The layers of a group that are usable.
LEMMA UsableFact ==
  ASSUME LayersTypeOK, NEW g \in Groups
  PROVE  \E X : LayersIn(X, UsableLayers(g))
<1>1. PICK layers : layers = Layers(g)
  OBVIOUS
<1>2. /\ DOMAIN layers \in {{1}, {1, 2}}
      /\ \A k \in DOMAIN layers : LayerOK(layers[k])
  <2>1. PoolOK(registered, alive, order)
    BY PoolTyped
  <2>2. layers = BuildLayers(g, registered, alive, order)
    BY <1>1 DEF Layers
  <2>3. QED
    BY <2>1, <2>2, LayersOK
<1>3. PICK n \in Nat : DOMAIN layers = 1..n
  <2>1. 1..1 = {1} /\ 1..2 = {1, 2}
    OBVIOUS
  <2>2. QED
    BY <1>2, <2>1
<1>4. PICK X : X = {layers[k] : k \in {j \in DOMAIN layers : Usable(layers[j])}}
  OBVIOUS
<1>5. PICK s : s = [k \in DOMAIN layers |-> IF Usable(layers[k]) THEN <<layers[k]>> ELSE << >>]
  OBVIOUS
<1>6. s \in [1..n -> Seq(X)]
  <2>1. ASSUME NEW k \in 1..n
        PROVE  (IF Usable(layers[k]) THEN <<layers[k]>> ELSE << >>) \in Seq(X)
    <3>1. CASE Usable(layers[k])
      <4>1. layers[k] \in X
        BY <1>3, <1>4, <3>1
      <4>2. QED
        BY <3>1, <4>1
    <3>2. CASE ~Usable(layers[k])
      BY <3>2
    <3>3. QED
      BY <3>1, <3>2
  <2>2. QED
    BY <1>3, <1>5, <2>1
<1>7. FlattenSeq(s) \in Seq(X)
  BY <1>6, FlattenType
<1>8. \A l \in X : LayerOK(l) /\ l.aliveCount > 0
  BY <1>2, <1>4 DEF Usable
<1>9. UsableLayers(g) = FlattenSeq(s)
  BY <1>1, <1>5 DEF UsableLayers
<1>10. QED
  BY <1>7, <1>8, <1>9 DEF LayersIn

\* The snapshot is loaded for another attempt.
LEMMA LoadTyped ==
  ASSUME TypeInv, NEW c \in Clients, NEW r, Typed(c, r), Shaped(r)
  PROVE  Typed(c, LoadLayers(r))
<1>1. PICK rest : rest = IF r.group \in configured THEN UsableLayers(r.group) ELSE << >>
  OBVIOUS
<1>2. \E X : LayersIn(X, rest)
  <2>1. CASE r.group \in configured
    BY <1>1, <2>1, UsableFact DEF TypeInv
  <2>2. CASE r.group \notin configured
    <3>1. LayersIn({}, << >>)
      BY DEF LayersIn
    <3>2. QED
      BY <1>1, <2>2, <3>1
  <2>3. QED
    BY <2>1, <2>2
<1>3. PICK none : none = (rest = << >>)
  OBVIOUS
<1>4. PICK q : q = [r EXCEPT !.stage = "pick", !.rest = rest, !.rounds = 0, !.empty = none]
  OBVIOUS
<1>5. LoadLayers(r) = q
  BY <1>1, <1>3, <1>4 DEF LoadLayers
<1>6. /\ q.stage = "pick" /\ q.kind = r.kind /\ q.group = r.group /\ q.excluded = r.excluded
      /\ q.reply = r.reply /\ q.rest = rest /\ q.rounds = 0
  BY <1>4 DEF Shaped, Fields
<1>7. RestOK(q)
  <2>1. rest # << >> => 0 < Head(rest).aliveCount
    BY <1>2 DEF LayersIn
  <2>2. QED
    BY <1>2, <1>6, <2>1 DEF RestOK
<1>8. QED
  BY <1>5, <1>6, <1>7 DEF Typed, Stages

\* An attempt has failed.
LEMMA RetryTyped ==
  ASSUME TypeInv, NEW c \in Clients, NEW r, Typed(c, r), Shaped(r), Retry(c, r)
  PROVE  Evolves(c)
<1>1. CASE Answer(c, "allFailed")
  BY <1>1, AnswerTyped DEF Replies
<1>2. CASE req' = [req EXCEPT ![c] = LoadLayers(r)]
  <2>1. Typed(c, LoadLayers(r))
    BY LoadTyped
  <2>2. QED
    BY <1>2, <2>1 DEF Evolves
<1>3. QED
  BY <1>1, <1>2 DEF Retry

\* A request arrives.
LEMMA ArriveTyped ==
  ASSUME TypeInv, NEW c \in Clients, NEW k \in KindsOf[c], NEW g \in Groups, Arrive(c, k, g)
  PROVE  Evolves(c)
<1>1. PICK b : b = Blank("pick")
  OBVIOUS
<1>2. Typed(c, b) /\ Shaped(b)
  BY <1>1, BlankTyped, BlankFact DEF Stages
<1>3. PICK r : r = [b EXCEPT !.kind = k, !.group = g]
  OBVIOUS
<1>4. /\ Shaped(r) /\ r.stage = b.stage /\ r.kind = k /\ r.group = g /\ r.excluded = b.excluded
      /\ r.reply = b.reply /\ r.rest = b.rest /\ r.rounds = b.rounds
  BY <1>2, <1>3 DEF Shaped, Fields
<1>5. Typed(c, r)
  BY <1>2, <1>4 DEF Typed, RestOK
<1>6. Typed(c, LoadLayers(r))
  BY <1>4, <1>5, LoadTyped
<1>7. req' = [req EXCEPT ![c] = LoadLayers(r)]
  BY <1>1, <1>3 DEF Arrive
<1>8. QED
  BY <1>6, <1>7 DEF Evolves

\* The pick returns a proxy of the layer.
LEMMA ChosenTyped ==
  ASSUME NEW c \in Clients, NEW r, Typed(c, r), Shaped(r), NEW p \in Proxies
  PROVE  Typed(c, Chosen(r, p))
<1>1. PICK q : q = Chosen(r, p)
  OBVIOUS
<1>2. /\ q.stage = "dial" /\ q.kind = r.kind /\ q.group = r.group
      /\ q.excluded = r.excluded \cup {p} /\ q.reply = r.reply
      /\ q.rest = << >> /\ q.rounds = 0
  BY <1>1 DEF Chosen, Shaped, Fields
<1>3. RestOK(q)
  BY <1>2, NoRest
<1>4. QED
  BY <1>1, <1>2, <1>3 DEF Typed, Stages

\* The layer yields nothing.
LEMMA NextLayerTyped ==
  ASSUME NEW c \in Clients, NEW r, Typed(c, r), Shaped(r), r.rest # << >>
  PROVE  Typed(c, NextLayer(r))
<1>1. PICK rest : rest = Tail(r.rest)
  OBVIOUS
<1>2. PICK q : q = [r EXCEPT !.rest = rest, !.rounds = 0]
  OBVIOUS
<1>3. /\ q.stage = r.stage /\ q.kind = r.kind /\ q.group = r.group
      /\ q.excluded = r.excluded /\ q.reply = r.reply /\ q.rest = rest /\ q.rounds = 0
  BY <1>2 DEF Shaped, Fields
<1>4. PICK X : LayersIn(X, r.rest)
  BY DEF Typed, RestOK
<1>5. LayersIn(X, rest)
  BY <1>1, <1>4 DEF LayersIn
<1>6. rest # << >> => 0 < Head(rest).aliveCount
  BY <1>5 DEF LayersIn
<1>7. RestOK(q)
  BY <1>3, <1>5, <1>6 DEF RestOK
<1>8. NextLayer(r) = q
  BY <1>1, <1>2 DEF NextLayer
<1>9. QED
  BY <1>3, <1>7, <1>8 DEF Typed

\* An excluded proxy has had its turn, and there are more in the layer.
LEMMA RoundTyped ==
  ASSUME NEW c \in Clients, NEW r, Typed(c, r), Shaped(r), r.rest # << >>,
         r.rounds + 1 # Head(r.rest).aliveCount
  PROVE  Typed(c, [r EXCEPT !.rounds = @ + 1])
<1>1. PICK q : q = [r EXCEPT !.rounds = @ + 1]
  OBVIOUS
<1>2. /\ q.stage = r.stage /\ q.kind = r.kind /\ q.group = r.group
      /\ q.excluded = r.excluded /\ q.reply = r.reply /\ q.rest = r.rest
      /\ q.rounds = r.rounds + 1
  BY <1>1 DEF Shaped, Fields
<1>3. PICK X : LayersIn(X, r.rest)
  BY DEF Typed, RestOK
<1>4. Head(r.rest).aliveCount \in Nat
  BY <1>3 DEF LayersIn, LayerOK
<1>5. r.rounds \in Nat /\ r.rounds < Head(r.rest).aliveCount
  BY DEF Typed, RestOK
<1>6. q.rounds \in Nat /\ q.rounds < Head(r.rest).aliveCount
  BY <1>2, <1>4, <1>5
<1>7. RestOK(q)
  BY <1>2, <1>3, <1>6 DEF RestOK
<1>8. QED
  BY <1>1, <1>2, <1>7 DEF Typed

\* One round of pickLayer, which moves the counters on.
LEMMA PickRoundTyped ==
  ASSUME TypeInv, IInv, NEW c \in Clients, PickRound(c)
  PROVE  Evolves(c) /\ LayersTypeOK'
<1>1. PICK r : r = req[c]
  OBVIOUS
<1>2. Typed(c, r) /\ Shaped(r) /\ r.rest # << >>
  BY <1>1 DEF TypeInv, IInv, RequestOK, Core, PickRound
<1>3. PICK l : l = Head(r.rest)
  OBVIOUS
<1>4. LayerOK(l) /\ l.aliveCount > 0
  <2>1. PICK X : LayersIn(X, r.rest)
    BY <1>2 DEF Typed, RestOK
  <2>2. QED
    BY <1>2, <1>3, <2>1 DEF LayersIn
<1>5. Len(l.proxies) = l.aliveCount /\ Range(l.proxies) \subseteq Proxies
  BY <1>4 DEF LayerOK, Range
<1>6. latency \in Measures /\ swrr \in Counters
  BY PoolTyped DEF TypeInv
<1>7. PICK turn : turn = PickSWRR(l, swrr, latency)
  OBVIOUS
<1>8. turn.best \in Proxies /\ turn.swrr \in Counters
  BY <1>4, <1>5, <1>6, <1>7, PickFact
<1>9. UNCHANGED <<registered, alive, order, latency>>
  BY DEF PickRound
<1>10. CASE /\ swrr' = turn.swrr
            /\ req' = [req EXCEPT ![c] =
                          IF turn.best \notin r.excluded THEN Chosen(r, turn.best)
                          ELSE IF r.rounds + 1 = Len(l.proxies) THEN NextLayer(r)
                          ELSE [r EXCEPT !.rounds = @ + 1]]
  <2>1. LayersTypeOK'
    BY <1>8, <1>9, <1>10 DEF TypeInv, LayersTypeOK, Counters
  <2>2. PICK q : q = IF turn.best \notin r.excluded THEN Chosen(r, turn.best)
                     ELSE IF r.rounds + 1 = Len(l.proxies) THEN NextLayer(r)
                     ELSE [r EXCEPT !.rounds = @ + 1]
    OBVIOUS
  <2>3. Typed(c, q)
    <3>1. CASE q = Chosen(r, turn.best)
      BY <1>2, <1>8, <3>1, ChosenTyped
    <3>2. CASE q = NextLayer(r)
      BY <1>2, <3>2, NextLayerTyped
    <3>3. CASE r.rounds + 1 # Len(l.proxies) /\ q = [r EXCEPT !.rounds = @ + 1]
      BY <1>2, <1>3, <1>5, <3>3, RoundTyped
    <3>4. QED
      BY <2>2, <3>1, <3>2, <3>3
  <2>4. QED
    BY <1>10, <2>1, <2>2, <2>3 DEF Evolves
<1>11. CASE /\ swrr' = swrr
            /\ \/ \E p \in Range(l.proxies) : req' = [req EXCEPT ![c] = Chosen(r, p)]
               \/ req' = [req EXCEPT ![c] = NextLayer(r)]
  <2>1. LayersTypeOK'
    BY <1>9, <1>11 DEF TypeInv, LayersTypeOK
  <2>2. CASE req' = [req EXCEPT ![c] = NextLayer(r)]
    BY <1>2, <2>1, <2>2, NextLayerTyped DEF Evolves
  <2>3. ASSUME NEW p \in Range(l.proxies), req' = [req EXCEPT ![c] = Chosen(r, p)]
        PROVE  Evolves(c)
    <3>1. p \in Proxies
      BY <1>5
    <3>2. QED
      BY <1>2, <2>3, <3>1, ChosenTyped DEF Evolves
  <2>4. QED
    BY <1>11, <2>1, <2>2, <2>3
<1>12. QED
  BY <1>1, <1>3, <1>7, <1>10, <1>11 DEF PickRound

\* The next stage of an attempt.
LEMMA GotoTyped ==
  ASSUME TypeInv, IInv, NEW c \in Clients, NEW s \in Stages, Goto(c, s)
  PROVE  Evolves(c)
<1>1. PICK r : r = req[c]
  OBVIOUS
<1>2. Typed(c, r) /\ Shaped(r)
  BY <1>1 DEF TypeInv, IInv, RequestOK, Core
<1>3. PICK q : q = [r EXCEPT !.stage = s]
  OBVIOUS
<1>4. /\ q.stage = s /\ q.kind = r.kind /\ q.group = r.group /\ q.excluded = r.excluded
      /\ q.reply = r.reply /\ q.rest = r.rest /\ q.rounds = r.rounds
  BY <1>2, <1>3 DEF Shaped, Fields
<1>5. Typed(c, q)
  BY <1>2, <1>4, KeepsType DEF Typed
<1>6. req' = [req EXCEPT ![c] = q]
  BY <1>1, <1>3 DEF Goto
<1>7. QED
  BY <1>5, <1>6 DEF Evolves

\* The upstream says nothing.
LEMMA HangTyped ==
  ASSUME NEW c \in Clients, Hang(c)
  PROVE  Evolves(c)
BY BlankTyped DEF Hang, Evolves, Stages

\* The attempt: dialling, writing and reading.
LEMMA AttemptTyped ==
  ASSUME TypeInv, IInv, NEW c \in Clients, Dial(c) \/ Send(c) \/ SendFails(c) \/ Read(c)
  PROVE  Evolves(c)
<1>1. PICK r : r = req[c]
  OBVIOUS
<1>2. Typed(c, r) /\ Shaped(r)
  BY <1>1 DEF TypeInv, IInv, RequestOK, Core
<1>3. CASE Goto(c, "send") \/ Goto(c, "read")
  BY <1>3, GotoTyped DEF Stages
<1>4. CASE Hang(c)
  BY <1>4, HangTyped
<1>5. CASE Retry(c, r)
  BY <1>2, <1>5, RetryTyped
<1>6. ASSUME NEW rep \in Replies, Answer(c, rep) PROVE Evolves(c)
  BY <1>6, AnswerTyped
<1>7. CASE req' = [req EXCEPT ![c].stage = "read", ![c].bodyLeft = FALSE,
                              ![c].whole = IF r.bodyLeft THEN @ + 1 ELSE @]
  <2>1. PICK m : m = IF r.bodyLeft THEN r.whole + 1 ELSE r.whole
    OBVIOUS
  <2>2. PICK q : q = [r EXCEPT !.stage = "read", !.bodyLeft = FALSE, !.whole = m]
    OBVIOUS
  <2>3. /\ q.stage = "read" /\ q.kind = r.kind /\ q.group = r.group
        /\ q.excluded = r.excluded /\ q.reply = r.reply /\ q.rest = r.rest
        /\ q.rounds = r.rounds
    BY <1>2, <2>2 DEF Shaped, Fields
  <2>4. Typed(c, q)
    BY <1>2, <2>3, KeepsType DEF Typed, Stages
  <2>5. req' = [req EXCEPT ![c] = q]
    <3>1. r = [f \in Fields |-> r[f]]
      BY <1>2 DEF Shaped
    <3>2. req = [x \in Clients |-> req[x]]
      BY DEF IInv
    <3>3. QED
      BY <1>1, <1>7, <2>1, <2>2, <3>1, <3>2 DEF Fields
  <2>6. QED
    BY <2>4, <2>5 DEF Evolves
<1>8. CASE r.kind # "connect" /\ Retry(c, [r EXCEPT !.bodyLeft = r.kind # "post"])
  <2>1. PICK left : left = (r.kind # "post")
    OBVIOUS
  <2>2. PICK q : q = [r EXCEPT !.bodyLeft = left]
    OBVIOUS
  <2>3. /\ Shaped(q) /\ q.stage = r.stage /\ q.kind = r.kind /\ q.group = r.group
        /\ q.excluded = r.excluded /\ q.reply = r.reply /\ q.rest = r.rest
        /\ q.rounds = r.rounds
    BY <1>2, <2>2 DEF Shaped, Fields
  <2>4. Typed(c, q)
    BY <1>2, <2>3, KeepsType DEF Typed
  <2>5. Retry(c, q)
    BY <1>8, <2>1, <2>2
  <2>6. QED
    BY <2>3, <2>4, <2>5, RetryTyped
<1>9. CASE r.kind = "connect" /\ OpenTunnel(c)
  <2>1. PICK b : b = Blank("tunnel")
    OBVIOUS
  <2>2. Typed(c, b) /\ Shaped(b) /\ b.stage = "tunnel"
    BY <2>1, BlankTyped, BlankFact DEF Stages
  <2>3. PICK q : q = [b EXCEPT !.kind = "connect"]
    OBVIOUS
  <2>4. /\ q.stage = b.stage /\ q.kind = "connect" /\ q.group = b.group
        /\ q.excluded = b.excluded /\ q.reply = b.reply /\ q.rest = b.rest
        /\ q.rounds = b.rounds
    BY <2>2, <2>3 DEF Shaped, Fields
  <2>5. "connect" \in KindsOf[c] \cup {"none"}
    BY <1>2, <1>9 DEF Typed
  <2>6. Typed(c, q)
    BY <2>2, <2>4, <2>5 DEF Typed, RestOK
  <2>7. req' = [req EXCEPT ![c] = q]
    BY <1>9, <2>1, <2>3 DEF OpenTunnel
  <2>8. QED
    BY <2>6, <2>7 DEF Evolves
<1>10. CASE Dial(c)
  BY <1>1, <1>3, <1>4, <1>5, <1>10 DEF Dial
<1>11. CASE Send(c)
  BY <1>1, <1>3, <1>4, <1>7, <1>11 DEF Send
<1>12. CASE SendFails(c)
  BY <1>1, <1>6, <1>8, <1>12 DEF SendFails, Replies
<1>13. CASE Read(c)
  BY <1>1, <1>5, <1>6, <1>9, <1>13 DEF Read, Replies
<1>14. QED
  BY <1>10, <1>11, <1>12, <1>13

\* The type of the request that a step is about, and of the pool.
LEMMA StepTyped ==
  ASSUME TypeInv, IInv, [Next]_vars
  PROVE  /\ LayersTypeOK' /\ configured' \subseteq Groups
         /\ req' = req \/ \E c \in Clients : Evolves(c)
<1>1. CASE UNCHANGED vars
  BY <1>1 DEF vars, layerVars, TypeInv, LayersTypeOK
<1>2. CASE PoolChanges
  BY <1>2, LayersTypeStep DEF PoolChanges, TypeInv
<1>3. ASSUME NEW g \in Groups, SetGroups(g)
      PROVE  LayersTypeOK' /\ configured' \subseteq Groups /\ req' = req
  BY <1>3 DEF SetGroups, Rebuilt, TypeInv, LayersTypeOK
<1>4. ASSUME NEW c \in Clients, NEW g \in Groups, NEW k \in KindsOf[c], Arrive(c, k, g)
      PROVE  LayersTypeOK' /\ configured' \subseteq Groups /\ Evolves(c)
  <2>1. Evolves(c)
    BY <1>4, ArriveTyped
  <2>2. QED
    BY <1>4, <2>1 DEF Arrive, layerVars, TypeInv, LayersTypeOK
<1>5. ASSUME NEW c \in Clients, PickRound(c)
      PROVE  LayersTypeOK' /\ configured' \subseteq Groups /\ Evolves(c)
  <2>1. Evolves(c) /\ LayersTypeOK'
    BY <1>5, PickRoundTyped
  <2>2. QED
    BY <1>5, <2>1 DEF PickRound, TypeInv
<1>6. ASSUME NEW c \in Clients, NoneLeft(c) \/ TunnelEnds(c)
      PROVE  LayersTypeOK' /\ configured' \subseteq Groups /\ Evolves(c)
  <2>1. Evolves(c)
    BY <1>6, AnswerTyped DEF NoneLeft, TunnelEnds, Replies
  <2>2. QED
    BY <1>6, <2>1 DEF NoneLeft, TunnelEnds, layerVars, TypeInv, LayersTypeOK
<1>7. ASSUME NEW c \in Clients, Dial(c) \/ Send(c) \/ SendFails(c) \/ Read(c)
      PROVE  LayersTypeOK' /\ configured' \subseteq Groups /\ Evolves(c)
  <2>1. Evolves(c)
    BY <1>7, AttemptTyped
  <2>2. UNCHANGED <<layerVars, configured>>
    BY <1>7 DEF Dial, Send, SendFails, Read
  <2>3. QED
    BY <2>1, <2>2 DEF layerVars, TypeInv, LayersTypeOK
<1>8. QED
  BY <1>1, <1>2, <1>3, <1>4, <1>5, <1>6, <1>7 DEF Next, Step

\* The types are kept.
LEMMA TypeStep ==
  ASSUME TypeInv, IInv, [Next]_vars
  PROVE  TypeInv'
<1>1. LayersTypeOK' /\ configured' \subseteq Groups
  BY StepTyped
<1>2. ASSUME NEW c \in Clients PROVE Typed(c, req'[c])
  <2>1. CASE req' = req
    BY <2>1 DEF TypeInv
  <2>2. ASSUME NEW d \in Clients, Evolves(d) PROVE Typed(c, req'[c])
    <3>1. PICK q : req' = [req EXCEPT ![d] = q] /\ Typed(d, q)
      BY <2>2 DEF Evolves
    <3>2. req = [x \in Clients |-> req[x]]
      BY DEF IInv
    <3>3. CASE c = d
      BY <3>1, <3>2, <3>3
    <3>4. CASE c # d
      <4>1. req'[c] = req[c]
        BY <3>1, <3>2, <3>4
      <4>2. QED
        BY <4>1 DEF TypeInv
    <3>5. QED
      BY <3>3, <3>4
  <2>3. QED
    BY <2>1, <2>2, StepTyped
<1>3. QED
  BY <1>1, <1>2 DEF TypeInv, Typed, RestOK, LayersIn, LayerOK

\* Type correctness (gateway.go:278, pool.go:544): whatever pool, groups and
\* other requests do meanwhile, what a request has excluded are proxies, and a
\* pick never makes as many rounds in a layer as it has proxies without going on.
THEOREM RequestsTyped == Spec => []TypeOK
<1>1. Init => TypeInv
  <2>1. SUFFICES ASSUME Init PROVE TypeInv
    OBVIOUS
  <2>2. LayersTypeOK
    BY <2>1, LayersTypeInit DEF Init
  <2>3. ASSUME NEW c \in Clients PROVE Typed(c, req[c])
    BY <2>1, BlankTyped DEF Init, Stages
  <2>4. QED
    BY <2>1, <2>2, <2>3 DEF Init, TypeInv
<1>2. TypeInv /\ IInv /\ [Next]_vars => TypeInv'
  BY TypeStep
<1>3. TypeInv /\ IInv => TypeOK
  <2>1. SUFFICES ASSUME TypeInv, IInv, NEW c \in Clients
                 PROVE  /\ req[c].tried \in 0..MaxProxyAttempts
                        /\ req[c].rest # << >> => req[c].rounds < Len(Head(req[c].rest).proxies)
    BY DEF TypeOK, TypeInv, Typed, Stages, Replies
  <2>2. req[c].tried \in Nat /\ req[c].tried <= MaxProxyAttempts
    BY <2>1 DEF IInv, RequestOK, Core, AttemptsOK
  <2>3. ASSUME req[c].rest # << >>
        PROVE  req[c].rounds < Len(Head(req[c].rest).proxies)
    <3>1. PICK X : LayersIn(X, req[c].rest)
      BY <2>1 DEF TypeInv, Typed, RestOK
    <3>2. LayerOK(Head(req[c].rest))
      BY <2>3, <3>1 DEF LayersIn
    <3>3. Len(Head(req[c].rest).proxies) = Head(req[c].rest).aliveCount
      BY <3>2 DEF LayerOK
    <3>4. QED
      BY <2>1, <2>3, <3>3 DEF TypeInv, Typed, RestOK
  <2>4. QED
    BY <2>2, <2>3, AttemptsFact
<1>4. QED
  BY <1>1, <1>2, <1>3, Inductive, PTL DEF Spec

=============================================================================
