------------------------- MODULE RoutingDecisionProofs -------------------------
(***************************************************************************)
(* Proofs about RoutingDecision, for any catalogs, requests and chains and *)
(* any length of the history: how far momentum reaches, what the filters   *)
(* leave of a chain, and how the profiles compare.                         *)
(***************************************************************************)
EXTENDS RoutingDecision, FiniteSetTheorems, WellFoundedInduction, TLAPS

(***************************************************************************)
(* Induction on the naturals, with a set for the predicate, and functions  *)
(* defined by recursion up to a bound.                                     *)
(***************************************************************************)
LEMMA SetInduction ==
  ASSUME NEW S, 0 \in S, \A n \in Nat : n \in S => n + 1 \in S
  PROVE  Nat \subseteq S
<1> DEFINE R == OpToRel(<, Nat)
           T == Nat \ S
<1>1. IsWellFoundedOn(R, Nat)
  BY NatLessThanWellFounded
<1>2. SUFFICES ASSUME T # {} PROVE FALSE
  OBVIOUS
<1>3. T \subseteq Nat
  OBVIOUS
<1>4. \E x \in T : \A y \in T : ~ (<<y, x>> \in R)
  <2> HIDE DEF R, T
  <2> QED BY <1>1, <1>2, <1>3, WFMin
<1>5. PICK x \in T : \A y \in T : ~ (<<y, x>> \in R)
  BY <1>4
<1>6. x - 1 \in T /\ x - 1 < x
  OBVIOUS
<1>7. <<x - 1, x>> \in R
  BY <1>6 DEF OpToRel
<1> QED BY <1>5, <1>6, <1>7

\* Up to a bound.
LEMMA BoundedInduction ==
  ASSUME NEW N \in Nat, NEW S, 0 \in S, \A n \in 1 .. N : n - 1 \in S => n \in S
  PROVE  0 .. N \subseteq S
<1> DEFINE T == {n \in Nat : n <= N => n \in S}
<1>1. 0 \in T
  OBVIOUS
<1>2. ASSUME NEW n \in Nat, n \in T
      PROVE  n + 1 \in T
  <2>1. CASE n + 1 <= N
    <3>1. n + 1 \in 1 .. N /\ (n + 1) - 1 = n /\ n \in S
      BY <1>2, <2>1
    <3>2. n + 1 \in S
      BY <3>1
    <3> QED
      BY <3>2
  <2> QED
    BY <2>1
<1>3. Nat \subseteq T
  <2> HIDE DEF T
  <2> QED BY <1>1, <1>2, SetInduction
<1> QED
  BY <1>3

StepsOn(V, N) == [V \X (1 .. N) -> V]

Follows(f, v, G, V, N) ==
  f \in [0 .. N -> V] /\ f[0] = v /\ \A n \in 1 .. N : f[n] = G[<<f[n - 1], n>>]

LEMMA Recursion ==
  ASSUME NEW N \in Nat, NEW V, NEW v \in V, NEW G \in StepsOn(V, N)
  PROVE  \E f : Follows(f, v, G, V, N)
<1>0. G \in [V \X (1 .. N) -> V]
  BY DEF StepsOn
<1> DEFINE Good(k, f) == f[0] = v /\ \A n \in 1 .. k : f[n] = G[<<f[n - 1], n>>]
           S == {k \in 0 .. N : \E f \in [0 .. k -> V] : Good(k, f)}
<1>1. 0 \in S
  <2> DEFINE f == [n \in 0 .. 0 |-> v]
  <2>1. f \in [0 .. 0 -> V] /\ Good(0, f)
    OBVIOUS
  <2> HIDE DEF f, Good
  <2> QED
    BY <2>1
<1>2. ASSUME NEW k \in 1 .. N, k - 1 \in S
      PROVE  k \in S
  <2>1. PICK f \in [0 .. k - 1 -> V] : Good(k - 1, f)
    BY <1>2
  <2> DEFINE g == [n \in 0 .. k |-> IF n = k THEN G[<<f[k - 1], k>>] ELSE f[n]]
  <2>2. f[k - 1] \in V /\ G[<<f[k - 1], k>>] \in V
    BY <1>0
  <2>3. g \in [0 .. k -> V]
    BY <2>2
  <2>4. Good(k, g)
    <3>1. g[0] = v
      BY <2>1
    <3>2. ASSUME NEW n \in 1 .. k
          PROVE  g[n] = G[<<g[n - 1], n>>]
      <4>1. CASE n = k
        <5>1. g[k - 1] = f[k - 1] /\ g[k] = G[<<f[k - 1], k>>]
          OBVIOUS
        <5> HIDE DEF g
        <5> QED
          BY <4>1, <5>1
      <4>2. CASE n # k
        <5>1. n \in 1 .. k - 1 /\ g[n] = f[n] /\ g[n - 1] = f[n - 1]
          BY <4>2
        <5> QED
          BY <2>1, <5>1
      <4> QED
        BY <4>1, <4>2
    <3> QED
      BY <3>1, <3>2
  <2> HIDE DEF g, Good
  <2> QED
    BY <2>3, <2>4
<1>3. 0 .. N \subseteq S
  <2> HIDE DEF S
  <2> QED
    BY <1>1, <1>2, BoundedInduction
<1>4. N \in S
  <2> HIDE DEF S
  <2> QED
    BY <1>3
<1> QED
  BY <1>4 DEF Follows


(***************************************************************************)
(* Momentum.                                                               *)
(***************************************************************************)
TotalsTo(f, hist) ==
  /\ f \in [0 .. Len(hist) -> Int]
  /\ f[0] = 0
  /\ \A n \in 1 .. Len(hist) : f[n] = f[n - 1] + TierValue[hist[n]]

LEMMA Values == \A t \in Tiers : TierValue[t] \in Int
BY DEF Tiers, TierValue, Simple, Reasoning

\* The sums of the first values of a history.
LEMMA TotalIs ==
  ASSUME NEW hist \in Seq(Tiers)
  PROVE  \E f : TotalsTo(f, hist) /\ TotalValue(hist) = f[Len(hist)]
<1> DEFINE N == Len(hist)
           F(f, n) == IF n = 0 THEN 0 ELSE f[n - 1] + TierValue[hist[n]]
           G == [x \in Int \X (1 .. N) |-> x[1] + TierValue[hist[x[2]]]]
           c == CHOOSE f : f = [n \in 0 .. N |-> F(f, n)]
<1>0. N \in Nat /\ \A n \in 1 .. N : TierValue[hist[n]] \in Int
  BY Values
<1>1. G \in StepsOn(Int, N)
  BY <1>0 DEF StepsOn
<1>2. PICK f : Follows(f, 0, G, Int, N)
  <2>1. 0 \in Int
    OBVIOUS
  <2> HIDE DEF G, N
  <2> QED
    BY <1>0, <1>1, <2>1, Recursion, Zenon
<1>3. TotalsTo(f, hist)
  <2>1. /\ f \in [0 .. N -> Int] /\ f[0] = 0
        /\ \A n \in 1 .. N : f[n] = G[<<f[n - 1], n>>]
    <3> HIDE DEF G, N
    <3> QED
      BY <1>2 DEF Follows
  <2>2. ASSUME NEW n \in 1 .. N
        PROVE  G[<<f[n - 1], n>>] = f[n - 1] + TierValue[hist[n]]
    <3>1. f[n - 1] \in Int
      BY <1>0, <2>1
    <3> HIDE DEF N
    <3> QED
      BY <3>1
  <2> QED
    BY <2>1, <2>2 DEF TotalsTo
<1>4. f = [n \in 0 .. N |-> F(f, n)]
  <2>1. ASSUME NEW n \in 0 .. N
        PROVE  f[n] = F(f, n)
    <3>1. n = 0 \/ (n \in 1 .. N /\ n # 0)
      BY <1>0
    <3> QED
      BY <1>3, <3>1 DEF TotalsTo
  <2>2. f = [n \in 0 .. N |-> f[n]]
    BY <1>3 DEF TotalsTo
  <2> HIDE DEF F, N
  <2> QED
    BY <2>1, <2>2
<1>5. c = [n \in 0 .. N |-> F(c, n)]
  <2> HIDE DEF F, N
  <2> QED
    BY <1>4
<1>6. TotalValue(hist) = c[N]
  BY DEF TotalValue
<1> HIDE DEF c
<1>7. \A n \in 0 .. N : c[n] = F(c, n)
  <2> HIDE DEF F, N
  <2> QED
    BY <1>5
<1>8. 0 .. N \subseteq {n \in 0 .. N : c[n] \in Int}
  <2> DEFINE S == {n \in 0 .. N : c[n] \in Int}
  <2>1. 0 \in S
    BY <1>0, <1>7
  <2>2. ASSUME NEW n \in 1 .. N, n - 1 \in S
        PROVE  n \in S
    <3>1. c[n] = c[n - 1] + TierValue[hist[n]]
      BY <1>0, <1>7
    <3> QED
      BY <1>0, <2>2, <3>1
  <2> HIDE DEF S, N
  <2> QED
    BY <1>0, <2>1, <2>2, BoundedInduction, Zenon DEF S
<1>9. TotalsTo(c, hist)
  <2>1. c \in [0 .. N -> Int]
    <3> HIDE DEF F
    <3> QED
      BY <1>5, <1>8
  <2>2. c[0] = 0 /\ \A n \in 1 .. N : c[n] = c[n - 1] + TierValue[hist[n]]
    BY <1>0, <1>7
  <2> QED
    BY <2>1, <2>2 DEF TotalsTo
<1> QED
  BY <1>6, <1>9

LEMMA Product ==
  ASSUME NEW a \in Int, NEW b \in Int, NEW n \in Nat, a <= b
  PROVE  n * a <= n * b
OBVIOUS

\* The average lies between the least and the greatest value.
LEMMA TotalBounded ==
  ASSUME NEW hist \in Seq(Tiers), NEW low \in Int, NEW high \in Int,
         \A n \in 1 .. Len(hist) :
           low <= TierValue[hist[n]] /\ TierValue[hist[n]] <= high
  PROVE  /\ TotalValue(hist) \in Int
         /\ Len(hist) * low <= TotalValue(hist)
         /\ TotalValue(hist) <= Len(hist) * high
<1> DEFINE N == Len(hist)
<1>0. N \in Nat /\ \A n \in 1 .. N : TierValue[hist[n]] \in Int
  BY Values
<1>1. PICK f : TotalsTo(f, hist) /\ TotalValue(hist) = f[N]
  BY TotalIs
<1>2. /\ f \in [0 .. N -> Int] /\ f[0] = 0
      /\ \A n \in 1 .. N : f[n] = f[n - 1] + TierValue[hist[n]]
  BY <1>1 DEF TotalsTo
<1> DEFINE S == {n \in 0 .. N : n * low <= f[n] /\ f[n] <= n * high}
<1>3. 0 \in S
  BY <1>0, <1>2
<1>4. ASSUME NEW n \in 1 .. N, n - 1 \in S
      PROVE  n \in S
  <2>1. n - 1 \in Int /\ n \in Int /\ f[n - 1] \in Int /\ TierValue[hist[n]] \in Int
    BY <1>0, <1>2
  <2>2. (n - 1) * low + low = n * low /\ (n - 1) * high + high = n * high
    BY <2>1
  <2>3. (n - 1) * low <= f[n - 1] /\ f[n - 1] <= (n - 1) * high
    BY <1>4
  <2>4. f[n] = f[n - 1] + TierValue[hist[n]]
    BY <1>2
  <2>5. (n - 1) * low \in Int /\ (n - 1) * high \in Int /\ n * low \in Int /\ n * high \in Int
    BY <2>1
  <2>6. low <= TierValue[hist[n]] /\ TierValue[hist[n]] <= high
    OBVIOUS
  <2>7. n * low <= f[n] /\ f[n] <= n * high
    BY <2>1, <2>2, <2>3, <2>4, <2>5, <2>6
  <2> QED
    BY <2>7
<1>5. N \in S
  <2>1. 0 .. N \subseteq S
    <3> HIDE DEF S, N
    <3> QED
      BY <1>0, <1>3, <1>4, BoundedInduction, Zenon
  <2> QED
    BY <1>0, <2>1
<1> QED
  BY <1>0, <1>1, <1>2, <1>5

\* The boundaries a score has passed.
Passed(score, scale) == {t \in 1 .. 3 : score >= Boundaries[t] * scale}

LEMMA PassedFinite ==
  ASSUME NEW score, NEW scale
  PROVE  IsFiniteSet(Passed(score, scale)) /\ Cardinality(Passed(score, scale)) \in Nat
<1>1. IsFiniteSet(1 .. 3)
  <2>1. 1 \in Int /\ 3 \in Int
    OBVIOUS
  <2> QED
    BY <2>1, FS_Interval, Zenon
<1>2. Passed(score, scale) \in SUBSET (1 .. 3)
  BY DEF Passed
<1> QED
  BY <1>1, <1>2, FS_Subset, FS_CardinalityType

LEMMA PassedMore ==
  ASSUME NEW x, NEW k, NEW y, NEW l, Passed(x, k) \subseteq Passed(y, l)
  PROVE  ScaledTier(x, k) <= ScaledTier(y, l)
<1>1. Cardinality(Passed(x, k)) <= Cardinality(Passed(y, l))
  BY PassedFinite, FS_Subset
<1>2. Cardinality(Passed(x, k)) \in Nat /\ Cardinality(Passed(y, l)) \in Nat
  BY PassedFinite
<1>3. /\ ScaledTier(x, k) = 1 + Cardinality(Passed(x, k))
      /\ ScaledTier(y, l) = 1 + Cardinality(Passed(y, l))
  BY DEF ScaledTier, Passed
<1> QED
  BY <1>1, <1>2, <1>3

\* A tier's value lies in the tier.
LEMMA ValueOfTier ==
  ASSUME NEW t \in Tiers
  PROVE  ScoreTier(TierValue[t]) = t
<1>1. t \in 1 .. 4
  BY DEF Tiers, Simple, Reasoning
<1>2. Passed(TierValue[t], 1) = 1 .. (t - 1)
  BY <1>1 DEF Passed, TierValue, Boundaries
<1>3. Cardinality(1 .. (t - 1)) = t - 1
  BY <1>1, FS_Interval
<1>4. ScoreTier(TierValue[t]) = 1 + Cardinality(Passed(TierValue[t], 1))
  BY DEF ScoreTier, ScaledTier, Passed
<1> QED
  BY <1>1, <1>2, <1>3, <1>4

LEMMA WeightBounded ==
  ASSUME NEW length \in Nat
  PROVE  Weight(length) \in 0 .. 420
BY DEF Weight

LEMMA ScoredScore ==
  ASSUME NEW r \in Requests
  PROVE  Scored(r).score \in Int
<1>1. r.score \in Int
  BY DecisionAssumption
<1>2. Overridden(r).score \in Int
  BY <1>1 DEF Overridden, Decision
<1>3. Floored(r, Overridden(r)).score = Overridden(r).score
  BY DEF Floored, Decision
<1>4. Scored(r).score = Overridden(r).score
  BY <1>3 DEF Scored, Classified, Decision
<1> QED
  BY <1>2, <1>4

\* The score and the average of a history lie between low and high.
Spans(low, high, score, hist) ==
  /\ low \in Int /\ high \in Int /\ score \in Int /\ TotalValue(hist) \in Int
  /\ low <= score /\ score <= high
  /\ Len(hist) * low <= TotalValue(hist)
  /\ TotalValue(hist) <= Len(hist) * high

\* So does a blend of the two, on its scale.
Holds(low, high, blend, hist) ==
  /\ blend \in Int
  /\ (700 * Len(hist)) * low <= blend
  /\ blend <= (700 * Len(hist)) * high

LEMMA BlendBetween ==
  ASSUME NEW score, NEW length \in Nat, NEW hist \in Seq(Tiers),
         NEW low, NEW high, Spans(low, high, score, hist)
  PROVE  Holds(low, high, Blended(score, length, hist), hist)
<1> DEFINE w == Weight(length)
           u == 700 - Weight(length)
           L == Len(hist)
           T == TotalValue(hist)
<1>1. w \in Nat /\ u \in Nat /\ u = 700 - w /\ L \in Nat /\ T \in Int
  <2>1. w \in 0 .. 420
    BY WeightBounded
  <2>2. L \in Nat /\ T \in Int
    BY DEF Spans
  <2>3. u = 700 - w
    OBVIOUS
  <2> HIDE DEF w, u, L, T
  <2> QED
    BY <2>1, <2>2, <2>3
<1>2. /\ L * low <= T /\ T <= L * high /\ low <= score /\ score <= high
      /\ low \in Int /\ high \in Int /\ score \in Int
  BY DEF Spans
<1>3. Blended(score, length, hist) = u * score * L + w * T
  BY DEF Blended
<1> HIDE DEF w, u, L, T
<1>4. /\ u * score * L = u * (L * score) /\ L * score \in Int /\ L * low \in Int /\ L * high \in Int
  BY <1>1, <1>2
<1>5. L * low <= L * score /\ L * score <= L * high
  BY <1>1, <1>2, Product
<1>6. u * (L * low) <= u * (L * score) /\ u * (L * score) <= u * (L * high)
  BY <1>1, <1>4, <1>5, Product
<1>7. w * (L * low) <= w * T /\ w * T <= w * (L * high)
  BY <1>1, <1>2, <1>4, Product
<1>8. ASSUME NEW x \in Int
      PROVE  u * (L * x) + w * (L * x) = (700 * L) * x
  BY <1>1
<1>9. /\ u * (L * low) + w * (L * low) = (700 * L) * low
      /\ u * (L * high) + w * (L * high) = (700 * L) * high
  BY <1>2, <1>8
<1>10. /\ u * (L * low) \in Int /\ w * (L * low) \in Int /\ u * (L * high) \in Int
       /\ w * (L * high) \in Int /\ u * (L * score) \in Int /\ w * T \in Int
  BY <1>1, <1>4
<1>11. /\ u * (L * score) + w * T \in Int
       /\ u * (L * low) + w * (L * low) <= u * (L * score) + w * T
       /\ u * (L * score) + w * T <= u * (L * high) + w * (L * high)
  BY <1>6, <1>7, <1>10
<1> QED
  BY <1>3, <1>4, <1>9, <1>11 DEF L, Holds

\* Of a score on a larger scale.
LEMMA BlendPasses ==
  ASSUME NEW blend \in Int, NEW scale \in Nat \ {0}, NEW x \in Int
  PROVE  /\ scale * x <= blend => Passed(x, 1) \subseteq Passed(blend, scale)
         /\ blend <= scale * x => Passed(blend, scale) \subseteq Passed(x, 1)
<1>1. ASSUME NEW t \in 1 .. 3
      PROVE  Boundaries[t] \in Int
  BY DEF Boundaries
<1>2. ASSUME NEW t \in 1 .. 3, scale * x <= blend, x >= Boundaries[t]
      PROVE  blend >= Boundaries[t] * scale
  <2>1. scale * Boundaries[t] <= scale * x
    BY <1>1, <1>2, Product
  <2> QED
    BY <1>1, <1>2, <2>1
<1>3. ASSUME NEW t \in 1 .. 3, blend <= scale * x, blend >= Boundaries[t] * scale
      PROVE  x >= Boundaries[t]
  <2>1. SUFFICES ASSUME x + 1 <= Boundaries[t] PROVE FALSE
    BY <1>1
  <2>2. scale * (x + 1) <= scale * Boundaries[t]
    BY <1>1, <2>1, Product
  <2>3. scale * (x + 1) = scale * x + scale
    OBVIOUS
  <2> QED
    BY <1>1, <1>3, <2>2, <2>3
<1>4. \A t \in 1 .. 3 : Boundaries[t] * 1 = Boundaries[t]
  BY <1>1
<1> QED
  BY <1>2, <1>3, <1>4 DEF Passed

LEMMA Extremes ==
  ASSUME NEW S \in SUBSET Tiers, S # {}
  PROVE  \E low, high \in S : \A t \in S : low <= t /\ t <= high
<1>1. S \subseteq {1, 2, 3, 4}
  BY DEF Tiers, Simple, Reasoning
<1>2. 1 \in S \/ 2 \in S \/ 3 \in S \/ 4 \in S
  BY <1>1
<1>3. \E low \in S : \A t \in S : low <= t
  <2>1. CASE 1 \in S
    BY <1>1, <2>1
  <2>2. CASE 1 \notin S /\ 2 \in S
    BY <1>1, <2>2
  <2>3. CASE 1 \notin S /\ 2 \notin S /\ 3 \in S
    BY <1>1, <2>3
  <2>4. CASE 1 \notin S /\ 2 \notin S /\ 3 \notin S /\ 4 \in S
    BY <1>1, <2>4
  <2> QED
    BY <1>2, <2>1, <2>2, <2>3, <2>4
<1>4. \E high \in S : \A t \in S : t <= high
  <2>1. CASE 4 \in S
    BY <1>1, <2>1
  <2>2. CASE 4 \notin S /\ 3 \in S
    BY <1>1, <2>2
  <2>3. CASE 4 \notin S /\ 3 \notin S /\ 2 \in S
    BY <1>1, <2>3
  <2>4. CASE 4 \notin S /\ 3 \notin S /\ 2 \notin S /\ 1 \in S
    BY <1>1, <2>4
  <2> QED
    BY <1>2, <2>1, <2>2, <2>3, <2>4
<1> QED
  BY <1>3, <1>4

LEMMA MomentumReaches ==
  ASSUME NEW h \in Seq(Tiers), NEW r \in Requests,
         Decide(r, h).tier # Scored(r).tier
  PROVE  Between(Decide(r, h).tier, Range(h) \cup {ScoreTier(Scored(r).score)})
<1> DEFINE s == Scored(r).score
           scale == 700 * Len(h)
           blend == Blended(s, r.length, h)
<1>1. s \in Int /\ r.length \in Nat
  BY ScoredScore, DecisionAssumption
<1>2. h # <<>> /\ Decide(r, h).tier = ScaledTier(blend, scale)
  BY DEF Decide, Momentum, Decision
<1>3. Len(h) \in Nat \ {0} /\ scale \in Nat \ {0}
  BY <1>2
<1>4. Range(h) \in SUBSET Tiers /\ Range(h) # {}
  <2>1. 1 \in DOMAIN h /\ \A n \in DOMAIN h : h[n] \in Tiers
    BY <1>3
  <2> QED
    BY <2>1 DEF Range
<1>5. PICK low, high \in Range(h) : \A t \in Range(h) : low <= t /\ t <= high
  BY <1>4, Extremes
<1>6. \A n \in 1 .. Len(h) : TierValue[low] <= TierValue[h[n]] /\ TierValue[h[n]] <= TierValue[high]
  <2>1. ASSUME NEW n \in 1 .. Len(h)
        PROVE  low <= h[n] /\ h[n] <= high /\ h[n] \in 1 .. 4
    BY <1>5 DEF Range, Tiers, Simple, Reasoning
  <2>2. low \in 1 .. 4 /\ high \in 1 .. 4
    BY <1>4 DEF Tiers, Simple, Reasoning
  <2>3. \A t, u \in 1 .. 4 : t <= u => TierValue[t] <= TierValue[u]
    BY DEF TierValue
  <2> QED
    BY <2>1, <2>2, <2>3
<1>7. TierValue[low] \in Int /\ TierValue[high] \in Int
  BY <1>4, Values
<1>8. /\ TotalValue(h) \in Int
      /\ Len(h) * TierValue[low] <= TotalValue(h)
      /\ TotalValue(h) <= Len(h) * TierValue[high]
  BY <1>6, <1>7, TotalBounded
<1> DEFINE least == IF s <= TierValue[low] THEN s ELSE TierValue[low]
           most == IF s >= TierValue[high] THEN s ELSE TierValue[high]
<1>9. least \in Int /\ most \in Int /\ least <= s /\ s <= most
  BY <1>1, <1>7
<1>10. Len(h) * least <= TotalValue(h) /\ TotalValue(h) <= Len(h) * most
  <2>1. Len(h) * least <= Len(h) * TierValue[low] /\ Len(h) * TierValue[high] <= Len(h) * most
    <3>1. least <= TierValue[low] /\ TierValue[high] <= most
      BY <1>1, <1>7
    <3> HIDE DEF least, most
    <3> QED
      BY <1>3, <1>7, <1>9, <3>1, Product
  <2>2. /\ Len(h) * least \in Int /\ Len(h) * TierValue[low] \in Int
        /\ Len(h) * most \in Int /\ Len(h) * TierValue[high] \in Int
    BY <1>3, <1>7, <1>9
  <2> HIDE DEF least, most
  <2> QED
    BY <1>8, <2>1, <2>2
<1>11. blend \in Int /\ scale * least <= blend /\ blend <= scale * most
  <2> HIDE DEF s, least, most
  <2>1. Spans(least, most, s, h)
    BY <1>1, <1>8, <1>9, <1>10 DEF Spans
  <2>2. Holds(least, most, blend, h)
    <3>1. r.length \in Nat
      BY <1>1
    <3> HIDE DEF blend
    <3> QED
      BY <2>1, <3>1, BlendBetween DEF blend
  <2> QED
    BY <2>2 DEF Holds
<1>12. Passed(least, 1) \subseteq Passed(blend, scale) /\ Passed(blend, scale) \subseteq Passed(most, 1)
  <2> HIDE DEF blend, scale, least, most
  <2> QED
    BY <1>3, <1>9, <1>11, BlendPasses
<1>13. ScoreTier(least) <= ScaledTier(blend, scale) /\ ScaledTier(blend, scale) <= ScoreTier(most)
  <2> HIDE DEF blend, scale, least, most
  <2> QED
    BY <1>12, PassedMore DEF ScoreTier
<1>14. /\ ScoreTier(least) \in {low, ScoreTier(s)}
       /\ ScoreTier(most) \in {high, ScoreTier(s)}
  BY <1>4, ValueOfTier
<1> QED
  BY <1>2, <1>13, <1>14 DEF Between

(***************************************************************************)
(* What the filters leave of a chain.                                      *)
(***************************************************************************)
KeepsIn(f, chain, good, X) ==
  /\ f \in [0 .. Len(chain) -> Seq(X)]
  /\ f[0] = <<>>
  /\ \A n \in 1 .. Len(chain) :
       f[n] = IF chain[n] \in good THEN Append(f[n - 1], chain[n]) ELSE f[n - 1]

LEMMA KeptIs ==
  ASSUME NEW X, NEW chain \in Seq(X), NEW good
  PROVE  \E f : KeepsIn(f, chain, good, X) /\ Kept(chain, good) = f[Len(chain)]
<1> DEFINE N == Len(chain)
           V == Seq(X)
           Step(q, n) == IF chain[n] \in good THEN Append(q, chain[n]) ELSE q
           F(f, n) == IF n = 0 THEN <<>>
                      ELSE IF chain[n] \in good THEN Append(f[n - 1], chain[n]) ELSE f[n - 1]
           G == [x \in V \X (1 .. N) |-> Step(x[1], x[2])]
           c == CHOOSE f : f = [n \in 0 .. N |-> F(f, n)]
<1>0. N \in Nat /\ <<>> \in V
  OBVIOUS
<1>1. \A q \in V, n \in 1 .. N : Step(q, n) \in V
  OBVIOUS
<1>2. G \in StepsOn(V, N)
  <2> HIDE DEF Step, N, V
  <2> QED
    BY <1>1 DEF StepsOn
<1>3. PICK f : Follows(f, <<>>, G, V, N)
  <2> HIDE DEF G, N, V
  <2> QED
    BY <1>0, <1>2, Recursion, Zenon
<1>4. f \in [0 .. N -> V] /\ f[0] = <<>> /\ \A n \in 1 .. N : f[n] = Step(f[n - 1], n)
  <2>1. /\ f \in [0 .. N -> V] /\ f[0] = <<>>
        /\ \A n \in 1 .. N : f[n] = G[<<f[n - 1], n>>]
    <3> HIDE DEF G, N, V
    <3> QED
      BY <1>3 DEF Follows
  <2>2. ASSUME NEW n \in 1 .. N
        PROVE  G[<<f[n - 1], n>>] = Step(f[n - 1], n)
    <3>1. f[n - 1] \in V
      BY <1>0, <2>1
    <3> HIDE DEF Step, N, V
    <3> QED
      BY <3>1
  <2> QED
    BY <2>1, <2>2
<1>5. f = [n \in 0 .. N |-> F(f, n)]
  <2>1. ASSUME NEW n \in 0 .. N
        PROVE  f[n] = F(f, n)
    <3>1. n = 0 \/ (n \in 1 .. N /\ n # 0)
      BY <1>0
    <3> HIDE DEF N, V
    <3> QED
      BY <1>4, <3>1
  <2>2. f = [n \in 0 .. N |-> f[n]]
    BY <1>4
  <2> HIDE DEF F, N, V
  <2> QED
    BY <2>1, <2>2
<1>6. c = [n \in 0 .. N |-> F(c, n)]
  <2> HIDE DEF F, N
  <2> QED
    BY <1>5
<1>7. Kept(chain, good) = c[N]
  BY DEF Kept
<1> HIDE DEF c
<1>8. c[0] = <<>> /\ \A n \in 1 .. N : c[n] = Step(c[n - 1], n)
  <2>1. \A n \in 0 .. N : c[n] = F(c, n)
    <3> HIDE DEF F, N
    <3> QED
      BY <1>6
  <2>2. 0 \in 0 .. N /\ \A n \in 1 .. N : n \in 0 .. N /\ n # 0
    BY <1>0
  <2> HIDE DEF N
  <2> QED
    BY <2>1, <2>2, Zenon
<1>9. 0 .. N \subseteq {n \in 0 .. N : c[n] \in V}
  <2> DEFINE S == {n \in 0 .. N : c[n] \in V}
  <2>1. 0 \in S
    <3> HIDE DEF Step, V, N
    <3> QED
      BY <1>0, <1>8
  <2>2. ASSUME NEW n \in 1 .. N, n - 1 \in S
        PROVE  n \in S
    <3>1. Step(c[n - 1], n) \in V
      BY <1>1, <2>2
    <3> HIDE DEF Step, V
    <3> QED
      BY <1>0, <1>8, <3>1
  <2> HIDE DEF S, N
  <2> QED
    BY <1>0, <2>1, <2>2, BoundedInduction, Zenon DEF S
<1>10. c \in [0 .. N -> V]
  <2> HIDE DEF F, V
  <2> QED
    BY <1>6, <1>9
<1> QED
  BY <1>7, <1>8, <1>10 DEF KeepsIn

LEMMA KeptType ==
  ASSUME NEW X, NEW chain \in Seq(X), NEW good
  PROVE  Kept(chain, good) \in Seq(X)
<1>1. PICK f : KeepsIn(f, chain, good, X) /\ Kept(chain, good) = f[Len(chain)]
  BY KeptIs
<1>2. Len(chain) \in 0 .. Len(chain)
  OBVIOUS
<1> QED
  BY <1>1, <1>2 DEF KeepsIn

LEMMA KeptNone ==
  ASSUME NEW good
  PROVE  Kept(<<>>, good) = <<>>
<1>1. <<>> \in Seq({}) /\ Len(<<>>) = 0
  OBVIOUS
<1>2. PICK f : KeepsIn(f, <<>>, good, {}) /\ Kept(<<>>, good) = f[Len(<<>>)]
  BY <1>1, KeptIs
<1> QED
  BY <1>1, <1>2 DEF KeepsIn

LEMMA KeptMore ==
  ASSUME NEW X, NEW chain \in Seq(X), NEW x \in X, NEW good
  PROVE  Kept(Append(chain, x), good) =
           IF x \in good THEN Append(Kept(chain, good), x) ELSE Kept(chain, good)
<1> DEFINE N == Len(chain)
           longer == Append(chain, x)
<1>0. /\ N \in Nat /\ longer \in Seq(X) /\ Len(longer) = N + 1
      /\ longer[N + 1] = x /\ \A n \in 1 .. N : longer[n] = chain[n]
  OBVIOUS
<1>1. PICK f : KeepsIn(f, chain, good, X) /\ Kept(chain, good) = f[N]
  BY KeptIs
<1>2. PICK g : KeepsIn(g, longer, good, X) /\ Kept(longer, good) = g[N + 1]
  <2> HIDE DEF longer, N
  <2>1. \E g : KeepsIn(g, longer, good, X) /\ Kept(longer, good) = g[Len(longer)]
    BY <1>0, KeptIs
  <2> QED
    BY <1>0, <2>1
<1>3. /\ f \in [0 .. N -> Seq(X)] /\ f[0] = <<>>
      /\ \A n \in 1 .. N :
           f[n] = IF chain[n] \in good THEN Append(f[n - 1], chain[n]) ELSE f[n - 1]
  BY <1>1 DEF KeepsIn
<1>4. /\ g[0] = <<>>
      /\ \A n \in 1 .. N + 1 :
           g[n] = IF longer[n] \in good THEN Append(g[n - 1], longer[n]) ELSE g[n - 1]
  <2> HIDE DEF longer, N
  <2> QED
    BY <1>0, <1>2 DEF KeepsIn
<1> DEFINE S == {n \in 0 .. N : g[n] = f[n]}
<1> HIDE DEF longer, N
<1>5. 0 \in S
  BY <1>0, <1>3, <1>4
<1>6. ASSUME NEW n \in 1 .. N, n - 1 \in S
      PROVE  n \in S
  <2>1. n \in 0 .. N /\ n \in 1 .. N + 1 /\ g[n - 1] = f[n - 1] /\ longer[n] = chain[n]
    BY <1>0, <1>6
  <2>2. g[n] = IF chain[n] \in good THEN Append(f[n - 1], chain[n]) ELSE f[n - 1]
    BY <1>4, <2>1
  <2>3. g[n] = f[n]
    BY <1>3, <2>2
  <2> QED
    BY <2>1, <2>3
<1>7. N \in S
  <2>1. 0 .. N \subseteq S
    <3> HIDE DEF S
    <3> QED
      BY <1>0, <1>5, <1>6, BoundedInduction, Zenon
  <2> QED
    BY <1>0, <2>1
<1>8. N + 1 \in 1 .. N + 1 /\ (N + 1) - 1 = N
  BY <1>0
<1>9. g[N + 1] = IF x \in good THEN Append(f[N], x) ELSE f[N]
  BY <1>0, <1>4, <1>7, <1>8
<1> QED
  BY <1>1, <1>2, <1>9 DEF longer

\* Induction over the chains, one model longer at a time.
LEMMA ChainInduction ==
  ASSUME NEW X, NEW S, <<>> \in S,
         \A s \in Seq(X), x \in X : s \in S => Append(s, x) \in S
  PROVE  Seq(X) \subseteq S
<1> DEFINE T == {n \in Nat : \A s \in Seq(X) : Len(s) = n => s \in S}
<1>1. 0 \in T
  <2>1. \A s \in Seq(X) : Len(s) = 0 => s = <<>>
    OBVIOUS
  <2> QED
    BY <2>1
<1>2. ASSUME NEW n \in Nat, n \in T
      PROVE  n + 1 \in T
  <2>1. ASSUME NEW s \in Seq(X), Len(s) = n + 1
        PROVE  s \in S
    <3> DEFINE front == SubSeq(s, 1, n)
    <3>1. front \in Seq(X) /\ Len(front) = n /\ s[n + 1] \in X
      BY <2>1
    <3>2. s = Append(front, s[n + 1])
      <4>1. Append(front, s[n + 1]) \in Seq(X) /\ Len(Append(front, s[n + 1])) = n + 1
        BY <3>1
      <4>2. ASSUME NEW i \in 1 .. n + 1
            PROVE  Append(front, s[n + 1])[i] = s[i]
        <5>1. i \in 1 .. n \/ i = n + 1
          OBVIOUS
        <5> QED
          BY <2>1, <3>1, <5>1
      <4>3. \A a, b \in Seq(X) : Len(a) = Len(b) /\ (\A i \in 1 .. Len(a) : a[i] = b[i]) => a = b
        OBVIOUS
      <4> HIDE DEF front
      <4> QED
        BY <2>1, <4>1, <4>2, <4>3
    <3>3. front \in S
      <4> HIDE DEF front
      <4> QED
        BY <1>2, <3>1
    <3> HIDE DEF front
    <3> QED
      BY <3>1, <3>2, <3>3
  <2> QED
    BY <2>1
<1>3. Nat \subseteq T
  <2> HIDE DEF T
  <2> QED
    BY <1>1, <1>2, SetInduction
<1>4. ASSUME NEW s \in Seq(X)
      PROVE  s \in S
  <2>1. Len(s) \in T
    <3> HIDE DEF T
    <3> QED
      BY <1>3
  <2> QED
    BY <2>1
<1> QED
  BY <1>4

LEMMA RangeMore ==
  ASSUME NEW X, NEW s \in Seq(X), NEW x \in X
  PROVE  Range(Append(s, x)) = Range(s) \cup {x}
<1>1. DOMAIN Append(s, x) = 1 .. Len(s) + 1 /\ DOMAIN s = 1 .. Len(s) /\ Len(s) \in Nat
  OBVIOUS
<1>2. Append(s, x)[Len(s) + 1] = x /\ \A n \in 1 .. Len(s) : Append(s, x)[n] = s[n]
  OBVIOUS
<1>3. \A n \in 1 .. Len(s) + 1 : n \in 1 .. Len(s) \/ n = Len(s) + 1
  BY <1>1
<1>4. Range(Append(s, x)) \subseteq Range(s) \cup {x}
  BY <1>1, <1>2, <1>3 DEF Range
<1>5. Range(s) \cup {x} \subseteq Range(Append(s, x))
  <2>1. \A n \in 1 .. Len(s) : n \in 1 .. Len(s) + 1
    BY <1>1
  <2>2. Len(s) + 1 \in 1 .. Len(s) + 1
    BY <1>1
  <2> QED
    BY <1>1, <1>2, <2>1, <2>2 DEF Range
<1> QED
  BY <1>4, <1>5

LEMMA RangeNone == Range(<<>>) = {}
BY DEF Range

LEMMA RangeOf ==
  ASSUME NEW X, NEW s \in Seq(X)
  PROVE  Range(s) \subseteq X /\ (s = <<>> <=> Range(s) = {})
<1>1. DOMAIN s = 1 .. Len(s) /\ Len(s) \in Nat /\ \A n \in 1 .. Len(s) : s[n] \in X
  OBVIOUS
<1>2. Range(s) \subseteq X
  BY <1>1 DEF Range
<1>3. s # <<>> => 1 \in DOMAIN s
  BY <1>1
<1> QED
  BY <1>2, <1>3, RangeNone DEF Range

LEMMA KeptRange ==
  ASSUME NEW X, NEW good, NEW chain \in Seq(X)
  PROVE  Range(Kept(chain, good)) = Range(chain) \cap good
<1> DEFINE S == {s \in Seq(X) : Range(Kept(s, good)) = Range(s) \cap good}
<1>1. <<>> \in S
  BY KeptNone, RangeNone
<1>2. ASSUME NEW s \in Seq(X), NEW x \in X, s \in S
      PROVE  Append(s, x) \in S
  <2>1. Kept(s, good) \in Seq(X)
    BY KeptType
  <2>2. Append(s, x) \in Seq(X)
    OBVIOUS
  <2>3. Range(Append(s, x)) = Range(s) \cup {x}
    BY RangeMore
  <2>4. Range(Append(Kept(s, good), x)) = Range(Kept(s, good)) \cup {x}
    BY <2>1, RangeMore
  <2>5. Range(Kept(s, good)) = Range(s) \cap good
    BY <1>2
  <2>6. Kept(Append(s, x), good) = IF x \in good THEN Append(Kept(s, good), x) ELSE Kept(s, good)
    BY KeptMore
  <2>7. Range(Kept(Append(s, x), good)) = Range(Append(s, x)) \cap good
    <3>1. CASE x \in good
      BY <2>3, <2>4, <2>5, <2>6, <3>1
    <3>2. CASE x \notin good
      BY <2>3, <2>5, <2>6, <3>2
    <3> QED
      BY <3>1, <3>2
  <2> QED
    BY <2>2, <2>7
<1>3. Seq(X) \subseteq S
  <2> HIDE DEF S
  <2> QED
    BY <1>1, <1>2, ChainInduction
<1> QED
  BY <1>3

LEMMA KeptTwice ==
  ASSUME NEW X, NEW good, NEW fine, NEW chain \in Seq(X)
  PROVE  Kept(Kept(chain, good), fine) = Kept(chain, good \cap fine)
<1> DEFINE S == {s \in Seq(X) : Kept(Kept(s, good), fine) = Kept(s, good \cap fine)}
<1>1. <<>> \in S
  BY KeptNone
<1>2. ASSUME NEW s \in Seq(X), NEW x \in X, s \in S
      PROVE  Append(s, x) \in S
  <2>1. Kept(s, good) \in Seq(X)
    BY KeptType
  <2>2. Append(s, x) \in Seq(X)
    OBVIOUS
  <2>3. Kept(Append(s, x), good) = IF x \in good THEN Append(Kept(s, good), x) ELSE Kept(s, good)
    BY KeptMore
  <2>4. Kept(Append(s, x), good \cap fine) =
          IF x \in good \cap fine THEN Append(Kept(s, good \cap fine), x) ELSE Kept(s, good \cap fine)
    BY KeptMore
  <2>5. Kept(Append(Kept(s, good), x), fine) =
          IF x \in fine THEN Append(Kept(Kept(s, good), fine), x) ELSE Kept(Kept(s, good), fine)
    BY <2>1, KeptMore
  <2>6. Kept(Kept(s, good), fine) = Kept(s, good \cap fine)
    BY <1>2
  <2>7. Kept(Kept(Append(s, x), good), fine) = Kept(Append(s, x), good \cap fine)
    <3>1. CASE x \in good /\ x \in fine
      BY <2>3, <2>4, <2>5, <2>6, <3>1, Zenon
    <3>2. CASE x \in good /\ x \notin fine
      BY <2>3, <2>4, <2>5, <2>6, <3>2, Zenon
    <3>3. CASE x \notin good
      BY <2>3, <2>4, <2>6, <3>3, Zenon
    <3> QED
      BY <3>1, <3>2, <3>3
  <2> QED
    BY <2>2, <2>7
<1>3. Seq(X) \subseteq S
  <2> HIDE DEF S
  <2> QED
    BY <1>1, <1>2, ChainInduction
<1> QED
  BY <1>3

\* Only the models of the chain count.
LEMMA KeptAll ==
  ASSUME NEW X, NEW good, NEW chain \in Seq(X), Range(chain) \subseteq good
  PROVE  Kept(chain, good) = chain
<1> DEFINE S == {s \in Seq(X) : Range(s) \subseteq good => Kept(s, good) = s}
<1>1. <<>> \in S
  BY KeptNone
<1>2. ASSUME NEW s \in Seq(X), NEW x \in X, s \in S
      PROVE  Append(s, x) \in S
  <2>1. Range(Append(s, x)) = Range(s) \cup {x}
    BY RangeMore
  <2>2. Append(s, x) \in Seq(X)
    OBVIOUS
  <2>3. Kept(Append(s, x), good) = IF x \in good THEN Append(Kept(s, good), x) ELSE Kept(s, good)
    BY KeptMore
  <2>4. Range(Append(s, x)) \subseteq good => Kept(Append(s, x), good) = Append(s, x)
    BY <1>2, <2>1, <2>3
  <2> QED
    BY <2>2, <2>4
<1>3. Seq(X) \subseteq S
  <2> HIDE DEF S
  <2> QED
    BY <1>1, <1>2, ChainInduction
<1> QED
  BY <1>3

\* A filter with its safety net, on the set of what is left.
Stage(R, good) == IF R \cap good = {} THEN R ELSE R \cap good

LEMMA StageOfChain ==
  ASSUME NEW X, NEW chain \in Seq(X), NEW R \in SUBSET Range(chain), NEW good
  PROVE  /\ Net(Kept(chain, R), Kept(Kept(chain, R), good)) = Kept(chain, Stage(R, good))
         /\ Stage(R, good) \in SUBSET Range(chain)
<1>1. Kept(Kept(chain, R), good) = Kept(chain, R \cap good)
  BY KeptTwice
<1>2. Range(Kept(chain, R \cap good)) = R \cap good
  <2>1. Range(Kept(chain, R \cap good)) = Range(chain) \cap (R \cap good)
    BY KeptRange
  <2> QED
    BY <2>1
<1>3. Kept(chain, R \cap good) \in Seq(X)
  BY KeptType
<1>4. Kept(chain, R \cap good) = <<>> <=> R \cap good = {}
  <2>1. Kept(chain, R \cap good) = <<>> <=> Range(Kept(chain, R \cap good)) = {}
    BY <1>3, RangeOf, Zenon
  <2> QED
    BY <1>2, <2>1
<1> QED
  BY <1>1, <1>4 DEF Net, Stage

LEMMA WishesType ==
  ASSUME NEW m, NEW need
  PROVE  /\ Wishes(m, need) \in [1 .. 4 -> BOOLEAN]
         /\ Wishes(m, need)[1] <=> m \notin exclusions
         /\ Wishes(m, need)[2] <=> (need.tokens = 0 \/ Fits(catalog, m, need.tokens))
         /\ Wishes(m, need)[3] <=> (~need.tools \/ CallsTools(catalog, m))
         /\ Wishes(m, need)[4] <=> (~need.vision \/ Sees(catalog, m))
<1> DEFINE a == m \notin exclusions
           b == need.tokens = 0 \/ Fits(catalog, m, need.tokens)
           c == ~need.tools \/ CallsTools(catalog, m)
           d == ~need.vision \/ Sees(catalog, m)
<1>1. a \in BOOLEAN /\ b \in BOOLEAN /\ c \in BOOLEAN /\ d \in BOOLEAN
  OBVIOUS
<1>2. Wishes(m, need) = <<a, b, c, d>>
  BY DEF Wishes
<1> HIDE DEF a, b, c, d
<1>3. 1 .. 4 = {1, 2, 3, 4}
  OBVIOUS
<1>4. /\ Wishes(m, need)[1] = a /\ Wishes(m, need)[2] = b
      /\ Wishes(m, need)[3] = c /\ Wishes(m, need)[4] = d
      /\ DOMAIN Wishes(m, need) = 1 .. 4
  BY <1>2
<1>5. Wishes(m, need) \in [1 .. 4 -> BOOLEAN]
  BY <1>1, <1>2, <1>3
<1> QED
  BY <1>1, <1>4, <1>5 DEF a, b, c, d

\* How models compare by the first k wishes.
Ahead(k, m, n, need) ==
  \E w \in 1 .. k :
    /\ Wishes(m, need)[w] /\ ~Wishes(n, need)[w]
    /\ \A v \in 1 .. w - 1 : Wishes(m, need)[v] = Wishes(n, need)[v]

Alike(k, m, n, need) == \A v \in 1 .. k : Wishes(m, need)[v] = Wishes(n, need)[v]

\* R is what the first k filters leave of the models All: the best by the
\* first k wishes, which are alike.
BestBy(k, All, R, need) ==
  /\ R \in SUBSET All
  /\ \A m \in R, n \in All : ~Ahead(k, n, m, need)
  /\ \A m \in All \ R : \E n \in R : Ahead(k, n, m, need)
  /\ \A m, n \in R : Alike(k, n, m, need)

LEMMA BestOfNoWish ==
  ASSUME NEW All, NEW need
  PROVE  BestBy(0, All, All, need)
BY DEF BestBy, Ahead, Alike

Granting(k, All, need) == {m \in All : Wishes(m, need)[k]}

LEMMA BestOfOneMore ==
  ASSUME NEW k \in 1 .. 4, NEW All, NEW R, NEW need, BestBy(k - 1, All, R, need)
  PROVE  BestBy(k, All, Stage(R, Granting(k, All, need)), need)
<1> DEFINE good == Granting(k, All, need)
           left == Stage(R, good)
           Has(m, w) == Wishes(m, need)[w]
<1>0. R \in SUBSET All
  BY DEF BestBy
<1>1. \A m, n : Ahead(k, m, n, need) <=>
        \/ Ahead(k - 1, m, n, need)
        \/ Alike(k - 1, m, n, need) /\ Has(m, k) /\ ~Has(n, k)
  <2> TAKE m, n
  <2>1. 1 .. k = (1 .. (k - 1)) \cup {k} /\ k \notin 1 .. (k - 1)
    OBVIOUS
  <2> QED
    BY <2>1, Zenon DEF Ahead, Alike
<1>2. \A m, n : Alike(k, m, n, need) <=> Alike(k - 1, m, n, need) /\ Has(m, k) = Has(n, k)
  <2> TAKE m, n
  <2>1. 1 .. k = (1 .. (k - 1)) \cup {k}
    OBVIOUS
  <2> QED
    BY <2>1 DEF Alike
<1>3. \A l, n, m : Ahead(k - 1, l, n, need) /\ Alike(k - 1, n, m, need) => Ahead(k - 1, l, m, need)
  <2> SUFFICES ASSUME NEW l, NEW n, NEW m, Ahead(k - 1, l, n, need), Alike(k - 1, n, m, need)
               PROVE  Ahead(k - 1, l, m, need)
    OBVIOUS
  <2>1. PICK w \in 1 .. (k - 1) :
          /\ Has(l, w) /\ ~Has(n, w)
          /\ \A v \in 1 .. w - 1 : Has(l, v) = Has(n, v)
    BY DEF Ahead
  <2>2. \A v \in 1 .. w : v \in 1 .. (k - 1) /\ Has(n, v) = Has(m, v)
    BY DEF Alike
  <2>3. w \in 1 .. w /\ \A v \in 1 .. w - 1 : v \in 1 .. w
    OBVIOUS
  <2>4. Has(l, w) /\ ~Has(m, w) /\ \A v \in 1 .. w - 1 : Has(l, v) = Has(m, v)
    <3> HIDE DEF Has
    <3> QED
      BY <2>1, <2>2, <2>3
  <2> QED
    BY <2>4 DEF Ahead
<1>4. \A m \in left, n \in All : ~Ahead(k, n, m, need)
  <2> SUFFICES ASSUME NEW m \in left, NEW n \in All, Ahead(k, n, m, need)
               PROVE  FALSE
    OBVIOUS
  <2>1. m \in R
    BY DEF Stage
  <2>2. ~Ahead(k - 1, n, m, need)
    BY <2>1 DEF BestBy
  <2>3. Alike(k - 1, n, m, need) /\ Has(n, k) /\ ~Has(m, k)
    BY <1>1, <2>2
  <2>4. n \in R
    BY <1>3, <2>1, <2>3 DEF BestBy
  <2>5. n \in R \cap good /\ m \notin good
    BY <2>3, <2>4 DEF Granting
  <2> QED
    BY <2>5 DEF Stage
<1>5. \A m \in All \ left : \E n \in left : Ahead(k, n, m, need)
  <2> TAKE m \in All \ left
  <2>1. CASE m \notin R
    <3>1. PICK n \in R : Ahead(k - 1, n, m, need)
      BY <2>1 DEF BestBy
    <3>2. CASE n \in left
      BY <1>1, <3>1, <3>2
    <3>3. CASE n \notin left
      <4>1. PICK l \in R \cap good : TRUE
        BY <3>3 DEF Stage
      <4>2. l \in left /\ Alike(k - 1, l, n, need)
        BY <4>1 DEF Stage, BestBy
      <4>3. Ahead(k - 1, l, m, need)
        <5>1. PICK w \in 1 .. (k - 1) :
                /\ Has(n, w) /\ ~Has(m, w)
                /\ \A v \in 1 .. w - 1 : Has(n, v) = Has(m, v)
          BY <3>1 DEF Ahead
        <5>2. \A v \in 1 .. w : v \in 1 .. (k - 1) /\ Has(l, v) = Has(n, v)
          BY <4>2 DEF Alike
        <5>3. w \in 1 .. w /\ \A v \in 1 .. w - 1 : v \in 1 .. w
          OBVIOUS
        <5>4. Has(l, w) /\ ~Has(m, w) /\ \A v \in 1 .. w - 1 : Has(l, v) = Has(m, v)
          <6> HIDE DEF Has
          <6> QED
            BY <5>1, <5>2, <5>3
        <5> QED
          BY <5>4 DEF Ahead
      <4> QED
        BY <1>1, <4>2, <4>3
    <3> QED
      BY <3>2, <3>3
  <2>2. CASE m \in R
    <3>1. m \notin good /\ R \cap good # {}
      BY <2>2 DEF Stage
    <3>2. PICK n \in R \cap good : TRUE
      BY <3>1
    <3>3. n \in left /\ Alike(k - 1, n, m, need)
      BY <2>2, <3>2 DEF Stage, BestBy
    <3>4. Has(n, k) /\ ~Has(m, k)
      BY <3>1, <3>2 DEF Granting
    <3> QED
      BY <1>1, <3>3, <3>4
  <2> QED
    BY <2>1, <2>2
<1>6. \A m, n \in left : Alike(k, n, m, need)
  <2> TAKE m, n \in left
  <2>1. m \in R /\ n \in R /\ (m \in good <=> n \in good)
    BY DEF Stage
  <2>2. Alike(k - 1, n, m, need)
    BY <2>1 DEF BestBy
  <2>3. Has(m, k) <=> Has(n, k)
    BY <1>0, <2>1 DEF Granting
  <2>4. Has(m, k) \in BOOLEAN /\ Has(n, k) \in BOOLEAN
    BY WishesType
  <2>5. Has(n, k) = Has(m, k)
    BY <2>3, <2>4
  <2> QED
    BY <1>2, <2>2, <2>5
<1>7. left \in SUBSET All
  BY <1>0 DEF Stage
<1> QED
  BY <1>4, <1>5, <1>6, <1>7 DEF BestBy

\* What is left is what nothing is better than.
LEMMA BestIsUnbeaten ==
  ASSUME NEW All, NEW R, NEW need, BestBy(4, All, R, need)
  PROVE  R = {m \in All : \A n \in All : ~Better(n, m, need)}
<1>1. \A m, n : Better(m, n, need) <=> Ahead(4, m, n, need)
  BY DEF Better, Ahead
<1> QED
  BY <1>1 DEF BestBy

LEMMA FiltersKeepBest ==
  ASSUME NEW X, NEW chain \in Seq(X), NEW need
  PROVE  FilterChain(chain, exclusions, need, catalog) =
           LET best == Kept(chain, {m \in Range(chain) : \A n \in Range(chain) : ~Better(n, m, need)})
           IN SubSeq(best, 1, IF Len(best) < MaxAttempts THEN Len(best) ELSE MaxAttempts)
<1> DEFINE All == Range(chain)
           G(k) == Granting(k, All, need)
           R1 == Stage(All, G(1))
           R2 == Stage(R1, G(2))
           R3 == Stage(R2, G(3))
           R4 == Stage(R3, G(4))
           fit == {m \in Range(chain) : need.tokens = 0 \/ Fits(catalog, m, need.tokens)}
           call == {m \in Range(chain) : ~need.tools \/ CallsTools(catalog, m)}
           see == {m \in Range(chain) : ~need.vision \/ Sees(catalog, m)}
           allowed == Net(chain, Kept(chain, Range(chain) \ exclusions))
           fitting == Net(allowed, Kept(allowed, fit))
           calling == Net(fitting, Kept(fitting, call))
           seeing == Net(calling, Kept(calling, see))
<1>1. /\ Range(chain) \ exclusions = G(1) /\ fit = G(2) /\ call = G(3) /\ see = G(4)
  BY WishesType DEF Granting
<1>2. chain = Kept(chain, All)
  BY KeptAll
<1>3. allowed = Kept(chain, R1) /\ R1 \in SUBSET All
  <2>1. allowed = Net(Kept(chain, All), Kept(Kept(chain, All), G(1)))
    BY <1>1, <1>2
  <2>2. /\ Net(Kept(chain, All), Kept(Kept(chain, All), G(1))) = Kept(chain, Stage(All, G(1)))
        /\ Stage(All, G(1)) \in SUBSET All
    BY StageOfChain
  <2> QED
    BY <2>1, <2>2
<1> HIDE DEF All, G, R1, allowed
<1>4. fitting = Kept(chain, R2) /\ R2 \in SUBSET All
  <2>1. fitting = Net(Kept(chain, R1), Kept(Kept(chain, R1), G(2)))
    BY <1>1, <1>3
  <2> QED
    BY <1>3, <2>1, StageOfChain DEF All
<1> HIDE DEF R2, fitting
<1>5. calling = Kept(chain, R3) /\ R3 \in SUBSET All
  <2>1. calling = Net(Kept(chain, R2), Kept(Kept(chain, R2), G(3)))
    BY <1>1, <1>4
  <2> QED
    BY <1>4, <2>1, StageOfChain DEF All
<1> HIDE DEF R3, calling
<1>6. seeing = Kept(chain, R4)
  <2>1. seeing = Net(Kept(chain, R3), Kept(Kept(chain, R3), G(4)))
    BY <1>1, <1>5
  <2> QED
    BY <1>5, <2>1, StageOfChain DEF All
<1>7. BestBy(1, All, R1, need)
  BY BestOfNoWish, BestOfOneMore DEF R1, G
<1>8. BestBy(2, All, R2, need)
  BY <1>7, BestOfOneMore DEF R2, G
<1>9. BestBy(3, All, R3, need)
  BY <1>8, BestOfOneMore DEF R3, G
<1>10. BestBy(4, All, R4, need)
  BY <1>9, BestOfOneMore DEF G
<1>11. R4 = {m \in All : \A n \in All : ~Better(n, m, need)}
  <2> HIDE DEF R4
  <2> QED
    BY <1>10, BestIsUnbeaten
<1>12. FilterChain(chain, exclusions, need, catalog) =
         SubSeq(seeing, 1, IF Len(seeing) < MaxAttempts THEN Len(seeing) ELSE MaxAttempts)
  BY DEF FilterChain, allowed, fitting, calling
<1> HIDE DEF seeing, R4
<1> QED
  BY <1>6, <1>11, <1>12 DEF All

(***************************************************************************)
(* Lists by price.                                                         *)
(***************************************************************************)
LEMMA PriceType ==
  ASSUME NEW c \in Catalogs
  PROVE  \A m \in DOMAIN c : Price(c, m) \in Int
BY DecisionAssumption DEF Price

LEMMA OneLess ==
  ASSUME NEW S, NEW n \in Nat, IsFiniteSet(S), Cardinality(S) = n + 1, NEW m \in S
  PROVE  IsFiniteSet(S \ {m}) /\ Cardinality(S \ {m}) = n
<1>1. IsFiniteSet(S \ {m}) /\ Cardinality(S \ {m}) = Cardinality(S) - 1
  BY FS_RemoveElement
<1> QED
  BY <1>1

LEMMA Dearest ==
  ASSUME NEW c \in Catalogs, NEW S \in SUBSET DOMAIN c, S # {}
  PROVE  \E m \in S : \A n \in S : Price(c, n) <= Price(c, m)
<1> DEFINE Has(U) == \E m \in U : \A n \in U : Price(c, n) <= Price(c, m)
           T == {k \in Nat : \A U \in SUBSET DOMAIN c : Cardinality(U) = k /\ U # {} => Has(U)}
<1>0. \A U \in SUBSET DOMAIN c : IsFiniteSet(U) /\ Cardinality(U) \in Nat /\ (Cardinality(U) = 0 <=> U = {})
  <2>1. IsFiniteSet(DOMAIN c)
    BY DecisionAssumption
  <2> QED
    BY <2>1, FS_Subset, FS_CardinalityType, FS_EmptySet
<1>1. 0 \in T
  BY <1>0
<1>2. ASSUME NEW k \in Nat, k \in T
      PROVE  k + 1 \in T
  <2>1. ASSUME NEW U \in SUBSET DOMAIN c, Cardinality(U) = k + 1
        PROVE  Has(U)
    <3>1. PICK x \in U : TRUE
      BY <1>0, <2>1
    <3> DEFINE V == U \ {x}
    <3>2. V \in SUBSET DOMAIN c /\ Cardinality(V) = k
      BY <1>0, <2>1, OneLess
    <3>3. \A m \in U : Price(c, m) \in Int
      BY PriceType
    <3>4. CASE V = {}
      BY <3>1, <3>3, <3>4
    <3>5. CASE V # {}
      <4>1. Has(V)
        <5> HIDE DEF Has, V
        <5> QED
          BY <1>2, <3>2, <3>5
      <4>2. PICK m \in V : \A n \in V : Price(c, n) <= Price(c, m)
        BY <4>1
      <4>3. CASE Price(c, x) <= Price(c, m)
        <5>1. \A n \in U : Price(c, n) <= Price(c, m)
          BY <4>2, <4>3
        <5> QED
          BY <5>1
      <4>4. CASE ~ (Price(c, x) <= Price(c, m))
        <5>1. \A n \in U : Price(c, n) <= Price(c, x)
          BY <3>1, <3>3, <4>2, <4>4
        <5> QED
          BY <3>1, <5>1
      <4> QED
        BY <4>3, <4>4
    <3> QED
      BY <3>4, <3>5
  <2> HIDE DEF Has
  <2> QED
    BY <2>1
<1>3. Nat \subseteq T
  <2> HIDE DEF T
  <2> QED
    BY <1>1, <1>2, SetInduction
<1>4. Cardinality(S) \in T
  <2> HIDE DEF T
  <2> QED
    BY <1>0, <1>3
<1>5. Has(S)
  <2> HIDE DEF Has
  <2> QED
    BY <1>4
<1> QED
  BY <1>5

\* Any models can be listed by their price.
LEMMA CanBeSorted ==
  ASSUME NEW c \in Catalogs, NEW S \in SUBSET DOMAIN c
  PROVE  \E s \in Lists(S) : Ascends(c, s)
<1> DEFINE Has(U) == \E s \in Lists(U) : Ascends(c, s)
           T == {k \in Nat : \A U \in SUBSET DOMAIN c : Cardinality(U) = k => Has(U)}
<1>0. \A U \in SUBSET DOMAIN c : IsFiniteSet(U) /\ Cardinality(U) \in Nat /\ (Cardinality(U) = 0 <=> U = {})
  <2>1. IsFiniteSet(DOMAIN c)
    BY DecisionAssumption
  <2> QED
    BY <2>1, FS_Subset, FS_CardinalityType, FS_EmptySet
<1>1. 0 \in T
  <2>1. ASSUME NEW U \in SUBSET DOMAIN c, Cardinality(U) = 0
        PROVE  Has(U)
    <3>1. U = {}
      BY <1>0, <2>1
    <3> DEFINE s == [i \in 1 .. 0 |-> i]
    <3>2. s \in [1 .. Cardinality(U) -> U]
      BY <2>1
    <3>3. DOMAIN s = {}
      OBVIOUS
    <3> HIDE DEF s
    <3>4. Range(s) = U
      BY <3>1, <3>3 DEF Range
    <3>5. s \in Lists(U) /\ Ascends(c, s)
      BY <3>2, <3>3, <3>4 DEF Lists, Ascends
    <3> QED
      BY <3>5
  <2> HIDE DEF Has
  <2> QED
    BY <2>1
<1>2. ASSUME NEW k \in Nat, k \in T
      PROVE  k + 1 \in T
  <2>1. ASSUME NEW U \in SUBSET DOMAIN c, Cardinality(U) = k + 1
        PROVE  Has(U)
    <3>1. U # {}
      BY <1>0, <2>1
    <3>2. PICK m \in U : \A n \in U : Price(c, n) <= Price(c, m)
      BY <3>1, Dearest
    <3> DEFINE V == U \ {m}
    <3>3. V \in SUBSET DOMAIN c /\ Cardinality(V) = k
      BY <1>0, <2>1, OneLess
    <3>4. Has(V)
      <4> HIDE DEF Has, V
      <4> QED
        BY <1>2, <3>3
    <3>5. PICK s \in Lists(V) : Ascends(c, s)
      BY <3>4
    <3>6. s \in [1 .. k -> V] /\ Range(s) = V
      <4> HIDE DEF V
      <4> QED
        BY <3>3, <3>5 DEF Lists
    <3> DEFINE t == [i \in 1 .. k + 1 |-> IF i = k + 1 THEN m ELSE s[i]]
    <3>7. /\ DOMAIN t = 1 .. k + 1 /\ t[k + 1] = m
          /\ \A i \in 1 .. k : i \in 1 .. k + 1 /\ t[i] = s[i]
          /\ \A i \in 1 .. k + 1 : i \in 1 .. k \/ i = k + 1
      OBVIOUS
    <3>8. t \in [1 .. k + 1 -> U]
      BY <3>6
    <3> HIDE DEF t
    <3>9. Range(t) = U
      <4>1. Range(t) \subseteq U
        BY <3>8 DEF Range
      <4>2. ASSUME NEW n \in U
            PROVE  n \in Range(t)
        <5>1. CASE n = m
          <6>1. k + 1 \in DOMAIN t
            BY <3>7
          <6> QED
            BY <3>7, <5>1, <6>1 DEF Range
        <5>2. CASE n # m
          <6>1. n \in Range(s) /\ DOMAIN s = 1 .. k
            BY <3>6, <5>2
          <6>2. PICK i \in 1 .. k : s[i] = n
            BY <6>1 DEF Range
          <6> QED
            BY <3>7, <6>2 DEF Range
        <5> QED
          BY <5>1, <5>2
      <4> QED
        BY <4>1, <4>2
    <3>10. Ascends(c, t)
      <4> SUFFICES ASSUME NEW i \in 1 .. k + 1, NEW j \in 1 .. k + 1, i < j
                   PROVE  Price(c, t[i]) <= Price(c, t[j])
        BY <3>7 DEF Ascends
      <4>1. i \in 1 .. k
        OBVIOUS
      <4>2. CASE j = k + 1
        <5>1. t[j] = m /\ t[i] \in U
          BY <3>7, <3>8, <4>2
        <5> QED
          BY <3>2, <5>1
      <4>3. CASE j \in 1 .. k
        <5>1. t[i] = s[i] /\ t[j] = s[j]
          BY <3>7, <4>1, <4>3
        <5>2. Price(c, s[i]) <= Price(c, s[j])
          BY <3>5, <3>6, <4>1, <4>3 DEF Ascends
        <5> QED
          BY <5>1, <5>2
      <4> QED
        BY <3>7, <4>2, <4>3
    <3>11. t \in Lists(U)
      BY <2>1, <3>8, <3>9 DEF Lists
    <3> QED
      BY <3>10, <3>11
  <2> HIDE DEF Has
  <2> QED
    BY <2>1
<1>3. Nat \subseteq T
  <2> HIDE DEF T
  <2> QED
    BY <1>1, <1>2, SetInduction
<1>4. Cardinality(S) \in T
  <2> HIDE DEF T
  <2> QED
    BY <1>0, <1>3
<1>5. Has(S)
  <2> HIDE DEF Has
  <2> QED
    BY <1>4
<1> QED
  BY <1>5

LEMMA PoolHas ==
  ASSUME NEW c \in Catalogs, DOMAIN c # {}
  PROVE  Pool(c) \in SUBSET DOMAIN c /\ Pool(c) # {}
BY DEF Pool

\* Neither profile depends on how many models there are.
LEMMA EcoIsCheaper ==
  ASSUME NEW c \in Catalogs, DOMAIN c # {}, NEW t \in {Simple, Standard, Complex}
  PROVE  Price(c, Eco(c)[t].primary) <= Price(c, Premium(c)[t].primary)
<1> DEFINE s == ByPrice(c, Pool(c))
           N == Cardinality(Pool(c))
           r == Reverse(s)
<1>1. s \in Lists(Pool(c)) /\ Ascends(c, s)
  BY PoolHas, CanBeSorted DEF ByPrice
<1>2. N \in Nat /\ N # 0
  <2>1. IsFiniteSet(Pool(c))
    BY PoolHas, DecisionAssumption, FS_Subset
  <2> QED
    BY <2>1, PoolHas, FS_CardinalityType, FS_EmptySet
<1> HIDE DEF s, N
<1>3. s \in [1 .. N -> Pool(c)]
  BY <1>1 DEF Lists, N
<1>4. Len(s) = N /\ DOMAIN s = 1 .. N
  BY <1>2, <1>3
<1>5. Len(r) = N /\ \A i \in 1 .. N : r[i] = s[N - i + 1]
  BY <1>2, <1>4 DEF Reverse
<1>6. \A i, j \in 1 .. N : i <= j => Price(c, s[i]) <= Price(c, s[j])
  <2> SUFFICES ASSUME NEW i \in 1 .. N, NEW j \in 1 .. N, i <= j
               PROVE  Price(c, s[i]) <= Price(c, s[j])
    OBVIOUS
  <2>1. CASE i = j
    <3>1. Price(c, s[i]) \in Int
      BY <1>3, PoolHas, PriceType
    <3> QED
      BY <2>1, <3>1
  <2>2. CASE i < j
    BY <1>1, <1>4, <2>2 DEF Ascends
  <2> QED
    BY <2>1, <2>2
<1>7. /\ Eco(c)[1].primary = s[1] /\ Eco(c)[2].primary = At(s, 2)
      /\ Eco(c)[3].primary = s[1 + Len(s) \div 3]
  BY DEF Eco, Tier, WithAlternative, s
<1>8. /\ Premium(c)[1].primary = At(r, 2) /\ Premium(c)[2].primary = r[1]
      /\ Premium(c)[3].primary = r[1]
  BY DEF Premium, Tier, WithAlternative, s
<1> HIDE DEF r
<1>9. 1 \in 1 .. N /\ N \in 1 .. N /\ r[1] = s[N]
  BY <1>2, <1>5
<1>10. \E i \in 1 .. N : At(r, 2) = s[i]
  <2>1. CASE 2 <= N
    <3>1. N - 2 + 1 \in 1 .. N /\ 2 \in 1 .. N
      BY <1>2, <2>1
    <3> QED
      BY <1>5, <2>1, <3>1 DEF At
  <2>2. CASE ~ (2 <= N)
    BY <1>2, <1>5, <1>9, <2>2 DEF At
  <2> QED
    BY <2>1, <2>2
<1>11. \E i \in 1 .. N : At(s, 2) = s[i]
  <2>1. CASE 2 <= N
    <3>1. 2 \in 1 .. N
      BY <1>2, <2>1
    <3> QED
      BY <1>4, <2>1, <3>1 DEF At
  <2>2. CASE ~ (2 <= N)
    BY <1>4, <1>9, <2>2 DEF At
  <2> QED
    BY <2>1, <2>2
<1>12. 1 + N \div 3 \in 1 .. N
  BY <1>2
<1>13. \A i \in 1 .. N : Price(c, s[1]) <= Price(c, s[i]) /\ Price(c, s[i]) <= Price(c, s[N])
  BY <1>2, <1>6, <1>9
<1>14. CASE t = 1
  BY <1>7, <1>8, <1>10, <1>13, <1>14
<1>15. CASE t = 2
  BY <1>7, <1>8, <1>9, <1>11, <1>13, <1>15
<1>16. CASE t = 3
  BY <1>4, <1>7, <1>8, <1>9, <1>12, <1>13, <1>16
<1> QED
  BY <1>14, <1>15, <1>16 DEF Simple, Standard, Complex

(***************************************************************************)
(* The invariant: the profiles are those of a catalogue that has been      *)
(* discovered, not always the present one.                                 *)
(***************************************************************************)
IInv ==
  /\ history \in Seq(Tiers)
  /\ catalog \in Catalogs
  /\ \E c \in Catalogs : tiers = Profile(c)

LEMMA RecordType ==
  ASSUME NEW hist \in Seq(Tiers), NEW tier \in Tiers
  PROVE  Record(hist, tier) \in Seq(Tiers)
<1>1. Append(hist, tier) \in Seq(Tiers) /\ Append(hist, tier) # <<>>
  <2>1. Append(hist, tier) \in Seq(Tiers) /\ Len(Append(hist, tier)) = Len(hist) + 1 /\ Len(hist) \in Nat
    OBVIOUS
  <2>2. Len(<<>>) = 0
    OBVIOUS
  <2> QED
    BY <2>1, <2>2
<1>2. Tail(Append(hist, tier)) \in Seq(Tiers)
  BY <1>1
<1> QED
  BY <1>1, <1>2 DEF Record

THEOREM Inductive == Spec => []IInv
<1>1. Init => IInv
  BY DEF Init, IInv
<1>2. IInv /\ [Next]_vars => IInv'
  <2> SUFFICES ASSUME IInv, [Next]_vars
               PROVE  IInv'
    OBVIOUS
  <2> USE DEF IInv
  <2>1. CASE Request
    <3>1. PICK final \in Tiers : history' = Record(history, final)
      BY <2>1 DEF Request
    <3>2. history' \in Seq(Tiers)
      BY <3>1, RecordType
    <3> QED
      BY <2>1, <3>2 DEF Request
  <2>2. CASE Discover
    BY <2>2 DEF Discover
  <2>3. CASE Generate
    BY <2>3 DEF Generate
  <2>4. CASE Exclude
    BY <2>4 DEF Exclude
  <2>5. CASE Evict
    BY <2>5 DEF Evict
  <2>6. CASE UNCHANGED vars
    BY <2>6 DEF vars
  <2> QED
    BY <2>1, <2>2, <2>3, <2>4, <2>5, <2>6 DEF Next
<1> QED
  BY <1>1, <1>2, PTL DEF Spec

\* A tier of a profile has a sequence of fallbacks; a generated one has one
\* at most.
LEMMA ProfileTiers ==
  ASSUME NEW c, NEW p \in Profiles, NEW t \in Tiers
  PROVE  \E X : Profile(c)[p][t].fallbacks \in Seq(X)
<1>1. t \in 1 .. 4
  BY DEF Tiers, Simple, Reasoning
<1> DEFINE Short(x) == \E n : x.fallbacks \in {<<>>, <<n>>}
<1>2. \A m : Short(Tier(m, <<>>)) /\ \A n : Short(Tier(m, <<n>>))
  BY DEF Tier
<1>3. \A m, s : Short(WithAlternative(c, m, s))
  BY DEF WithAlternative, Alternative, Tier
<1> HIDE DEF Short
<1>4. Short(Eco(c)[t])
  BY <1>1, <1>2, <1>3 DEF Eco
<1>5. Short(Premium(c)[t])
  BY <1>1, <1>2, <1>3 DEF Premium
<1>6. Short(Agentic(c)[t])
  BY <1>1, <1>2, <1>3 DEF Agentic
<1>7. CASE DOMAIN c = {}
  BY <1>7, DecisionAssumption DEF Profile
<1>8. CASE DOMAIN c # {}
  <2>1. Short(Profile(c)[p][t])
    BY <1>4, <1>5, <1>6, <1>8 DEF Profile, Profiles
  <2>2. PICK n : Profile(c)[p][t].fallbacks \in {<<>>, <<n>>}
    BY <2>1 DEF Short
  <2>3. <<>> \in Seq({n}) /\ <<n>> \in Seq({n})
    OBVIOUS
  <2> QED
    BY <2>2, <2>3
<1> QED
  BY <1>7, <1>8

LEMMA ChainType ==
  ASSUME IInv, NEW chain \in Chains
  PROVE  \E X : chain \in Seq(X)
<1>1. CASE chain \in UserChains
  BY <1>1, DecisionAssumption
<1>2. CASE chain \notin UserChains
  <2>1. PICK p \in Profiles, t \in Tiers : chain = Chain(p, t)
    BY <1>2 DEF Chains
  <2>2. PICK c \in Catalogs : tiers = Profile(c)
    BY DEF IInv
  <2>3. PICK X : tiers[p][t].fallbacks \in Seq(X)
    BY <2>2, ProfileTiers
  <2> DEFINE m == tiers[p][t].primary
  <2>4. <<m>> \in Seq(X \cup {m}) /\ tiers[p][t].fallbacks \in Seq(X \cup {m})
    <3> HIDE DEF m
    <3> QED
      BY <2>3
  <2>5. chain = <<m>> \o tiers[p][t].fallbacks
    BY <2>1 DEF Chain
  <2>6. chain \in Seq(X \cup {m})
    BY <2>4, <2>5
  <2> QED
    BY <2>6
<1> QED
  BY <1>1, <1>2

(***************************************************************************)
(* The properties.                                                         *)
(***************************************************************************)

\* MomentumInReach, of applyMomentum and calcWeight: for any history of any
\* length, any score and any length of the message, momentum leaves the tier
\* between those of the session's last decisions and that of the score.
THEOREM MomentumCorrect == Spec => []MomentumInReach
<1>1. IInv => MomentumInReach
  BY MomentumReaches DEF IInv, MomentumInReach
<1> QED
  BY <1>1, Inductive, PTL

\* ChainIsBest, of filterFallbackChain: for any chain, exclusions and
\* capabilities, known and unknown, the four filters and their safety nets
\* leave exactly the models that no model of the chain is better than.
THEOREM ChainCorrect == Spec => []ChainIsBest
<1>1. ASSUME IInv PROVE ChainIsBest
  <2>1. ASSUME NEW chain \in Chains, NEW need \in Needs
        PROVE  FilterChain(chain, exclusions, need, catalog) =
                 LET best == Kept(chain, {m \in Range(chain) : \A n \in Range(chain) : ~Better(n, m, need)})
                 IN SubSeq(best, 1, IF Len(best) < MaxAttempts THEN Len(best) ELSE MaxAttempts)
    <3>1. PICK X : chain \in Seq(X)
      BY <1>1, ChainType
    <3> QED
      BY <3>1, FiltersKeepBest
  <2> QED
    BY <2>1, Zenon DEF ChainIsBest
<1> QED
  BY <1>1, Inductive, PTL

\* EcoNotDearer, of discoveredEco and discoveredPremium: for any number of
\* models and any prices, equal, missing or negative ones included, no tier
\* of eco but the highest starts with a dearer model than that of premium.
THEOREM EcoCorrect == Spec => []EcoNotDearer
<1>1. IInv => EcoNotDearer
  <2> SUFFICES ASSUME catalog \in Catalogs, DOMAIN catalog # {}, NEW t \in {Simple, Standard, Complex}
               PROVE  Price(catalog, Eco(catalog)[t].primary)
                        <= Price(catalog, Premium(catalog)[t].primary)
    BY DEF IInv, EcoNotDearer
  <2> QED
    BY EcoIsCheaper
<1> QED
  BY <1>1, Inductive, PTL
==============================================================================
