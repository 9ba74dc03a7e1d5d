-------------------------- MODULE MessageGuardProofs --------------------------
(***************************************************************************)
(* Proofs about MessageGuard, for any fragments, messages and sessions and *)
(* any size of the ring: no flagged prompt is stored as it came, and what  *)
(* was taken out does not come back while the ring remembers it.           *)
(***************************************************************************)
EXTENDS MessageGuard, FiniteSetTheorems, WellFoundedInduction, TLAPS

(***************************************************************************)
(* Induction on the naturals, with a set for the predicate, and functions  *)
(* defined by recursion up to a bound.                                     *)
(***************************************************************************)
LEMMA SetInduction ==
  ASSUME NEW S, 0 \in S, \A n \in Nat : n \in S => n + 1 \in S
  PROVE  Nat \subseteq S
<1> DEFINE R == OpToRel(<, Nat)
           T == Nat \ S
<1>1. IsWellFoundedOn(R, Nat)
  BY NatLessThanWellFounded
<1>2. SUFFICES ASSUME T # {} PROVE FALSE
  OBVIOUS
<1>3. T \subseteq Nat
  OBVIOUS
<1>4. \E x \in T : \A y \in T : ~ (<<y, x>> \in R)
  <2> HIDE DEF R, T
  <2> QED BY <1>1, <1>2, <1>3, WFMin
<1>5. PICK x \in T : \A y \in T : ~ (<<y, x>> \in R)
  BY <1>4
<1>6. x - 1 \in T /\ x - 1 < x
  OBVIOUS
<1>7. <<x - 1, x>> \in R
  BY <1>6 DEF OpToRel
<1> QED BY <1>5, <1>6, <1>7

\* Up to a bound.
LEMMA BoundedInduction ==
  ASSUME NEW N \in Nat, NEW S, 0 \in S, \A n \in 1 .. N : n - 1 \in S => n \in S
  PROVE  0 .. N \subseteq S
<1> DEFINE T == {n \in Nat : n <= N => n \in S}
<1>1. 0 \in T
  OBVIOUS
<1>2. ASSUME NEW n \in Nat, n \in T
      PROVE  n + 1 \in T
  <2>1. CASE n + 1 <= N
    <3>1. n + 1 \in 1 .. N /\ (n + 1) - 1 = n /\ n \in S
      BY <1>2, <2>1
    <3>2. n + 1 \in S
      BY <3>1
    <3> QED
      BY <3>2
  <2> QED
    BY <2>1
<1>3. Nat \subseteq T
  <2> HIDE DEF T
  <2> QED BY <1>1, <1>2, SetInduction
<1> QED
  BY <1>3

StepsOn(V, N) == [V \X (1 .. N) -> V]

Follows(f, v, G, V, N) ==
  f \in [0 .. N -> V] /\ f[0] = v /\ \A n \in 1 .. N : f[n] = G[<<f[n - 1], n>>]

LEMMA Recursion ==
  ASSUME NEW N \in Nat, NEW V, NEW v \in V, NEW G \in StepsOn(V, N)
  PROVE  \E f : Follows(f, v, G, V, N)
<1>0. G \in [V \X (1 .. N) -> V]
  BY DEF StepsOn
<1> DEFINE Good(k, f) == f[0] = v /\ \A n \in 1 .. k : f[n] = G[<<f[n - 1], n>>]
           S == {k \in 0 .. N : \E f \in [0 .. k -> V] : Good(k, f)}
<1>1. 0 \in S
  <2> DEFINE f == [n \in 0 .. 0 |-> v]
  <2>1. f \in [0 .. 0 -> V] /\ Good(0, f)
    OBVIOUS
  <2> HIDE DEF f, Good
  <2> QED
    BY <2>1
<1>2. ASSUME NEW k \in 1 .. N, k - 1 \in S
      PROVE  k \in S
  <2>1. PICK f \in [0 .. k - 1 -> V] : Good(k - 1, f)
    BY <1>2
  <2> DEFINE g == [n \in 0 .. k |-> IF n = k THEN G[<<f[k - 1], k>>] ELSE f[n]]
  <2>2. f[k - 1] \in V /\ G[<<f[k - 1], k>>] \in V
    BY <1>0
  <2>3. g \in [0 .. k -> V]
    BY <2>2
  <2>4. Good(k, g)
    <3>1. g[0] = v
      BY <2>1
    <3>2. ASSUME NEW n \in 1 .. k
          PROVE  g[n] = G[<<g[n - 1], n>>]
      <4>1. CASE n = k
        <5>1. g[k - 1] = f[k - 1] /\ g[k] = G[<<f[k - 1], k>>]
          OBVIOUS
        <5> HIDE DEF g
        <5> QED
          BY <4>1, <5>1
      <4>2. CASE n # k
        <5>1. n \in 1 .. k - 1 /\ g[n] = f[n] /\ g[n - 1] = f[n - 1]
          BY <4>2
        <5> QED
          BY <2>1, <5>1
      <4> QED
        BY <4>1, <4>2
    <3> QED
      BY <3>1, <3>2
  <2> HIDE DEF g, Good
  <2> QED
    BY <2>3, <2>4
<1>3. 0 .. N \subseteq S
  <2> HIDE DEF S
  <2> QED
    BY <1>1, <1>2, BoundedInduction
<1>4. N \in S
  <2> HIDE DEF S
  <2> QED
    BY <1>3
<1> QED
  BY <1>4 DEF Follows


(***************************************************************************)
(* The ring and the history.                                               *)
(***************************************************************************)
History == [Fragments -> (SUBSET Fragments) \cup {Never}]

Distinct(q) == \A i, j \in 1 .. Len(q) : q[i] = q[j] => i = j

\* What is in the ring q after its place i.
Later(q, i) == {q[j] : j \in i + 1 .. Len(q)}

In(q, f) == \E i \in 1 .. Len(q) : q[i] = f

\* The history knows of every fragment in the ring what was taken out after
\* it, and of no other fragment.
Memories ==
  {m \in Seq(Fragments) \X History :
     /\ Len(m[1]) <= MaxCanaries
     /\ Distinct(m[1])
     /\ \A i \in 1 .. Len(m[1]) : m[2][m[1][i]] = Later(m[1], i)
     /\ \A f \in Fragments : ~ In(m[1], f) => m[2][f] = Never}

Kept(m, f) == <<Register(m[1], f), TakenOut(m[2], f)>>

LEMMA NeverIsNoSet == Never \notin SUBSET Fragments
BY MessageGuardAssumption DEF Never

LEMMA InRange ==
  ASSUME NEW q \in Seq(Fragments), NEW f
  PROVE  f \in Range(q) <=> In(q, f)
BY DEF Range, In

\* As many fragments as there are places for them.
LEMMA HowMany ==
  ASSUME NEW w \in Seq(Fragments), Distinct(w), NEW i \in 1 .. Len(w)
  PROVE  Cardinality(Later(w, i)) = Len(w) - i
<1> DEFINE places == i + 1 .. Len(w)
           h == [j \in places |-> w[j]]
<1>0. Len(w) \in Nat /\ i \in Nat /\ i <= Len(w)
  OBVIOUS
<1>1. h \in Bijection(places, Later(w, i))
  <2>1. h \in [places -> Later(w, i)]
    BY DEF Later
  <2>2. \A j, k \in places : h[j] = h[k] => j = k
    BY <1>0 DEF Distinct
  <2>3. \A f \in Later(w, i) : \E j \in places : h[j] = f
    BY DEF Later
  <2> HIDE DEF h, places
  <2> QED
    BY <2>1, <2>2, <2>3 DEF Bijection, Injection, Surjection, IsInjective
<1>2. IsFiniteSet(places) /\ Cardinality(places) = Len(w) - i
  <2>1. /\ IsFiniteSet(places)
        /\ Cardinality(places) = IF i + 1 > Len(w) THEN 0 ELSE Len(w) - (i + 1) + 1
    <3>1. i + 1 \in Int /\ Len(w) \in Int
      BY <1>0
    <3> QED
      BY <3>1, FS_Interval, Zenon
  <2> QED
    BY <1>0, <2>1
<1> HIDE DEF places, h
<1> QED
  BY <1>1, <1>2, FS_Bijection DEF ExistsBijection

LEMMA MemoriesHas ==
  ASSUME NEW q \in Seq(Fragments), NEW h \in History, Len(q) <= MaxCanaries, Distinct(q),
         \A i \in 1 .. Len(q) : h[q[i]] = Later(q, i),
         \A f \in Fragments : ~ In(q, f) => h[f] = Never
  PROVE  <<q, h>> \in Memories
BY DEF Memories

\* What is known is not registered, and what is not known forgets the oldest.
LEMMA KeptMemories ==
  ASSUME NEW m \in Memories, NEW g \in Fragments
  PROVE  Kept(m, g) \in Memories
<1> DEFINE q == m[1]
           hist == m[2]
           N == Len(q)
           w == Append(q, g)
<1>1. /\ q \in Seq(Fragments) /\ hist \in History /\ N <= MaxCanaries /\ Distinct(q)
      /\ \A i \in 1 .. N : hist[q[i]] = Later(q, i)
      /\ \A f \in Fragments : ~ In(q, f) => hist[f] = Never
      /\ m = <<q, hist>>
  BY DEF Memories
<1> HIDE DEF q, hist
<1>2. N \in Nat /\ MaxCanaries \in Nat \ {0} /\ \A i \in 1 .. N : q[i] \in Fragments
  BY <1>1, MessageGuardAssumption
<1>3. \A i \in 1 .. N : hist[q[i]] # Never /\ Later(q, i) \subseteq Fragments
  <2> SUFFICES ASSUME NEW i \in 1 .. N
               PROVE  hist[q[i]] # Never /\ Later(q, i) \subseteq Fragments
    OBVIOUS
  <2>1. Later(q, i) \subseteq Fragments
    BY <1>2 DEF Later
  <2> QED
    BY <1>1, <2>1, NeverIsNoSet
<1>4. Kept(m, g) = <<Register(q, g), TakenOut(hist, g)>>
  BY DEF Kept, q, hist
<1>5. CASE In(q, g)
  <2>1. g \in Range(q) /\ hist[g] # Never
    BY <1>1, <1>3, <1>5, InRange DEF In
  <2>2. Kept(m, g) = m
    BY <1>1, <1>4, <2>1 DEF Register, TakenOut
  <2> QED
    BY <2>2
<1>6. CASE ~ In(q, g)
  <2> DEFINE hist2 == TakenOut(hist, g)
             ring2 == Register(q, g)
  <2>0. g \notin Range(q) /\ hist[g] = Never
    BY <1>1, <1>6, InRange
  <2>1. /\ w \in Seq(Fragments) /\ Len(w) = N + 1 /\ w[N + 1] = g
        /\ \A i \in 1 .. N : w[i] = q[i]
    BY <1>1, <1>2
  <2>2. Distinct(w)
    <3>1. \A i \in 1 .. N : q[i] # g
      BY <1>6 DEF In
    <3>2. \A i \in 1 .. N + 1 : i \in 1 .. N \/ i = N + 1
      BY <1>2
    <3> HIDE DEF w, N
    <3> QED
      BY <1>1, <2>1, <3>1, <3>2 DEF Distinct, N
  <2>3. \A i \in 1 .. N : Later(w, i) = hist[q[i]] \cup {g}
    <3> SUFFICES ASSUME NEW i \in 1 .. N
                 PROVE  Later(w, i) = Later(q, i) \cup {g}
      BY <1>1
    <3>1. i + 1 .. N + 1 = (i + 1 .. N) \cup {N + 1}
      BY <1>2
    <3> HIDE DEF w
    <3>2. Later(w, i) = {w[j] : j \in (i + 1 .. N) \cup {N + 1}}
      BY <2>1, <3>1 DEF Later
    <3>3. \A j \in i + 1 .. N : w[j] = q[j]
      BY <1>2, <2>1
    <3> QED
      BY <2>1, <3>2, <3>3 DEF Later
  <2>4. \A i \in 1 .. N : Cardinality(hist[q[i]] \cup {g}) = N + 1 - i
    <3> SUFFICES ASSUME NEW i \in 1 .. N
                 PROVE  Cardinality(hist[q[i]] \cup {g}) = N + 1 - i
      OBVIOUS
    <3>1. i \in 1 .. Len(w)
      BY <1>2, <2>1
    <3> HIDE DEF w, N
    <3>2. Cardinality(Later(w, i)) = Len(w) - i
      BY <2>1, <2>2, <3>1, HowMany, Zenon
    <3>3. Later(w, i) = hist[q[i]] \cup {g} /\ Len(w) = N + 1
      BY <2>1, <2>3
    <3> QED
      BY <1>2, <3>2, <3>3
  <2>5. hist2 = [f \in Fragments |->
                   IF f = g THEN {}
                   ELSE IF hist[f] = Never \/ Cardinality(hist[f] \cup {g}) >= MaxCanaries THEN Never
                   ELSE hist[f] \cup {g}]
    BY <2>0 DEF TakenOut
  <2>6. hist2 \in History
    <3>1. ASSUME NEW f \in Fragments
          PROVE  hist2[f] \in (SUBSET Fragments) \cup {Never}
      <4>1. hist[f] = Never \/ hist[f] \in SUBSET Fragments
        BY <1>1 DEF History
      <4>2. hist[f] \in SUBSET Fragments => hist[f] \cup {g} \in SUBSET Fragments
        OBVIOUS
      <4>3. hist2[f] \in {{}, Never, hist[f] \cup {g}} /\ (hist[f] = Never => hist2[f] \in {{}, Never})
        BY <2>5
      <4> HIDE DEF hist2
      <4> QED
        BY <4>1, <4>2, <4>3
    <3>2. hist2 = [f \in Fragments |-> hist2[f]]
      BY <2>5
    <3> HIDE DEF hist2
    <3> QED
      BY <3>1, <3>2 DEF History
  <2>7. hist2[g] = {} /\ \A f \in Fragments : f # g /\ hist[f] = Never => hist2[f] = Never
    BY <2>5
  <2>8. \A i \in 1 .. N :
          hist2[q[i]] = IF N + 1 - i >= MaxCanaries THEN Never ELSE Later(w, i)
    <3> SUFFICES ASSUME NEW i \in 1 .. N
                 PROVE  hist2[q[i]] = IF N + 1 - i >= MaxCanaries THEN Never ELSE Later(w, i)
      OBVIOUS
    <3>1. q[i] \in Fragments /\ q[i] # g /\ hist[q[i]] # Never
      BY <1>2, <1>3, <1>6 DEF In
    <3> HIDE DEF w, hist2
    <3> QED
      BY <2>3, <2>4, <2>5, <3>1
  <2>9. Later(w, N + 1) = {}
    <3>1. N + 1 + 1 .. N + 1 = {}
      BY <1>2
    <3> HIDE DEF w
    <3> QED
      BY <2>1, <3>1 DEF Later
  <2> HIDE DEF w, hist2
  <2>a. CASE N < MaxCanaries
    <3>1. ring2 = w
      BY <1>2, <2>0, <2>a DEF Register, w
    <3>2. \A i \in 1 .. Len(w) : hist2[w[i]] = Later(w, i)
      <4> SUFFICES ASSUME NEW i \in 1 .. N + 1
                   PROVE  hist2[w[i]] = Later(w, i)
        BY <2>1
      <4>1. CASE i = N + 1
        BY <2>1, <2>7, <2>9, <4>1
      <4>2. CASE i \in 1 .. N
        <5>1. ~ (N + 1 - i >= MaxCanaries)
          BY <1>2, <2>a, <4>2
        <5> QED
          BY <2>1, <2>8, <4>2, <5>1
      <4> QED
        BY <1>2, <4>1, <4>2
    <3>3. \A f \in Fragments : ~ In(w, f) => f # g /\ ~ In(q, f)
      <4>1. In(w, g)
        BY <1>2, <2>1 DEF In
      <4>2. \A f : In(q, f) => In(w, f)
        <5> SUFFICES ASSUME NEW i \in 1 .. N
                     PROVE  In(w, q[i])
          BY DEF In
        <5>1. i \in 1 .. Len(w) /\ w[i] = q[i]
          BY <1>2, <2>1
        <5> QED
          BY <5>1 DEF In
      <4> QED
        BY <4>1, <4>2
    <3>4. \A f \in Fragments : ~ In(w, f) => hist2[f] = Never
      BY <1>1, <2>7, <3>3
    <3>5. Len(w) <= MaxCanaries
      BY <1>2, <2>1, <2>a
    <3> QED
      BY <1>4, <2>1, <2>2, <2>6, <3>1, <3>2, <3>4, <3>5 DEF Memories, hist2
  <2>b. CASE N = MaxCanaries
    <3> DEFINE r == Append(Tail(q), g)
    <3>0. q # <<>>
      BY <1>2, <2>b
    <3>1. ring2 = r
      BY <1>2, <2>0, <2>b DEF Register
    <3>2. /\ r \in Seq(Fragments) /\ Len(r) = N
          /\ \A i \in 1 .. N : r[i] = w[i + 1]
      <4>1. /\ Tail(q) \in Seq(Fragments) /\ Len(Tail(q)) = N - 1
            /\ \A i \in 1 .. N - 1 : Tail(q)[i] = q[i + 1]
        BY <1>1, <1>2, <3>0
      <4>2. /\ r \in Seq(Fragments) /\ Len(r) = N /\ r[N] = g
            /\ \A i \in 1 .. N - 1 : r[i] = Tail(q)[i]
        BY <1>2, <2>b, <4>1
      <4> HIDE DEF r
      <4>3. \A i \in 1 .. N : i = N \/ (i \in 1 .. N - 1 /\ i + 1 \in 1 .. N)
        BY <1>2
      <4> QED
        BY <2>1, <4>1, <4>2, <4>3
    <3> HIDE DEF r
    <3>3. Distinct(r)
      <4> SUFFICES ASSUME NEW i \in 1 .. N, NEW j \in 1 .. N, r[i] = r[j]
                   PROVE  i = j
        BY <3>2 DEF Distinct
      <4>1. i + 1 \in 1 .. N + 1 /\ j + 1 \in 1 .. N + 1 /\ w[i + 1] = w[j + 1]
        BY <1>2, <3>2
      <4>2. i + 1 = j + 1
        BY <2>1, <2>2, <4>1 DEF Distinct
      <4> QED
        BY <4>2
    <3>4. \A i \in 1 .. N : Later(r, i) = Later(w, i + 1)
      <4> SUFFICES ASSUME NEW i \in 1 .. N
                   PROVE  Later(r, i) = Later(w, i + 1)
        OBVIOUS
      <4>1. ASSUME NEW j \in i + 1 .. N
            PROVE  r[j] = w[j + 1] /\ j + 1 \in i + 1 + 1 .. N + 1
        BY <1>2, <3>2
      <4>2. ASSUME NEW j \in i + 1 + 1 .. N + 1
            PROVE  j - 1 \in i + 1 .. N /\ r[j - 1] = w[j]
        <5>1. j - 1 \in i + 1 .. N /\ j - 1 \in 1 .. N /\ (j - 1) + 1 = j
          BY <1>2
        <5> QED
          BY <3>2, <5>1
      <4>3. Later(r, i) = {r[j] : j \in i + 1 .. N} /\ Later(w, i + 1) = {w[j] : j \in i + 1 + 1 .. N + 1}
        BY <2>1, <3>2 DEF Later
      <4> QED
        BY <4>1, <4>2, <4>3
    <3>5. \A i \in 1 .. N : hist2[r[i]] = Later(r, i)
      <4> SUFFICES ASSUME NEW i \in 1 .. N
                   PROVE  hist2[w[i + 1]] = Later(w, i + 1)
        BY <3>2, <3>4
      <4>1. CASE i = N
        BY <2>1, <2>7, <2>9, <4>1
      <4>2. CASE i # N
        <5>1. i + 1 \in 1 .. N /\ ~ (N + 1 - (i + 1) >= MaxCanaries)
          BY <1>2, <2>b, <4>2
        <5> QED
          BY <2>1, <2>8, <5>1
      <4> QED
        BY <4>1, <4>2
    <3>6. ASSUME NEW f \in Fragments, ~ In(r, f)
          PROVE  hist2[f] = Never
      <4>1. f # g
        <5>1. N \in 1 .. N /\ r[N] = g
          BY <1>2, <2>1, <2>b, <3>2
        <5> QED
          BY <3>2, <3>6, <5>1 DEF In
      <4>2. CASE ~ In(q, f)
        BY <1>1, <2>7, <4>1, <4>2
      <4>3. CASE In(q, f)
        <5>1. PICK i \in 1 .. N : q[i] = f
          BY <4>3 DEF In
        <5>2. i = 1
          <6> SUFFICES ASSUME i # 1
                       PROVE  FALSE
            OBVIOUS
          <6>1. i - 1 \in 1 .. N /\ (i - 1) + 1 = i
            BY <1>2
          <6>2. r[i - 1] = w[i]
            BY <3>2, <6>1
          <6> QED
            BY <2>1, <3>2, <3>6, <5>1, <6>1, <6>2 DEF In
        <5>3. N + 1 - i >= MaxCanaries
          BY <1>2, <2>b, <5>2
        <5> QED
          BY <2>8, <5>1, <5>3
      <4> QED
        BY <4>2, <4>3
    <3> QED
      BY <1>1, <1>4, <2>6, <3>1, <3>2, <3>3, <3>5, <3>6, MemoriesHas DEF hist2
  <2> QED
    BY <1>1, <1>2, <2>a, <2>b
<1> QED
  BY <1>5, <1>6
\* Whatever is taken out of a text, ring and history keep agreeing.
LEMMA AfterMemories ==
  ASSUME NEW text \in Seq(Fragments), NEW taken, <<canaries, since>> \in Memories
  PROVE  After(text, taken) \in Memories
<1> DEFINE N == Len(text)
           v == <<canaries, since>>
           Next1(m, n) == IF text[n] \in taken THEN Kept(m, text[n]) ELSE m
           F(f, n) == IF n = 0 THEN v
                      ELSE IF text[n] \in taken
                           THEN <<Register(f[n - 1][1], text[n]), TakenOut(f[n - 1][2], text[n])>>
                           ELSE f[n - 1]
           G == [x \in Memories \X (1 .. N) |-> Next1(x[1], x[2])]
           c == CHOOSE f : f = [n \in 0 .. N |-> F(f, n)]
<1>0. N \in Nat /\ \A n \in 1 .. N : text[n] \in Fragments
  OBVIOUS
<1>1. \A m \in Memories, n \in 1 .. N : Next1(m, n) \in Memories
  BY <1>0, KeptMemories
<1>2. G \in StepsOn(Memories, N)
  <2> HIDE DEF Next1, N
  <2> QED
    BY <1>1 DEF StepsOn
<1>3. PICK f : Follows(f, v, G, Memories, N)
  <2> HIDE DEF G, N
  <2> QED
    BY <1>0, <1>2, Recursion, Zenon
<1>4. f \in [0 .. N -> Memories] /\ f[0] = v /\ \A n \in 1 .. N : f[n] = Next1(f[n - 1], n)
  <2>1. /\ f \in [0 .. N -> Memories] /\ f[0] = v
        /\ \A n \in 1 .. N : f[n] = G[<<f[n - 1], n>>]
    <3> HIDE DEF G, N, v
    <3> QED
      BY <1>3 DEF Follows
  <2>2. ASSUME NEW n \in 1 .. N
        PROVE  G[<<f[n - 1], n>>] = Next1(f[n - 1], n)
    <3>1. f[n - 1] \in Memories
      BY <1>0, <2>1
    <3> HIDE DEF Next1, N
    <3> QED
      BY <3>1
  <2> QED
    BY <2>1, <2>2
<1>5. f = [n \in 0 .. N |-> F(f, n)]
  <2>1. ASSUME NEW n \in 0 .. N
        PROVE  f[n] = F(f, n)
    <3>1. n = 0 \/ (n \in 1 .. N /\ n # 0)
      BY <1>0
    <3> HIDE DEF N, v
    <3> QED
      BY <1>4, <3>1 DEF Kept
  <2>2. f = [n \in 0 .. N |-> f[n]]
    BY <1>4
  <2> HIDE DEF F, N
  <2> QED
    BY <2>1, <2>2
<1>6. c = [n \in 0 .. N |-> F(c, n)]
  <2> HIDE DEF F, N
  <2> QED
    BY <1>5
<1>7. After(text, taken) = c[N]
  BY DEF After
<1> HIDE DEF c
<1>8. c[0] = v /\ \A n \in 1 .. N : c[n] = Next1(c[n - 1], n)
  <2>1. \A n \in 0 .. N : c[n] = F(c, n)
    <3> HIDE DEF F, N
    <3> QED
      BY <1>6
  <2>2. 0 \in 0 .. N /\ \A n \in 1 .. N : n \in 0 .. N /\ n # 0
    BY <1>0
  <2> HIDE DEF N, v
  <2> QED
    BY <2>1, <2>2, Zenon DEF Kept
<1>9. 0 .. N \subseteq {n \in 0 .. N : c[n] \in Memories}
  <2> DEFINE S == {n \in 0 .. N : c[n] \in Memories}
  <2>1. 0 \in S
    BY <1>0, <1>8
  <2>2. ASSUME NEW n \in 1 .. N, n - 1 \in S
        PROVE  n \in S
    <3>1. Next1(c[n - 1], n) \in Memories
      BY <1>1, <2>2
    <3> HIDE DEF Next1
    <3> QED
      BY <1>0, <1>8, <3>1
  <2> HIDE DEF S, N
  <2> QED
    BY <1>0, <2>1, <2>2, BoundedInduction, Zenon DEF S
<1> QED
  BY <1>0, <1>7, <1>9

(***************************************************************************)
(* The invariant.                                                          *)
(***************************************************************************)
Flags == [is : {"flagged"}, severity : Range(Severities), old : BOOLEAN]

Turns == {NoTurn} \cup [at : {"judging"}, prompt : Prompts]
           \cup [at : {"judged"}, prompt : Prompts, verdict : Verdicts, late : BOOLEAN]

Types ==
  /\ mode \in {"off", "dry", "on"}
  /\ cache \in [Sessions -> {NoVerdict} \cup Flags]
  /\ turn \in [Sessions -> Turns]
  /\ audits \in [Fragments -> 0 .. MaxAudits]

\* The verdict on a prompt waits in the cache for the write of the prompt.
VerdictWaits ==
  \A s \in Sessions :
    turn[s].at = "judged" /\ ~ turn[s].late /\ turn[s].verdict # Clean
      => cache[s] = Flagged(turn[s].verdict, FALSE)

IInv == Types /\ VerdictWaits /\ <<canaries, since>> \in Memories /\ FlaggedRewritten

LEMMA SeveritiesAre == Range(Severities) = {"MEDIUM", "HIGH", "CRITICAL"}
<1>1. DOMAIN Severities = {1, 2, 3}
  BY DEF Severities
<1>2. Severities[1] = "MEDIUM" /\ Severities[2] = "HIGH" /\ Severities[3] = "CRITICAL"
  BY DEF Severities
<1> QED
  BY <1>1, <1>2 DEF Range

LEMMA Ranks == Rank("MEDIUM") = 1 /\ Rank("HIGH") = 2 /\ Rank("CRITICAL") = 3
<1>1. Severities[1] = "MEDIUM" /\ Severities[2] = "HIGH" /\ Severities[3] = "CRITICAL"
  BY DEF Severities
<1>2. \A n \in 1 .. 3 : n = 1 \/ n = 2 \/ n = 3
  OBVIOUS
<1> HIDE DEF Severities
<1>3. Rank("MEDIUM") = 1
  <2>1. \A n \in 1 .. 3 : Severities[n] = "MEDIUM" <=> n = 1
    BY <1>1, <1>2
  <2> QED
    BY <2>1 DEF Rank
<1>4. Rank("HIGH") = 2
  <2>1. \A n \in 1 .. 3 : Severities[n] = "HIGH" <=> n = 2
    BY <1>1, <1>2
  <2> QED
    BY <2>1 DEF Rank
<1>5. Rank("CRITICAL") = 3
  <2>1. \A n \in 1 .. 3 : Severities[n] = "CRITICAL" <=> n = 3
    BY <1>1, <1>2
  <2> QED
    BY <2>1 DEF Rank
<1> QED
  BY <1>3, <1>4, <1>5

\* The worst flag is one.
LEMMA OverallType ==
  ASSUME NEW text \in Seq(Fragments)
  PROVE  Overall(text) \in Verdicts
<1> DEFINE flags == {Flag(f) : f \in Range(text)} \ {Clean}
<1>1. flags \subseteq {"MEDIUM", "HIGH", "CRITICAL"}
  <2>1. Range(text) \subseteq Fragments
    BY DEF Range
  <2>2. \A f \in Fragments : Flag(f) \in {Clean, "MEDIUM", "HIGH", "CRITICAL"}
    BY MessageGuardAssumption, SeveritiesAre DEF Verdicts
  <2> QED
    BY <2>1, <2>2
<1>2. ASSUME flags # {}
      PROVE  \E v \in flags : \A w \in flags : Rank(w) <= Rank(v)
  <2>1. CASE "CRITICAL" \in flags
    <3> HIDE DEF flags
    <3> QED
      BY <1>1, <2>1, Ranks
  <2>2. CASE "CRITICAL" \notin flags /\ "HIGH" \in flags
    <3> HIDE DEF flags
    <3> QED
      BY <1>1, <2>2, Ranks
  <2>3. CASE "CRITICAL" \notin flags /\ "HIGH" \notin flags
    <3> HIDE DEF flags
    <3>1. flags = {"MEDIUM"}
      BY <1>1, <1>2, <2>3
    <3> QED
      BY <3>1, Ranks
  <2> QED
    BY <2>1, <2>2, <2>3
<1>3. Overall(text) = Clean \/ Overall(text) \in flags
  <2>1. Overall(text) = IF flags = {} THEN Clean
                        ELSE CHOOSE v \in flags : \A w \in flags : Rank(w) <= Rank(v)
    BY DEF Overall
  <2> HIDE DEF flags
  <2> QED
    BY <1>2, <2>1
<1> HIDE DEF flags
<1> QED
  BY <1>1, <1>3, SeveritiesAre DEF Verdicts

LEMMA TurnTypes ==
  /\ NoTurn \in Turns /\ NoTurn.at = "idle"
  /\ \A m \in Prompts : Judging(m) \in Turns /\ Judging(m).at = "judging"
  /\ \A m \in Prompts, v \in Verdicts, late \in BOOLEAN :
       /\ Judged(m, v, late) \in Turns /\ Judged(m, v, late).at = "judged"
       /\ Judged(m, v, late).verdict = v /\ Judged(m, v, late).late = late
       /\ Judged(m, v, late).prompt = m
BY DEF Turns, NoTurn, Judging, Judged

LEMMA FlagTypes ==
  \A v \in Verdicts, old \in BOOLEAN :
    v # Clean => /\ Flagged(v, old) \in Flags /\ Flagged(v, old) # NoVerdict
                 /\ Flagged(v, old).severity = v /\ Flagged(v, old).old = old
BY DEF Flags, Flagged, Verdicts, NoVerdict

\* What a turn holds.
LEMMA TurnFields ==
  ASSUME Types, NEW s \in Sessions
  PROVE  /\ turn[s] \in Turns
         /\ turn[s].at \in {"judging", "judged"} => turn[s].prompt \in Prompts
         /\ turn[s].at = "judged" => turn[s].verdict \in Verdicts /\ turn[s].late \in BOOLEAN
BY DEF Types, Turns, NoTurn

LEMMA MessageType ==
  ASSUME NEW m \in Messages
  PROVE  /\ m.text \in Seq(Fragments) /\ m.text[1] \in Fragments /\ m.even \in BOOLEAN
         /\ Range(m.text) \subseteq Fragments
<1>1. m.text \in Seq(Fragments) /\ m.text # <<>> /\ m.even \in BOOLEAN
  BY MessageGuardAssumption
<1> DEFINE t == m.text
<1>2. Len(t) \in Nat /\ Len(t) # 0 /\ DOMAIN t = 1 .. Len(t) /\ \A i \in 1 .. Len(t) : t[i] \in Fragments
  <2> HIDE DEF t
  <2> QED
    BY <1>1 DEF t
<1> QED
  BY <1>1, <1>2 DEF Range

\* What a text leaves stored is in it.
LEMMA ScanStores ==
  ASSUME NEW text
  PROVE  Scan(text).stored \subseteq Range(text)
BY DEF Scan

\* What goes through the guards.
LEMMA GuardedStep ==
  ASSUME Types, <<canaries, since>> \in Memories, NEW s, NEW m \in Messages, NEW due \in BOOLEAN,
         Guarded(s, m, due)
  PROVE  /\ <<canaries, since>>' \in Memories
         /\ audits' \in [Fragments -> 0 .. MaxAudits]
         /\ written'.due = due
         /\ written'.on /\ written'.even => \A f \in written'.stored : since[f] = Never
<1> DEFINE leaks == Range(m.text) \cap Range(canaries)
           found == Scan(m.text)
<1>1. m.text \in Seq(Fragments) /\ m.text[1] \in Fragments /\ Range(m.text) \subseteq Fragments
  BY MessageType
<1>2. canaries \in Seq(Fragments) /\ \A f \in Fragments : f \notin Range(canaries) => since[f] = Never
  <2>1. canaries \in Seq(Fragments) /\ \A f \in Fragments : ~ In(canaries, f) => since[f] = Never
    BY DEF Memories
  <2> QED
    BY <2>1, InRange
<1>3. CASE mode = "on" /\ leaks # {}
  <2>1. /\ Stored(s, m, IF m.even THEN Range(m.text) \ leaks ELSE Range(m.text), due)
        /\ UNCHANGED <<canaries, audits, since>>
    BY <1>3 DEF Guarded
  <2>2. /\ written'.stored = (IF m.even THEN Range(m.text) \ leaks ELSE Range(m.text))
        /\ written'.even = m.even /\ written'.due = due
    BY <2>1 DEF Stored
  <2>3. written'.even => \A f \in written'.stored : since[f] = Never
    BY <1>1, <1>2, <2>2
  <2> QED
    BY <2>1, <2>2, <2>3 DEF Types
<1>4. CASE ~ (mode = "on" /\ leaks # {})
  <2>1. /\ audits[m.text[1]] < MaxAudits
        /\ audits' = [audits EXCEPT ![m.text[1]] = @ + 1]
        /\ IF mode = "on"
           THEN Stored(s, m, found.stored, due) /\ Remember(m.text, found.taken)
           ELSE Stored(s, m, Range(m.text), due) /\ UNCHANGED <<canaries, since>>
    BY <1>4 DEF Guarded
  <2>2. audits' \in [Fragments -> 0 .. MaxAudits]
    BY <1>1, <2>1, MessageGuardAssumption DEF Types
  <2>3. <<canaries, since>>' \in Memories
    <3>1. CASE mode = "on"
      <4> DEFINE after == After(m.text, found.taken)
      <4>1. after \in Memories
        BY <1>1, AfterMemories
      <4>2. after = <<after[1], after[2]>>
        BY <4>1 DEF Memories
      <4>3. canaries' = after[1] /\ since' = after[2]
        BY <2>1, <3>1 DEF Remember
      <4> HIDE DEF after
      <4> QED
        BY <4>1, <4>2, <4>3
    <3> QED
      BY <2>1, <3>1
  <2>4. written'.due = due /\ (written'.on => \A f \in written'.stored : since[f] = Never)
    <3>1. CASE mode = "on"
      <4>1. written'.stored \subseteq Range(m.text) /\ written'.due = due
        BY <2>1, <3>1, ScanStores DEF Stored
      <4> QED
        BY <1>1, <1>2, <1>4, <3>1, <4>1
    <3>2. CASE mode # "on"
      <4>1. Stored(s, m, Range(m.text), due) /\ (mode = "on") = FALSE
        BY <2>1, <3>2
      <4>2. written'.due = due /\ written'.on = (mode = "on")
        BY <4>1 DEF Stored
      <4> QED
        BY <4>1, <4>2
    <3> QED
      BY <3>1, <3>2
  <2> QED
    BY <2>2, <2>3, <2>4
<1> QED
  BY <1>3, <1>4

LEMMA UnguardedStep ==
  ASSUME <<canaries, since>> \in Memories, NEW s, NEW m, Unguarded(s, m)
  PROVE  /\ UNCHANGED <<cache, canaries, audits, since>>
         /\ <<canaries, since>>' \in Memories
         /\ written'.due = FALSE /\ written'.on = FALSE
BY DEF Unguarded, Stored

\* What is written in a step that is no write.
LEMMA NoWrite ==
  ASSUME written' = NothingWritten
  PROVE  FlaggedRewritten'
BY DEF FlaggedRewritten

(***************************************************************************)
(* The invariant, action by action.                                        *)
(***************************************************************************)
LEMMA NothingRemembered == <<<<>>, Forgotten>> \in Memories
<1> DEFINE q == <<>>
<1>1. Forgotten \in History /\ \A f \in Fragments : Forgotten[f] = Never
  BY DEF Forgotten, History
<1>2. q \in Seq(Fragments) /\ Len(q) = 0 /\ 1 .. 0 = {} /\ 0 <= MaxCanaries
  BY MessageGuardAssumption
<1> HIDE DEF q
<1>3. Distinct(q) /\ \A i \in 1 .. Len(q) : Forgotten[q[i]] = Later(q, i)
  BY <1>2 DEF Distinct
<1>4. <<q, Forgotten>> \in Memories
  BY <1>1, <1>2, <1>3, MemoriesHas
<1> QED
  BY <1>4 DEF q

LEMMA Starts == Init => IInv
<1> SUFFICES ASSUME Init
             PROVE  IInv
  OBVIOUS
<1>1. Types
  BY MessageGuardAssumption, TurnTypes
     DEF Init, Types, NoVerdicts, NoTurns, NoAudits
<1>2. VerdictWaits
  BY TurnTypes DEF Init, NoTurns, VerdictWaits
<1>3. <<canaries, since>> \in Memories
  BY NothingRemembered DEF Init
<1> QED
  BY <1>1, <1>2, <1>3 DEF Init, IInv, FlaggedRewritten

LEMMA TurnStartsKeeps ==
  ASSUME IInv, NEW s \in Sessions, TurnStarts(s)
  PROVE  IInv'
<1> USE DEF IInv
<1>1. UNCHANGED <<mode, canaries, audits, since>> /\ FlaggedRewritten'
  BY NoWrite DEF TurnStarts
<1>2. Clean \in Verdicts
  BY DEF Verdicts
<1>3. PICK m \in Prompts :
        IF mode = "off"
        THEN turn' = [turn EXCEPT ![s] = Judged(m, Clean, FALSE)] /\ UNCHANGED cache
        ELSE turn' = [turn EXCEPT ![s] = Judging(m)] /\ cache' = Prune
  BY DEF TurnStarts
<1>4. turn' \in [Sessions -> Turns]
  <2>1. PICK t \in Turns : turn' = [turn EXCEPT ![s] = t]
    BY <1>2, <1>3, TurnTypes
  <2> QED
    BY <2>1 DEF Types
<1>5. cache' \in [Sessions -> {NoVerdict} \cup Flags]
  BY <1>3 DEF Types, Prune
<1>6. VerdictWaits'
  <2> SUFFICES ASSUME NEW q \in Sessions, turn'[q].at = "judged", ~ turn'[q].late,
                      turn'[q].verdict # Clean
               PROVE  cache'[q] = Flagged(turn'[q].verdict, FALSE)
    BY DEF VerdictWaits
  <2>1. q # s
    <3>1. Judged(m, Clean, FALSE).verdict = Clean /\ Judging(m).at = "judging"
      BY <1>2, TurnTypes
    <3>2. turn'[s] = Judged(m, Clean, FALSE) \/ turn'[s] = Judging(m)
      BY <1>3 DEF Types
    <3> QED
      BY <3>1, <3>2
  <2>2. turn'[q] = turn[q] /\ cache[q] = Flagged(turn[q].verdict, FALSE)
    BY <1>3, <2>1 DEF Types, VerdictWaits
  <2>3. ~ cache[q].old
    BY <2>2 DEF Flagged
  <2>4. cache'[q] = cache[q]
    BY <1>3, <2>3 DEF Prune
  <2> QED
    BY <2>2, <2>4
<1> QED
  BY <1>1, <1>4, <1>5, <1>6 DEF Types

LEMMA AnsweredKeeps ==
  ASSUME IInv, NEW s \in Sessions, Answered(s)
  PROVE  IInv'
<1> USE DEF IInv
<1>1. UNCHANGED <<mode, canaries, audits, since>> /\ FlaggedRewritten'
  BY NoWrite DEF Answered
<1> DEFINE m == turn[s].prompt
<1>2. m \in Prompts
  BY TurnFields DEF Answered
<1>3. Clean \in Verdicts /\ Overall(m.text) \in Verdicts
  BY <1>2, MessageGuardAssumption, OverallType DEF Verdicts
<1>4. PICK v \in Verdicts : /\ turn' = [turn EXCEPT ![s] = Judged(m, v, FALSE)]
                            /\ cache' = IF v = Clean THEN cache
                                        ELSE [cache EXCEPT ![s] = Flagged(v, FALSE)]
  BY <1>3 DEF Answered
<1> HIDE DEF m
<1>5. /\ Judged(m, v, FALSE) \in Turns /\ Judged(m, v, FALSE).verdict = v
      /\ v # Clean => Flagged(v, FALSE) \in Flags
  BY <1>2, TurnTypes, FlagTypes
<1>6. turn' \in [Sessions -> Turns] /\ cache' \in [Sessions -> {NoVerdict} \cup Flags]
  BY <1>4, <1>5 DEF Types
<1>7. VerdictWaits'
  <2> SUFFICES ASSUME NEW q \in Sessions, turn'[q].at = "judged", ~ turn'[q].late,
                      turn'[q].verdict # Clean
               PROVE  cache'[q] = Flagged(turn'[q].verdict, FALSE)
    BY DEF VerdictWaits
  <2>1. CASE q = s
    BY <1>4, <1>5, <2>1 DEF Types
  <2>2. CASE q # s
    BY <1>4, <2>2 DEF Types, VerdictWaits
  <2> QED
    BY <2>1, <2>2
<1> QED
  BY <1>1, <1>6, <1>7 DEF Types

\* The turn of a session ends.
LEMMA TurnEnds ==
  ASSUME Types, VerdictWaits, NEW s \in Sessions, turn' = [turn EXCEPT ![s] = NoTurn],
         \A q \in Sessions \ {s} : cache'[q] = cache[q]
  PROVE  VerdictWaits' /\ turn' \in [Sessions -> Turns]
<1>1. turn' \in [Sessions -> Turns] /\ turn'[s].at = "idle" /\ \A q \in Sessions \ {s} : turn'[q] = turn[q]
  BY TurnTypes DEF Types
<1> QED
  BY <1>1 DEF VerdictWaits

LEMMA AbortKeeps ==
  ASSUME IInv, NEW s \in Sessions, Abort(s)
  PROVE  IInv'
<1>1. UNCHANGED <<mode, cache, canaries, audits, since>> /\ FlaggedRewritten'
  BY NoWrite DEF Abort
<1>2. VerdictWaits' /\ turn' \in [Sessions -> Turns]
  BY <1>1, TurnEnds DEF Abort, IInv
<1> QED
  BY <1>1, <1>2 DEF IInv, Types

\* The prompt is written: the verdict that makes it due is in the cache.
LEMMA WritePromptKeeps ==
  ASSUME IInv, NEW s \in Sessions, WritePrompt(s)
  PROVE  IInv'
<1> USE DEF IInv
<1> DEFINE m == turn[s].prompt
           due == /\ mode = "on" /\ ~ turn[s].late
                  /\ turn[s].verdict # Clean /\ Rewrites(turn[s].verdict)
<1>1. /\ turn[s].at = "judged" /\ turn' = [turn EXCEPT ![s] = NoTurn] /\ mode' = mode
  BY DEF WritePrompt
<1>2. m \in Messages
  BY <1>1, TurnFields, MessageGuardAssumption
<1>3. CASE Unguarded(s, m)
  <2>1. /\ UNCHANGED <<cache, canaries, audits, since>> /\ <<canaries, since>>' \in Memories
        /\ written'.due = FALSE
    BY <1>3, UnguardedStep
  <2>2. VerdictWaits' /\ turn' \in [Sessions -> Turns]
    BY <1>1, <2>1, TurnEnds
  <2> QED
    BY <1>1, <2>1, <2>2 DEF Types, FlaggedRewritten
<1>4. CASE /\ cache' = [cache EXCEPT ![s] = NoVerdict]
           /\ IF mode = "on" /\ cache[s] # NoVerdict /\ Rewrites(cache[s].severity)
              THEN Stored(s, m, {}, due) /\ UNCHANGED <<canaries, audits, since>>
              ELSE Guarded(s, m, due)
  <2>1. cache' \in [Sessions -> {NoVerdict} \cup Flags] /\ \A q \in Sessions \ {s} : cache'[q] = cache[q]
    BY <1>4 DEF Types
  <2>2. VerdictWaits' /\ turn' \in [Sessions -> Turns]
    BY <1>1, <2>1, TurnEnds
  <2>3. CASE mode = "on" /\ cache[s] # NoVerdict /\ Rewrites(cache[s].severity)
    <3>1. written'.stored = {} /\ UNCHANGED <<canaries, audits, since>>
      BY <1>4, <2>3 DEF Stored
    <3> QED
      BY <1>1, <2>1, <2>2, <3>1 DEF Types, FlaggedRewritten
  <2>4. CASE ~ (mode = "on" /\ cache[s] # NoVerdict /\ Rewrites(cache[s].severity))
    <3>1. ~ due
      <4> SUFFICES ASSUME due
                   PROVE  FALSE
        OBVIOUS
      <4>1. cache[s] = Flagged(turn[s].verdict, FALSE)
        BY <1>1 DEF VerdictWaits
      <4>2. cache[s] # NoVerdict /\ cache[s].severity = turn[s].verdict
        BY <4>1 DEF Flagged, NoVerdict
      <4> QED
        BY <2>4, <4>2
    <3>2. Guarded(s, m, due) /\ due \in BOOLEAN
      BY <1>4, <2>4 DEF Rewrites
    <3> HIDE DEF due, m
    <3>3. /\ <<canaries, since>>' \in Memories /\ audits' \in [Fragments -> 0 .. MaxAudits]
          /\ written'.due = due
      BY <1>2, <3>2, GuardedStep
    <3> QED
      BY <1>1, <2>1, <2>2, <3>1, <3>3 DEF Types, FlaggedRewritten
  <2> QED
    BY <2>3, <2>4
<1> QED
  BY <1>3, <1>4 DEF WritePrompt

LEMMA WriteOtherKeeps ==
  ASSUME IInv, NEW s \in Sessions, WriteOther(s)
  PROVE  IInv'
<1> USE DEF IInv
<1>1. UNCHANGED <<mode, turn>>
  BY DEF WriteOther
<1>2. PICK m \in Messages : \/ Unguarded(s, m)
                            \/ Guarded(s, m, FALSE) /\ UNCHANGED cache
  BY DEF WriteOther
<1>3. /\ cache' = cache /\ audits' \in [Fragments -> 0 .. MaxAudits]
      /\ <<canaries, since>>' \in Memories /\ written'.due = FALSE
  <2>1. CASE Unguarded(s, m)
    BY <2>1, UnguardedStep DEF Types
  <2>2. CASE Guarded(s, m, FALSE) /\ UNCHANGED cache
    BY <2>2, GuardedStep
  <2> QED
    BY <1>2, <2>1, <2>2
<1> QED
  BY <1>1, <1>3 DEF Types, VerdictWaits, FlaggedRewritten

LEMMA AuditAnswersKeeps ==
  ASSUME IInv, NEW f \in Fragments, AuditAnswers(f)
  PROVE  IInv'
<1> USE DEF IInv
<1>1. UNCHANGED <<mode, cache, turn>> /\ FlaggedRewritten'
  BY NoWrite DEF AuditAnswers
<1>2. audits' \in [Fragments -> 0 .. MaxAudits]
  BY MessageGuardAssumption DEF AuditAnswers, Types
<1>3. <<canaries, since>>' \in Memories
  <2>1. CASE Remember(<<f>>, {f})
    <3> DEFINE after == After(<<f>>, {f})
    <3>1. <<f>> \in Seq(Fragments)
      OBVIOUS
    <3>2. after \in Memories
      BY <3>1, AfterMemories, Zenon
    <3>3. after = <<after[1], after[2]>>
      BY <3>2 DEF Memories
    <3>4. canaries' = after[1] /\ since' = after[2]
      BY <2>1 DEF Remember
    <3> HIDE DEF after
    <3> QED
      BY <3>2, <3>3, <3>4
  <2> QED
    BY <2>1 DEF AuditAnswers
<1> QED
  BY <1>1, <1>2, <1>3 DEF Types, VerdictWaits

LEMMA TickKeeps ==
  ASSUME IInv, Tick
  PROVE  IInv'
<1> USE DEF IInv
<1>1. UNCHANGED <<mode, canaries, audits, since>> /\ FlaggedRewritten'
  BY NoWrite DEF Tick
<1>2. ASSUME NEW s \in Sessions
      PROVE  /\ cache'[s] \in {NoVerdict} \cup Flags
             /\ turn'[s] \in Turns
             /\ turn'[s].at = "judged" => turn'[s].late
  <2>1. cache'[s] = IF cache[s] = NoVerdict THEN NoVerdict ELSE Flagged(cache[s].severity, TRUE)
    BY DEF Tick
  <2>2. cache[s] # NoVerdict => cache[s].severity \in Range(Severities)
    BY DEF Types, Flags
  <2>3. turn'[s] = IF turn[s].at = "judged" THEN Judged(turn[s].prompt, turn[s].verdict, TRUE)
                   ELSE turn[s]
    BY DEF Tick
  <2>4. turn'[s] \in Turns /\ (turn'[s].at = "judged" => turn'[s].late)
    <3>1. CASE turn[s].at = "judged"
      <4>1. turn[s].prompt \in Prompts /\ turn[s].verdict \in Verdicts
        BY <3>1, TurnFields
      <4>2. /\ Judged(turn[s].prompt, turn[s].verdict, TRUE) \in Turns
            /\ Judged(turn[s].prompt, turn[s].verdict, TRUE).late = TRUE
        BY <4>1, TurnTypes
      <4> QED
        BY <2>3, <3>1, <4>2
    <3>2. CASE turn[s].at # "judged"
      BY <2>3, <3>2, TurnFields
    <3> QED
      BY <3>1, <3>2
  <2> QED
    BY <2>1, <2>2, <2>4 DEF Flagged, Flags
<1>3. cache' \in [Sessions -> {NoVerdict} \cup Flags] /\ turn' \in [Sessions -> Turns]
  <2>1. cache' = [s \in Sessions |-> cache'[s]] /\ turn' = [s \in Sessions |-> turn'[s]]
    BY DEF Tick
  <2> QED
    BY <1>2, <2>1
<1>4. VerdictWaits'
  BY <1>2 DEF VerdictWaits
<1> QED
  BY <1>1, <1>3, <1>4 DEF Types

LEMMA RestKeeps ==
  ASSUME IInv, Reload \/ Restart \/ UNCHANGED vars
  PROVE  IInv'
<1>1. CASE Reload
  BY <1>1, NoWrite DEF Reload, IInv, Types, VerdictWaits
<1>2. CASE Restart
  <2>1. /\ cache' = NoVerdicts /\ turn' = NoTurns /\ canaries' = <<>> /\ audits' = NoAudits
        /\ since' = Forgotten /\ mode' = mode /\ FlaggedRewritten'
    BY <1>2, NoWrite DEF Restart
  <2>2. Types'
    BY <2>1, MessageGuardAssumption, TurnTypes DEF IInv, Types, NoVerdicts, NoTurns, NoAudits
  <2>3. VerdictWaits'
    BY <2>1, TurnTypes DEF NoTurns, VerdictWaits
  <2> QED
    BY <2>1, <2>2, <2>3, NothingRemembered DEF IInv
<1>3. CASE UNCHANGED vars
  BY <1>3 DEF vars, IInv, Types, VerdictWaits, FlaggedRewritten
<1> QED
  BY <1>1, <1>2, <1>3

(***************************************************************************)
(* The theorems.                                                           *)
(***************************************************************************)
\* Ring and history agree, and a verdict waits for its prompt, whatever
\* sessions, clock, watcher and service do in between.
THEOREM Inductive == Spec => []IInv
<1>1. Init => IInv
  BY Starts
<1>2. IInv /\ [Next]_vars => IInv'
  <2> SUFFICES ASSUME IInv, [Next]_vars
               PROVE  IInv'
    OBVIOUS
  <2>1. ASSUME NEW s \in Sessions,
               TurnStarts(s) \/ Answered(s) \/ Abort(s) \/ WritePrompt(s) \/ WriteOther(s)
        PROVE  IInv'
    BY <2>1, TurnStartsKeeps, AnsweredKeeps, AbortKeeps, WritePromptKeeps, WriteOtherKeeps
  <2>2. ASSUME NEW f \in Fragments, AuditAnswers(f)
        PROVE  IInv'
    BY <2>2, AuditAnswersKeeps
  <2>3. CASE Tick \/ Reload \/ Restart \/ UNCHANGED vars
    BY <2>3, TickKeeps, RestKeeps
  <2> QED
    BY <2>1, <2>2, <2>3 DEF Next
<1> QED
  BY <1>1, <1>2, PTL DEF Spec

\* Types, and the ring holds no more than MAX_CANARIES (canary-tracker.ts).
THEOREM TypeCorrect == Spec => []TypeOK
<1>1. IInv => TypeOK
  <2> SUFFICES ASSUME IInv
               PROVE  TypeOK
    OBVIOUS
  <2>1. canaries \in Seq(Fragments) /\ Len(canaries) <= MaxCanaries
    BY DEF IInv, Memories
  <2>2. ASSUME NEW s \in Sessions
        PROVE  turn[s] \in {NoTurn} \cup {Judging(m) : m \in Prompts}
                 \cup {Judged(m, v, late) : m \in Prompts, v \in Verdicts, late \in BOOLEAN}
    <3>1. turn[s] \in Turns
      BY DEF IInv, Types
    <3>2. CASE turn[s] \in [at : {"judging"}, prompt : Prompts]
      BY <3>2 DEF Judging
    <3>3. CASE turn[s] \in [at : {"judged"}, prompt : Prompts, verdict : Verdicts, late : BOOLEAN]
      BY <3>3 DEF Judged
    <3> QED
      BY <3>1, <3>2, <3>3 DEF Turns
  <2>3. ASSUME NEW s \in Sessions
        PROVE  cache[s] = NoVerdict \/ cache[s] \in Flags
    BY DEF IInv, Types
  <2> QED
    BY <2>1, <2>2, <2>3 DEF IInv, Types, TypeOK, Flags
<1> QED
  BY <1>1, Inductive, PTL

\* A prompt found fit for rewriting is not stored as it came: its verdict
\* waits in the cache of ModerationGuardHook.ts until the write of the prompt
\* consumes it, whatever the other sessions do.
THEOREM RewrittenCorrect == Spec => []FlaggedRewritten
<1>1. IInv => FlaggedRewritten
  BY DEF IInv
<1> QED
  BY <1>1, Inductive, PTL

\* What a guard matched or an audit flagged is stored in no later message
\* with regular white space while the ring of canary-tracker.ts has room for
\* it, for any size of the ring.
THEOREM LeakbackCorrect == Spec => LeakbackStopped
<1>1. IInv /\ [Next]_vars =>
        [written' # NothingWritten /\ written'.on /\ written'.even =>
           \A f \in written'.stored : since[f] = Never]_vars
  <2> SUFFICES ASSUME IInv, Next, written' # NothingWritten, written'.on, written'.even,
                      NEW f \in written'.stored
               PROVE  since[f] = Never
    OBVIOUS
  <2>1. Types /\ <<canaries, since>> \in Memories
    BY DEF IInv
  <2>2. PICK s \in Sessions : WritePrompt(s) \/ WriteOther(s)
    BY DEF Next, TurnStarts, Answered, Abort, AuditAnswers, Tick, Reload, Restart
  <2>3. CASE WriteOther(s)
    <3>1. PICK m \in Messages : Unguarded(s, m) \/ Guarded(s, m, FALSE)
      BY <2>3 DEF WriteOther
    <3> QED
      BY <2>1, <3>1, UnguardedStep, GuardedStep
  <2>4. CASE WritePrompt(s)
    <3> DEFINE m == turn[s].prompt
               due == /\ mode = "on" /\ ~ turn[s].late
                      /\ turn[s].verdict # Clean /\ Rewrites(turn[s].verdict)
    <3>1. m \in Messages
      BY <2>1, <2>4, TurnFields, MessageGuardAssumption DEF WritePrompt
    <3>2. \/ Unguarded(s, m)
          \/ Stored(s, m, {}, due)
          \/ Guarded(s, m, due)
      BY <2>4 DEF WritePrompt
    <3>3. due \in BOOLEAN
      BY DEF Rewrites
    <3>4. CASE Stored(s, m, {}, due)
      BY <3>4 DEF Stored
    <3> HIDE DEF m, due
    <3> QED
      BY <2>1, <3>1, <3>2, <3>3, <3>4, UnguardedStep, GuardedStep
  <2> QED
    BY <2>2, <2>3, <2>4
<1> QED
  BY <1>1, Inductive, PTL DEF Spec, LeakbackStopped
=============================================================================
