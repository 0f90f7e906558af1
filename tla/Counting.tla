------------------------------ MODULE Counting -------------------------------
(* Lemmas about numbers that count up: induction, stated of sets instead of   *)
(* operators, and rings, which take such numbers modulo their capacity (the   *)
(* slabs of both pools, the ring of control frames).                          *)
EXTENDS Integers, WellFoundedInduction, TLAPS

-----------------------------------------------------------------------------
(* Induction.                                                               *)

\* A set of natural numbers that is not empty has a least element.
LEMMA LeastOf ==
  ASSUME NEW T \in SUBSET Nat, T # {}
  PROVE  \E m \in T : \A k \in T : m <= k
<1> DEFINE R == {ss \in Nat \X Nat : ss[1] < ss[2]}
<1>1. IsWellFoundedOn(R, Nat)
  BY NatLessThanWellFounded DEF OpToRel
<1> HIDE DEF R
<1>2. PICK m \in T : \A k \in T : ~(<<k, m>> \in R)
  BY <1>1, WFMin
<1>3. m \in Nat /\ \A k \in T : k \in Nat /\ ~(k < m)
  BY <1>2 DEF R
<1>4. \A k \in T : m <= k
  BY <1>3
<1> QED
  BY <1>4

\* A set of natural numbers that is not empty and has a bound has a greatest one.
LEMMA GreatestOf ==
  ASSUME NEW T \in SUBSET Nat, T # {}, NEW b \in Nat, \A k \in T : k <= b
  PROVE  \E m \in T : \A k \in T : k <= m
<1> DEFINE D == {b - k : k \in T}
<1>1. D \in SUBSET Nat /\ D # {}
  <2>1. \A k \in T : b - k \in Nat
    OBVIOUS
  <2> QED
    BY <2>1
<1>2. PICK d \in D : \A e \in D : d <= e
  BY <1>1, LeastOf
<1>3. PICK m \in T : d = b - m
  BY <1>2
<1>4. \A k \in T : b - m <= b - k
  BY <1>2, <1>3
<1>5. \A k \in T : k <= m
  BY <1>4
<1> QED
  BY <1>5

\* What holds of 0, and of the next number whenever it holds of one, holds of
\* all up to a bound.
LEMMA UpTo ==
  ASSUME NEW n \in Nat, NEW T, 0 \in T, \A i \in 0..n - 1 : i \in T => i + 1 \in T
  PROVE  0..n \subseteq T
<1> DEFINE C == {i \in 0..n : i \notin T}
<1> SUFFICES ASSUME C # {} PROVE FALSE
  OBVIOUS
<1>1. C \in SUBSET Nat
  OBVIOUS
<1>2. PICK m \in C : \A k \in C : m <= k
  BY <1>1, LeastOf
<1>3. m \in 0..n /\ m \notin T /\ m # 0
  BY <1>2
<1>4. m - 1 \in 0..n - 1 /\ m - 1 \in 0..n /\ ~(m <= m - 1) /\ (m - 1) + 1 = m
  BY <1>3
<1>5. m - 1 \in T
  BY <1>2, <1>4
<1> QED
  BY <1>3, <1>4, <1>5

\* f is a at 0, and g says what follows.
Follows(f, n, a, g) == f[0] = a /\ \A k \in 1..n : f[k] = g[k][f[k - 1]]

\* A function that is given for 0, and for every other number from its value for
\* the one before, exists: what a recursive definition of such a function needs.
LEMMA Recursion ==
  ASSUME NEW n \in Nat, NEW V, NEW a \in V, NEW g \in [1..n -> [V -> V]]
  PROVE  \E f \in [0..n -> V] : Follows(f, n, a, g)
<1> DEFINE Good(m, f) == f[0] = a /\ \A k \in 1..m : f[k] = g[k][f[k - 1]]
           T == {m \in 0..n : \E f \in [0..m -> V] : Good(m, f)}
<1>1. 0 \in T
  <2> DEFINE f == [k \in 0..0 |-> a]
  <2>1. f \in [0..0 -> V] /\ Good(0, f)
    OBVIOUS
  <2>2. 0 \in 0..n
    OBVIOUS
  <2> HIDE DEF f
  <2> QED
    BY <2>1, <2>2
<1>2. ASSUME NEW m \in 0..n - 1, m \in T PROVE m + 1 \in T
  <2>1. PICK f \in [0..m -> V] : Good(m, f)
    BY <1>2
  <2> DEFINE h == [k \in 0..m + 1 |-> IF k <= m THEN f[k] ELSE g[m + 1][f[m]]]
  <2>2. m + 1 \in 1..n /\ f[m] \in V /\ g[m + 1] \in [V -> V]
    OBVIOUS
  <2>3. g[m + 1][f[m]] \in V
    BY <2>2
  <2>4. h \in [0..m + 1 -> V]
    BY <2>3
  <2>5. \A k \in 0..m : h[k] = f[k]
    OBVIOUS
  <2>6. h[m + 1] = g[m + 1][f[m]]
    OBVIOUS
  <2> HIDE DEF h
  <2>7. h[0] = a
    BY <2>1, <2>5
  <2>8. ASSUME NEW k \in 1..m + 1 PROVE h[k] = g[k][h[k - 1]]
    <3>1. CASE k = m + 1
      BY <2>5, <2>6, <3>1
    <3>2. CASE k # m + 1
      <4>1. k \in 1..m /\ k \in 0..m /\ k - 1 \in 0..m
        BY <3>2
      <4> QED
        BY <2>1, <2>5, <4>1
    <3> QED
      BY <3>1, <3>2
  <2>9. m + 1 \in 0..n
    OBVIOUS
  <2> QED
    BY <2>4, <2>7, <2>8, <2>9
<1> HIDE DEF T
<1>3. n \in T
  <2>1. 0..n \subseteq T
    BY <1>1, <1>2, UpTo
  <2> QED
    BY <2>1
<1> QED
  BY <1>3 DEF T, Follows

-----------------------------------------------------------------------------
(* Rings.                                                                   *)

\* Two sequence numbers less than a window apart never share a slot
\* (ibx.c:765, 772, 780 and 812 all address slots by seq % nslabs).
LEMMA SlotsDistinct ==
  ASSUME NEW w \in Nat \ {0}, NEW a \in Nat, NEW b \in Nat,
         a < b, b < a + w
  PROVE  a % w # b % w
<1> DEFINE qa == a \div w
           qb == b \div w
<1>1. qa \in Int /\ qb \in Int /\ a = w * qa + (a % w) /\ b = w * qb + (b % w)
      /\ a % w \in 0..(w - 1) /\ b % w \in 0..(w - 1)
  OBVIOUS
<1> HIDE DEF qa, qb
<1>2. SUFFICES ASSUME a % w = b % w PROVE FALSE
  OBVIOUS
<1>3. b - a = w * (qb - qa)
  BY <1>1, <1>2
<1>4. qb - qa > 0
  <2>1. SUFFICES ASSUME qb - qa <= 0 PROVE FALSE
    BY <1>1
  <2>2. w * (qb - qa) <= 0
    BY <1>1, <2>1
  <2> QED
    BY <1>3, <2>2
<1>5. w * (qb - qa) >= w
  BY <1>1, <1>4
<1> QED
  BY <1>3, <1>5

\* The places of a ring between its head and its tail.
Span(f, n, h, t) == {f[i % n] : i \in h..t - 1}

\* No two of them hold the same.
Apart(f, n, h, t) == \A i, j \in h..t - 1 : f[i % n] = f[j % n] => i = j

\* Taking from the head removes what was there and nothing else.
LEMMA RingPop ==
  ASSUME NEW n \in Nat \ {0}, NEW h \in Nat, NEW t \in Nat, h < t, NEW f, Apart(f, n, h, t)
  PROVE  /\ Span(f, n, h + 1, t) = Span(f, n, h, t) \ {f[h % n]}
         /\ f[h % n] \in Span(f, n, h, t)
         /\ Apart(f, n, h + 1, t)
<1>1. h \in h..t - 1 /\ h + 1..t - 1 = (h..t - 1) \ {h}
  OBVIOUS
<1>2. \A i \in h + 1..t - 1 : f[i % n] # f[h % n]
  BY <1>1 DEF Apart
<1> QED
  BY <1>1, <1>2 DEF Span, Apart

\* Putting something new at the tail of a ring that is not full keeps the rest.
LEMMA RingPush ==
  ASSUME NEW n \in Nat \ {0}, NEW h \in Nat, NEW t \in Nat, h <= t, t - h < n,
         NEW S, NEW f \in [0..n - 1 -> S], NEW x \in S,
         Apart(f, n, h, t), x \notin Span(f, n, h, t)
  PROVE  LET g == [f EXCEPT ![t % n] = x] IN
           /\ g \in [0..n - 1 -> S]
           /\ Span(g, n, h, t + 1) = Span(f, n, h, t) \cup {x}
           /\ Apart(g, n, h, t + 1)
<1> DEFINE g == [f EXCEPT ![t % n] = x]
<1>1. /\ h..(t + 1) - 1 = (h..t - 1) \cup {t} /\ t \notin h..t - 1
      /\ \A i \in h..t : i \in Nat /\ i % n \in 0..n - 1
  OBVIOUS
<1>2. ASSUME NEW i \in h..t - 1 PROVE i % n # t % n
  <2>1. i \in Nat /\ i < t /\ t < i + n
    OBVIOUS
  <2> QED
    BY <2>1, SlotsDistinct
<1>3. \A i \in h..t - 1 : g[i % n] = f[i % n] /\ f[i % n] \in Span(f, n, h, t)
  BY <1>1, <1>2 DEF Span
<1>4. g[t % n] = x /\ g \in [0..n - 1 -> S]
  BY <1>1
<1> HIDE DEF g
<1>5. Span(g, n, h, t + 1) = Span(f, n, h, t) \cup {x}
  BY <1>1, <1>3, <1>4 DEF Span
<1>6. Apart(g, n, h, t + 1)
  BY <1>1, <1>3, <1>4 DEF Apart
<1> QED
  BY <1>4, <1>5, <1>6 DEF g

=============================================================================
