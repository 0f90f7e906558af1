-------------------------- MODULE CtlChannel_proofs --------------------------
(* Proofs about CtlChannel for every job, number of receive slots, size of   *)
(* frames and messages, window and capacity of imm_q: what a reader makes of *)
(* a message is what was written, the receive slots are never lost and never *)
(* used twice, each direction is a queue of whole messages, and what follows *)
(* from it.                                                                  *)
EXTENDS CtlChannel, Counting, SequenceTheorems, FiniteSetTheorems

-----------------------------------------------------------------------------
(* Sequences of sequences.                                                  *)

\* Two sequences one after the other.
LEMMA Joined ==
  ASSUME NEW S, NEW a \in Seq(S), NEW b \in Seq(S)
  PROVE  /\ a \o b \in Seq(S) /\ Len(a \o b) = Len(a) + Len(b)
         /\ Len(a) \in Nat /\ Len(b) \in Nat
         /\ \A i \in 1..Len(a) : (a \o b)[i] = a[i]
         /\ \A i \in 1..Len(b) : (a \o b)[Len(a) + i] = b[i]
OBVIOUS

\* Two sequences of digits one after the other.
LEMMA JoinedDigits ==
  ASSUME NEW a \in Seq(Nat), NEW b \in Seq(Nat)
  PROVE  /\ a \o b \in Seq(Nat) /\ Len(a \o b) = Len(a) + Len(b)
         /\ Len(a) \in Nat /\ Len(b) \in Nat
         /\ \A i \in 1..Len(a) : (a \o b)[i] = a[i]
         /\ \A i \in 1..Len(b) : (a \o b)[Len(a) + i] = b[i]
<1> DEFINE S == Nat
<1>1. a \in Seq(S) /\ b \in Seq(S)
  OBVIOUS
<1> HIDE DEF S
<1>2. /\ a \o b \in Seq(S) /\ Len(a \o b) = Len(a) + Len(b)
      /\ Len(a) \in Nat /\ Len(b) \in Nat
      /\ \A i \in 1..Len(a) : (a \o b)[i] = a[i]
      /\ \A i \in 1..Len(b) : (a \o b)[Len(a) + i] = b[i]
  BY <1>1, Joined
<1> QED
  BY <1>2 DEF S

\* A sequence of sequences is flattened one after the other: f has what the first
\* ones make together.
LEMMA FlattenParts ==
  ASSUME NEW S, NEW qs \in Seq(Seq(S))
  PROVE  \E f \in [0..Len(qs) -> Seq(S)] :
           /\ f[0] = << >> /\ f[Len(qs)] = FlattenSeq(qs)
           /\ \A k \in 1..Len(qs) : f[k] = f[k - 1] \o qs[k]
<1> DEFINE W == Seq(S)
           n == Len(qs)
           g == [k \in 1..n |-> [w \in W |-> w \o qs[k]]]
           IsFlat(f) == f = [i \in 1..n |-> IF i = 1 THEN qs[i] ELSE f[i - 1] \o qs[i]]
           flatten == CHOOSE f : IsFlat(f)
<1>1. n \in Nat /\ << >> \in W /\ \A k \in 1..n : qs[k] \in W
  OBVIOUS
<1>2. g \in [1..n -> [W -> W]] /\ \A k \in 1..n : \A w \in W : g[k][w] = w \o qs[k]
  <2>1. \A k \in 1..n : \A w \in W : w \o qs[k] \in W
    OBVIOUS
  <2> QED
    BY <2>1
<1>3. CASE n = 0
  <2>1. FlattenSeq(qs) = << >>
    BY <1>3 DEF FlattenSeq
  <2> DEFINE f == [k \in 0..n |-> << >>]
  <2>2. f \in [0..n -> Seq(S)] /\ f[0] = << >> /\ f[n] = << >>
    BY <1>1
  <2>3. 1..n = {}
    BY <1>3
  <2> HIDE DEF f, n, g, W
  <2> QED
    BY <2>1, <2>2, <2>3 DEF n
<1>4. CASE n # 0
  <2> HIDE DEF g, W
  <2>1. PICK f \in [0..n -> W] : Follows(f, n, << >>, g)
    BY <1>1, <1>2, Recursion
  <2>2. f[0] = << >> /\ \A k \in 1..n : k - 1 \in 0..n /\ f[k] = f[k - 1] \o qs[k]
    <3>1. f[0] = << >> /\ \A k \in 1..n : f[k] = g[k][f[k - 1]]
      BY <2>1 DEF Follows
    <3>2. \A k \in 1..n : k - 1 \in 0..n
      BY <1>1
    <3>3. \A k \in 1..n : f[k - 1] \in W
      BY <2>1, <3>2
    <3>4. \A k \in 1..n : f[k] = f[k - 1] \o qs[k]
      BY <1>2, <3>1, <3>3
    <3> QED
      BY <3>1, <3>2, <3>4
  <2> DEFINE h == [i \in 1..n |-> f[i]]
  <2>3. IsFlat(h)
    <3>1. f[1] = qs[1]
      <4>1. f[1] = f[0] \o qs[1] /\ qs[1] \in Seq(S)
        <5>1. 1 \in 1..n /\ 1 - 1 = 0
          BY <1>1, <1>4
        <5>2. f[1] = f[1 - 1] \o qs[1] /\ qs[1] \in W
          BY <1>1, <2>2, <5>1
        <5> QED
          BY <5>1, <5>2 DEF W
      <4> QED
        BY <2>2, <4>1
    <3>2. \A i \in 1..n : i # 1 => i - 1 \in 1..n /\ f[i] = f[i - 1] \o qs[i]
      BY <1>1, <2>2
    <3> QED
      BY <3>1, <3>2
  <2>4. IsFlat(flatten)
    BY <2>3
  <2> HIDE DEF flatten
  <2>5. \A k \in 0..n : k = 0 \/ flatten[k] = f[k]
    <3> DEFINE T == {k \in 0..n : k = 0 \/ flatten[k] = f[k]}
    <3>1. 0 \in T
      BY <1>1
    <3>2. ASSUME NEW k \in 0..n - 1, k \in T PROVE k + 1 \in T
      <4>1. k + 1 \in 1..n /\ k + 1 \in 0..n /\ (k + 1) - 1 = k
        BY <1>1
      <4> DEFINE j == k + 1
      <4>2. flatten[j] = IF j = 1 THEN qs[j] ELSE flatten[j - 1] \o qs[j]
        BY <2>4, <4>1
      <4>3. h[j] = IF j = 1 THEN qs[j] ELSE h[j - 1] \o qs[j]
        BY <2>3, <4>1
      <4>4. h[j] = f[j] /\ (j # 1 => h[j - 1] = f[j - 1])
        BY <4>1
      <4>5. flatten[j] = f[j]
        <5>1. CASE j = 1
          BY <4>2, <4>3, <4>4, <5>1
        <5>2. CASE j # 1
          <6>1. k # 0 /\ flatten[k] = f[k] /\ j - 1 = k
            BY <3>2, <4>1, <5>2
          <6> HIDE DEF h, j
          <6> QED
            BY <4>2, <4>3, <4>4, <5>2, <6>1
        <5> QED
          BY <5>1, <5>2
      <4> QED
        BY <4>1, <4>5
    <3> HIDE DEF T
    <3>3. 0..n \subseteq T
      BY <1>1, <3>1, <3>2, UpTo
    <3> QED
      BY <3>3 DEF T
  <2>6. n \in 0..n /\ FlattenSeq(qs) = flatten[n]
    BY <1>1, <1>4 DEF FlattenSeq, flatten
  <2>7. FlattenSeq(qs) = f[n]
    BY <1>4, <2>5, <2>6
  <2> QED
    BY <2>1, <2>2, <2>7 DEF n, W
<1> QED
  BY <1>3, <1>4

\* Where the parts of a flattened sequence lie: part k follows the first at[k - 1]
\* elements.
Lie(qs, at) ==
  LET b == FlattenSeq(qs) IN
    /\ at[0] = 0 /\ at[Len(qs)] = Len(b)
    /\ \A k \in 1..Len(qs) : at[k] = at[k - 1] + Len(qs[k]) /\ at[k] <= Len(b)
    /\ \A k \in 1..Len(qs) : \A i \in 1..Len(qs[k]) : b[at[k - 1] + i] = qs[k][i]

\* Every sequence of sequences has such places.
LEMMA FlattenPlaces ==
  ASSUME NEW S, NEW qs \in Seq(Seq(S))
  PROVE  FlattenSeq(qs) \in Seq(S) /\ \E at \in [0..Len(qs) -> Nat] : Lie(qs, at)
<1> DEFINE n == Len(qs)
           W == Seq(S)
<1>1. n \in Nat /\ \A k \in 1..n : qs[k] \in W /\ Len(qs[k]) \in Nat
  <2>1. \A k \in 1..n : qs[k] \in W
    OBVIOUS
  <2> QED
    BY <2>1
<1>2. PICK f \in [0..n -> W] :
        f[0] = << >> /\ f[n] = FlattenSeq(qs) /\ \A k \in 1..n : f[k] = f[k - 1] \o qs[k]
  BY FlattenParts
<1> DEFINE at == [k \in 0..n |-> Len(f[k])]
<1>3. \A k \in 0..n : f[k] \in W /\ Len(f[k]) \in Nat /\ at[k] = Len(f[k])
  <2>1. \A k \in 0..n : f[k] \in W
    BY <1>2
  <2>2. \A w \in W : Len(w) \in Nat
    OBVIOUS
  <2> QED
    BY <2>1, <2>2
<1>4. at \in [0..n -> Nat] /\ at[0] = 0 /\ at[n] = Len(f[n])
  <2>1. 0 \in 0..n /\ n \in 0..n
    BY <1>1
  <2>2. Len(f[0]) = 0
    BY <1>2
  <2> HIDE DEF n
  <2> QED
    BY <1>3, <2>1, <2>2
<1> HIDE DEF at, n
<1>5. ASSUME NEW k \in 1..n
      PROVE  /\ at[k] = at[k - 1] + Len(qs[k]) /\ k - 1 \in 0..n /\ k \in 0..n
             /\ \A i \in 1..at[k - 1] : f[k][i] = f[k - 1][i]
             /\ \A i \in 1..Len(qs[k]) : f[k][at[k - 1] + i] = qs[k][i]
  <2>1. k - 1 \in 0..n /\ k \in 0..n
    BY <1>1
  <2> DEFINE a == f[k - 1]
             b == qs[k]
  <2>2. a \in Seq(S) /\ b \in Seq(S) /\ at[k - 1] = Len(a) /\ at[k] = Len(f[k]) /\ f[k] = a \o b
    BY <1>1, <1>2, <1>3, <2>1
  <2> HIDE DEF a, b
  <2>3. /\ Len(a \o b) = Len(a) + Len(b)
        /\ \A i \in 1..Len(a) : (a \o b)[i] = a[i]
        /\ \A i \in 1..Len(b) : (a \o b)[Len(a) + i] = b[i]
    BY <2>2, Joined
  <2> QED
    BY <2>1, <2>2, <2>3 DEF a, b
<1> DEFINE Kept(m, k) == /\ at[k] <= at[m]
                         /\ \A i \in 1..Len(qs[k]) : f[m][at[k - 1] + i] = qs[k][i]
           T == {m \in 0..n : \A k \in 1..m : Kept(m, k)}
<1>6. 0 \in T
  BY <1>1
<1>7. ASSUME NEW m \in 0..n - 1, m \in T PROVE m + 1 \in T
  <2> DEFINE j == m + 1
  <2>1. j \in 1..n /\ j \in 0..n /\ j - 1 = m /\ m \in 0..n
    BY <1>1
  <2> HIDE DEF j
  <2>2. /\ at[j] = at[m] + Len(qs[j]) /\ at[m] \in Nat /\ Len(qs[j]) \in Nat
        /\ \A i \in 1..at[m] : f[j][i] = f[m][i]
        /\ \A i \in 1..Len(qs[j]) : f[j][at[m] + i] = qs[j][i]
    BY <1>1, <1>3, <1>5, <2>1
  <2>3. ASSUME NEW k \in 1..m PROVE Kept(j, k)
    <3>1. k \in 1..n /\ k - 1 \in 0..n /\ k \in 0..n
      BY <1>1
    <3>2. at[k] = at[k - 1] + Len(qs[k]) /\ at[k - 1] \in Nat /\ Len(qs[k]) \in Nat /\ at[k] \in Nat
      BY <1>1, <1>3, <1>5, <3>1
    <3>3. Kept(m, k)
      BY <1>7
    <3>4. at[k] <= at[j]
      BY <2>2, <3>2, <3>3
    <3>5. ASSUME NEW i \in 1..Len(qs[k]) PROVE f[j][at[k - 1] + i] = qs[k][i]
      <4>1. at[k - 1] + i \in 1..at[m]
        <5> DEFINE a == at[k - 1]
                   l == Len(qs[k])
                   z == at[m]
        <5>1. a \in Nat /\ z \in Nat /\ l \in Nat /\ i \in 1..l
          BY <2>2, <3>2
        <5>2. a + l <= z
          BY <3>2, <3>3
        <5> HIDE DEF Kept, a, l, z
        <5>3. a + i \in 1..z
          BY <5>1, <5>2
        <5> QED
          BY <5>3 DEF a, z
      <4>2. f[j][at[k - 1] + i] = f[m][at[k - 1] + i]
        BY <2>2, <4>1
      <4> QED
        BY <3>3, <4>2
    <3> QED
      BY <3>4, <3>5
  <2>4. Kept(j, j)
    <3>1. at[j] <= at[j]
      BY <1>3, <2>1
    <3> QED
      BY <2>1, <2>2, <3>1
  <2>5. \A k \in 1..j : k \in 1..m \/ k = j
    BY <2>1
  <2> HIDE DEF Kept
  <2>6. j \in T
    BY <2>1, <2>3, <2>4, <2>5
  <2> QED
    BY <2>6 DEF j
<1> HIDE DEF T
<1>8. 0..n \subseteq T
  BY <1>1, <1>6, <1>7, UpTo
<1>9. \A k \in 1..n : Kept(n, k)
  <2>1. n \in T
    BY <1>1, <1>8
  <2> QED
    BY <2>1 DEF T
<1>10. FlattenSeq(qs) \in Seq(S)
  <2>1. n \in 0..n
    BY <1>1
  <2> QED
    BY <1>2, <1>3, <2>1
<1>11. /\ at[0] = 0 /\ at[n] = Len(FlattenSeq(qs))
       /\ \A k \in 1..n : at[k] = at[k - 1] + Len(qs[k]) /\ at[k] <= Len(FlattenSeq(qs))
       /\ \A k \in 1..n : \A i \in 1..Len(qs[k]) : FlattenSeq(qs)[at[k - 1] + i] = qs[k][i]
  BY <1>2, <1>4, <1>5, <1>9
<1> QED
  BY <1>4, <1>10, <1>11 DEF n, Lie

\* Sequences one after the other are a sequence, and none of them is lost in it.
LEMMA Flattened ==
  ASSUME NEW S, NEW qs \in Seq(Seq(S))
  PROVE  /\ FlattenSeq(qs) \in Seq(S)
         /\ (\A i \in 1..Len(qs) : qs[i] # << >>) => Len(FlattenSeq(qs)) >= Len(qs)
<1> DEFINE n == Len(qs)
<1>1. n \in Nat /\ \A k \in 1..n : qs[k] # << >> => Len(qs[k]) \in Nat \ {0}
  <2>1. \A k \in 1..n : qs[k] \in Seq(S)
    OBVIOUS
  <2> QED
    BY <2>1
<1>2. PICK at \in [0..n -> Nat] : Lie(qs, at)
  BY FlattenPlaces
<1> HIDE DEF n
<1>3. /\ at[0] = 0 /\ at[n] = Len(FlattenSeq(qs))
      /\ \A k \in 1..n : at[k] = at[k - 1] + Len(qs[k])
  BY <1>2 DEF Lie, n
<1>4. ASSUME \A i \in 1..n : qs[i] # << >> PROVE at[n] >= n
  <2> DEFINE T == {k \in 0..n : at[k] >= k}
  <2>1. 0 \in T
    BY <1>1, <1>3
  <2>2. ASSUME NEW k \in 0..n - 1, k \in T PROVE k + 1 \in T
    <3>1. k + 1 \in 1..n /\ (k + 1) - 1 = k /\ k \in 0..n
      BY <1>1
    <3>2. at[k + 1] = at[k] + Len(qs[k + 1]) /\ Len(qs[k + 1]) \in Nat \ {0} /\ at[k] \in Nat
      BY <1>1, <1>3, <1>4, <3>1
    <3> QED
      BY <1>1, <2>2, <3>1, <3>2
  <2> HIDE DEF T
  <2>3. 0..n \subseteq T
    BY <1>1, <2>1, <2>2, UpTo
  <2>4. n \in T
    BY <1>1, <2>3
  <2> QED
    BY <2>4 DEF T
<1> QED
  BY <1>3, <1>4, FlattenPlaces DEF n

\* A layout repeated n times.
LEMMA RepeatIs ==
  ASSUME NEW S, NEW entry \in Seq(S), NEW c \in {1, 2}, Len(entry) = c, NEW n \in Nat
  PROVE  /\ Repeat(n, entry) \in Seq(S) /\ Len(Repeat(n, entry)) = c * n
         /\ \A k \in 1..n : \A i \in 1..c : Repeat(n, entry)[c * (k - 1) + i] = entry[i]
<1> DEFINE qs == [i \in 1..n |-> entry]
<1>1. qs \in Seq(Seq(S)) /\ Len(qs) = n /\ \A k \in 1..n : qs[k] = entry
  OBVIOUS
<1>2. Repeat(n, entry) = FlattenSeq(qs)
  BY DEF Repeat
<1> HIDE DEF qs
<1>3. FlattenSeq(qs) \in Seq(S)
  BY <1>1, FlattenPlaces
<1>4. PICK at \in [0..n -> Nat] :
        /\ at[0] = 0 /\ at[n] = Len(FlattenSeq(qs))
        /\ \A k \in 1..n : at[k] = at[k - 1] + Len(qs[k])
        /\ \A k \in 1..n : \A i \in 1..Len(qs[k]) : FlattenSeq(qs)[at[k - 1] + i] = qs[k][i]
  <2>1. PICK at \in [0..Len(qs) -> Nat] : Lie(qs, at)
    BY <1>1, FlattenPlaces
  <2> QED
    BY <1>1, <2>1 DEF Lie
<1> DEFINE T == {k \in 0..n : at[k] = c * k}
<1>5. 0 \in T
  BY <1>4
<1>6. ASSUME NEW k \in 0..n - 1, k \in T PROVE k + 1 \in T
  <2>1. k + 1 \in 1..n /\ (k + 1) - 1 = k /\ k \in 0..n
    OBVIOUS
  <2>2. at[k + 1] = at[k] + c
    BY <1>1, <1>4, <2>1
  <2>3. c * k + c = c * (k + 1)
    OBVIOUS
  <2>4. k + 1 \in 0..n
    BY <2>1
  <2> QED
    BY <1>6, <2>2, <2>3, <2>4
<1> HIDE DEF T
<1>7. 0..n \subseteq T
  BY <1>5, <1>6, UpTo
<1>8. \A k \in 0..n : at[k] = c * k
  BY <1>7 DEF T
<1>9. n \in 0..n /\ \A k \in 1..n : k - 1 \in 0..n
  OBVIOUS
<1>10. Len(FlattenSeq(qs)) = c * n
  BY <1>4, <1>8, <1>9
<1>11. ASSUME NEW k \in 1..n, NEW i \in 1..c
       PROVE  FlattenSeq(qs)[c * (k - 1) + i] = entry[i]
  <2>1. qs[k] = entry /\ at[k - 1] = c * (k - 1)
    BY <1>1, <1>8, <1>9
  <2>2. FlattenSeq(qs)[at[k - 1] + i] = qs[k][i]
    BY <1>4, <2>1
  <2> QED
    BY <2>1, <2>2
<1> QED
  BY <1>2, <1>3, <1>10, <1>11

-----------------------------------------------------------------------------
(* Messages.                                                                *)

\* What a message of a version begins with.
Msgs(v) == {m \in Seq(Nat) : Len(m) >= 3 /\ m[1] = MAGIC /\ m[2] = v}

\* Encoding puts three digits before a body.
LEMMA Encoded ==
  ASSUME NEW v \in Nat, NEW ty \in Nat, NEW body \in Seq(Nat)
  PROVE  encode(v, ty, body) \in Msgs(v) /\ Len(encode(v, ty, body)) = 3 + Len(body)
<1> DEFINE h == <<MAGIC, v, ty>>
           m == h \o body
<1>1. h \in Seq(Nat)
  BY DEF MAGIC
<1>2. Len(h) = 3 /\ h[1] = MAGIC /\ h[2] = v
  OBVIOUS
<1> HIDE DEF h
<1>3. /\ m \in Seq(Nat) /\ Len(m) = Len(h) + Len(body) /\ Len(body) \in Nat
      /\ \A i \in 1..Len(h) : m[i] = h[i]
  BY <1>1, Joined
<1> HIDE DEF m
<1>4. 1 \in 1..Len(h) /\ 2 \in 1..Len(h)
  BY <1>2
<1>5. m[1] = MAGIC /\ m[2] = v
  BY <1>2, <1>3, <1>4
<1>6. Len(m) = 3 + Len(body) /\ Len(m) >= 3
  BY <1>2, <1>3
<1> QED
  BY <1>3, <1>5, <1>6 DEF Msgs, encode, m, h

\* So does encoding a message without one.
LEMMA EncodedBare ==
  ASSUME NEW v \in Nat, NEW ty \in Nat
  PROVE  encode_bare(v, ty) \in Msgs(v) /\ Len(encode_bare(v, ty)) = 3
<1>1. << >> \in Seq(Nat) /\ Len(<< >>) = 0
  OBVIOUS
<1> DEFINE none == << >>
<1> HIDE DEF none
<1>2. none \in Seq(Nat) /\ Len(none) = 0
  BY <1>1 DEF none
<1>3. encode(v, ty, none) \in Msgs(v) /\ Len(encode(v, ty, none)) = 3 + Len(none)
  BY <1>2, Encoded
<1>4. Len(encode(v, ty, none)) = 3
  BY <1>2, <1>3
<1> QED
  BY <1>3, <1>4 DEF encode_bare, none

\* A part of a sequence that holds s is s.
LEMMA PartIs ==
  ASSUME NEW S, NEW b \in Seq(S), NEW s \in Seq(S), NEW a \in Nat, a + Len(s) <= Len(b),
         \A i \in 1..Len(s) : b[a + i] = s[i]
  PROVE  SubSeq(b, a + 1, a + Len(s)) = s
<1> DEFINE d == SubSeq(b, a + 1, a + Len(s))
<1>1. Len(s) \in Nat /\ Len(b) \in Nat
  OBVIOUS
<1>2. Len(d) = Len(s) /\ d \in Seq(S) /\ \A i \in 1..Len(s) : d[i] = b[a + i]
  <2>1. \A i \in (a + 1)..(a + Len(s)) : b[i] \in S
    <3>1. \A i \in (a + 1)..(a + Len(s)) : i \in 1..Len(b)
      BY <1>1
    <3> QED
      BY <3>1, ElementOfSeq
  <2>2. a + 1 \in Int /\ a + Len(s) \in Int
    BY <1>1
  <2>3. /\ d \in Seq(S)
        /\ Len(d) = IF a + 1 <= a + Len(s) THEN (a + Len(s)) - (a + 1) + 1 ELSE 0
        /\ \A i \in 1..(a + Len(s)) - (a + 1) + 1 : d[i] = b[(a + 1) + i - 1]
    BY <2>1, <2>2, SubSeqProperties
  <2> HIDE DEF d
  <2>4. Len(d) = Len(s)
    BY <1>1, <2>3
  <2>5. ASSUME NEW i \in 1..Len(s) PROVE d[i] = b[a + i]
    <3>1. i \in 1..(a + Len(s)) - (a + 1) + 1 /\ (a + 1) + i - 1 = a + i
      BY <1>1
    <3> QED
      BY <2>3, <3>1
  <2> QED
    BY <2>3, <2>4, <2>5
<1> HIDE DEF d
<1>3. d = s
  BY <1>2, SeqEqual
<1> QED
  BY <1>3 DEF d

\* A program of the version that a message was written with reads its type and body.
LEMMA Decoded ==
  ASSUME NEW v \in Nat, NEW ty \in Nat, NEW body \in Seq(Nat)
  PROVE  decode_checked(v, encode(v, ty, body)) = [kind |-> "message", ty |-> ty, body |-> body]
<1> DEFINE h == <<MAGIC, v, ty>>
           m == h \o body
<1>1. h \in Seq(Nat) /\ Len(h) = 3 /\ h[1] = MAGIC /\ h[2] = v /\ h[3] = ty
  BY DEF MAGIC
<1> HIDE DEF h
<1>2. /\ m \in Seq(Nat) /\ Len(m) = Len(h) + Len(body)
      /\ Len(h) \in Nat /\ Len(body) \in Nat
      /\ \A i \in 1..Len(h) : m[i] = h[i]
      /\ \A i \in 1..Len(body) : m[Len(h) + i] = body[i]
  BY <1>1, JoinedDigits
<1> HIDE DEF m
<1>3. Len(m) = 3 + Len(body) /\ 3 + 1 = 4 /\ m[1] = MAGIC /\ m[2] = v /\ m[3] = ty
  BY <1>1, <1>2
<1>4. \A i \in 1..Len(body) : m[3 + i] = body[i]
  BY <1>1, <1>2
<1>5. SubSeq(m, 3 + 1, 3 + Len(body)) = body
  BY <1>2, <1>3, <1>4, PartIs
<1>6. SubSeq(m, 4, Len(m)) = body
  BY <1>3, <1>5
<1>7. ~(Len(m) < 3 \/ m[1] # MAGIC) /\ ~(m[2] # v)
  BY <1>2, <1>3
<1>8. decode_checked(v, m) = [kind |-> "message", ty |-> m[3], body |-> SubSeq(m, 4, Len(m))]
  BY <1>7 DEF decode_checked
<1> QED
  BY <1>3, <1>6, <1>8 DEF encode, m, h

-----------------------------------------------------------------------------
(* Writing.                                                                 *)

\* A string is written as its length, if it can be announced, and its characters.
LEMMA StringWritten ==
  ASSUME NEW s \in Seq(Nat)
  PROVE  /\ put_str(s) \in Seq(Nat) /\ Len(put_str(s)) = 1 + Len(s) /\ Len(s) \in Nat
         /\ Len(s) < StrMod => put_str(s)[1] = Len(s)
         /\ \A i \in 1..Len(s) : put_str(s)[1 + i] = s[i]
<1> DEFINE d == Len(s) % StrMod
           h == <<d>>
<1>1. d \in Nat /\ Len(s) \in Nat /\ (Len(s) < StrMod => d = Len(s))
  BY ProtoAssumption
<1> HIDE DEF d
<1>2. h \in Seq(Nat) /\ Len(h) = 1 /\ h[1] = d
  BY <1>1
<1> HIDE DEF h
<1>3. /\ h \o s \in Seq(Nat) /\ Len(h \o s) = Len(h) + Len(s)
      /\ Len(h) \in Nat /\ Len(s) \in Nat
      /\ \A i \in 1..Len(h) : (h \o s)[i] = h[i]
      /\ \A i \in 1..Len(s) : (h \o s)[Len(h) + i] = s[i]
  BY <1>2, JoinedDigits
<1>4. Len(h \o s) = 1 + Len(s) /\ (h \o s)[1] = d
  BY <1>2, <1>3
<1>5. \A i \in 1..Len(s) : (h \o s)[1 + i] = s[i]
  BY <1>2, <1>3
<1>6. put_str(s) = h \o s
  BY DEF put_str, h, d
<1> QED
  BY <1>1, <1>3, <1>4, <1>5, <1>6

ManifestType == [files : Seq([name : Seq(Nat), size : Nat]), sender_budget : Nat]

\* A file of a manifest is written as its name and its size.
LEMMA EntryWritten ==
  ASSUME NEW s \in Seq(Nat), NEW z \in Nat
  PROVE  LET q == put_str(s) \o <<z>> IN
           /\ q \in Seq(Nat) /\ Len(q) = Len(s) + 2 /\ Len(s) \in Nat
           /\ Len(s) < StrMod => q[1] = Len(s)
           /\ \A i \in 1..Len(s) : q[1 + i] = s[i]
           /\ q[Len(s) + 2] = z
<1> DEFINE a == put_str(s)
           b == <<z>>
           n == Len(s)
<1>1. /\ a \in Seq(Nat) /\ Len(a) = 1 + n /\ n \in Nat /\ (n < StrMod => a[1] = n)
      /\ \A i \in 1..n : a[1 + i] = s[i]
  BY StringWritten
<1>2. b \in Seq(Nat) /\ Len(b) = 1 /\ b[1] = z
  OBVIOUS
<1> HIDE DEF a, b
<1>3. /\ a \o b \in Seq(Nat) /\ Len(a \o b) = Len(a) + Len(b)
      /\ \A i \in 1..Len(a) : (a \o b)[i] = a[i]
      /\ \A i \in 1..Len(b) : (a \o b)[Len(a) + i] = b[i]
  BY <1>1, <1>2, JoinedDigits
<1> DEFINE q == a \o b
<1> HIDE DEF q, n
<1>4. Len(q) = n + 2 /\ q \in Seq(Nat)
  BY <1>1, <1>2, <1>3 DEF q
<1>5. 1 \in 1..Len(a) /\ q[1] = a[1]
  BY <1>1, <1>3 DEF q
<1>6. ASSUME NEW i \in 1..n PROVE q[1 + i] = s[i]
  <2>1. 1 + i \in 1..Len(a)
    BY <1>1
  <2>2. q[1 + i] = a[1 + i]
    BY <1>3, <2>1 DEF q
  <2> QED
    BY <1>1, <2>2
<1>7. q[n + 2] = z
  <2>1. 1 \in 1..Len(b) /\ Len(a) + 1 = n + 2
    BY <1>1, <1>2
  <2>2. q[Len(a) + 1] = b[1]
    BY <1>3, <2>1 DEF q
  <2> QED
    BY <1>2, <2>1, <2>2
<1> QED
  BY <1>1, <1>4, <1>5, <1>6, <1>7 DEF q, a, b, n

\* What a manifest is written as: at[k] is where the entry of file k ends.
Holds(m, b, at) ==
  LET n == Len(m.files) IN
    /\ b[1] = n /\ b[2] = m.sender_budget /\ at[0] = 2 /\ at[n] = Len(b)
    /\ \A k \in 1..n :
         LET name == m.files[k].name IN
           /\ at[k] = at[k - 1] + Len(name) + 2 /\ at[k] <= Len(b)
           /\ Len(name) < StrMod => b[at[k - 1] + 1] = Len(name)
           /\ \A i \in 1..Len(name) : b[at[k - 1] + 1 + i] = name[i]
           /\ b[at[k]] = m.files[k].size

\* The files of a manifest have a name and a size.
LEMMA FilesTyped ==
  ASSUME NEW m \in ManifestType
  PROVE  /\ Len(m.files) \in Nat /\ m.sender_budget \in Nat
         /\ \A k \in 1..Len(m.files) : /\ m.files[k].name \in Seq(Nat) /\ m.files[k].size \in Nat
                                       /\ m.files[k] = [name |-> m.files[k].name,
                                                        size |-> m.files[k].size]
<1> DEFINE E == [name : Seq(Nat), size : Nat]
           fs == m.files
<1>1. m.sender_budget \in Nat /\ fs \in Seq(E)
  BY DEF ManifestType
<1>2. \A x \in E : x.name \in Seq(Nat) /\ x.size \in Nat /\ x = [name |-> x.name, size |-> x.size]
  OBVIOUS
<1> HIDE DEF E, fs
<1>3. Len(fs) \in Nat /\ \A k \in 1..Len(fs) : fs[k] \in E
  BY <1>1
<1> QED
  BY <1>1, <1>2, <1>3 DEF fs

\* A manifest is written as two numbers and its entries.
LEMMA ManifestWritten ==
  ASSUME NEW m \in ManifestType
  PROVE  /\ Manifest_write(m) \in Seq(Nat) /\ Len(m.files) \in Nat
         /\ Len(Manifest_write(m)) >= 2 + Len(m.files)
         /\ \E at \in [0..Len(m.files) -> Nat] : Holds(m, Manifest_write(m), at)
<1> DEFINE n == Len(m.files)
           name(k) == m.files[k].name
           size(k) == m.files[k].size
           entry(k) == put_str(name(k)) \o <<size(k)>>
           qs == [k \in 1..n |-> entry(k)]
           h == <<n, m.sender_budget>>
<1>1. n \in Nat /\ m.sender_budget \in Nat
  BY FilesTyped
<1>2. ASSUME NEW k \in 1..n
      PROVE  /\ entry(k) \in Seq(Nat) /\ Len(entry(k)) = Len(name(k)) + 2 /\ Len(name(k)) \in Nat
             /\ Len(name(k)) < StrMod => entry(k)[1] = Len(name(k))
             /\ \A i \in 1..Len(name(k)) : entry(k)[1 + i] = name(k)[i]
             /\ entry(k)[Len(name(k)) + 2] = size(k)
  <2>1. name(k) \in Seq(Nat) /\ size(k) \in Nat
    BY FilesTyped
  <2> HIDE DEF name, size
  <2> QED
    BY <2>1, EntryWritten
<1> HIDE DEF entry
<1>3. qs \in Seq(Seq(Nat)) /\ Len(qs) = n /\ \A k \in 1..n : qs[k] = entry(k) /\ qs[k] # << >>
  <2>1. qs \in [1..n -> Seq(Nat)] /\ \A k \in 1..n : qs[k] = entry(k)
    BY <1>2
  <2>2. qs \in Seq(Seq(Nat)) /\ Len(qs) = n
    BY <1>1, <2>1
  <2>3. ASSUME NEW k \in 1..n PROVE entry(k) # << >>
    <3>1. Len(entry(k)) # 0
      BY <1>2
    <3> QED
      BY <3>1
  <2> HIDE DEF qs, n
  <2> QED
    BY <2>1, <2>2, <2>3
<1>4. h \in Seq(Nat) /\ Len(h) = 2 /\ h[1] = n /\ h[2] = m.sender_budget
  BY <1>1
<1> HIDE DEF qs, n, h
<1> DEFINE f == FlattenSeq(qs)
           b == h \o f
<1>5. f \in Seq(Nat) /\ Len(f) >= n
  BY <1>3, Flattened
<1>6. PICK to \in [0..Len(qs) -> Nat] : Lie(qs, to)
  BY <1>3, FlattenPlaces
<1>7. /\ to \in [0..n -> Nat] /\ to[0] = 0 /\ to[n] = Len(f)
      /\ \A k \in 1..n : to[k] = to[k - 1] + Len(qs[k]) /\ to[k] <= Len(f)
      /\ \A k \in 1..n : \A i \in 1..Len(qs[k]) : f[to[k - 1] + i] = qs[k][i]
  BY <1>3, <1>6 DEF Lie
<1> HIDE DEF f
<1>8. /\ b \in Seq(Nat) /\ Len(b) = Len(h) + Len(f) /\ Len(f) \in Nat
      /\ \A i \in 1..Len(h) : b[i] = h[i]
      /\ \A i \in 1..Len(f) : b[Len(h) + i] = f[i]
  BY <1>4, <1>5, JoinedDigits
<1> HIDE DEF b
<1>9. Manifest_write(m) = b
  BY DEF Manifest_write, b, f, h, n, qs, entry
<1>10. Len(b) >= 2 + n /\ Len(b) = 2 + Len(f) /\ b[1] = n /\ b[2] = m.sender_budget
  BY <1>1, <1>4, <1>5, <1>8
<1> DEFINE at == [k \in 0..n |-> to[k] + 2]
<1>11. at \in [0..n -> Nat] /\ \A k \in 0..n : at[k] = to[k] + 2
  <2>1. \A k \in 0..n : to[k] \in Nat
    BY <1>7
  <2> QED
    BY <2>1
<1> HIDE DEF at
<1>12. at[0] = 2 /\ at[n] = Len(b)
  <2>1. 0 \in 0..n /\ n \in 0..n
    BY <1>1
  <2> QED
    BY <1>7, <1>8, <1>10, <1>11, <2>1
<1>13. ASSUME NEW k \in 1..n
       PROVE  /\ at[k] = at[k - 1] + Len(name(k)) + 2 /\ at[k] <= Len(b)
              /\ Len(name(k)) < StrMod => b[at[k - 1] + 1] = Len(name(k))
              /\ \A i \in 1..Len(name(k)) : b[at[k - 1] + 1 + i] = name(k)[i]
              /\ b[at[k]] = size(k)
  <2> DEFINE l == Len(name(k))
             o == to[k - 1]
             q == entry(k)
  <2>1. k \in 0..n /\ k - 1 \in 0..n
    BY <1>1
  <2>2. /\ o \in Nat /\ at[k - 1] = o + 2 /\ at[k] = to[k] + 2 /\ to[k] = o + Len(q)
        /\ to[k] <= Len(f) /\ \A i \in 1..Len(q) : f[o + i] = q[i]
    <3>1. qs[k] = q
      BY <1>3
    <3>2. o \in Nat /\ at[k - 1] = o + 2 /\ at[k] = to[k] + 2
      BY <1>7, <1>11, <2>1
    <3>3. to[k] = o + Len(qs[k]) /\ to[k] <= Len(f) /\ \A i \in 1..Len(qs[k]) : f[o + i] = qs[k][i]
      BY <1>7
    <3> HIDE DEF o, q
    <3> QED
      BY <3>1, <3>2, <3>3
  <2>3. /\ Len(q) = l + 2 /\ l \in Nat /\ (l < StrMod => q[1] = l)
        /\ (\A i \in 1..l : q[1 + i] = name(k)[i]) /\ q[l + 2] = size(k)
    BY <1>2
  <2> HIDE DEF l, o, q, name, size
  <2>4. at[k] = at[k - 1] + l + 2 /\ at[k] <= Len(b)
    BY <1>8, <1>10, <2>2, <2>3
  <2>5. ASSUME NEW i \in 1..l + 2 PROVE b[o + 2 + i] = q[i]
    <3>1. o + i \in 1..Len(f) /\ i \in 1..Len(q) /\ Len(h) + (o + i) = o + 2 + i
      BY <1>4, <1>8, <2>2, <2>3
    <3>2. b[Len(h) + (o + i)] = f[o + i]
      BY <1>8, <3>1
    <3> QED
      BY <2>2, <3>1, <3>2
  <2>6. l < StrMod => b[at[k - 1] + 1] = l
    <3>1. 1 \in 1..l + 2 /\ at[k - 1] + 1 = o + 2 + 1
      BY <2>2, <2>3
    <3> QED
      BY <2>3, <2>5, <3>1
  <2>7. ASSUME NEW i \in 1..l PROVE b[at[k - 1] + 1 + i] = name(k)[i]
    <3>1. 1 + i \in 1..l + 2 /\ at[k - 1] + 1 + i = o + 2 + (1 + i)
      BY <2>2, <2>3
    <3>2. b[o + 2 + (1 + i)] = q[1 + i]
      BY <2>5, <3>1
    <3> QED
      BY <2>3, <3>1, <3>2
  <2>8. b[at[k]] = size(k)
    <3>1. l + 2 \in 1..l + 2 /\ at[k] = o + 2 + (l + 2)
      BY <2>2, <2>3
    <3>2. b[o + 2 + (l + 2)] = q[l + 2]
      BY <2>5, <3>1
    <3> QED
      BY <2>3, <3>1, <3>2
  <2> QED
    BY <2>4, <2>6, <2>7, <2>8 DEF l
<1>14. Holds(m, b, at)
  BY <1>10, <1>12, <1>13 DEF Holds, n, name, size
<1> QED
  BY <1>1, <1>8, <1>9, <1>10, <1>11, <1>14 DEF n

-----------------------------------------------------------------------------
(* Reading.                                                                 *)

\* Where fields end: an integer takes one digit, a string as many as its first says.
EndsAt(body, layout, end) ==
  /\ end[0] = 0
  /\ \A k \in 1..Len(layout) :
       /\ end[k] \in Nat /\ end[k - 1] \in Nat
       /\ layout[k] # "str" => end[k] = end[k - 1] + 1
       /\ layout[k] = "str" /\ end[k - 1] < Len(body) =>
            end[k] = end[k - 1] + 1 + body[end[k - 1] + 1]

\* It is a function of their number.
LEMMA FieldEndsAre ==
  ASSUME NEW S, NEW body \in Seq(Nat), NEW layout \in Seq(S)
  PROVE  EndsAt(body, layout, FieldEnds(body, layout))
<1> DEFINE n == Len(layout)
           Long(k, w) == IF layout[k] = "str" /\ w < Len(body) THEN body[w + 1] ELSE 0
           g == [k \in 1..n |-> [w \in Nat |-> w + 1 + Long(k, w)]]
           IsEnd(f) == f = [k \in 0..n |-> IF k = 0 THEN 0
                              ELSE f[k - 1] + 1 + (IF layout[k] = "str" /\ f[k - 1] < Len(body)
                                                     THEN body[f[k - 1] + 1] ELSE 0)]
           end == CHOOSE f : IsEnd(f)
<1>1. n \in Nat /\ Len(body) \in Nat /\ 0 \in Nat
  OBVIOUS
<1>2. \A k \in 1..n : \A w \in Nat : Long(k, w) \in Nat
  <2>1. \A w \in Nat : w < Len(body) => w + 1 \in 1..Len(body)
    BY <1>1
  <2>2. \A i \in 1..Len(body) : body[i] \in Nat
    OBVIOUS
  <2> QED
    BY <2>1, <2>2
<1>3. \A f : IsEnd(f) <=> f = [k \in 0..n |-> IF k = 0 THEN 0 ELSE f[k - 1] + 1 + Long(k, f[k - 1])]
  OBVIOUS
<1> HIDE DEF Long
<1>4. g \in [1..n -> [Nat -> Nat]] /\ \A k \in 1..n : \A w \in Nat : g[k][w] = w + 1 + Long(k, w)
  <2>1. ASSUME NEW k \in 1..n, NEW w \in Nat PROVE w + 1 + Long(k, w) \in Nat
    <3>1. Long(k, w) \in Nat
      BY <1>2
    <3> QED
      BY <3>1
  <2> QED
    BY <2>1
<1> HIDE DEF g, IsEnd, end
<1>5. PICK f \in [0..n -> Nat] : Follows(f, n, 0, g)
  BY <1>1, <1>4, Recursion
<1>6. f[0] = 0 /\ \A k \in 1..n : f[k] = f[k - 1] + 1 + Long(k, f[k - 1])
  <2>1. f[0] = 0 /\ \A k \in 1..n : f[k] = g[k][f[k - 1]]
    BY <1>5 DEF Follows
  <2>2. \A k \in 1..n : k - 1 \in 0..n
    BY <1>1
  <2>3. \A k \in 1..n : f[k - 1] \in Nat
    BY <1>5, <2>2
  <2> QED
    BY <1>4, <2>1, <2>3
<1>7. IsEnd(f)
  <2>1. \A k \in 0..n : k = 0 \/ k \in 1..n
    BY <1>1
  <2>2. \A k \in 0..n : f[k] = IF k = 0 THEN 0 ELSE f[k - 1] + 1 + Long(k, f[k - 1])
    BY <1>6, <2>1
  <2> QED
    BY <1>3, <2>2
<1>8. IsEnd(end) /\ FieldEnds(body, layout) = end
  BY <1>7 DEF end, FieldEnds, IsEnd
<1>9. end = [k \in 0..n |-> IF k = 0 THEN 0 ELSE end[k - 1] + 1 + Long(k, end[k - 1])]
  BY <1>3, <1>8
<1>10. end[0] = 0 /\ \A k \in 1..n : end[k] = end[k - 1] + 1 + Long(k, end[k - 1])
  <2>1. 0 \in 0..n /\ \A k \in 1..n : k \in 0..n /\ k # 0
    BY <1>1
  <2> QED
    BY <1>9, <2>1
<1>11. 0..n \subseteq {k \in 0..n : end[k] \in Nat}
  <2> DEFINE T == {k \in 0..n : end[k] \in Nat}
  <2>1. 0 \in T
    BY <1>1, <1>10
  <2>2. ASSUME NEW k \in 0..n - 1, k \in T PROVE k + 1 \in T
    <3>1. k + 1 \in 1..n /\ k + 1 \in 0..n /\ (k + 1) - 1 = k
      BY <1>1
    <3>2. end[k] \in Nat /\ Long(k + 1, end[k]) \in Nat
      BY <1>2, <2>2, <3>1
    <3>3. end[k + 1] = end[k] + 1 + Long(k + 1, end[k])
      BY <1>10, <3>1
    <3> QED
      BY <3>1, <3>2, <3>3
  <2> HIDE DEF T
  <2>3. 0..n \subseteq T
    BY <1>1, <2>1, <2>2, UpTo
  <2> QED
    BY <2>3 DEF T
<1>12. ASSUME NEW k \in 1..n
       PROVE  /\ end[k] \in Nat /\ end[k - 1] \in Nat
              /\ layout[k] # "str" => end[k] = end[k - 1] + 1
              /\ layout[k] = "str" /\ end[k - 1] < Len(body) =>
                   end[k] = end[k - 1] + 1 + body[end[k - 1] + 1]
  <2>1. k \in 0..n /\ k - 1 \in 0..n
    BY <1>1
  <2>2. end[k] \in Nat /\ end[k - 1] \in Nat
    BY <1>11, <2>1
  <2>3. end[k] = end[k - 1] + 1 + Long(k, end[k - 1])
    BY <1>10
  <2>4. layout[k] # "str" => Long(k, end[k - 1]) = 0
    BY DEF Long
  <2>5. /\ layout[k] = "str" /\ end[k - 1] < Len(body) =>
             Long(k, end[k - 1]) = body[end[k - 1] + 1]
    BY DEF Long
  <2> QED
    BY <2>2, <2>3, <2>4, <2>5
<1> QED
  BY <1>8, <1>10, <1>12 DEF EndsAt

\* A manifest that is read announces no more files than a reader accepts.
LEMMA ManifestRead ==
  ASSUME NEW body \in Seq(Nat), Manifest_read(body) # Refused
  PROVE  LET m == Manifest_read(body) IN
           /\ Len(body) >= 2 /\ body[1] \in 0..MaxEntries
           /\ Len(m.files) = body[1] /\ DOMAIN m.files = 1..body[1]
<1> DEFINE head == <<"int", "int">>
           entry == <<"str", "int">>
           end == FieldEnds(body, head)
           layout == head \o Repeat(body[1], entry)
           r == [sender_budget |-> body[2],
                 files |-> [i \in 1..body[1] |->
                              [name |-> get_str(body, layout, 2 * i + 1),
                               size |-> get_int(body, layout, 2 * i + 2)]]]
<1>1. Readable(body, head, 1, entry) /\ Manifest_read(body) = r
  BY DEF Manifest_read
<1>2. HasFields(body, head) /\ get_int(body, head, 1) <= MaxEntries
  BY <1>1 DEF Readable
<1>3. head \in Seq({"int"}) /\ Len(head) = 2 /\ head[1] # "str" /\ head[2] # "str"
  <2>1. Len(head) = 2 /\ head[1] = "int" /\ head[2] = "int" /\ "int" # "str"
    OBVIOUS
  <2>2. head \in Seq({"int"})
    OBVIOUS
  <2> QED
    BY <2>1, <2>2
<1> HIDE DEF head
<1>4. end[0] = 0 /\ end[1] = end[0] + 1 /\ end[2] = end[1] + 1
  <2>1. 1 \in 1..Len(head) /\ 2 \in 1..Len(head) /\ 1 - 1 = 0 /\ 2 - 1 = 1
    BY <1>3
  <2>2. EndsAt(body, head, end)
    BY <1>3, FieldEndsAre
  <2> HIDE DEF end
  <2> QED
    BY <1>3, <2>1, <2>2 DEF EndsAt
<1>5. Len(body) >= 2
  BY <1>2, <1>3, <1>4 DEF HasFields
<1>6. body[1] <= MaxEntries /\ body[1] \in Nat
  <2>1. get_int(body, head, 1) = body[1]
    BY <1>4 DEF get_int
  <2>2. 1 \in 1..Len(body)
    BY <1>5
  <2> QED
    BY <1>2, <2>1, <2>2
<1>7. r.files = [i \in 1..body[1] |-> [name |-> get_str(body, layout, 2 * i + 1),
                                     size |-> get_int(body, layout, 2 * i + 2)]]
  OBVIOUS
<1>8. DOMAIN r.files = 1..body[1]
  BY <1>7
<1>9. Len(r.files) = body[1]
  BY <1>6, <1>7
<1> QED
  BY <1>1, <1>5, <1>6, <1>8, <1>9, ProtoAssumption

-----------------------------------------------------------------------------
(* Reading what was written.                                                *)

\* The layout of a message that announces n entries of c fields.
LaidOut(layout, head, entry, c, n) ==
  /\ Len(layout) = Len(head) + c * n
  /\ \A i \in 1..Len(head) : layout[i] = head[i]
  /\ \A k \in 1..n : \A i \in 1..c : layout[Len(head) + c * (k - 1) + i] = entry[i]

\* The fields of the entries come after those of the head.
LEMMA LayoutIs ==
  ASSUME NEW S, NEW head \in Seq(S), NEW entry \in Seq(S), NEW c \in {1, 2}, Len(entry) = c,
         NEW n \in Nat
  PROVE  /\ head \o Repeat(n, entry) \in Seq(S)
         /\ LaidOut(head \o Repeat(n, entry), head, entry, c, n)
<1> DEFINE r == Repeat(n, entry)
           l == head \o r
<1>1. /\ r \in Seq(S) /\ Len(r) = c * n
      /\ \A k \in 1..n : \A i \in 1..c : r[c * (k - 1) + i] = entry[i]
  BY RepeatIs
<1> HIDE DEF r
<1>2. /\ l \in Seq(S) /\ Len(l) = Len(head) + Len(r) /\ Len(head) \in Nat
      /\ \A i \in 1..Len(head) : l[i] = head[i]
      /\ \A i \in 1..Len(r) : l[Len(head) + i] = r[i]
  <2>1. head \in Seq(S) /\ r \in Seq(S)
    BY <1>1
  <2>2. /\ head \o r \in Seq(S) /\ Len(head \o r) = Len(head) + Len(r) /\ Len(head) \in Nat
        /\ \A i \in 1..Len(head) : (head \o r)[i] = head[i]
        /\ \A i \in 1..Len(r) : (head \o r)[Len(head) + i] = r[i]
    <3> HIDE DEF l
    <3> QED
      BY ONLY <2>1, Joined
  <2> QED
    BY ONLY <2>2 DEF l
<1> HIDE DEF l
<1>3. ASSUME NEW k \in 1..n, NEW i \in 1..c
      PROVE  l[Len(head) + c * (k - 1) + i] = entry[i]
  <2> DEFINE j == c * (k - 1) + i
  <2>1. j \in 1..c * n
    <3>1. CASE c = 1
      BY <3>1
    <3>2. CASE c = 2
      BY <3>2
    <3> QED
      BY <3>1, <3>2
  <2>2. Len(head) + c * (k - 1) + i = Len(head) + j
    BY <1>2
  <2>3. r[j] = entry[i]
    BY <1>1
  <2> HIDE DEF j
  <2> QED
    BY <1>1, <1>2, <2>1, <2>2, <2>3
<1> QED
  BY <1>1, <1>2, <1>3 DEF l, r, LaidOut

\* The server reads the manifest that the client wrote, with every name and size where
\* it was, as long as no name is longer than its length can say and there are no more
\* files than a reader accepts (Manifest::write and read, src/src/proto.rs).
THEOREM ManifestReadsBack ==
  ASSUME NEW m \in ManifestType, Len(m.files) <= MaxEntries,
         \A k \in 1..Len(m.files) : Len(m.files[k].name) < StrMod
  PROVE  Manifest_read(Manifest_write(m)) = m
<1> DEFINE b == Manifest_write(m)
           n == Len(m.files)
           name(k) == m.files[k].name
           size(k) == m.files[k].size
           head == <<"int", "int">>
           entry == <<"str", "int">>
           S == {"int", "str"}
           layout == head \o Repeat(n, entry)
           end == FieldEnds(b, layout)
           start == FieldEnds(b, head)
<1>1. n \in Nat /\ m.sender_budget \in Nat /\ b \in Seq(Nat) /\ Len(b) \in Nat
  BY FilesTyped, ManifestWritten
<1>2. PICK at \in [0..n -> Nat] : Holds(m, b, at)
  BY ManifestWritten
<1>3. /\ b[1] = n /\ b[2] = m.sender_budget /\ at[0] = 2 /\ at[n] = Len(b)
      /\ \A k \in 1..n :
           /\ at[k] = at[k - 1] + Len(name(k)) + 2 /\ at[k] <= Len(b)
           /\ b[at[k - 1] + 1] = Len(name(k))
           /\ \A i \in 1..Len(name(k)) : b[at[k - 1] + 1 + i] = name(k)[i]
           /\ b[at[k]] = size(k)
  BY <1>2 DEF Holds
<1>4. ASSUME NEW k \in 1..n
      PROVE  /\ name(k) \in Seq(Nat) /\ Len(name(k)) \in Nat
             /\ m.files[k] = [name |-> name(k), size |-> size(k)]
  <2>1. name(k) \in Seq(Nat) /\ m.files[k] = [name |-> name(k), size |-> size(k)]
    BY FilesTyped
  <2> HIDE DEF name, size
  <2> QED
    BY <2>1
<1> HIDE DEF b, n
<1>5. /\ head \in Seq(S) /\ Len(head) = 2 /\ head[1] = "int" /\ head[2] = "int"
      /\ entry \in Seq(S) /\ Len(entry) = 2 /\ entry[1] = "str" /\ entry[2] = "int"
  OBVIOUS
<1> HIDE DEF head, entry, name, size
<1>6. /\ layout \in Seq(S) /\ Len(layout) = 2 + 2 * n
      /\ layout[1] = "int" /\ layout[2] = "int"
      /\ \A k \in 1..n : layout[2 * k + 1] = "str" /\ layout[2 * k + 2] = "int"
  <2>1. 2 \in {1, 2}
    OBVIOUS
  <2>2. /\ layout \in Seq(S) /\ Len(layout) = Len(head) + 2 * n
        /\ \A i \in 1..Len(head) : layout[i] = head[i]
        /\ \A k \in 1..n : \A i \in 1..2 : layout[Len(head) + 2 * (k - 1) + i] = entry[i]
    <3> HIDE DEF S
    <3>1. layout \in Seq(S) /\ LaidOut(layout, head, entry, 2, n)
      BY <1>1, <1>5, <2>1, LayoutIs
    <3> HIDE DEF layout
    <3> QED
      BY <3>1 DEF LaidOut
  <2> HIDE DEF layout, S
  <2>3. ASSUME NEW k \in 1..n PROVE layout[2 * k + 1] = "str" /\ layout[2 * k + 2] = "int"
    <3>1. 2 + 2 * (k - 1) + 1 = 2 * k + 1 /\ 2 + 2 * (k - 1) + 2 = 2 * k + 2 /\ 1 \in 1..2 /\ 2 \in 1..2
      OBVIOUS
    <3>2. layout[Len(head) + 2 * (k - 1) + 1] = entry[1] /\ layout[Len(head) + 2 * (k - 1) + 2] = entry[2]
      BY <2>2, <3>1
    <3> QED
      BY <1>5, <3>1, <3>2
  <2>4. 1 \in 1..Len(head) /\ 2 \in 1..Len(head)
    BY <1>5
  <2> QED
    BY <1>5, <2>2, <2>3, <2>4
<1>7. EndsAt(b, layout, end) /\ EndsAt(b, head, start)
  <2> HIDE DEF S, layout
  <2> QED
    BY <1>1, <1>5, <1>6, FieldEndsAre
<1> HIDE DEF layout, end, start, S
<1>8. start[1] = 1 /\ start[2] = 2
  <2>1. 1 \in 1..Len(head) /\ 2 \in 1..Len(head) /\ 1 - 1 = 0 /\ 2 - 1 = 1
    BY <1>5
  <2> QED
    BY <1>5, <1>7, <2>1 DEF EndsAt
<1>9. end[2] = 2
  <2>1. 1 \in 1..Len(layout) /\ 2 \in 1..Len(layout) /\ 1 - 1 = 0 /\ 2 - 1 = 1
    BY <1>1, <1>6
  <2> QED
    BY <1>6, <1>7, <2>1 DEF EndsAt
<1>10. ASSUME NEW k \in 1..n
       PROVE  /\ at[k - 1] \in Nat /\ at[k] \in Nat /\ at[k - 1] < Len(b)
              /\ at[k] = at[k - 1] + 1 + Len(name(k)) + 1
              /\ at[k - 1] + 1 \in Nat /\ at[k - 1] + 1 + Len(name(k)) <= Len(b)
  <2> DEFINE x == at[k - 1]
             y == at[k]
             l == Len(name(k))
  <2>1. k - 1 \in 0..n /\ k \in 0..n
    BY <1>1
  <2>2. x \in Nat /\ y \in Nat
    BY <2>1
  <2>3. y = x + l + 2 /\ y <= Len(b) /\ l \in Nat
    BY <1>3, <1>4
  <2> HIDE DEF x, y, l
  <2>4. x < Len(b) /\ y = x + 1 + l + 1 /\ x + 1 \in Nat /\ x + 1 + l <= Len(b)
    BY <1>1, <2>2, <2>3
  <2> QED
    BY <2>2, <2>4 DEF x, y, l
<1>11. ASSUME NEW k \in 1..n, end[2 * k] = at[k - 1]
       PROVE  end[2 * k + 1] = at[k - 1] + 1 + Len(name(k)) /\ end[2 * k + 2] = at[k]
  <2> DEFINE i == 2 * k + 1
             j == 2 * k + 2
             x == at[k - 1]
  <2>1. i \in 1..Len(layout) /\ j \in 1..Len(layout) /\ i - 1 = 2 * k /\ j - 1 = i
    BY <1>1, <1>6
  <2>2. layout[i] = "str" /\ layout[j] = "int"
    BY <1>6
  <2> HIDE DEF i, j, x
  <2>3. x < Len(b) /\ b[x + 1] = Len(name(k)) /\ end[i - 1] = x
    BY <1>3, <1>10, <1>11, <2>1 DEF x
  <2>4. end[i] = end[i - 1] + 1 + b[end[i - 1] + 1]
    BY <1>7, <2>1, <2>2, <2>3 DEF EndsAt
  <2>5. end[j] = end[i] + 1
    BY <1>7, <2>1, <2>2 DEF EndsAt
  <2>6. end[i] = x + 1 + Len(name(k))
    BY <2>3, <2>4
  <2>7. end[j] = x + 1 + Len(name(k)) + 1
    BY <2>5, <2>6
  <2>8. at[k] = x + 1 + Len(name(k)) + 1
    BY <1>10 DEF x
  <2> QED
    BY <2>6, <2>7, <2>8 DEF i, j, x
<1> DEFINE T == {k \in 0..n : end[2 + 2 * k] = at[k]}
<1>12. 0 \in T
  BY <1>1, <1>3, <1>9
<1>13. ASSUME NEW k \in 0..n - 1, k \in T PROVE k + 1 \in T
  <2> DEFINE j == k + 1
  <2>1. j \in 1..n /\ j \in 0..n /\ j - 1 = k /\ 2 + 2 * k = 2 * j /\ 2 + 2 * j = 2 * j + 2
    BY <1>1
  <2>2. end[2 + 2 * k] = at[k]
    BY <1>13
  <2> HIDE DEF j
  <2>3. end[2 * j] = at[j - 1]
    BY <2>1, <2>2
  <2>4. end[2 * j + 2] = at[j]
    BY <1>11, <2>1, <2>3
  <2>5. j \in T
    BY <2>1, <2>4
  <2> QED
    BY <2>5 DEF j
<1> HIDE DEF T
<1>14. 0..n \subseteq T
  BY <1>1, <1>12, <1>13, UpTo
<1>15. \A k \in 0..n : end[2 + 2 * k] = at[k]
  BY <1>14 DEF T
<1>16. ASSUME NEW k \in 1..n
       PROVE  get_str(b, layout, 2 * k + 1) = name(k) /\ get_int(b, layout, 2 * k + 2) = size(k)
  <2> DEFINE o == at[k - 1] + 1
             l == Len(name(k))
  <2>1. k - 1 \in 0..n /\ 2 + 2 * (k - 1) = 2 * k /\ 2 * k + 1 - 1 = 2 * k
    BY <1>1
  <2>2. end[2 * k] = at[k - 1] /\ at[k - 1] \in Nat
    BY <1>15, <2>1
  <2>3. end[2 * k + 1] = at[k - 1] + 1 + l /\ end[2 * k + 2] = at[k]
    BY <1>11, <2>2
  <2>4. get_str(b, layout, 2 * k + 1) = SubSeq(b, end[2 * k] + 2, end[2 * k + 1])
    <3> DEFINE j == 2 * k + 1
    <3>1. j - 1 = 2 * k
      BY <2>1
    <3> HIDE DEF j
    <3>2. get_str(b, layout, j) = SubSeq(b, end[2 * k] + 2, end[j])
      BY <3>1 DEF get_str, end
    <3> QED
      BY <3>2 DEF j
  <2>5. o \in Nat /\ end[2 * k] + 2 = o + 1 /\ end[2 * k + 1] = o + l /\ o + l <= Len(b)
    <3>1. at[k - 1] + 2 = o + 1
      BY <2>2
    <3> QED
      BY <1>10, <2>2, <2>3, <3>1
  <2>6. \A i \in 1..l : b[o + i] = name(k)[i]
    BY <1>3
  <2>7. SubSeq(b, o + 1, o + l) = name(k)
    <3> HIDE DEF o
    <3> QED
      BY <1>1, <1>4, <2>5, <2>6, PartIs
  <2>8. get_int(b, layout, 2 * k + 2) = b[at[k]]
    BY <2>3 DEF get_int, end
  <2> HIDE DEF o, l
  <2> QED
    BY <1>3, <2>4, <2>5, <2>7, <2>8
<1>17. Readable(b, head, 1, entry)
  <2>1. 2 <= Len(b)
    <3>1. at[n] >= 2
      <4> DEFINE U == {k \in 0..n : at[k] >= 2}
      <4>1. 0 \in U
        BY <1>1, <1>3
      <4>2. ASSUME NEW k \in 0..n - 1, k \in U PROVE k + 1 \in U
        <5>1. k + 1 \in 1..n /\ (k + 1) - 1 = k /\ k \in 0..n
          BY <1>1
        <5>2. at[k + 1] = at[k] + Len(name(k + 1)) + 2 /\ Len(name(k + 1)) \in Nat /\ at[k] \in Nat
          BY <1>3, <1>4, <5>1
        <5> QED
          BY <4>2, <5>1, <5>2
      <4> HIDE DEF U
      <4>3. 0..n \subseteq U
        BY <1>1, <4>1, <4>2, UpTo
      <4>4. n \in U
        BY <1>1, <4>3
      <4> QED
        BY <4>4 DEF U
    <3> QED
      BY <1>3, <3>1
  <2>2. HasFields(b, head)
    BY <1>5, <1>8, <2>1 DEF HasFields, start
  <2>3. get_int(b, head, 1) = n
    BY <1>3, <1>8 DEF get_int, start
  <2>4. HasFields(b, layout)
    <3>1. end[Len(layout)] = Len(b)
      BY <1>1, <1>3, <1>6, <1>15
    <3> QED
      BY <1>1, <3>1 DEF HasFields, end
  <2>5. n <= MaxEntries
    BY DEF n
  <2> QED
    BY <2>2, <2>3, <2>4, <2>5 DEF Readable, layout
<1>18. m.files = [k \in 1..n |-> [name |-> name(k), size |-> size(k)]]
  <2> DEFINE E == [name : Seq(Nat), size : Nat]
             fs == m.files
  <2>1. fs \in Seq(E) /\ n = Len(fs)
    BY DEF ManifestType, n
  <2>2. \A k \in 1..n : fs[k] = [name |-> name(k), size |-> size(k)]
    BY <1>4
  <2> HIDE DEF E, fs, n
  <2>3. fs = [k \in 1..n |-> fs[k]]
    BY <2>1
  <2>4. fs = [k \in 1..n |-> [name |-> name(k), size |-> size(k)]]
    BY <2>2, <2>3
  <2> QED
    BY <2>4 DEF fs
<1>19. m = [sender_budget |-> m.sender_budget, files |-> m.files]
  BY DEF ManifestType
<1> DEFINE read == [k \in 1..n |-> [name |-> get_str(b, layout, 2 * k + 1),
                                    size |-> get_int(b, layout, 2 * k + 2)]]
<1>20. read = m.files
  BY <1>16, <1>18
<1>21. Manifest_read(b) = [sender_budget |-> b[2], files |-> read]
  BY <1>3, <1>17 DEF Manifest_read, layout, head, entry
<1> HIDE DEF read
<1>22. Manifest_read(b) = m
  BY <1>3, <1>19, <1>20, <1>21
<1> QED
  BY <1>22 DEF b

\* m fields that follow the j-th take one digit each.
OneDigit(end, j, m) == \A i \in 0..m : end[j + i] = end[j] + i

\* A run of integers does.
LEMMA IntsFollow ==
  ASSUME NEW body, NEW layout, Len(layout) \in Nat, NEW end, EndsAt(body, layout, end),
         NEW j \in 0..Len(layout), end[j] \in Nat,
         \A k \in j + 1..Len(layout) : layout[k] # "str"
  PROVE  OneDigit(end, j, Len(layout) - j)
<1> DEFINE n == Len(layout) - j
           T == {i \in 0..n : end[j + i] = end[j] + i}
<1>1. n \in Nat
  OBVIOUS
<1>2. 0 \in T
  <2>1. j + 0 = j /\ end[j] + 0 = end[j]
    OBVIOUS
  <2> QED
    BY <1>1, <2>1
<1>3. ASSUME NEW i \in 0..n - 1, i \in T PROVE i + 1 \in T
  <2> DEFINE k == j + i + 1
  <2>1. k \in 1..Len(layout) /\ k \in j + 1..Len(layout) /\ k - 1 = j + i /\ j + (i + 1) = k
    OBVIOUS
  <2> HIDE DEF k
  <2>2. end[k] = end[k - 1] + 1
    BY <2>1 DEF EndsAt
  <2>3. end[k - 1] = end[j] + i
    BY <1>3, <2>1
  <2>4. end[k] = end[j] + (i + 1)
    <3> DEFINE x == end[j]
    <3>1. x \in Nat /\ i \in Nat /\ end[k] = (x + i) + 1
      BY <2>2, <2>3
    <3> HIDE DEF x
    <3>2. end[k] = x + (i + 1)
      BY <3>1
    <3> QED
      BY <3>2 DEF x
  <2>5. i + 1 \in 0..n
    OBVIOUS
  <2> HIDE DEF n
  <2> QED
    BY <2>1, <2>4, <2>5
<1> HIDE DEF T, n
<1>4. 0..n \subseteq T
  BY <1>1, <1>2, <1>3, UpTo
<1> QED
  BY <1>4 DEF T, n, OneDigit

TrailerType == [crcs : Seq(Nat)]

\* The receiver reads the CRCs that the sender wrote (Trailer, src/src/proto.rs).
THEOREM TrailerReadsBack ==
  ASSUME NEW t \in TrailerType, Len(t.crcs) <= MaxEntries
  PROVE  Trailer_read(Trailer_write(t)) = t
<1> DEFINE crcs == t.crcs
           n == Len(crcs)
           h == <<n>>
           b == h \o crcs
           head == <<"int">>
           S == {"int", "str"}
           layout == head \o Repeat(n, head)
           end == FieldEnds(b, layout)
           start == FieldEnds(b, head)
<1>1. crcs \in Seq(Nat) /\ n \in Nat /\ t = [crcs |-> crcs] /\ n <= MaxEntries
  BY DEF TrailerType
<1>2. Trailer_write(t) = b
  BY DEF Trailer_write
<1> HIDE DEF crcs
<1>3. h \in Seq(Nat) /\ Len(h) = 1 /\ h[1] = n
  BY <1>1
<1> HIDE DEF h, n
<1>4. /\ b \in Seq(Nat) /\ Len(b) = 1 + n /\ b[1] = n
      /\ \A i \in 1..n : b[1 + i] = crcs[i]
  <2>1. /\ b \in Seq(Nat) /\ Len(b) = Len(h) + Len(crcs)
        /\ \A i \in 1..Len(h) : b[i] = h[i]
        /\ \A i \in 1..Len(crcs) : b[Len(h) + i] = crcs[i]
    BY <1>1, <1>3, JoinedDigits
  <2> HIDE DEF b
  <2> QED
    BY <1>1, <1>3, <2>1 DEF n
<1> HIDE DEF b
<1>5. head \in Seq(S) /\ Len(head) = 1 /\ head[1] = "int"
  OBVIOUS
<1> HIDE DEF head
<1>6. /\ layout \in Seq(S) /\ Len(layout) = 1 + n
      /\ \A k \in 1..Len(layout) : layout[k] # "str"
  <2>1. layout \in Seq(S) /\ LaidOut(layout, head, head, 1, n)
    <3> HIDE DEF S
    <3>1. 1 \in {1, 2}
      OBVIOUS
    <3> QED
      BY <1>1, <1>5, <3>1, LayoutIs
  <2> HIDE DEF layout, S
  <2>2. Len(layout) = 1 + n
    BY <1>1, <1>5, <2>1 DEF LaidOut
  <2>3. ASSUME NEW k \in 1..Len(layout) PROVE layout[k] = "int"
    <3>1. CASE k = 1
      BY <1>5, <2>1, <3>1 DEF LaidOut
    <3>2. CASE k # 1
      <4> DEFINE j == k - 1
      <4>1. j \in 1..n /\ 1 \in 1..1 /\ 1 + 1 * (j - 1) + 1 = k
        BY <1>1, <2>2, <3>2
      <4> HIDE DEF j
      <4>2. layout[Len(head) + 1 * (j - 1) + 1] = head[1]
        BY <2>1, <4>1 DEF LaidOut
      <4> QED
        BY <1>5, <4>1, <4>2
    <3> QED
      BY <3>1, <3>2
  <2>4. "int" # "str"
    OBVIOUS
  <2> QED
    BY <2>1, <2>2, <2>3, <2>4
<1>7. EndsAt(b, layout, end) /\ EndsAt(b, head, start)
  <2> HIDE DEF S, layout
  <2> QED
    BY <1>4, <1>5, <1>6, FieldEndsAre
<1> HIDE DEF layout, end, start, S
<1>8. start[1] = 1
  <2>1. 1 \in 1..Len(head) /\ 1 - 1 = 0 /\ "int" # "str"
    BY <1>5
  <2> QED
    BY <1>5, <1>7, <2>1 DEF EndsAt
<1>9. end[Len(layout)] = Len(layout)
  <2> DEFINE z == 0
             l == Len(layout)
  <2>1. z \in 0..l /\ l \in Nat /\ end[z] \in Nat /\ z + l = l /\ l \in 0..l - z /\ end[z] + l = l
    BY <1>1, <1>6, <1>7 DEF EndsAt
  <2>2. \A k \in z + 1..l : layout[k] # "str"
    BY <1>6
  <2> HIDE DEF z
  <2>3. OneDigit(end, z, l - z)
    BY <1>7, <2>1, <2>2, IntsFollow
  <2>4. end[z + l] = end[z] + l
    BY <2>1, <2>3 DEF OneDigit
  <2> QED
    BY <2>1, <2>4
<1>10. Readable(b, head, 1, head)
  <2>1. HasFields(b, head)
    BY <1>1, <1>4, <1>5, <1>8 DEF HasFields, start
  <2>2. get_int(b, head, 1) = n
    BY <1>4, <1>8 DEF get_int, start
  <2>3. HasFields(b, layout)
    BY <1>1, <1>4, <1>6, <1>9 DEF HasFields, end
  <2> QED
    BY <1>1, <2>1, <2>2, <2>3 DEF Readable, layout
<1>11. SubSeq(b, 2, n + 1) = crcs
  <2>1. 1 \in Nat /\ 1 + Len(crcs) <= Len(b) /\ 1 + 1 = 2 /\ 1 + Len(crcs) = n + 1
    BY <1>1, <1>4 DEF n
  <2>2. \A i \in 1..Len(crcs) : b[1 + i] = crcs[i]
    BY <1>4 DEF n
  <2>3. SubSeq(b, 1 + 1, 1 + Len(crcs)) = crcs
    BY <1>1, <1>4, <2>1, <2>2, PartIs
  <2> QED
    BY <2>1, <2>3
<1>12. Trailer_read(b) = [crcs |-> SubSeq(b, 2, b[1] + 1)]
  BY <1>10 DEF Trailer_read, head
<1>13. Trailer_read(b) = t
  BY <1>1, <1>4, <1>11, <1>12
<1> QED
  BY <1>2, <1>13

ReplyType == [slab_size : Nat, nslabs : Nat, pool_addr : Nat, pool_rkey : Nat,
              inbox : Seq(Nat), have : Seq(Nat)]

\* What a reply is written as.
LEMMA ReplyWritten ==
  ASSUME NEW r \in ReplyType
  PROVE  LET b == Reply_write(r)
             l == Len(r.inbox)
             n == Len(r.have)
         IN /\ b \in Seq(Nat) /\ Len(b) = 6 + l + n /\ l \in Nat /\ n \in Nat
            /\ b[1] = r.slab_size /\ b[2] = r.nslabs /\ b[3] = r.pool_addr /\ b[4] = r.pool_rkey
            /\ l < StrMod => b[5] = l
            /\ \A i \in 1..l : b[5 + i] = r.inbox[i]
            /\ b[6 + l] = n
            /\ \A i \in 1..n : b[6 + l + i] = r.have[i]
<1> DEFINE inbox == r.inbox
           have == r.have
           l == Len(inbox)
           n == Len(have)
           h == <<r.slab_size, r.nslabs, r.pool_addr, r.pool_rkey>>
           box == put_str(inbox)
           one == <<n>>
           hb == h \o box
           hbo == hb \o one
           b == hbo \o have
<1>1. /\ inbox \in Seq(Nat) /\ have \in Seq(Nat) /\ r.slab_size \in Nat /\ r.nslabs \in Nat
      /\ r.pool_addr \in Nat /\ r.pool_rkey \in Nat
  BY DEF ReplyType
<1>2. Reply_write(r) = b
  BY DEF Reply_write
<1> HIDE DEF inbox, have
<1>3. n \in Nat /\ l \in Nat
  BY <1>1
<1>4. /\ h \in Seq(Nat) /\ Len(h) = 4 /\ h[1] = r.slab_size /\ h[2] = r.nslabs
      /\ h[3] = r.pool_addr /\ h[4] = r.pool_rkey
  BY <1>1
<1>5. /\ box \in Seq(Nat) /\ Len(box) = 1 + l /\ (l < StrMod => box[1] = l)
      /\ \A i \in 1..l : box[1 + i] = inbox[i]
  BY <1>1, StringWritten
<1>6. one \in Seq(Nat) /\ Len(one) = 1 /\ one[1] = n
  BY <1>3
<1> HIDE DEF h, box, one, l
<1>7. /\ hb \in Seq(Nat) /\ Len(hb) = Len(h) + Len(box)
      /\ \A i \in 1..Len(h) : hb[i] = h[i]
      /\ \A i \in 1..Len(box) : hb[Len(h) + i] = box[i]
  BY <1>4, <1>5, JoinedDigits
<1> HIDE DEF hb
<1>8. /\ hbo \in Seq(Nat) /\ Len(hbo) = Len(hb) + Len(one)
      /\ \A i \in 1..Len(hb) : hbo[i] = hb[i]
      /\ \A i \in 1..Len(one) : hbo[Len(hb) + i] = one[i]
  BY <1>6, <1>7, JoinedDigits
<1> HIDE DEF hbo
<1>9. /\ b \in Seq(Nat) /\ Len(b) = Len(hbo) + Len(have)
      /\ \A i \in 1..Len(hbo) : b[i] = hbo[i]
      /\ \A i \in 1..Len(have) : b[Len(hbo) + i] = have[i]
  BY <1>1, <1>8, JoinedDigits
<1> HIDE DEF b
<1>10. Len(hb) = 5 + l /\ Len(hbo) = 6 + l /\ Len(b) = 6 + l + n
  BY <1>3, <1>4, <1>5, <1>6, <1>7, <1>8, <1>9
<1>11. \A i \in 1..5 + l : b[i] = hb[i]
  <2>1. \A i \in 1..5 + l : i \in 1..Len(hb) /\ i \in 1..Len(hbo)
    BY <1>3, <1>10
  <2> QED
    BY <1>8, <1>9, <2>1
<1>12. \A i \in 1..4 : i \in 1..5 + l /\ i \in 1..Len(h)
  BY <1>3, <1>4
<1>13. \A i \in 1..4 : b[i] = h[i]
  BY <1>7, <1>11, <1>12
<1>14. b[1] = r.slab_size /\ b[2] = r.nslabs /\ b[3] = r.pool_addr /\ b[4] = r.pool_rkey
  BY <1>4, <1>13
<1>15. ASSUME NEW i \in 1..1 + l PROVE b[4 + i] = box[i]
  <2>1. 4 + i \in 1..5 + l /\ i \in 1..Len(box)
    BY <1>3, <1>5
  <2> QED
    BY <1>4, <1>7, <1>11, <2>1
<1>16. l < StrMod => b[5] = l
  <2>1. 1 \in 1..1 + l /\ 4 + 1 = 5
    BY <1>3
  <2> QED
    BY <1>5, <1>15, <2>1
<1>17. ASSUME NEW i \in 1..l PROVE b[5 + i] = inbox[i]
  <2> DEFINE j == 1 + i
  <2>1. j \in 1..1 + l /\ 4 + j = 5 + i
    BY <1>3
  <2>2. box[j] = inbox[i]
    BY <1>5
  <2> HIDE DEF j
  <2> QED
    BY <1>15, <2>1, <2>2
<1>18. b[6 + l] = n
  <2>1. 1 \in 1..Len(one) /\ 5 + l + 1 = 6 + l /\ 6 + l \in 1..Len(hbo)
    BY <1>3, <1>6, <1>10
  <2>2. hbo[Len(hb) + 1] = one[1]
    BY <1>8, <2>1
  <2> QED
    BY <1>6, <1>9, <1>10, <2>1, <2>2
<1>19. \A i \in 1..n : b[6 + l + i] = have[i]
  BY <1>9, <1>10
<1> QED
  BY <1>2, <1>3, <1>9, <1>10, <1>14, <1>16, <1>17, <1>18, <1>19 DEF l, n, inbox, have

\* What a layout begins with, and where the fields of that beginning end.
ReplyHead == <<"int", "int", "int", "int", "str", "int">>
BeginsAs(lay, head) ==
  /\ Len(lay) \in Nat /\ Len(lay) >= 6
  /\ lay[1] = head[1] /\ lay[2] = head[2] /\ lay[3] = head[3]
  /\ lay[4] = head[4] /\ lay[5] = head[5] /\ lay[6] = head[6]

\* Four numbers, a string and a number: the places where each of them ends.
LEMMA HeadEnds ==
  ASSUME NEW b \in Seq(Nat), NEW l \in Nat, NEW lay, NEW at, Len(b) >= 6 + l, b[5] = l,
         EndsAt(b, lay, at), BeginsAs(lay, ReplyHead)
  PROVE  at[4] = 4 /\ at[5] = 5 + l /\ at[6] = 6 + l
<1> DEFINE n == Len(lay)
<1>1. n \in Nat /\ n >= 6 /\ Len(b) \in Nat
  BY DEF BeginsAs
<1>2. /\ lay[1] = "int" /\ lay[2] = "int" /\ lay[3] = "int" /\ lay[4] = "int"
      /\ lay[5] = "str" /\ lay[6] = "int"
  BY DEF BeginsAs, ReplyHead
<1>3. "int" # "str"
  OBVIOUS
<1> HIDE DEF n
<1>4. /\ 1 \in 1..n /\ 2 \in 1..n /\ 3 \in 1..n /\ 4 \in 1..n /\ 5 \in 1..n /\ 6 \in 1..n
      /\ 1 - 1 = 0 /\ 2 - 1 = 1 /\ 3 - 1 = 2 /\ 4 - 1 = 3 /\ 5 - 1 = 4 /\ 6 - 1 = 5
  BY <1>1
<1>5. at[0] = 0
  BY DEF EndsAt
<1>6. at[1] = at[0] + 1
  BY <1>2, <1>3, <1>4 DEF EndsAt, n
<1>7. at[2] = at[1] + 1
  BY <1>2, <1>3, <1>4 DEF EndsAt, n
<1>8. at[3] = at[2] + 1
  BY <1>2, <1>3, <1>4 DEF EndsAt, n
<1>9. at[4] = at[3] + 1
  BY <1>2, <1>3, <1>4 DEF EndsAt, n
<1>10. at[4] = 4
  BY <1>5, <1>6, <1>7, <1>8, <1>9
<1>11. at[4] < Len(b) /\ b[at[4] + 1] = l
  <2>1. 4 < Len(b) /\ 4 + 1 = 5
    BY <1>1
  <2> QED
    BY <1>10, <2>1
<1>12. at[5] = at[4] + 1 + b[at[4] + 1]
  BY <1>2, <1>4, <1>11 DEF EndsAt, n
<1>13. at[5] = 5 + l
  BY <1>10, <1>11, <1>12
<1>14. at[6] = at[5] + 1
  BY <1>2, <1>3, <1>4 DEF EndsAt, n
<1>15. at[6] = 6 + l
  BY <1>13, <1>14
<1> QED
  BY <1>10, <1>13, <1>15

\* The client reads the reply that the server wrote: where the pool is, how large, and
\* what of each file is there already (Reply, src/src/proto.rs).
THEOREM ReplyReadsBack ==
  ASSUME NEW r \in ReplyType, Len(r.inbox) < StrMod, Len(r.have) <= MaxEntries
  PROVE  Reply_read(Reply_write(r)) = r
<1> DEFINE b == Reply_write(r)
           l == Len(r.inbox)
           n == Len(r.have)
           head == <<"int", "int", "int", "int", "str", "int">>
           entry == <<"int">>
           S == {"int", "str"}
           layout == head \o Repeat(n, entry)
           end == FieldEnds(b, layout)
           start == FieldEnds(b, head)
<1>1. /\ b \in Seq(Nat) /\ Len(b) = 6 + l + n /\ l \in Nat /\ n \in Nat
      /\ b[1] = r.slab_size /\ b[2] = r.nslabs /\ b[3] = r.pool_addr /\ b[4] = r.pool_rkey
      /\ b[5] = l /\ b[6 + l] = n
      /\ \A i \in 1..l : b[5 + i] = r.inbox[i]
      /\ \A i \in 1..n : b[6 + l + i] = r.have[i]
  BY ReplyWritten
<1>2. /\ r.inbox \in Seq(Nat) /\ r.have \in Seq(Nat) /\ n <= MaxEntries
      /\ r = [slab_size |-> r.slab_size, nslabs |-> r.nslabs, pool_addr |-> r.pool_addr,
              pool_rkey |-> r.pool_rkey, inbox |-> r.inbox, have |-> r.have]
  BY DEF ReplyType
<1> HIDE DEF b
<1>3. /\ head \in Seq(S) /\ Len(head) = 6 /\ head[1] = "int" /\ head[2] = "int" /\ head[3] = "int"
      /\ head[4] = "int" /\ head[5] = "str" /\ head[6] = "int"
      /\ entry \in Seq(S) /\ Len(entry) = 1 /\ entry[1] = "int"
  OBVIOUS
<1> HIDE DEF head, entry, l, n
<1>4. /\ layout \in Seq(S) /\ Len(layout) = 6 + n
      /\ \A i \in 1..6 : layout[i] = head[i]
      /\ \A k \in 7..Len(layout) : layout[k] # "str"
  <2>1. layout \in Seq(S) /\ LaidOut(layout, head, entry, 1, n)
    <3> HIDE DEF S
    <3>1. 1 \in {1, 2}
      OBVIOUS
    <3> QED
      BY <1>1, <1>3, <3>1, LayoutIs
  <2> HIDE DEF layout, S
  <2>2. Len(layout) = 6 + n /\ \A i \in 1..6 : layout[i] = head[i]
    BY <1>1, <1>3, <2>1 DEF LaidOut
  <2>3. ASSUME NEW k \in 7..Len(layout) PROVE layout[k] = "int"
    <3> DEFINE j == k - 6
    <3>1. j \in 1..n /\ 1 \in 1..1 /\ 6 + 1 * (j - 1) + 1 = k
      BY <1>1, <2>2
    <3> HIDE DEF j
    <3>2. layout[Len(head) + 1 * (j - 1) + 1] = entry[1]
      BY <2>1, <3>1 DEF LaidOut
    <3> QED
      BY <1>3, <3>1, <3>2
  <2>4. "int" # "str"
    OBVIOUS
  <2> QED
    BY <2>1, <2>2, <2>3, <2>4
<1>5. EndsAt(b, layout, end) /\ EndsAt(b, head, start)
  <2> HIDE DEF S, layout
  <2> QED
    BY <1>1, <1>3, <1>4, FieldEndsAre
<1> HIDE DEF layout, end, start, S
<1>6. BeginsAs(head, ReplyHead) /\ BeginsAs(layout, ReplyHead) /\ Len(b) >= 6 + l
  <2>1. head = ReplyHead
    BY DEF head, ReplyHead
  <2>2. BeginsAs(head, ReplyHead)
    BY <1>3, <2>1 DEF BeginsAs
  <2>3. Len(layout) \in Nat /\ Len(layout) >= 6 /\ Len(b) >= 6 + l
    BY <1>1, <1>4
  <2>4. /\ layout[1] = head[1] /\ layout[2] = head[2] /\ layout[3] = head[3]
        /\ layout[4] = head[4] /\ layout[5] = head[5] /\ layout[6] = head[6]
    BY <1>4
  <2> QED
    BY <2>1, <2>2, <2>3, <2>4 DEF BeginsAs
<1>7. start[4] = 4 /\ start[5] = 5 + l /\ start[6] = 6 + l
  <2>1. b \in Seq(Nat) /\ l \in Nat /\ Len(b) >= 6 + l /\ b[5] = l
    BY <1>1, <1>6
  <2>2. EndsAt(b, head, start) /\ BeginsAs(head, ReplyHead)
    BY <1>5, <1>6
  <2> QED
    BY <2>1, <2>2, HeadEnds
<1>8. end[6] = 6 + l
  <2>1. b \in Seq(Nat) /\ l \in Nat /\ Len(b) >= 6 + l /\ b[5] = l
    BY <1>1, <1>6
  <2>2. EndsAt(b, layout, end) /\ BeginsAs(layout, ReplyHead)
    BY <1>5, <1>6
  <2> QED
    BY <2>1, <2>2, HeadEnds
<1>9. end[Len(layout)] = Len(b)
  <2> DEFINE z == 6
             m == Len(layout)
  <2>1. z \in 0..m /\ m \in Nat /\ end[z] \in Nat /\ z + n = m /\ m - z = n /\ n \in 0..n /\ end[z] = 6 + l
    BY <1>1, <1>4, <1>8
  <2>2. \A k \in z + 1..m : layout[k] # "str"
    BY <1>4
  <2> HIDE DEF z
  <2>3. OneDigit(end, z, m - z)
    BY <1>5, <2>1, <2>2, IntsFollow
  <2>4. end[z + n] = end[z] + n
    BY <2>1, <2>3 DEF OneDigit
  <2> QED
    BY <1>1, <2>1, <2>4
<1>10. Readable(b, head, 6, entry)
  <2>1. HasFields(b, head)
    BY <1>1, <1>3, <1>7 DEF HasFields, start
  <2>2. get_int(b, head, 6) = n
    BY <1>1, <1>7 DEF get_int, start
  <2>3. HasFields(b, layout)
    BY <1>1, <1>9 DEF HasFields, end
  <2> QED
    BY <1>2, <2>1, <2>2, <2>3 DEF Readable, layout
<1>11. get_str(b, head, 5) = r.inbox
  <2>1. get_str(b, head, 5) = SubSeq(b, start[4] + 2, start[5])
    BY DEF get_str, start
  <2>2. start[4] + 2 = 5 + 1 /\ start[5] = 5 + Len(r.inbox) /\ 5 \in Nat /\ 5 + Len(r.inbox) <= Len(b)
    BY <1>1, <1>7 DEF l
  <2>3. \A i \in 1..Len(r.inbox) : b[5 + i] = r.inbox[i]
    BY <1>1 DEF l
  <2>4. SubSeq(b, 5 + 1, 5 + Len(r.inbox)) = r.inbox
    BY <1>1, <1>2, <2>2, <2>3, PartIs
  <2> QED
    BY <2>1, <2>2, <2>4
<1>12. SubSeq(b, start[6] + 1, start[6] + b[start[6]]) = r.have
  <2> DEFINE o == 6 + l
  <2>1. o \in Nat /\ o + Len(r.have) <= Len(b) /\ start[6] = o /\ b[o] = Len(r.have)
    <3>1. l \in Nat /\ n \in Nat /\ Len(b) = 6 + l + n /\ b[6 + l] = n
      BY <1>1
    <3>2. start[6] = o
      BY <1>7
    <3>3. b[o] = n
      BY <3>1
    <3>4. o \in Nat /\ o + n <= Len(b)
      BY ONLY <3>1
    <3> QED
      BY <3>1, <3>2, <3>3, <3>4 DEF n
  <2>2. \A i \in 1..Len(r.have) : b[o + i] = r.have[i]
    BY <1>1 DEF n
  <2> HIDE DEF o
  <2>3. SubSeq(b, o + 1, o + Len(r.have)) = r.have
    BY <1>1, <1>2, <2>1, <2>2, PartIs
  <2> QED
    BY <2>1, <2>3
<1>13. Reply_read(b) =
         [slab_size |-> b[1], nslabs |-> b[2], pool_addr |-> b[3], pool_rkey |-> b[4],
          inbox |-> get_str(b, head, 5),
          have |-> SubSeq(b, start[6] + 1, start[6] + b[start[6]])]
  BY <1>10 DEF Reply_read, head, entry, start
<1>14. Reply_read(b) = r
  BY <1>1, <1>2, <1>11, <1>12, <1>13
<1> QED
  BY <1>14 DEF b

PeerInfoType == [name : Seq(Nat), note : Seq(Nat), inbox : Seq(Nat)]

\* Whoever probes an end reads the description it gave (PeerInfo, src/src/proto.rs).
THEOREM PeerInfoReadsBack ==
  ASSUME NEW p \in PeerInfoType, Len(p.name) < StrMod, Len(p.note) < StrMod, Len(p.inbox) < StrMod
  PROVE  PeerInfo_read(PeerInfo_write(p)) = p
<1> DEFINE na == p.name
           no == p.note
           bo == p.inbox
           x == put_str(na)
           y == put_str(no)
           z == put_str(bo)
           xy == x \o y
           b == xy \o z
           layout == <<"str", "str", "str">>
           end == FieldEnds(b, layout)
           i1 == Len(na)
           i2 == Len(no)
           i3 == Len(bo)
<1>1. /\ na \in Seq(Nat) /\ no \in Seq(Nat) /\ bo \in Seq(Nat)
      /\ p = [name |-> na, note |-> no, inbox |-> bo]
      /\ Len(na) < StrMod /\ Len(no) < StrMod /\ Len(bo) < StrMod
  BY DEF PeerInfoType
<1>2. PeerInfo_write(p) = b
  BY DEF PeerInfo_write
<1> HIDE DEF na, no, bo
<1>3. /\ x \in Seq(Nat) /\ Len(x) = 1 + i1 /\ i1 \in Nat /\ x[1] = i1 /\ \A i \in 1..i1 : x[1 + i] = na[i]
      /\ y \in Seq(Nat) /\ Len(y) = 1 + i2 /\ i2 \in Nat /\ y[1] = i2 /\ \A i \in 1..i2 : y[1 + i] = no[i]
      /\ z \in Seq(Nat) /\ Len(z) = 1 + i3 /\ i3 \in Nat /\ z[1] = i3 /\ \A i \in 1..i3 : z[1 + i] = bo[i]
  BY <1>1, StringWritten
<1> HIDE DEF x, y, z, i1, i2, i3
<1>4. /\ xy \in Seq(Nat) /\ Len(xy) = Len(x) + Len(y)
      /\ \A i \in 1..Len(x) : xy[i] = x[i]
      /\ \A i \in 1..Len(y) : xy[Len(x) + i] = y[i]
  BY <1>3, JoinedDigits
<1> HIDE DEF xy
<1>5. /\ b \in Seq(Nat) /\ Len(b) = Len(xy) + Len(z)
      /\ \A i \in 1..Len(xy) : b[i] = xy[i]
      /\ \A i \in 1..Len(z) : b[Len(xy) + i] = z[i]
  BY <1>3, <1>4, JoinedDigits
<1> HIDE DEF b
<1> DEFINE o2 == 1 + i1
           o3 == o2 + 1 + i2
<1>6. Len(xy) = o3 /\ Len(x) = o2 /\ Len(b) = o3 + 1 + i3 /\ o2 \in Nat /\ o3 \in Nat
  BY <1>3, <1>4, <1>5
<1>7. \A i \in 1..1 + i1 : i \in 1..Len(x) /\ i \in 1..Len(xy)
  BY <1>3, <1>6
<1>8. \A i \in 1..1 + i2 : i \in 1..Len(y) /\ o2 + i \in 1..Len(xy)
  BY <1>3, <1>6
<1>9. /\ \A i \in 1..1 + i1 : b[i] = x[i]
      /\ \A i \in 1..1 + i2 : b[o2 + i] = y[i]
      /\ \A i \in 1..1 + i3 : b[o3 + i] = z[i]
  <2> HIDE DEF o2, o3
  <2>1. \A i \in 1..1 + i1 : b[i] = x[i]
    BY <1>4, <1>5, <1>7
  <2>2. ASSUME NEW i \in 1..1 + i2 PROVE b[o2 + i] = y[i]
    <3> DEFINE j == o2 + i
    <3>1. j \in 1..Len(xy) /\ i \in 1..Len(y)
      BY <1>8
    <3>2. xy[j] = y[i]
      BY <1>4, <1>6, <3>1
    <3> HIDE DEF j
    <3>3. b[j] = y[i]
      BY <1>5, <3>1, <3>2
    <3> QED
      BY <3>3 DEF j
  <2>3. \A i \in 1..1 + i3 : b[o3 + i] = z[i]
    BY <1>3, <1>5, <1>6
  <2> QED
    BY <2>1, <2>2, <2>3
<1> HIDE DEF o2, o3
<1>10. b[1] = i1 /\ b[o2 + 1] = i2 /\ b[o3 + 1] = i3
  <2>1. 1 \in 1..1 + i1 /\ 1 \in 1..1 + i2 /\ 1 \in 1..1 + i3
    BY <1>3
  <2> QED
    BY <1>3, <1>9, <2>1
<1>11. EndsAt(b, layout, end)
  <2>1. layout \in Seq({"str"})
    OBVIOUS
  <2> HIDE DEF layout
  <2> QED
    BY <1>5, <2>1, FieldEndsAre
<1>12. Len(layout) = 3 /\ layout[1] = "str" /\ layout[2] = "str" /\ layout[3] = "str"
  OBVIOUS
<1> HIDE DEF layout, end
<1>13. end[0] = 0 /\ end[1] = o2 /\ end[2] = o3 /\ end[3] = Len(b)
  <2>1. 1 \in 1..Len(layout) /\ 2 \in 1..Len(layout) /\ 3 \in 1..Len(layout)
        /\ 1 - 1 = 0 /\ 2 - 1 = 1 /\ 3 - 1 = 2
    BY <1>12
  <2>2. end[0] = 0 /\ end[0] < Len(b) /\ b[end[0] + 1] = i1
    BY <1>3, <1>6, <1>10, <1>11 DEF EndsAt
  <2>3. end[1] = end[0] + 1 + b[end[0] + 1]
    BY <1>11, <1>12, <2>1, <2>2 DEF EndsAt
  <2>4. end[1] = o2
    BY <1>3, <2>2, <2>3 DEF o2
  <2>5. end[1] < Len(b)
    BY <1>3, <1>6, <2>4 DEF o3
  <2>6. end[2] = end[1] + 1 + b[end[1] + 1]
    BY <1>11, <1>12, <2>1, <2>5 DEF EndsAt
  <2>7. end[2] = o3
    BY <1>10, <2>4, <2>6 DEF o3
  <2>8. end[2] < Len(b)
    BY <1>3, <1>6, <2>7
  <2>9. end[3] = end[2] + 1 + b[end[2] + 1]
    BY <1>11, <1>12, <2>1, <2>8 DEF EndsAt
  <2>10. end[3] = Len(b)
    BY <1>6, <1>10, <2>7, <2>9
  <2> QED
    BY <2>2, <2>4, <2>7, <2>10
<1>14. ASSUME NEW o \in Nat, NEW s \in Seq(Nat), NEW c \in Seq(Nat), Len(c) = 1 + Len(s),
              \A i \in 1..Len(s) : c[1 + i] = s[i],
              \A i \in 1..1 + Len(s) : b[o + i] = c[i], o + 1 + Len(s) <= Len(b)
       PROVE  SubSeq(b, o + 2, o + 1 + Len(s)) = s
  <2> DEFINE q == o + 1
             m == Len(s)
  <2>1. q \in Nat /\ m \in Nat /\ q + 1 = o + 2 /\ q + m <= Len(b)
    BY <1>14
  <2>2. ASSUME NEW i \in 1..m PROVE b[q + i] = s[i]
    <3> DEFINE j == 1 + i
    <3>1. j \in 1..1 + m /\ o + j = q + i /\ c[j] = s[i]
      BY <1>14, <2>1
    <3> HIDE DEF j
    <3> QED
      BY <1>14, <3>1
  <2> HIDE DEF q
  <2>3. SubSeq(b, q + 1, q + Len(s)) = s
    BY <1>5, <2>1, <2>2, PartIs
  <2> QED
    BY <2>1, <2>3 DEF q
<1>15. /\ SubSeq(b, end[0] + 2, end[1]) = na
       /\ SubSeq(b, end[1] + 2, end[2]) = no
       /\ SubSeq(b, end[2] + 2, end[3]) = bo
  <2>1. /\ 0 \in Nat /\ end[1] = 0 + 1 + Len(na) /\ 0 + 1 + Len(na) <= Len(b)
        /\ o2 + 1 + Len(no) <= Len(b) /\ end[2] = o2 + 1 + Len(no)
        /\ o3 + 1 + Len(bo) <= Len(b) /\ end[3] = o3 + 1 + Len(bo)
    <3>1. /\ 0 \in Nat /\ o2 = 0 + 1 + i1 /\ o3 = o2 + 1 + i2
          /\ 0 + 1 + i1 <= Len(b) /\ o2 + 1 + i2 <= Len(b) /\ o3 + 1 + i3 <= Len(b)
      BY <1>3, <1>6 DEF o2, o3
    <3> QED
      BY <1>6, <1>13, <3>1 DEF i1, i2, i3
  <2>2. \A i \in 1..1 + Len(na) : b[0 + i] = x[i]
    BY <1>9 DEF i1
  <2>3. SubSeq(b, 0 + 2, 0 + 1 + Len(na)) = na
    BY <1>1, <1>3, <1>14, <2>1, <2>2 DEF i1
  <2>4. SubSeq(b, o2 + 2, o2 + 1 + Len(no)) = no
    BY <1>1, <1>3, <1>6, <1>9, <1>14, <2>1 DEF i2
  <2>5. SubSeq(b, o3 + 2, o3 + 1 + Len(bo)) = bo
    BY <1>1, <1>3, <1>6, <1>9, <1>14, <2>1 DEF i3
  <2> QED
    BY <1>13, <2>1, <2>3, <2>4, <2>5
<1>16. /\ get_str(b, layout, 1) = SubSeq(b, end[0] + 2, end[1])
       /\ get_str(b, layout, 2) = SubSeq(b, end[1] + 2, end[2])
       /\ get_str(b, layout, 3) = SubSeq(b, end[2] + 2, end[3])
  BY DEF get_str, end
<1>17. HasFields(b, layout)
  BY <1>5, <1>12, <1>13 DEF HasFields, end
<1>18. PeerInfo_read(b) = [name |-> get_str(b, layout, 1), note |-> get_str(b, layout, 2),
                           inbox |-> get_str(b, layout, 3)]
  BY <1>17 DEF PeerInfo_read, layout
<1>19. PeerInfo_read(b) = p
  BY <1>1, <1>15, <1>16, <1>18
<1> QED
  BY <1>2, <1>19


-----------------------------------------------------------------------------
(* The receive slots.                                                        *)

\* No element of a queue is in it twice.
Distinct(q) == \A i, j \in 1..Len(q) : q[i] = q[j] => i = j

\* The completions of receive slots in a completion queue, and their slots.
IsRecv(c, i) == c[i].kind = "recv"
SlotsOf(c) == {c[i].slot : i \in {j \in 1..Len(c) : IsRecv(c, j)}}
OncePerSlot(c) ==
  \A i, j \in 1..Len(c) : IsRecv(c, i) /\ IsRecv(c, j) /\ c[i].slot = c[j].slot => i = j

-----------------------------------------------------------------------------
(* Queues of slots and of completions.                                      *)

\* Taking the first of a queue.
LEMMA QueuePop ==
  ASSUME NEW S, NEW q \in Seq(S), q # << >>, Distinct(q)
  PROVE  /\ Head(q) \in S /\ Tail(q) \in Seq(S) /\ Head(q) \in ToSet(q)
         /\ ToSet(Tail(q)) = ToSet(q) \ {Head(q)} /\ Distinct(Tail(q))
<1>1. /\ Len(q) \in Nat \ {0} /\ Head(q) = q[1] /\ Head(q) \in S
      /\ Tail(q) \in Seq(S) /\ Len(Tail(q)) = Len(q) - 1
      /\ \A i \in 1..Len(q) - 1 : Tail(q)[i] = q[i + 1]
  OBVIOUS
<1>2. DOMAIN q = 1..Len(q) /\ DOMAIN Tail(q) = 1..Len(q) - 1
  BY <1>1
<1>3. ToSet(q) = {q[i] : i \in 1..Len(q)} /\ ToSet(Tail(q)) = {q[i + 1] : i \in 1..Len(q) - 1}
  BY <1>1, <1>2 DEF ToSet
<1>4. {q[i + 1] : i \in 1..Len(q) - 1} = {q[i] : i \in 1..Len(q)} \ {q[1]}
  <2>1. ASSUME NEW i \in 1..Len(q) - 1 PROVE i + 1 \in 1..Len(q) /\ q[i + 1] # q[1]
    BY <1>1 DEF Distinct
  <2>2. ASSUME NEW i \in 1..Len(q), i # 1 PROVE i - 1 \in 1..Len(q) - 1 /\ (i - 1) + 1 = i
    BY <1>1, <2>2
  <2> QED
    BY <2>1, <2>2
<1>5. Distinct(Tail(q))
  BY <1>1 DEF Distinct
<1>6. Head(q) \in ToSet(q)
  BY <1>1, <1>3
<1> QED
  BY <1>1, <1>3, <1>4, <1>5, <1>6

\* Adding to the end of a queue.
LEMMA QueuePush ==
  ASSUME NEW S, NEW q \in Seq(S), NEW x \in S
  PROVE  /\ Append(q, x) \in Seq(S) /\ ToSet(Append(q, x)) = ToSet(q) \cup {x}
         /\ Distinct(q) /\ x \notin ToSet(q) => Distinct(Append(q, x))
<1>1. /\ Len(q) \in Nat /\ Append(q, x) \in Seq(S) /\ Len(Append(q, x)) = Len(q) + 1
      /\ Append(q, x)[Len(q) + 1] = x
      /\ \A i \in 1..Len(q) : Append(q, x)[i] = q[i]
  OBVIOUS
<1>2. DOMAIN q = 1..Len(q) /\ DOMAIN Append(q, x) = 1..Len(q) + 1
  BY <1>1
<1>3. ToSet(Append(q, x)) = ToSet(q) \cup {x}
  <2>1. 1..Len(q) + 1 = (1..Len(q)) \cup {Len(q) + 1}
    BY <1>1
  <2> QED
    BY <1>1, <1>2, <2>1 DEF ToSet
<1>4. ASSUME Distinct(q), x \notin ToSet(q) PROVE Distinct(Append(q, x))
  <2>1. \A i \in 1..Len(q) : q[i] # x
    BY <1>2, <1>4 DEF ToSet
  <2>2. \A i \in 1..Len(q) + 1 : i \in 1..Len(q) \/ i = Len(q) + 1
    BY <1>1
  <2> QED
    BY <1>1, <1>4, <2>1, <2>2 DEF Distinct
<1> QED
  BY <1>1, <1>3, <1>4

\* Taking the first completion.
LEMMA CompletionPop ==
  ASSUME NEW S, NEW c \in Seq(S), c # << >>, OncePerSlot(c)
  PROVE  /\ Tail(c) \in Seq(S) /\ Head(c) \in S /\ OncePerSlot(Tail(c))
         /\ IF Head(c).kind = "recv"
              THEN Head(c).slot \in SlotsOf(c) /\ SlotsOf(Tail(c)) = SlotsOf(c) \ {Head(c).slot}
              ELSE SlotsOf(Tail(c)) = SlotsOf(c)
<1>1. /\ Len(c) \in Nat \ {0} /\ Head(c) = c[1] /\ Head(c) \in S
      /\ Tail(c) \in Seq(S) /\ Len(Tail(c)) = Len(c) - 1
      /\ \A i \in 1..Len(c) - 1 : Tail(c)[i] = c[i + 1]
  OBVIOUS
<1> DEFINE rest == {c[i].slot : i \in {j \in 2..Len(c) : IsRecv(c, j)}}
           d == Tail(c)
<1>2. SlotsOf(d) = rest /\ OncePerSlot(d)
  <2>1. /\ Len(d) = Len(c) - 1
        /\ \A i \in 1..Len(d) : i + 1 \in 2..Len(c) /\ d[i] = c[i + 1]
        /\ \A i \in 2..Len(c) : i - 1 \in 1..Len(d) /\ d[i - 1] = c[i]
    BY <1>1
  <2> HIDE DEF d
  <2>2. ASSUME NEW i \in 1..Len(d), IsRecv(d, i) PROVE d[i].slot \in rest
    <3>1. i + 1 \in 2..Len(c) /\ IsRecv(c, i + 1) /\ d[i].slot = c[i + 1].slot
      BY <2>1, <2>2 DEF IsRecv
    <3> QED
      BY <3>1
  <2>3. ASSUME NEW i \in 2..Len(c), IsRecv(c, i) PROVE c[i].slot \in SlotsOf(d)
    <3>1. i - 1 \in 1..Len(d) /\ IsRecv(d, i - 1) /\ d[i - 1].slot = c[i].slot
      BY <2>1, <2>3 DEF IsRecv
    <3> QED
      BY <3>1 DEF SlotsOf
  <2>4. SlotsOf(d) = rest
    BY <2>2, <2>3 DEF SlotsOf
  <2>5. OncePerSlot(d)
    BY <1>1, <2>1 DEF OncePerSlot, IsRecv
  <2> QED
    BY <2>4, <2>5
<1>3. 1..Len(c) = {1} \cup 2..Len(c) /\ 1 \notin 2..Len(c) /\ 1 \in 1..Len(c)
  BY <1>1
<1>4. CASE IsRecv(c, 1)
  <2>1. \A i \in 2..Len(c) : IsRecv(c, i) => c[i].slot # c[1].slot
    BY <1>3, <1>4 DEF OncePerSlot
  <2>2. SlotsOf(c) = rest \cup {c[1].slot}
    BY <1>3, <1>4 DEF SlotsOf
  <2>3. c[1].slot \notin rest
    BY <2>1
  <2> HIDE DEF rest, d
  <2>4. SlotsOf(d) = SlotsOf(c) \ {c[1].slot} /\ c[1].slot \in SlotsOf(c)
    BY <1>2, <2>2, <2>3
  <2> QED
    BY <1>1, <1>2, <1>4, <2>4 DEF IsRecv, d
<1>5. CASE ~IsRecv(c, 1)
  <2>1. SlotsOf(c) = rest
    BY <1>3, <1>5 DEF SlotsOf
  <2> HIDE DEF rest
  <2> QED
    BY <1>1, <1>2, <1>5, <2>1 DEF IsRecv
<1> QED
  BY <1>4, <1>5

\* Adding a completion.
LEMMA CompletionPush ==
  ASSUME NEW S, NEW c \in Seq(S), NEW x \in S, OncePerSlot(c),
         x.kind = "recv" => x.slot \notin SlotsOf(c)
  PROVE  /\ Append(c, x) \in Seq(S) /\ OncePerSlot(Append(c, x))
         /\ SlotsOf(Append(c, x)) =
              IF x.kind = "recv" THEN SlotsOf(c) \cup {x.slot} ELSE SlotsOf(c)
<1>1. /\ Len(c) \in Nat /\ Append(c, x) \in Seq(S) /\ Len(Append(c, x)) = Len(c) + 1
      /\ Append(c, x)[Len(c) + 1] = x
      /\ \A i \in 1..Len(c) : Append(c, x)[i] = c[i]
  OBVIOUS
<1>2. 1..Len(c) + 1 = (1..Len(c)) \cup {Len(c) + 1} /\ Len(c) + 1 \notin 1..Len(c)
  BY <1>1
<1> DEFINE d == Append(c, x)
<1>3. \A i \in 1..Len(c) : IsRecv(c, i) => c[i].slot \in SlotsOf(c)
  BY DEF SlotsOf
<1>4. \A i \in 1..Len(c) : d[i] = c[i] /\ (IsRecv(d, i) <=> IsRecv(c, i))
  BY <1>1 DEF IsRecv
<1>5. d[Len(c) + 1] = x /\ (IsRecv(d, Len(c) + 1) <=> x.kind = "recv") /\ Len(d) = Len(c) + 1
  BY <1>1 DEF IsRecv
<1> HIDE DEF d
<1>6. OncePerSlot(d)
  BY <1>2, <1>3, <1>4, <1>5 DEF OncePerSlot
<1>7. SlotsOf(d) = IF x.kind = "recv" THEN SlotsOf(c) \cup {x.slot} ELSE SlotsOf(c)
  BY <1>2, <1>4, <1>5 DEF SlotsOf
<1> QED
  BY <1>1, <1>6, <1>7 DEF d

-----------------------------------------------------------------------------
(* The parts of an end: its queue of posted slots R, its completions C, the  *)
(* ring f from h to t, and whether it is up.                                 *)

\* Each of a kind is there once, no slot is at two places, and of an end that is
\* up none is missing.
Parts(e, R, C, f, h, t, up) ==
  /\ R \in Seq(Slots(e)) /\ C \in Seq(Completions(e)) /\ f \in [Slots(e) -> Slots(e)]
  /\ h \in Nat /\ t \in Nat /\ h <= t /\ t - h <= NRecv[e]
  /\ Distinct(R) /\ OncePerSlot(C) /\ Apart(f, NRecv[e], h, t)
  /\ ToSet(R) \cap SlotsOf(C) = {} /\ ToSet(R) \cap Span(f, NRecv[e], h, t) = {}
  /\ SlotsOf(C) \cap Span(f, NRecv[e], h, t) = {}
  /\ up => ToSet(R) \cup SlotsOf(C) \cup Span(f, NRecv[e], h, t) = Slots(e)

\* The adapter takes a posted slot and completes it.
LEMMA PartsDeliver ==
  ASSUME NEW e \in Ends, NEW R, NEW C, NEW f, NEW h, NEW t, NEW up,
         Parts(e, R, C, f, h, t, up), R # << >>, NEW w \in Tokens
  PROVE  Parts(e, Tail(R), Append(C, [kind |-> "recv", what |-> w, slot |-> Head(R)]),
               f, h, t, up)
<1> DEFINE x == [kind |-> "recv", what |-> w, slot |-> Head(R)]
<1>1. /\ Head(R) \in Slots(e) /\ Tail(R) \in Seq(Slots(e)) /\ Head(R) \in ToSet(R)
      /\ ToSet(Tail(R)) = ToSet(R) \ {Head(R)} /\ Distinct(Tail(R))
  BY QueuePop DEF Parts
<1>2. x \in Completions(e) /\ x.kind = "recv" /\ x.slot = Head(R) /\ x.slot \notin SlotsOf(C)
  BY <1>1 DEF Completions, Parts
<1> HIDE DEF x
<1>3. /\ Append(C, x) \in Seq(Completions(e)) /\ OncePerSlot(Append(C, x))
      /\ SlotsOf(Append(C, x)) = SlotsOf(C) \cup {Head(R)}
  BY <1>2, CompletionPush DEF Parts
<1>4. Parts(e, Tail(R), Append(C, x), f, h, t, up)
  BY <1>1, <1>3 DEF Parts
<1> QED
  BY <1>4 DEF x

\* An acknowledgement takes no slot.
LEMMA PartsAcknowledge ==
  ASSUME NEW e \in Ends, NEW R, NEW C, NEW f, NEW h, NEW t, NEW up,
         Parts(e, R, C, f, h, t, up), NEW w \in Tokens
  PROVE  Parts(e, R, Append(C, [kind |-> "sent", what |-> w]), f, h, t, up)
<1> DEFINE x == [kind |-> "sent", what |-> w]
<1>1. x \in Completions(e) /\ x.kind # "recv"
  BY DEF Completions
<1> HIDE DEF x
<1>2. /\ Append(C, x) \in Seq(Completions(e)) /\ OncePerSlot(Append(C, x))
      /\ SlotsOf(Append(C, x)) = SlotsOf(C)
  BY <1>1, CompletionPush DEF Parts
<1>3. Parts(e, R, Append(C, x), f, h, t, up)
  BY <1>2 DEF Parts
<1> QED
  BY <1>3 DEF x

\* The first completion is handled: no slot belongs to it, or its slot is posted
\* again, or put into the ring, or lost with the end.
LEMMA PartsHandle ==
  ASSUME NEW e \in Ends, NEW R, NEW C, NEW f, NEW h, NEW t, NEW up,
         Parts(e, R, C, f, h, t, up), C # << >>
  PROVE  LET x == Head(C)
             g == [f EXCEPT ![t % NRecv[e]] = x.slot]
         IN /\ x.kind = "recv" \/ Parts(e, R, Tail(C), f, h, t, up)
            /\ x.kind = "recv" => Parts(e, Append(R, x.slot), Tail(C), f, h, t, up)
            /\ x.kind = "recv" /\ t - h < NRecv[e] => Parts(e, R, Tail(C), g, h, t + 1, up)
            /\ Parts(e, R, Tail(C), f, h, t, FALSE)
<1> DEFINE x == Head(C)
           D == Tail(C)
           g == [f EXCEPT ![t % NRecv[e]] = x.slot]
<1>1. /\ D \in Seq(Completions(e)) /\ x \in Completions(e) /\ OncePerSlot(D)
      /\ IF x.kind = "recv" THEN x.slot \in SlotsOf(C) /\ SlotsOf(D) = SlotsOf(C) \ {x.slot}
                            ELSE SlotsOf(D) = SlotsOf(C)
  <2>1. C \in Seq(Completions(e)) /\ OncePerSlot(C)
    BY DEF Parts
  <2> QED
    BY <2>1, CompletionPop
<1>2. x.kind = "recv" => x.slot \in Slots(e)
  BY <1>1 DEF Completions
<1>3. NRecv[e] \in Nat \ {0}
  BY CtlAssumption
<1> HIDE DEF x, D
<1>4. x.kind = "recv" \/ Parts(e, R, D, f, h, t, up)
  BY <1>1 DEF Parts
<1>5. Parts(e, R, D, f, h, t, FALSE)
  BY <1>1 DEF Parts
<1>6. ASSUME x.kind = "recv" PROVE Parts(e, Append(R, x.slot), D, f, h, t, up)
  <2>1. /\ Append(R, x.slot) \in Seq(Slots(e)) /\ ToSet(Append(R, x.slot)) = ToSet(R) \cup {x.slot}
        /\ Distinct(Append(R, x.slot))
    BY <1>1, <1>2, <1>6, QueuePush DEF Parts
  <2> QED
    BY <1>1, <1>6, <2>1 DEF Parts
<1>7. ASSUME x.kind = "recv", t - h < NRecv[e] PROVE Parts(e, R, D, g, h, t + 1, up)
  <2>1. f \in [0..NRecv[e] - 1 -> Slots(e)] /\ x.slot \notin Span(f, NRecv[e], h, t)
    BY <1>1, <1>7 DEF Parts, Slots
  <2>2. /\ g \in [0..NRecv[e] - 1 -> Slots(e)]
        /\ Span(g, NRecv[e], h, t + 1) = Span(f, NRecv[e], h, t) \cup {x.slot}
        /\ Apart(g, NRecv[e], h, t + 1)
    BY <1>2, <1>3, <1>7, <2>1, RingPush DEF Parts
  <2>3. t + 1 \in Nat /\ h <= t + 1 /\ (t + 1) - h <= NRecv[e]
    BY <1>3, <1>7 DEF Parts
  <2> HIDE DEF g
  <2> QED
    BY <1>1, <1>7, <2>2, <2>3 DEF Parts, Slots
<1> QED
  BY <1>4, <1>5, <1>6, <1>7 DEF x, D

\* The first of the ring is read: its slot is posted again, or lost with the end.
LEMMA PartsRead ==
  ASSUME NEW e \in Ends, NEW R, NEW C, NEW f, NEW h, NEW t, NEW up,
         Parts(e, R, C, f, h, t, up), h # t
  PROVE  /\ Parts(e, Append(R, f[h % NRecv[e]]), C, f, h + 1, t, up)
         /\ Parts(e, R, C, f, h + 1, t, FALSE)
<1> DEFINE n == NRecv[e]
           x == f[h % n]
<1>1. n \in Nat \ {0} /\ h < t /\ h \in Nat /\ t \in Nat
  BY CtlAssumption DEF Parts
<1>2. x \in Slots(e)
  <2>1. h % n \in 0..n - 1
    BY <1>1
  <2> QED
    BY <2>1 DEF Parts, Slots
<1>3. /\ Span(f, n, h + 1, t) = Span(f, n, h, t) \ {x} /\ x \in Span(f, n, h, t)
      /\ Apart(f, n, h + 1, t)
  BY <1>1, RingPop DEF Parts
<1>4. h + 1 \in Nat /\ h + 1 <= t /\ t - (h + 1) <= n
  BY <1>1 DEF Parts
<1> HIDE DEF x
<1>5. /\ Append(R, x) \in Seq(Slots(e)) /\ ToSet(Append(R, x)) = ToSet(R) \cup {x}
      /\ Distinct(Append(R, x))
  BY <1>2, <1>3, QueuePush DEF Parts
<1>6. Parts(e, Append(R, x), C, f, h + 1, t, up)
  BY <1>3, <1>4, <1>5 DEF Parts
<1>7. Parts(e, R, C, f, h + 1, t, FALSE)
  BY <1>3, <1>4 DEF Parts
<1> QED
  BY <1>6, <1>7 DEF x

-----------------------------------------------------------------------------
(* The inductive invariant.                                                 *)

PartsOf(e) == Parts(e, rq[e], cq[e], ctlq[e], qh[e], qt[e], mode[e] = "run")

\* What is under way is a frame or an immediate.
Traffic ==
  /\ DOMAIN wire = Ends /\ DOMAIN acks = Ends
  /\ \A e \in Ends : wire[e] \in Seq(Tokens) /\ acks[e] \in Seq(Tokens)

Domains ==
  /\ DOMAIN rq = Ends /\ DOMAIN cq = Ends /\ DOMAIN ctlq = Ends
  /\ DOMAIN qh = Ends /\ DOMAIN qt = Ends /\ DOMAIN mode = Ends

CInv == Domains /\ Traffic /\ \A e \in Ends : PartsOf(e)

\* At first all slots are posted, in order.
LEMMA InitEstablishesCInv == Init => CInv
<1> SUFFICES ASSUME Init PROVE CInv
  OBVIOUS
<1>1. Domains /\ Traffic
  BY DEF Init, Domains, Traffic
<1>2. ASSUME NEW e \in Ends PROVE PartsOf(e)
  <2> DEFINE n == NRecv[e]
             q == [i \in 1..n |-> i - 1]
             f == [i \in Slots(e) |-> 0]
  <2>1. n \in Nat \ {0}
    BY CtlAssumption
  <2>2. /\ rq[e] = q /\ cq[e] = << >> /\ ctlq[e] = f
        /\ qh[e] = 0 /\ qt[e] = 0
    BY DEF Init
  <2>3. q \in Seq(Slots(e)) /\ Len(q) = n /\ DOMAIN q = 1..n /\ \A i \in 1..n : q[i] = i - 1
    BY <2>1 DEF Slots
  <2>4. f \in [Slots(e) -> Slots(e)]
    BY <2>1 DEF Slots
  <2> HIDE DEF q, f
  <2>5. ToSet(q) = Slots(e) /\ Distinct(q)
    <3>1. \A x \in Slots(e) : x + 1 \in 1..n /\ q[x + 1] = x
      BY <2>1, <2>3 DEF Slots
    <3>2. \A i \in 1..n : q[i] \in Slots(e)
      BY <2>1, <2>3 DEF Slots
    <3>3. ToSet(q) = Slots(e)
      BY <2>3, <3>1, <3>2 DEF ToSet
    <3> QED
      BY <2>3, <3>3 DEF Distinct
  <2>6. /\ << >> \in Seq(Completions(e)) /\ SlotsOf(<< >>) = {} /\ OncePerSlot(<< >>)
        /\ Span(f, n, 0, 0) = {} /\ Apart(f, n, 0, 0)
    BY DEF SlotsOf, OncePerSlot, Span, Apart
  <2>7. Parts(e, q, << >>, f, 0, 0, mode[e] = "run")
    BY <2>1, <2>3, <2>4, <2>5, <2>6 DEF Parts
  <2> QED
    BY <2>2, <2>7 DEF PartsOf
<1> QED
  BY <1>1, <1>2 DEF CInv

-----------------------------------------------------------------------------
(* One step per action.                                                     *)

\* g is f but for v at e.
Becomes(f, g, e, v) == DOMAIN g = Ends /\ g[e] = v /\ \A o \in Ends \ {e} : g[o] = f[o]

\* Setting a value, or leaving it.
LEMMA SetBecomes ==
  ASSUME NEW f, DOMAIN f = Ends, NEW e \in Ends
  PROVE  Becomes(f, f, e, f[e]) /\ \A v : Becomes(f, Set(f, e, v), e, v)
BY DEF Becomes, Set

\* A step at one end leaves the other alone.
LEMMA OneEnd ==
  ASSUME CInv, NEW e \in Ends, NEW R, NEW C, NEW f, NEW h, NEW t, NEW m,
         Becomes(rq, rq', e, R), Becomes(cq, cq', e, C), Becomes(ctlq, ctlq', e, f),
         Becomes(qh, qh', e, h), Becomes(qt, qt', e, t), Becomes(mode, mode', e, m),
         Parts(e, R, C, f, h, t, m = "run"), Traffic'
  PROVE  CInv'
<1>1. Domains'
  BY DEF Becomes, Domains
<1>2. ASSUME NEW o \in Ends PROVE PartsOf(o)'
  <2>1. CASE o = e
    BY <2>1 DEF Becomes, PartsOf
  <2>2. CASE o # e
    BY <2>2 DEF Becomes, PartsOf, CInv
  <2> QED
    BY <2>1, <2>2
<1> QED
  BY <1>1, <1>2 DEF CInv

\* Something goes on its way.
LEMMA TrafficGrows ==
  ASSUME Traffic, NEW e \in Ends, NEW w \in Tokens,
         \/ wire' = Set(wire, e, Append(wire[e], w)) /\ acks' = acks
         \/ acks' = Set(acks, e, Append(acks[e], w)) /\ wire' = wire
  PROVE  Traffic'
<1>1. Append(wire[e], w) \in Seq(Tokens) /\ Append(acks[e], w) \in Seq(Tokens)
  BY DEF Traffic
<1> QED
  BY <1>1 DEF Traffic, Set

\* A frame or an immediate is delivered.
LEMMA DeliverKeeps == ASSUME CInv, NEW e \in Ends, Deliver(e) PROVE CInv'
<1> DEFINE w == Head(wire[e])
           C == Append(cq[e], [kind |-> "recv", what |-> w, slot |-> Head(rq[e])])
<1>1. /\ wire[e] # << >> /\ rq[e] # << >> /\ UNCHANGED <<mode, ctlq, qh, qt>>
      /\ cq' = Set(cq, e, C) /\ rq' = Set(rq, e, Tail(rq[e]))
      /\ wire' = Set(wire, e, Tail(wire[e]))
      /\ acks' = Set(acks, Peer[e], Append(acks[Peer[e]], w))
  BY DEF Deliver
<1>2. wire[e] \in Seq(Tokens) /\ Peer[e] \in Ends /\ acks[Peer[e]] \in Seq(Tokens)
  BY DEF CInv, Traffic, Peer, Ends
<1>3. w \in Tokens /\ Tail(wire[e]) \in Seq(Tokens)
  BY <1>1, <1>2
<1> HIDE DEF w
<1>4. Append(acks[Peer[e]], w) \in Seq(Tokens)
  BY <1>2, <1>3
<1>5. Traffic'
  BY <1>1, <1>3, <1>4 DEF CInv, Traffic, Set
<1>6. Parts(e, Tail(rq[e]), C, ctlq[e], qh[e], qt[e], mode[e] = "run")
  BY <1>1, <1>3, PartsDeliver DEF CInv, PartsOf
<1> HIDE DEF C
<1>7. /\ Becomes(rq, rq', e, Tail(rq[e])) /\ Becomes(cq, cq', e, C)
      /\ Becomes(ctlq, ctlq', e, ctlq[e]) /\ Becomes(qh, qh', e, qh[e])
      /\ Becomes(qt, qt', e, qt[e]) /\ Becomes(mode, mode', e, mode[e])
  BY <1>1, SetBecomes DEF CInv, Domains
<1> QED
  BY <1>5, <1>6, <1>7, OneEnd

\* An acknowledgement arrives.
LEMMA AcknowledgeKeeps == ASSUME CInv, NEW e \in Ends, Acknowledge(e) PROVE CInv'
<1> DEFINE w == Head(acks[e])
           C == Append(cq[e], [kind |-> "sent", what |-> w])
<1>1. /\ acks[e] # << >> /\ UNCHANGED <<mode, rq, ctlq, qh, qt, wire>>
      /\ cq' = Set(cq, e, C) /\ acks' = Set(acks, e, Tail(acks[e]))
  BY DEF Acknowledge, recvVars
<1>2. acks[e] \in Seq(Tokens)
  BY DEF CInv, Traffic
<1>3. w \in Tokens /\ Tail(acks[e]) \in Seq(Tokens)
  BY <1>1, <1>2
<1> HIDE DEF w
<1>4. Traffic'
  BY <1>1, <1>3 DEF CInv, Traffic, Set
<1>5. Parts(e, rq[e], C, ctlq[e], qh[e], qt[e], mode[e] = "run")
  BY <1>3, PartsAcknowledge DEF CInv, PartsOf
<1> HIDE DEF C
<1>6. /\ Becomes(rq, rq', e, rq[e]) /\ Becomes(cq, cq', e, C)
      /\ Becomes(ctlq, ctlq', e, ctlq[e]) /\ Becomes(qh, qh', e, qh[e])
      /\ Becomes(qt, qt', e, qt[e]) /\ Becomes(mode, mode', e, mode[e])
  BY <1>1, SetBecomes DEF CInv, Domains
<1> QED
  BY <1>4, <1>5, <1>6, OneEnd

\* A completion is handled by whoever polls.
LEMMA HandleKeeps == ASSUME CInv, NEW e \in Ends, HandleWc(e) PROVE CInv'
<1> DEFINE x == Head(cq[e])
           C == Tail(cq[e])
           up == mode[e] = "run"
           n == NRecv[e]
<1>1. cq[e] # << >> /\ cq' = Set(cq, e, C) /\ UNCHANGED <<wire, acks>> /\ up
  BY DEF HandleWc, Running
<1>2. Traffic'
  BY <1>1 DEF CInv, Traffic
<1>3. /\ x.kind = "recv" \/ Parts(e, rq[e], C, ctlq[e], qh[e], qt[e], up)
      /\ x.kind = "recv" => Parts(e, Append(rq[e], x.slot), C, ctlq[e], qh[e], qt[e], up)
      /\ x.kind = "recv" /\ qt[e] - qh[e] < n =>
           Parts(e, rq[e], C, [ctlq[e] EXCEPT ![qt[e] % n] = x.slot], qh[e], qt[e] + 1, up)
      /\ Parts(e, rq[e], C, ctlq[e], qh[e], qt[e], FALSE)
  <2>1. Parts(e, rq[e], cq[e], ctlq[e], qh[e], qt[e], up)
    BY DEF CInv, PartsOf
  <2> QED
    BY <1>1, <2>1, PartsHandle
<1> HIDE DEF C
<1>4. /\ Becomes(cq, cq', e, C) /\ DOMAIN rq = Ends /\ DOMAIN ctlq = Ends
      /\ DOMAIN qh = Ends /\ DOMAIN qt = Ends /\ DOMAIN mode = Ends
  BY <1>1, SetBecomes DEF CInv, Domains
<1>5. CASE HandleSent(e)
  <2>1. x.kind # "recv" /\ UNCHANGED <<mode, rq, ctlq, qh, qt>>
    BY <1>5 DEF HandleSent, recvVars
  <2>2. /\ Becomes(rq, rq', e, rq[e]) /\ Becomes(ctlq, ctlq', e, ctlq[e])
        /\ Becomes(qh, qh', e, qh[e]) /\ Becomes(qt, qt', e, qt[e])
        /\ Becomes(mode, mode', e, mode[e])
    BY <1>4, <2>1, SetBecomes
  <2> QED
    BY <1>2, <1>3, <1>4, <2>1, <2>2, OneEnd
<1>6. CASE HandleImm(e) \/ HandleCredit(e)
  <2>1. x.kind = "recv" /\ UNCHANGED <<ctlq, qh, qt>>
    BY <1>6 DEF HandleImm, HandleCredit
  <2>2. /\ Becomes(ctlq, ctlq', e, ctlq[e])
        /\ Becomes(qh, qh', e, qh[e]) /\ Becomes(qt, qt', e, qt[e])
    BY <1>4, <2>1, SetBecomes
  <2>3. CASE rq' = Set(rq, e, Append(rq[e], x.slot)) /\ UNCHANGED mode
    <3>1. Becomes(rq, rq', e, Append(rq[e], x.slot)) /\ Becomes(mode, mode', e, mode[e])
      BY <1>4, <2>3, SetBecomes
    <3> QED
      BY <1>2, <1>3, <1>4, <2>1, <2>2, <3>1, OneEnd
  <2>4. CASE mode' = Set(mode, e, "err") /\ UNCHANGED rq
    <3>1. Becomes(rq, rq', e, rq[e]) /\ Becomes(mode, mode', e, "err")
      BY <1>4, <2>4, SetBecomes
    <3>2. Parts(e, rq[e], C, ctlq[e], qh[e], qt[e], "err" = "run")
      BY <1>3
    <3> QED
      BY <1>2, <1>4, <2>2, <3>1, <3>2, OneEnd
  <2> QED
    BY <1>6, <2>3, <2>4 DEF HandleImm, HandleCredit
<1>7. CASE HandleFrame(e)
  <2>1. x.kind = "recv" /\ UNCHANGED <<rq, qh>>
    BY <1>7 DEF HandleFrame
  <2>2. Becomes(rq, rq', e, rq[e]) /\ Becomes(qh, qh', e, qh[e])
    BY <1>4, <2>1, SetBecomes
  <2>3. CASE qt[e] - qh[e] >= n
    <3>1. mode' = Set(mode, e, "err") /\ UNCHANGED <<ctlq, qt>>
      BY <1>7, <2>3 DEF HandleFrame
    <3>2. /\ Becomes(ctlq, ctlq', e, ctlq[e]) /\ Becomes(qt, qt', e, qt[e])
          /\ Becomes(mode, mode', e, "err")
      BY <1>4, <3>1, SetBecomes
    <3>3. Parts(e, rq[e], C, ctlq[e], qh[e], qt[e], "err" = "run")
      BY <1>3
    <3> QED
      BY <1>2, <1>4, <2>2, <3>2, <3>3, OneEnd
  <2>4. CASE ~(qt[e] - qh[e] >= n)
    <3> DEFINE g == [ctlq[e] EXCEPT ![qt[e] % n] = x.slot]
    <3>1. ctlq' = Set(ctlq, e, g) /\ qt' = Set(qt, e, qt[e] + 1) /\ UNCHANGED mode
      BY <1>7, <2>4 DEF HandleFrame
    <3>2. qt[e] - qh[e] < n
      <4>1. n \in Nat /\ qt[e] \in Nat /\ qh[e] \in Nat
        BY CtlAssumption DEF CInv, PartsOf, Parts
      <4> QED
        BY <2>4, <4>1
    <3>3. Parts(e, rq[e], C, g, qh[e], qt[e] + 1, up)
      BY <1>3, <2>1, <3>2
    <3> HIDE DEF g
    <3>4. /\ Becomes(ctlq, ctlq', e, g) /\ Becomes(qt, qt', e, qt[e] + 1)
          /\ Becomes(mode, mode', e, mode[e])
      BY <1>4, <3>1, SetBecomes
    <3> QED
      BY <1>2, <1>4, <2>2, <3>3, <3>4, OneEnd
  <2> QED
    BY <2>3, <2>4
<1> QED
  BY <1>5, <1>6, <1>7 DEF HandleWc

\* A frame is read out of the ring.
LEMMA ReadFrameKeeps == ASSUME CInv, NEW e \in Ends, ReadFrame(e) PROVE CInv'
<1> DEFINE x == NextSlot(e)
<1>1. /\ qh[e] # qt[e] /\ qh' = Set(qh, e, qh[e] + 1)
      /\ UNCHANGED <<ctlq, qt, cq, wire, acks>>
      /\ \/ mode' = Set(mode, e, "err") /\ UNCHANGED rq
         \/ rq' = Set(rq, e, Append(rq[e], x)) /\ UNCHANGED mode
  BY DEF ReadFrame, netVars
<1>2. Traffic'
  BY <1>1 DEF CInv, Traffic
<1>3. /\ Parts(e, Append(rq[e], x), cq[e], ctlq[e], qh[e] + 1, qt[e], mode[e] = "run")
      /\ Parts(e, rq[e], cq[e], ctlq[e], qh[e] + 1, qt[e], FALSE)
  BY <1>1, PartsRead DEF CInv, PartsOf, NextSlot
<1> HIDE DEF x
<1>4. /\ Becomes(cq, cq', e, cq[e]) /\ Becomes(ctlq, ctlq', e, ctlq[e])
      /\ Becomes(qh, qh', e, qh[e] + 1) /\ Becomes(qt, qt', e, qt[e])
      /\ DOMAIN rq = Ends /\ DOMAIN mode = Ends
  BY <1>1, SetBecomes DEF CInv, Domains
<1>5. CASE mode' = Set(mode, e, "err") /\ UNCHANGED rq
  <2>1. Becomes(rq, rq', e, rq[e]) /\ Becomes(mode, mode', e, "err")
    BY <1>4, <1>5, SetBecomes
  <2>2. Parts(e, rq[e], cq[e], ctlq[e], qh[e] + 1, qt[e], "err" = "run")
    BY <1>3
  <2> QED
    BY <1>2, <1>4, <2>1, <2>2, OneEnd
<1>6. CASE rq' = Set(rq, e, Append(rq[e], x)) /\ UNCHANGED mode
  <2>1. Becomes(rq, rq', e, Append(rq[e], x)) /\ Becomes(mode, mode', e, mode[e])
    BY <1>4, <1>6, SetBecomes
  <2> QED
    BY <1>2, <1>3, <1>4, <2>1, OneEnd
<1> QED
  BY <1>1, <1>5, <1>6

\* Steps that leave the receiving side alone; they may fail, and send.
LEMMA RestKeeps ==
  ASSUME CInv, UNCHANGED <<rq, cq, ctlq, qh, qt>>, Traffic', DOMAIN mode' = Ends,
         \A e \in Ends : mode'[e] = "run" => mode[e] = "run"
  PROVE  CInv'
<1>1. Domains'
  BY DEF CInv, Domains
<1>2. ASSUME NEW e \in Ends PROVE PartsOf(e)'
  BY DEF CInv, PartsOf, Parts
<1> QED
  BY <1>1, <1>2 DEF CInv

\* Every step keeps the invariant.
LEMMA NextKeepsCInv == CInv /\ [Next]_vars => CInv'
<1> SUFFICES ASSUME CInv, [Next]_vars PROVE CInv'
  OBVIOUS
<1>1. CASE UNCHANGED vars
  <2>1. UNCHANGED <<rq, cq, ctlq, qh, qt, wire, acks, mode>>
    BY <1>1 DEF vars, stepVars, recvVars, netVars
  <2> QED
    BY <2>1, RestKeeps DEF CInv, Traffic, Domains
<1>2. ASSUME NEW e \in Ends, Deliver(e) \/ Acknowledge(e) PROVE CInv'
  BY <1>2, DeliverKeeps, AcknowledgeKeeps
<1>3. ASSUME NEW e \in Ends, EndStep(e) PROVE CInv'
  <2>1. CASE HandleWc(e)
    BY <2>1, HandleKeeps
  <2>2. CASE ReadFrame(e)
    BY <2>2, ReadFrameKeeps
  <2>3. CASE PollReturns(e) \/ SendRefused(e)
    <3>1. UNCHANGED <<rq, cq, ctlq, qh, qt, wire, acks>>
      BY <2>3 DEF PollReturns, SendRefused, recvVars, netVars
    <3>2. \/ UNCHANGED mode \/ mode' = Set(mode, e, "timeout") \/ mode' = Set(mode, e, "err")
      BY <2>3 DEF PollReturns, SendRefused
    <3>3. DOMAIN mode' = Ends /\ \A o \in Ends : mode'[o] = "run" => mode[o] = "run"
      BY <3>2 DEF CInv, Domains, Set
    <3> QED
      BY <3>1, <3>3, RestKeeps DEF CInv, Traffic
  <2>4. CASE SendFrame(e) \/ CreditFrame(e) \/ Write(e)
    <3>1. UNCHANGED <<rq, cq, ctlq, qh, qt, acks, mode>>
      BY <2>4 DEF SendFrame, CreditFrame, Write, recvVars
    <3>2. PICK w \in Tokens : wire' = Set(wire, Peer[e], Append(wire[Peer[e]], w))
      BY <2>4 DEF SendFrame, CreditFrame, Write, Post, Tokens
    <3>3. Peer[e] \in Ends
      BY DEF Peer, Ends
    <3>4. Traffic'
      BY <3>1, <3>2, <3>3, TrafficGrows DEF CInv
    <3> QED
      BY <3>1, <3>4, RestKeeps DEF CInv, Domains
  <2>5. CASE SendDone(e) \/ CreditDone(e) \/ WaitDone(e) \/ Pop(e)
    <3>1. UNCHANGED <<rq, cq, ctlq, qh, qt, wire, acks, mode>>
      BY <2>5 DEF SendDone, CreditDone, WaitDone, Pop, recvVars, netVars
    <3> QED
      BY <3>1, RestKeeps DEF CInv, Traffic, Domains
  <2> QED
    BY <1>3, <2>1, <2>2, <2>3, <2>4, <2>5 DEF EndStep
<1> QED
  BY <1>1, <1>2, <1>3 DEF Next

\* The inductive invariant holds throughout.
THEOREM RingInvariant == Spec => []CInv
<1> QED
  BY InitEstablishesCInv, NextKeepsCInv, PTL DEF Spec

\* A receive slot is at one place, and none is lost while the end is up: neither
\* the immediate posting again of handle_wc (ibx.c:304-319) nor the later one of
\* ibx_ctl_recv posts a slot twice, and the ring modulo its own capacity never
\* overwrites a frame that has not been read.
THEOREM SlotsAreConserved == Spec => []SlotsConserved
<1>1. CInv => SlotsConserved
  <2> SUFFICES ASSUME CInv, NEW e \in Ends
               PROVE  /\ ToSet(rq[e]) \cap InCq(e) = {} /\ ToSet(rq[e]) \cap InRing(e) = {}
                      /\ InCq(e) \cap InRing(e) = {}
                      /\ mode[e] = "run" => ToSet(rq[e]) \cup InCq(e) \cup InRing(e) = Slots(e)
    BY DEF SlotsConserved
  <2>1. InCq(e) = SlotsOf(cq[e])
    BY DEF InCq, SlotsOf, IsRecv
  <2>2. InRing(e) = Span(ctlq[e], NRecv[e], qh[e], qt[e])
    BY DEF InRing, Span
  <2> QED
    BY <2>1, <2>2 DEF CInv, PartsOf, Parts
<1> QED
  BY <1>1, RingInvariant, PTL

-----------------------------------------------------------------------------
(* The messages of a sequence of calls.                                     *)

\* The calls of an end whose messages are taken from a set.
Calls(V) ==
  [op : {"send"}, msg : V] \cup [op : {"recv", "write", "drain", "pop"}]
    \cup [op : {"acquire", "credit"}, count : Int]

\* SendsIn is a function of the number of calls.
LEMMA SendsFunction ==
  ASSUME NEW V, NEW p \in Seq(Calls(V))
  PROVE  /\ SendsIn(p, 0) = << >>
         /\ \A n \in 0..Len(p) : SendsIn(p, n) \in Seq(V)
         /\ \A n \in 1..Len(p) :
              SendsIn(p, n) = IF p[n].op = "send" THEN Append(SendsIn(p, n - 1), p[n].msg)
                              ELSE SendsIn(p, n - 1)
<1> DEFINE W == Seq(V)
           L == Len(p)
           isSend(k) == p[k].op = "send"
           g == [k \in 1..L |-> [w \in W |-> IF isSend(k) THEN Append(w, p[k].msg) ELSE w]]
           IsSends(f) == f = [k \in 0..L |-> IF k = 0 THEN << >>
                                             ELSE IF p[k].op = "send" THEN Append(f[k - 1], p[k].msg)
                                             ELSE f[k - 1]]
           upTo == CHOOSE f : IsSends(f)
<1>1. L \in Nat /\ \A k \in 1..L : p[k] \in Calls(V)
  OBVIOUS
<1>2. \A k \in 1..L : isSend(k) => p[k].msg \in V
  BY <1>1 DEF Calls
<1>3. g \in [1..L -> [W -> W]]
  <2>1. ASSUME NEW k \in 1..L, NEW w \in W
        PROVE (IF isSend(k) THEN Append(w, p[k].msg) ELSE w) \in W
    BY <1>2
  <2> QED
    BY <2>1
<1>4. << >> \in W
  OBVIOUS
<1>5. \A k \in 1..L : \A w \in W :
        g[k][w] = IF isSend(k) THEN Append(w, p[k].msg) ELSE w
  OBVIOUS
<1> HIDE DEF g, W, L
<1>6. PICK f \in [0..L -> W] : Follows(f, L, << >>, g)
  <2>1. L \in Nat
    BY <1>1
  <2> QED
    BY <2>1, <1>3, <1>4, Recursion
<1>7. \A k \in 1..L : f[k] = IF isSend(k) THEN Append(f[k - 1], p[k].msg) ELSE f[k - 1]
  <2>1. \A k \in 1..L : k - 1 \in 0..L /\ f[k - 1] \in W
    BY <1>1
  <2> QED
    BY <1>5, <1>6, <2>1 DEF Follows
<1>8. IsSends(f)
  <2>1. \A k \in 0..L : k = 0 \/ k \in 1..L
    BY <1>1
  <2> QED
    BY <1>6, <1>7, <2>1 DEF Follows
<1>9. IsSends(upTo)
  BY <1>8
<1> HIDE DEF upTo
<1>10. \A k \in 0..L : upTo[k] = f[k]
  <2> DEFINE T == {k \in 0..L : upTo[k] = f[k]}
  <2>1. 0 \in T
    BY <1>1, <1>6, <1>9 DEF Follows
  <2>2. ASSUME NEW k \in 0..L - 1, k \in T PROVE k + 1 \in T
    <3>1. k + 1 \in 1..L /\ k + 1 \in 0..L /\ (k + 1) - 1 = k /\ k + 1 # 0
      BY <1>1
    <3> DEFINE j == k + 1
    <3>2. upTo[j] = IF p[j].op = "send" THEN Append(upTo[j - 1], p[j].msg) ELSE upTo[j - 1]
      BY <1>9, <3>1
    <3>3. upTo[j] = f[j]
      BY <1>7, <2>2, <3>1, <3>2
    <3> QED
      BY <3>1, <3>3
  <2> HIDE DEF T
  <2>3. 0..L \subseteq T
    BY <1>1, <2>1, <2>2, UpTo
  <2> QED
    BY <2>3 DEF T
<1>11. \A n : SendsIn(p, n) = upTo[n]
  BY DEF SendsIn, upTo, L
<1>12. \A n \in 1..L : n \in 0..L /\ n - 1 \in 0..L
  BY <1>1
<1>13. 0 \in 0..L
  BY <1>1
<1>14. SendsIn(p, 0) = << >>
  BY <1>6, <1>10, <1>11, <1>13 DEF Follows
<1>15. \A n \in 0..L : SendsIn(p, n) \in W
  BY <1>10, <1>11
<1>16. \A n \in 1..L :
         SendsIn(p, n) = IF p[n].op = "send" THEN Append(SendsIn(p, n - 1), p[n].msg)
                         ELSE SendsIn(p, n - 1)
  BY <1>7, <1>10, <1>11, <1>12
<1> QED
  BY <1>14, <1>15, <1>16 DEF W, L

\* Calls that come later do not change the messages of the earlier ones.
LEMMA SendsOfLonger ==
  ASSUME NEW V, NEW p \in Seq(Calls(V)), NEW q \in Seq(Calls(V)), NEW n \in 0..Len(p)
  PROVE  SendsIn(p \o q, n) = SendsIn(p, n)
<1> DEFINE r == p \o q
           T == {k \in 0..Len(p) : SendsIn(r, k) = SendsIn(p, k)}
<1>1. /\ r \in Seq(Calls(V)) /\ Len(p) \in Nat /\ Len(p) <= Len(r) /\ Len(r) \in Nat
      /\ \A k \in 1..Len(p) : r[k] = p[k]
  OBVIOUS
<1> HIDE DEF r
<1>2. 0 \in T
  BY <1>1, SendsFunction
<1>3. ASSUME NEW k \in 0..Len(p) - 1, k \in T PROVE k + 1 \in T
  <2>1. k + 1 \in 1..Len(p) /\ k + 1 \in 1..Len(r) /\ (k + 1) - 1 = k /\ k + 1 \in 0..Len(p)
    BY <1>1
  <2>2. SendsIn(r, k) = SendsIn(p, k)
    BY <1>3
  <2> DEFINE j == k + 1
  <2>3. SendsIn(p, j) = IF p[j].op = "send" THEN Append(SendsIn(p, j - 1), p[j].msg)
                        ELSE SendsIn(p, j - 1)
    BY <2>1, SendsFunction
  <2>4. SendsIn(r, j) = IF r[j].op = "send" THEN Append(SendsIn(r, j - 1), r[j].msg)
                        ELSE SendsIn(r, j - 1)
    BY <1>1, <2>1, SendsFunction
  <2>5. r[j] = p[j] /\ j - 1 = k
    BY <1>1, <2>1
  <2>6. SendsIn(r, j) = SendsIn(p, j)
    BY <2>2, <2>3, <2>4, <2>5
  <2> QED
    BY <2>1, <2>6
<1> HIDE DEF T
<1>4. 0..Len(p) \subseteq T
  BY <1>1, <1>2, <1>3, UpTo
<1>5. n \in T
  BY <1>4
<1> QED
  BY <1>5 DEF T, r

-----------------------------------------------------------------------------
(* What the messages are made of.                                           *)

\* Replies, trailers and the description of an end.
LEMMA AnswersWritten ==
  ASSUME NEW m, Len(m.files) \in Nat
  PROVE  /\ Reply_write(ReplyTo(m)) \in Seq(Nat)
         /\ Len(Reply_write(ReplyTo(m))) = 7 + Len(m.files)
         /\ Trailer_write(TrailerOf(m)) \in Seq(Nat)
         /\ Len(Trailer_write(TrailerOf(m))) = 1 + Len(m.files)
<1> DEFINE n == Len(m.files)
           have == [i \in 1..n |-> 0]
           crcs == [i \in 1..n |-> i]
           h == <<1, Window, 6, 5>>
           box == put_str(<<3>>)
           one == <<n>>
<1>1. n \in Nat /\ Window \in Nat
  BY CtlAssumption
<1>2. have \in Seq(Nat) /\ Len(have) = n
  <2>1. have \in [1..n -> Nat]
    OBVIOUS
  <2> QED
    BY <1>1, <2>1
<1>3. crcs \in Seq(Nat) /\ Len(crcs) = n
  <2>1. crcs \in [1..n -> Nat]
    BY <1>1
  <2> QED
    BY <1>1, <2>1
<1>4. h \in Seq(Nat) /\ Len(h) = 4
  BY <1>1
<1>5. box \in Seq(Nat) /\ Len(box) = 2
  <2>1. <<3>> \in Seq(Nat) /\ Len(<<3>>) = 1
    OBVIOUS
  <2> DEFINE three == <<3>>
  <2> HIDE DEF three
  <2>2. three \in Seq(Nat) /\ Len(three) = 1
    BY <2>1 DEF three
  <2>3. put_str(three) \in Seq(Nat) /\ Len(put_str(three)) = 1 + Len(three)
    BY <2>2, StringWritten
  <2>4. Len(put_str(three)) = 2
    BY <2>2, <2>3
  <2> QED
    BY <2>3, <2>4 DEF three
<1>6. one \in Seq(Nat) /\ Len(one) = 1
  BY <1>1
<1>7. /\ ReplyTo(m).slab_size = 1 /\ ReplyTo(m).nslabs = Window /\ ReplyTo(m).pool_addr = 6
      /\ ReplyTo(m).pool_rkey = 5 /\ ReplyTo(m).inbox = <<3>> /\ ReplyTo(m).have = have
      /\ TrailerOf(m).crcs = crcs
  BY DEF ReplyTo, TrailerOf, InfoOfServer
<1>8. /\ Reply_write(ReplyTo(m)) = h \o box \o one \o have
      /\ Trailer_write(TrailerOf(m)) = one \o crcs
  <2> HIDE DEF have, crcs
  <2> QED
    BY <1>2, <1>3, <1>7 DEF Reply_write, Trailer_write
<1> HIDE DEF have, crcs, h, box, one, n
<1>9. one \o crcs \in Seq(Nat) /\ Len(one \o crcs) = Len(one) + Len(crcs)
  BY <1>3, <1>6, Joined
<1>10. h \o box \in Seq(Nat) /\ Len(h \o box) = Len(h) + Len(box)
  BY <1>4, <1>5, Joined
<1> DEFINE hb == h \o box
           hbo == hb \o one
<1>11. hbo \in Seq(Nat) /\ Len(hbo) = Len(hb) + Len(one)
  BY <1>6, <1>10, Joined
<1>12. hbo \o have \in Seq(Nat) /\ Len(hbo \o have) = Len(hbo) + Len(have)
  BY <1>2, <1>11, Joined
<1>13. Len(hb) = Len(h) + Len(box)
  BY <1>10
<1>14. Reply_write(ReplyTo(m)) = hbo \o have
  BY <1>8
<1> HIDE DEF hbo, hb
<1>15. Len(hbo \o have) = 7 + n
  BY <1>1, <1>2, <1>4, <1>5, <1>6, <1>11, <1>12, <1>13
<1>16. Len(one \o crcs) = 1 + n
  BY <1>1, <1>3, <1>6, <1>9
<1> QED
  BY <1>8, <1>9, <1>12, <1>14, <1>15, <1>16 DEF n

\* The description of the server.
LEMMA InfoWritten ==
  /\ PeerInfo_write(InfoOfServer) \in Seq(Nat)
  /\ Len(PeerInfo_write(InfoOfServer)) = 6
<1> DEFINE name == <<1, 2>>
           note == << >>
           inbox == <<3>>
<1>1. /\ name \in Seq(Nat) /\ note \in Seq(Nat) /\ inbox \in Seq(Nat)
      /\ Len(name) = 2 /\ Len(note) = 0 /\ Len(inbox) = 1
  OBVIOUS
<1>2. InfoOfServer.name = name /\ InfoOfServer.note = note /\ InfoOfServer.inbox = inbox
  BY DEF InfoOfServer
<1> HIDE DEF name, note, inbox
<1> DEFINE a == put_str(name)
           b == put_str(note)
           c == put_str(inbox)
<1>3. /\ a \in Seq(Nat) /\ b \in Seq(Nat) /\ c \in Seq(Nat)
      /\ Len(a) = 1 + Len(name) /\ Len(b) = 1 + Len(note) /\ Len(c) = 1 + Len(inbox)
  BY <1>1, StringWritten
<1> DEFINE ab == a \o b
<1>4. PeerInfo_write(InfoOfServer) = ab \o c
  BY <1>2 DEF PeerInfo_write
<1> HIDE DEF a, b, c
<1>5. ab \in Seq(Nat) /\ Len(ab) = Len(a) + Len(b)
  BY <1>3, Joined
<1> HIDE DEF ab
<1>6. ab \o c \in Seq(Nat) /\ Len(ab \o c) = Len(ab) + Len(c)
  BY <1>3, <1>5, Joined
<1>7. Len(ab \o c) = 6
  BY <1>1, <1>3, <1>5, <1>6
<1> QED
  BY <1>4, <1>6, <1>7

-----------------------------------------------------------------------------
(* The calls.                                                               *)

\* One call is a sequence of calls, and so are the two sides of the data plane.
LEMMA CallsTyped ==
  ASSUME NEW V
  PROVE  /\ \A m \in V : Send(m) \in Seq(Calls(V)) /\ Len(Send(m)) = 1
         /\ Recv \in Seq(Calls(V)) /\ << >> \in Seq(Calls(V)) /\ Len(Recv) = 1
         /\ DataOut \in Seq(Calls(V)) /\ DataIn \in Seq(Calls(V))
         /\ Len(DataOut) = 2 * Blocks + 1 /\ Len(DataIn) = 2 * Blocks - 1
<1>1. ASSUME NEW m \in V PROVE Send(m) \in Seq(Calls(V)) /\ Len(Send(m)) = 1
  <2> DEFINE c == [op |-> "send", msg |-> m]
  <2>1. c \in Calls(V)
    BY DEF Calls
  <2> HIDE DEF c
  <2>2. <<c>> \in Seq(Calls(V)) /\ Len(<<c>>) = 1
    BY <2>1
  <2> QED
    BY <2>2 DEF Send, c
<1>2. Recv \in Seq(Calls(V)) /\ Len(Recv) = 1
  <2> DEFINE c == [op |-> "recv"]
  <2>1. c \in Calls(V)
    BY DEF Calls
  <2> HIDE DEF c
  <2>2. <<c>> \in Seq(Calls(V)) /\ Len(<<c>>) = 1
    BY <2>1
  <2> QED
    BY <2>2 DEF Recv, c
<1>3. << >> \in Seq(Calls(V))
  OBVIOUS
<1>4. Blocks \in Nat \ {0} /\ Window \in Nat
  BY CtlAssumption
<1>5. DataOut \in Seq(Calls(V)) /\ Len(DataOut) = 2 * Blocks + 1
  <2> DEFINE call(i) == IF i > 2 * Blocks THEN [op |-> "drain"]
                        ELSE IF i % 2 = 0 THEN [op |-> "write"]
                        ELSE [op |-> "acquire", count |-> i \div 2 + 1 - Window]
             n == 2 * Blocks + 1
  <2>1. n \in Nat
    BY <1>4
  <2>2. ASSUME NEW i \in 1..n PROVE call(i) \in Calls(V)
    <3>1. i \div 2 + 1 - Window \in Int
      BY <1>4, <2>1
    <3>2. [op |-> "acquire", count |-> i \div 2 + 1 - Window] \in Calls(V)
      BY <3>1 DEF Calls
    <3>3. [op |-> "drain"] \in Calls(V) /\ [op |-> "write"] \in Calls(V)
      BY DEF Calls
    <3> QED
      BY <3>2, <3>3
  <2> HIDE DEF call
  <2>3. [i \in 1..n |-> call(i)] \in [1..n -> Calls(V)]
    BY <2>2
  <2>4. DataOut = [i \in 1..n |-> call(i)]
    BY DEF DataOut, call
  <2> HIDE DEF n
  <2>5. DataOut \in Seq(Calls(V)) /\ Len(DataOut) = n
    BY <2>1, <2>3, <2>4
  <2> QED
    BY <2>5 DEF n
<1>6. DataIn \in Seq(Calls(V)) /\ Len(DataIn) = 2 * Blocks - 1
  <2> DEFINE call(i) == IF i % 2 = 1 THEN [op |-> "pop"]
                        ELSE [op |-> "credit", count |-> i \div 2]
             n == 2 * Blocks - 1
  <2>1. n \in Nat
    BY <1>4
  <2>2. ASSUME NEW i \in 1..n PROVE call(i) \in Calls(V)
    <3>1. i \div 2 \in Int
      BY <2>1
    <3>2. [op |-> "credit", count |-> i \div 2] \in Calls(V)
      BY <3>1 DEF Calls
    <3>3. [op |-> "pop"] \in Calls(V)
      BY DEF Calls
    <3> QED
      BY <3>2, <3>3
  <2> HIDE DEF call
  <2>3. [i \in 1..n |-> call(i)] \in [1..n -> Calls(V)]
    BY <2>2
  <2>4. DataIn = [i \in 1..n |-> call(i)]
    BY DEF DataIn, call
  <2> HIDE DEF n
  <2>5. DataIn \in Seq(Calls(V)) /\ Len(DataIn) = n
    BY <2>1, <2>3, <2>4
  <2> QED
    BY <2>5 DEF n
<1> QED
  BY <1>1, <1>2, <1>3, <1>5, <1>6

Mine(e) == Calls(Msgs(VersionOf(e)))

\* What an end is there for.
LEMMA JobTyped ==
  ASSUME job \in Jobs
  PROVE  job.version \in Nat /\ job.manifest \in ManifestType /\ VERSION \in Nat
BY CtlAssumption, ProtoAssumption DEF ManifestType

\* The first message of the client.
LEMMA HelloTyped ==
  ASSUME job \in Jobs
  PROVE  Hello \in Msgs(job.version)
<1>1. encode_bare(job.version, MSG_PROBE) \in Msgs(job.version)
  BY JobTyped, EncodedBare DEF MSG_PROBE
<1>2. encode(job.version, MSG_TRANSFER, Manifest_write(job.manifest)) \in Msgs(job.version)
  <2>1. Manifest_write(job.manifest) \in Seq(Nat)
    BY JobTyped, ManifestWritten
  <2> QED
    BY <2>1, JobTyped, Encoded DEF MSG_TRANSFER
<1> QED
  BY <1>1, <1>2 DEF Hello

\* What the client may send once it has read the answer.
AbortOf(v) == encode(v, MSG_ABORT, Why)
GoOf(v) == encode_bare(v, MSG_GO)
TrailerOfJob == encode(job.version, MSG_TRAILER, Trailer_write(TrailerOf(job.manifest)))

\* And the server, once it has read a message.
Info == encode(VERSION, MSG_PEERINFO, PeerInfo_write(InfoOfServer))
ReplyIs(m) == encode(VERSION, MSG_REPLY, Reply_write(ReplyTo(m)))

\* An abort and a go-ahead are messages of their version.
LEMMA AbortTyped ==
  ASSUME NEW v \in Nat
  PROVE  /\ AbortOf(v) \in Msgs(v) /\ Len(AbortOf(v)) = 4 /\ GoOf(v) \in Msgs(v) /\ Len(GoOf(v)) = 3
<1> DEFINE w == Why
<1>1. w \in Seq(Nat) /\ Len(w) = 1
  BY DEF Why
<1> HIDE DEF w
<1>2. encode(v, MSG_ABORT, w) \in Msgs(v) /\ Len(encode(v, MSG_ABORT, w)) = 3 + Len(w)
  BY <1>1, Encoded DEF MSG_ABORT
<1>3. Len(encode(v, MSG_ABORT, w)) = 4
  BY <1>1, <1>2
<1>4. GoOf(v) \in Msgs(v) /\ Len(GoOf(v)) = 3
  BY EncodedBare DEF MSG_GO, GoOf
<1> QED
  BY <1>2, <1>3, <1>4 DEF AbortOf, w

\* The trailer names every file of the manifest once.
LEMMA TrailerTyped ==
  ASSUME job \in Jobs
  PROVE  /\ TrailerOfJob \in Msgs(job.version) /\ Len(job.manifest.files) \in Nat
         /\ Len(TrailerOfJob) = 4 + Len(job.manifest.files)
<1> DEFINE b == Trailer_write(TrailerOf(job.manifest))
<1>1. job.version \in Nat /\ Len(job.manifest.files) \in Nat
  BY JobTyped, ManifestWritten
<1>2. b \in Seq(Nat) /\ Len(b) = 1 + Len(job.manifest.files)
  BY <1>1, AnswersWritten
<1> HIDE DEF b
<1>3. /\ encode(job.version, MSG_TRAILER, b) \in Msgs(job.version)
      /\ Len(encode(job.version, MSG_TRAILER, b)) = 3 + Len(b)
  BY <1>1, <1>2, Encoded DEF MSG_TRAILER
<1>4. Len(encode(job.version, MSG_TRAILER, b)) = 4 + Len(job.manifest.files)
  BY <1>1, <1>2, <1>3
<1> QED
  BY <1>1, <1>3, <1>4 DEF TrailerOfJob, b

\* The answer to a hello is a message of six numbers behind its header.
LEMMA InfoTyped == Info \in Msgs(VERSION) /\ Len(Info) = 9
<1> DEFINE b == PeerInfo_write(InfoOfServer)
<1>1. b \in Seq(Nat) /\ Len(b) = 6
  BY InfoWritten
<1> HIDE DEF b
<1>2. encode(VERSION, MSG_PEERINFO, b) \in Msgs(VERSION) /\ Len(encode(VERSION, MSG_PEERINFO, b)) = 3 + Len(b)
  BY <1>1, ProtoAssumption, Encoded DEF MSG_PEERINFO
<1>3. Len(encode(VERSION, MSG_PEERINFO, b)) = 9
  BY <1>1, <1>2
<1> QED
  BY <1>2, <1>3 DEF Info, b

\* The reply is as long as the list of files.
LEMMA ReplyTyped ==
  ASSUME NEW m, Len(m.files) \in Nat
  PROVE  ReplyIs(m) \in Msgs(VERSION) /\ Len(ReplyIs(m)) = 10 + Len(m.files)
<1> DEFINE b == Reply_write(ReplyTo(m))
           n == Len(m.files)
<1>1. b \in Seq(Nat) /\ Len(b) = 7 + n /\ n \in Nat
  BY AnswersWritten
<1> HIDE DEF b, n
<1>2. encode(VERSION, MSG_REPLY, b) \in Msgs(VERSION) /\ Len(encode(VERSION, MSG_REPLY, b)) = 3 + Len(b)
  BY <1>1, ProtoAssumption, Encoded DEF MSG_REPLY
<1>3. Len(encode(VERSION, MSG_REPLY, b)) = 10 + n
  BY <1>1, <1>2
<1> QED
  BY <1>2, <1>3 DEF ReplyIs, b, n

\* What follows the answer of the server.
LEMMA ClientSays ==
  ASSUME NEW V, AbortOf(job.version) \in V, GoOf(job.version) \in V, TrailerOfJob \in V, NEW answer
  PROVE  ClientGoesOn(answer) \in Seq(Calls(V))
<1> DEFINE a == Send(AbortOf(job.version))
           b == Send(GoOf(job.version))
           c == Send(TrailerOfJob)
<1>1. \/ ClientGoesOn(answer) = << >> \/ ClientGoesOn(answer) = a
      \/ ClientGoesOn(answer) = b \o DataOut \o c
  BY DEF ClientGoesOn, AbortOf, GoOf, TrailerOfJob
<1>2. /\ a \in Seq(Calls(V)) /\ b \in Seq(Calls(V)) /\ c \in Seq(Calls(V))
      /\ << >> \in Seq(Calls(V)) /\ DataOut \in Seq(Calls(V))
  BY CallsTyped
<1> HIDE DEF a, b, c
<1>3. b \o DataOut \in Seq(Calls(V))
  BY <1>2, Joined
<1>4. (b \o DataOut) \o c \in Seq(Calls(V))
  BY <1>2, <1>3, Joined
<1> QED
  BY <1>1, <1>2, <1>4

\* The client sends only messages of its own version.
LEMMA ClientTyped ==
  ASSUME job \in Jobs, NEW answer
  PROVE  ClientGoesOn(answer) \in Seq(Mine(client))
<1>1. VersionOf(client) = job.version
  BY DEF VersionOf
<1> QED
  BY <1>1, JobTyped, AbortTyped, TrailerTyped, ClientSays DEF Mine

\* What follows a message read by the server: a reply is to a manifest that has no
\* more entries than are accepted.
LEMMA ServerSays ==
  ASSUME NEW V, AbortOf(VERSION) \in V, Info \in V,
         \A m : Len(m.files) \in 0..MaxEntries => ReplyIs(m) \in V,
         NEW msg \in Seq(Nat)
  PROVE  LET d == Heard(server, msg) IN
           Answer(d) \in Seq(Calls(V)) /\ Receive(d) \in Seq(Calls(V))
<1> DEFINE d == Heard(server, msg)
           m == Manifest_read(d.body)
           a == Send(AbortOf(VERSION))
           b == Send(Info)
           c == Send(ReplyIs(m))
<1>1. d.kind = "message" => d.body \in Seq(Nat)
  <2> DEFINE body == SubSeq(msg, 4, Len(msg))
  <2>1. Len(msg) >= 3 => body \in Seq(Nat)
    OBVIOUS
  <2> HIDE DEF body
  <2>2. d = NotIbsend \/ d = VersionMismatch(msg[2])
        \/ (Len(msg) >= 3 /\ d = [kind |-> "message", ty |-> msg[3], body |-> body])
    BY DEF Heard, decode_checked, body
  <2>3. NotIbsend.kind # "message" /\ VersionMismatch(msg[2]).kind # "message"
    BY DEF NotIbsend, VersionMismatch
  <2> QED
    BY <2>1, <2>2, <2>3
<1>2. IsMessage(d, MSG_TRANSFER) /\ m # Refused => ReplyIs(m) \in V
  <2> SUFFICES ASSUME IsMessage(d, MSG_TRANSFER), m # Refused PROVE ReplyIs(m) \in V
    OBVIOUS
  <2>1. d.body \in Seq(Nat)
    BY <1>1 DEF IsMessage
  <2>2. Len(m.files) = d.body[1] /\ d.body[1] \in 0..MaxEntries
    BY <2>1, ManifestRead
  <2> HIDE DEF m
  <2> QED
    BY <2>2
<1>3. \/ Answer(d) = << >> \/ Answer(d) = a \/ Answer(d) = b
      \/ IsMessage(d, MSG_TRANSFER) /\ m # Refused /\ Answer(d) = c \o Recv
  BY DEF Answer, AbortOf, Info, ReplyIs
<1>4. Receive(d) = << >> \/ Receive(d) = DataIn \o Recv
  BY DEF Receive
<1> HIDE DEF d, m
<1>5. /\ a \in Seq(Calls(V)) /\ b \in Seq(Calls(V)) /\ << >> \in Seq(Calls(V))
      /\ (IsMessage(d, MSG_TRANSFER) /\ m # Refused => c \in Seq(Calls(V)))
      /\ Recv \in Seq(Calls(V)) /\ DataIn \in Seq(Calls(V))
  BY <1>2, CallsTyped
<1> HIDE DEF a, b, c
<1>6. DataIn \o Recv \in Seq(Calls(V))
  BY <1>5, Joined
<1>7. IsMessage(d, MSG_TRANSFER) /\ m # Refused => c \o Recv \in Seq(Calls(V))
  BY <1>5, Joined
<1>8. Answer(d) \in Seq(Calls(V)) /\ Receive(d) \in Seq(Calls(V))
  BY <1>3, <1>4, <1>5, <1>6, <1>7
<1> QED
  BY <1>8 DEF d

\* The server sends only messages of its own version.
LEMMA ServerTyped ==
  ASSUME NEW msg \in Seq(Nat)
  PROVE  LET d == Heard(server, msg) IN
           Answer(d) \in Seq(Mine(server)) /\ Receive(d) \in Seq(Mine(server))
<1>1. VERSION \in Nat /\ VersionOf(server) = VERSION
  BY ProtoAssumption, CtlAssumption DEF VersionOf
<1>2. AbortOf(VERSION) \in Msgs(VERSION) /\ Info \in Msgs(VERSION)
  BY <1>1, AbortTyped, InfoTyped
<1>3. \A m : Len(m.files) \in 0..MaxEntries => ReplyIs(m) \in Msgs(VERSION)
  BY ReplyTyped, ProtoAssumption
<1> QED
  BY <1>1, <1>2, <1>3, ServerSays DEF Mine

\* The calls of an end are calls with messages of its version.
LEMMA GoesOnTyped ==
  ASSUME job \in Jobs, NEW e \in Ends, NEW n, NEW msg \in Seq(Nat)
  PROVE  GoesOn(e, n, msg) \in Seq(Mine(e))
<1>1. e = client \/ e = server
  BY DEF Ends
<1>2. << >> \in Seq(Mine(e))
  OBVIOUS
<1>3. CASE e = client
  BY <1>3, ClientTyped, CtlAssumption DEF GoesOn
<1>4. CASE e = server
  <2>1. e # client
    BY <1>4, CtlAssumption
  <2>2. Answer(Heard(e, msg)) \in Seq(Mine(e)) /\ Receive(Heard(e, msg)) \in Seq(Mine(e))
    BY <1>4, ServerTyped
  <2> QED
    BY <1>2, <1>4, <2>1, <2>2 DEF GoesOn
<1> QED
  BY <1>1, <1>3, <1>4

-----------------------------------------------------------------------------
(* Stop and wait: an end has at most one frame under way.                   *)

NoneIn(q, x) == \A i \in 1..Len(q) : q[i] # x
OneIn(q, x) == \A i, j \in 1..Len(q) : q[i] = x /\ q[j] = x => i = j

\* Taking the first.
LEMMA InTail ==
  ASSUME NEW S, NEW q \in Seq(S), NEW x, q # << >>
  PROVE  /\ NoneIn(q, x) => NoneIn(Tail(q), x) /\ Head(q) # x
         /\ OneIn(q, x) => OneIn(Tail(q), x)
         /\ OneIn(q, x) /\ Head(q) = x => NoneIn(Tail(q), x)
         /\ NoneIn(Tail(q), x) /\ Head(q) # x => NoneIn(q, x)
<1>1. /\ Len(q) \in Nat \ {0} /\ Head(q) = q[1] /\ Len(Tail(q)) = Len(q) - 1
      /\ \A i \in 1..Len(q) - 1 : Tail(q)[i] = q[i + 1]
  OBVIOUS
<1>2. 1 \in 1..Len(q) /\ \A i \in 1..Len(q) - 1 : i + 1 \in 1..Len(q) /\ i + 1 # 1
  BY <1>1
<1>3. NoneIn(q, x) => NoneIn(Tail(q), x) /\ Head(q) # x
  BY <1>1, <1>2 DEF NoneIn
<1>4. OneIn(q, x) => OneIn(Tail(q), x)
  BY <1>1, <1>2 DEF OneIn
<1>5. OneIn(q, x) /\ Head(q) = x => NoneIn(Tail(q), x)
  BY <1>1, <1>2 DEF OneIn, NoneIn
<1>6. NoneIn(Tail(q), x) /\ Head(q) # x => NoneIn(q, x)
  <2>1. \A i \in 1..Len(q) : i = 1 \/ (i - 1 \in 1..Len(q) - 1 /\ (i - 1) + 1 = i)
    BY <1>1
  <2>2. \A i \in 1..Len(q) : i = 1 \/ q[i] = Tail(q)[i - 1]
    BY <1>1, <2>1
  <2> QED
    BY <1>1, <2>1, <2>2 DEF NoneIn
<1> QED
  BY <1>3, <1>4, <1>5, <1>6

\* Adding to the end.
LEMMA InAppend ==
  ASSUME NEW S, NEW q \in Seq(S), NEW x, NEW y \in S
  PROVE  /\ NoneIn(q, x) /\ y # x => NoneIn(Append(q, y), x)
         /\ NoneIn(q, x) => OneIn(Append(q, y), x)
         /\ OneIn(q, x) /\ y # x => OneIn(Append(q, y), x)
         /\ NoneIn(Append(q, y), x) => NoneIn(q, x)
<1>1. /\ Len(q) \in Nat /\ Len(Append(q, y)) = Len(q) + 1 /\ Append(q, y)[Len(q) + 1] = y
      /\ \A i \in 1..Len(q) : Append(q, y)[i] = q[i]
  OBVIOUS
<1>2. \A i \in 1..Len(q) + 1 : i \in 1..Len(q) \/ i = Len(q) + 1
  BY <1>1
<1>3. NoneIn(q, x) /\ y # x => NoneIn(Append(q, y), x)
  BY <1>1, <1>2 DEF NoneIn
<1>4. NoneIn(q, x) => OneIn(Append(q, y), x)
  BY <1>1, <1>2 DEF NoneIn, OneIn
<1>5. OneIn(q, x) /\ y # x => OneIn(Append(q, y), x)
  BY <1>1, <1>2 DEF OneIn
<1>6. NoneIn(Append(q, y), x) => NoneIn(q, x)
  <2>1. \A i \in 1..Len(q) : i \in 1..Len(q) + 1
    BY <1>1
  <2> QED
    BY <1>1, <2>1 DEF NoneIn
<1> QED
  BY <1>3, <1>4, <1>5, <1>6

\* The completion of a frame of one's own.
Landed == [kind |-> "sent", what |-> "frame"]

\* Of the frame that is counted by n there is one trace at most: on the wire w,
\* among the acknowledgements a, or among the completions c.
Waiting(n, w, a, c) ==
  /\ n \in {0, 1}
  /\ OneIn(w, "frame") /\ OneIn(a, "frame") /\ OneIn(c, Landed)
  /\ NoneIn(w, "frame") \/ (NoneIn(a, "frame") /\ NoneIn(c, Landed))
  /\ NoneIn(a, "frame") \/ NoneIn(c, Landed)
  /\ n = 0 => NoneIn(w, "frame") /\ NoneIn(a, "frame") /\ NoneIn(c, Landed)

\* The traces move along, and the last one ends the count.
LEMMA WaitingMoves ==
  ASSUME NEW e \in Ends, NEW n, NEW w \in Seq(Tokens), NEW a \in Seq(Tokens),
         NEW c \in Seq(Completions(e)), Waiting(n, w, a, c)
  PROVE  /\ n = 0 => Waiting(n + 1, Append(w, "frame"), a, c)
         /\ Waiting(n, Append(w, "imm"), a, c)
         /\ w # << >> => Waiting(n, Tail(w), Append(a, Head(w)), c)
         /\ a # << >> => Waiting(n, w, Tail(a), Append(c, [kind |-> "sent", what |-> Head(a)]))
         /\ \A x \in Completions(e) : x.kind = "recv" => Waiting(n, w, a, Append(c, x))
         /\ c # << >> => Waiting(IF Head(c) = Landed THEN n - 1 ELSE n, w, a, Tail(c))
<1>1. n = 0 => Waiting(n + 1, Append(w, "frame"), a, c)
  <2> SUFFICES ASSUME n = 0 PROVE Waiting(n + 1, Append(w, "frame"), a, c)
    OBVIOUS
  <2>1. OneIn(Append(w, "frame"), "frame")
    BY InAppend DEF Waiting, Tokens
  <2>2. n + 1 = 1
    OBVIOUS
  <2> QED
    BY <2>1, <2>2 DEF Waiting
<1>2. Waiting(n, Append(w, "imm"), a, c)
  <2>1. "imm" \in Tokens /\ "imm" # "frame"
    BY DEF Tokens
  <2>2. /\ OneIn(Append(w, "imm"), "frame")
        /\ NoneIn(w, "frame") => NoneIn(Append(w, "imm"), "frame")
    BY <2>1, InAppend DEF Waiting
  <2> QED
    BY <2>2 DEF Waiting
<1>3. ASSUME w # << >> PROVE Waiting(n, Tail(w), Append(a, Head(w)), c)
  <2>1. Head(w) \in Tokens
    BY <1>3
  <2>2. CASE Head(w) = "frame"
    <3>1. NoneIn(Tail(w), "frame") /\ OneIn(Tail(w), "frame") /\ ~NoneIn(w, "frame")
      BY <1>3, <2>2, InTail DEF Waiting
    <3>2. NoneIn(a, "frame") /\ NoneIn(c, Landed) /\ n # 0
      BY <3>1 DEF Waiting
    <3>3. OneIn(Append(a, Head(w)), "frame")
      BY <2>1, <3>2, InAppend
    <3> QED
      BY <3>1, <3>2, <3>3 DEF Waiting
  <2>3. CASE Head(w) # "frame"
    <3>1. OneIn(Tail(w), "frame") /\ (NoneIn(w, "frame") => NoneIn(Tail(w), "frame"))
      BY <1>3, InTail DEF Waiting
    <3>2. /\ OneIn(Append(a, Head(w)), "frame")
          /\ NoneIn(a, "frame") => NoneIn(Append(a, Head(w)), "frame")
      BY <2>1, <2>3, InAppend DEF Waiting
    <3> QED
      BY <3>1, <3>2 DEF Waiting
  <2> QED
    BY <2>2, <2>3
<1>4. ASSUME a # << >>
      PROVE Waiting(n, w, Tail(a), Append(c, [kind |-> "sent", what |-> Head(a)]))
  <2> DEFINE x == [kind |-> "sent", what |-> Head(a)]
  <2>1. Head(a) \in Tokens
    BY <1>4
  <2>2. x \in Completions(e) /\ (x = Landed <=> Head(a) = "frame")
    BY <2>1 DEF Completions, Landed
  <2> HIDE DEF x
  <2>3. CASE Head(a) = "frame"
    <3>1. NoneIn(Tail(a), "frame") /\ OneIn(Tail(a), "frame") /\ ~NoneIn(a, "frame")
      BY <1>4, <2>3, InTail DEF Waiting
    <3>2. NoneIn(w, "frame") /\ NoneIn(c, Landed) /\ n # 0
      BY <3>1 DEF Waiting
    <3>3. OneIn(Append(c, x), Landed)
      BY <2>2, <3>2, InAppend
    <3>4. Waiting(n, w, Tail(a), Append(c, x))
      BY <3>1, <3>2, <3>3 DEF Waiting
    <3> QED
      BY <3>4 DEF x
  <2>4. CASE Head(a) # "frame"
    <3>1. OneIn(Tail(a), "frame") /\ (NoneIn(a, "frame") => NoneIn(Tail(a), "frame"))
      BY <1>4, InTail DEF Waiting
    <3>2. OneIn(Append(c, x), Landed) /\ (NoneIn(c, Landed) => NoneIn(Append(c, x), Landed))
      BY <2>2, <2>4, InAppend DEF Waiting
    <3>3. Waiting(n, w, Tail(a), Append(c, x))
      BY <3>1, <3>2 DEF Waiting
    <3> QED
      BY <3>3 DEF x
  <2> QED
    BY <2>3, <2>4
<1>5. ASSUME NEW x \in Completions(e), x.kind = "recv" PROVE Waiting(n, w, a, Append(c, x))
  <2>1. x # Landed
    BY <1>5 DEF Landed
  <2>2. OneIn(Append(c, x), Landed) /\ (NoneIn(c, Landed) => NoneIn(Append(c, x), Landed))
    BY <2>1, InAppend DEF Waiting
  <2> QED
    BY <2>2 DEF Waiting
<1>6. ASSUME c # << >> PROVE Waiting(IF Head(c) = Landed THEN n - 1 ELSE n, w, a, Tail(c))
  <2>1. OneIn(Tail(c), Landed) /\ (NoneIn(c, Landed) => NoneIn(Tail(c), Landed))
    BY <1>6, InTail DEF Waiting
  <2>2. CASE Head(c) = Landed
    <3>1. ~NoneIn(c, Landed) /\ NoneIn(Tail(c), Landed)
      BY <1>6, <2>2, InTail DEF Waiting
    <3>2. n = 1 /\ n - 1 = 0
      BY <3>1 DEF Waiting
    <3> QED
      BY <2>1, <2>2, <3>1, <3>2 DEF Waiting
  <2>3. CASE Head(c) # Landed
    BY <2>1, <2>3 DEF Waiting
  <2> QED
    BY <2>2, <2>3
<1> QED
  BY <1>1, <1>2, <1>3, <1>4, <1>5, <1>6

-----------------------------------------------------------------------------
(* Where an end is in what it sends.  A place is a message and how much of   *)
(* it lies before.                                                          *)

Places == Nat \X Nat

\* The calls p of an end, the one it is in and what it has put into frames.
PlanOk(e, p, k, o) ==
  /\ p \in Seq(Mine(e)) /\ k \in 1..Len(p) + 1 /\ o \in Nat
  /\ o > 0 => /\ k <= Len(p)
              /\ \/ p[k].op = "send" /\ o <= Len(p[k].msg)
                 \/ p[k].op = "credit" /\ o = 1

SentSoFar(p, k, o) == SendsIn(p, IF o > 0 THEN k ELSE k - 1)

\* The place of the next frame.
Cursor(p, k, o) ==
  LET n == Len(SentSoFar(p, k, o)) IN
    IF o > 0 /\ p[k].op = "send" /\ o < Len(p[k].msg) THEN <<n, o>> ELSE <<n + 1, 0>>

\* What of a message goes into the frame at a place.
Piece(M, a) == Smaller(Len(M[a[1]]) - a[2], CTL_PAY)
FrameAt(M, a) ==
  [load |-> SubSeq(M[a[1]], a[2] + 1, a[2] + Piece(M, a)),
   last |-> Len(M[a[1]]) - a[2] = Piece(M, a), cred |-> FALSE]
After(M, a) ==
  IF Len(M[a[1]]) - a[2] = Piece(M, a) THEN <<a[1] + 1, 0>> ELSE <<a[1], a[2] + Piece(M, a)>>

\* The frame x leads from place a to place b; one that announces credit, or none,
\* leads nowhere.
Leads(M, a, x, b) ==
  IF x.cred THEN b = a
  ELSE /\ a \in Places /\ a[1] \in 1..Len(M) /\ a[2] < Len(M[a[1]])
       /\ x = FrameAt(M, a) /\ b = After(M, a)

\* N goes on where M ends.
Grows(M, N) == Len(M) <= Len(N) /\ \A i \in 1..Len(M) : N[i] = M[i]

\* What a call does to the place.
LEMMA SentTyped ==
  ASSUME job \in Jobs, NEW e \in Ends, NEW p, NEW k, NEW o, PlanOk(e, p, k, o)
  PROVE  /\ SentSoFar(p, k, o) \in Seq(Msgs(VersionOf(e)))
         /\ Cursor(p, k, o) \in Places
<1> DEFINE M == SentSoFar(p, k, o)
<1>1. p \in Seq(Calls(Msgs(VersionOf(e)))) /\ Len(p) \in Nat
  BY DEF PlanOk, Mine
<1>2. (IF o > 0 THEN k ELSE k - 1) \in 0..Len(p)
  BY <1>1 DEF PlanOk
<1>3. M \in Seq(Msgs(VersionOf(e)))
  BY <1>1, <1>2, SendsFunction DEF SentSoFar
<1> HIDE DEF M
<1>4. Len(M) \in Nat /\ Len(M) + 1 \in Nat /\ o \in Nat
  BY <1>3 DEF PlanOk
<1>5. Cursor(p, k, o) \in Places
  BY <1>4 DEF Cursor, Places, M
<1> QED
  BY <1>3, <1>5 DEF M

\* A message that is being sent has the version of its sender.
LEMMA MessageTyped ==
  ASSUME NEW e \in Ends, NEW p, NEW k, NEW o, PlanOk(e, p, k, o), k <= Len(p),
         p[k].op = "send"
  PROVE  p[k].msg \in Msgs(VersionOf(e))
<1>1. p \in Seq(Calls(Msgs(VersionOf(e)))) /\ k \in 1..Len(p)
  BY DEF PlanOk, Mine
<1>2. p[k] \in Calls(Msgs(VersionOf(e)))
  BY <1>1, ElementOfSeq
<1> QED
  BY <1>2 DEF Calls

\* A call that returns, its message sent if it has one, leaves it.
LEMMA CallReturns ==
  ASSUME job \in Jobs, NEW e \in Ends, NEW p, NEW k, NEW o, PlanOk(e, p, k, o), k <= Len(p),
         \/ p[k].op # "send" /\ (o = 0 \/ p[k].op = "credit")
         \/ p[k].op = "send" /\ o = Len(p[k].msg)
  PROVE  /\ PlanOk(e, p, k + 1, 0) /\ SentSoFar(p, k + 1, 0) = SentSoFar(p, k, o)
         /\ Cursor(p, k + 1, 0) = Cursor(p, k, o)
<1> DEFINE V == Msgs(VersionOf(e))
<1>1. p \in Seq(Calls(V)) /\ Len(p) \in Nat /\ k \in 1..Len(p) /\ o \in Nat
  BY DEF PlanOk, Mine
<1>2. PlanOk(e, p, k + 1, 0)
  BY <1>1 DEF PlanOk
<1>3. p[k].op = "send" => o > 0
  <2>1. p[k] \in Calls(V)
    BY <1>1
  <2>2. p[k].op = "send" => p[k].msg \in V
    BY <2>1 DEF Calls
  <2>3. p[k].op = "send" => Len(p[k].msg) >= 3
    BY <2>2 DEF Msgs
  <2> QED
    BY <1>1, <2>3
<1>4. SendsIn(p, k) = IF p[k].op = "send" THEN Append(SendsIn(p, k - 1), p[k].msg)
                      ELSE SendsIn(p, k - 1)
  BY <1>1, SendsFunction
<1>5. SentSoFar(p, k + 1, 0) = SendsIn(p, k)
  BY <1>1 DEF SentSoFar
<1>6. SentSoFar(p, k, o) = SendsIn(p, k)
  BY <1>1, <1>3, <1>4 DEF SentSoFar
<1>7. Cursor(p, k + 1, 0) = Cursor(p, k, o)
  BY <1>1, <1>5, <1>6 DEF Cursor
<1> QED
  BY <1>2, <1>5, <1>6, <1>7

\* Nor does a frame of credit move it.
LEMMA CreditPosted ==
  ASSUME NEW e \in Ends, NEW p, NEW k, PlanOk(e, p, k, 0), k <= Len(p), p[k].op = "credit"
  PROVE  /\ PlanOk(e, p, k, 1) /\ SentSoFar(p, k, 1) = SentSoFar(p, k, 0)
         /\ Cursor(p, k, 1) = Cursor(p, k, 0)
<1> DEFINE V == Msgs(VersionOf(e))
<1>1. p \in Seq(Calls(V)) /\ Len(p) \in Nat /\ k \in 1..Len(p)
  BY DEF PlanOk, Mine
<1>2. SendsIn(p, k) = IF p[k].op = "send" THEN Append(SendsIn(p, k - 1), p[k].msg)
                      ELSE SendsIn(p, k - 1)
  BY <1>1, SendsFunction
<1>3. SentSoFar(p, k, 1) = SentSoFar(p, k, 0)
  BY <1>2 DEF SentSoFar
<1>4. Cursor(p, k, 1) = Cursor(p, k, 0)
  BY <1>3 DEF Cursor
<1>5. PlanOk(e, p, k, 1)
  BY DEF PlanOk
<1> QED
  BY <1>3, <1>4, <1>5

\* The calls p with q after them are to the end what p are.
SameWith(e, p, q, k, o) ==
  /\ PlanOk(e, p \o q, k, o) /\ SentSoFar(p \o q, k, o) = SentSoFar(p, k, o)
  /\ Cursor(p \o q, k, o) = Cursor(p, k, o)
  /\ k <= Len(p \o q) /\ (p \o q)[k] = p[k]

\* Further calls do not matter to where the end is.
LEMMA CallsAdded ==
  ASSUME NEW e \in Ends, NEW p, NEW k, NEW o, PlanOk(e, p, k, o), NEW q \in Seq(Mine(e)),
         k <= Len(p)
  PROVE  SameWith(e, p, q, k, o)
<1> DEFINE V == Msgs(VersionOf(e))
           r == p \o q
           n == IF o > 0 THEN k ELSE k - 1
<1>1. p \in Seq(Calls(V)) /\ q \in Seq(Calls(V)) /\ Len(p) \in Nat /\ k \in 1..Len(p) /\ o \in Nat
  BY DEF PlanOk, Mine
<1>2. /\ r \in Seq(Calls(V)) /\ Len(r) = Len(p) + Len(q) /\ Len(q) \in Nat
      /\ \A i \in 1..Len(p) : r[i] = p[i]
  BY <1>1, Joined
<1>3. n \in 0..Len(p)
  BY <1>1
<1>4. SendsIn(r, n) = SendsIn(p, n)
  BY <1>1, <1>3, SendsOfLonger
<1>5. SentSoFar(r, k, o) = SentSoFar(p, k, o)
  BY <1>4 DEF SentSoFar
<1> HIDE DEF r
<1>6. r[k] = p[k] /\ k <= Len(r) /\ k \in 1..Len(r) + 1
  BY <1>1, <1>2
<1>7. Cursor(r, k, o) = Cursor(p, k, o)
  BY <1>5, <1>6 DEF Cursor
<1>8. PlanOk(e, r, k, o)
  BY <1>2, <1>6 DEF PlanOk, Mine
<1> QED
  BY <1>5, <1>6, <1>7, <1>8 DEF r, SameWith

\* A frame of a message leads from the place to the next one; the first frame
\* begins the message.
LEMMA FramePosted ==
  ASSUME job \in Jobs, NEW e \in Ends, NEW p, NEW k, NEW o, PlanOk(e, p, k, o), k <= Len(p),
         p[k].op = "send", o < Len(p[k].msg)
  PROVE  LET left == Len(p[k].msg) - o
             n == Smaller(left, CTL_PAY)
             x == [load |-> SubSeq(p[k].msg, o + 1, o + n), last |-> left = n, cred |-> FALSE]
             M == SentSoFar(p, k, o)
             N == SentSoFar(p, k, o + n)
         IN /\ PlanOk(e, p, k, o + n) /\ Leads(N, Cursor(p, k, o), x, Cursor(p, k, o + n))
            /\ IF o = 0 THEN N = Append(M, p[k].msg) ELSE N = M
            /\ Grows(M, N)
<1> DEFINE V == Msgs(VersionOf(e))
           m == p[k].msg
           left == Len(m) - o
           n == Smaller(left, CTL_PAY)
           x == [load |-> SubSeq(m, o + 1, o + n), last |-> left = n, cred |-> FALSE]
           M == SentSoFar(p, k, o)
           N == SentSoFar(p, k, o + n)
           B == SendsIn(p, k - 1)
<1>1. p \in Seq(Calls(V)) /\ Len(p) \in Nat /\ k \in 1..Len(p) /\ o \in Nat
  BY DEF PlanOk, Mine
<1>2. m \in Seq(Nat) /\ Len(m) \in Nat
  <2>1. p[k] \in Calls(V)
    BY <1>1
  <2>2. m \in V
    BY <2>1 DEF Calls
  <2> QED
    BY <2>2 DEF Msgs
<1>3. n \in Nat /\ 0 < n /\ n <= left /\ left \in Nat
  BY <1>1, <1>2, CtlAssumption DEF Smaller
<1>4. o + n \in Nat /\ o + n > 0 /\ o + n <= Len(m) /\ (left = n <=> ~(o + n < Len(m)))
  <2> HIDE DEF n, m
  <2>1. o + n <= Len(m)
    BY <1>1, <1>2, <1>3
  <2>2. left = n <=> ~(o + n < Len(m))
    BY <1>1, <1>2, <1>3
  <2> QED
    BY <1>1, <1>3, <2>1, <2>2
<1>5. PlanOk(e, p, k, o + n)
  <2> HIDE DEF n
  <2> QED
    BY <1>4 DEF PlanOk
<1>6. N = SendsIn(p, k) /\ M = IF o = 0 THEN B ELSE SendsIn(p, k)
  <2> HIDE DEF n
  <2> QED
    BY <1>1, <1>4 DEF SentSoFar
<1>7. SendsIn(p, k) = Append(B, m)
  BY <1>1, SendsFunction
<1>8. B \in Seq(V)
  <2>1. k - 1 \in 0..Len(p)
    BY <1>1
  <2> QED
    BY <1>1, <2>1, SendsFunction
<1> HIDE DEF M, N, B, n
<1>9. m \in V
  <2>1. p[k] \in Calls(V)
    BY <1>1
  <2> QED
    BY <2>1 DEF Calls
<1> HIDE DEF V, m
<1>10. /\ Len(N) = Len(B) + 1 /\ Len(B) \in Nat /\ N[Len(N)] = m
       /\ \A i \in 1..Len(B) : N[i] = B[i]
  BY <1>6, <1>7, <1>8, <1>9
<1>11. Grows(M, N) /\ (IF o = 0 THEN N = Append(M, m) ELSE N = M)
  BY <1>1, <1>6, <1>7, <1>10 DEF Grows
<1> DEFINE a == <<Len(N), o>>
<1>12. Cursor(p, k, o) = a
  <2>1. CASE o = 0
    <3>1. Cursor(p, k, o) = <<Len(M) + 1, 0>>
      BY <2>1 DEF Cursor, M
    <3> QED
      BY <1>6, <1>10, <2>1, <3>1
  <2>2. CASE o # 0
    <3>1. Cursor(p, k, o) = <<Len(M), o>>
      BY <1>1, <2>2 DEF Cursor, M, m
    <3> QED
      BY <1>6, <2>2, <3>1
  <2> QED
    BY <2>1, <2>2
<1>13. a \in Places /\ a[1] = Len(N) /\ a[2] = o /\ a[1] \in 1..Len(N)
  BY <1>1, <1>10 DEF Places
<1> HIDE DEF a
<1>14. N[a[1]] = m /\ Len(N[a[1]]) - a[2] = left /\ Piece(N, a) = n
  BY <1>10, <1>13 DEF Piece, n
<1>15. x = FrameAt(N, a)
  BY <1>13, <1>14 DEF FrameAt
<1>16. Cursor(p, k, o + n) = After(N, a)
  <2>1. Cursor(p, k, o + n) = IF o + n < Len(m) THEN <<Len(N), o + n>> ELSE <<Len(N) + 1, 0>>
    BY <1>4 DEF Cursor, N, m
  <2> QED
    BY <1>4, <1>13, <1>14, <2>1 DEF After
<1>17. a[2] < Len(N[a[1]]) /\ ~x.cred
  BY <1>13, <1>14 DEF m
<1>18. Leads(N, a, x, After(N, a))
  <2> HIDE DEF x
  <2> QED
    BY <1>13, <1>15, <1>17 DEF Leads
<1> QED
  BY <1>5, <1>11, <1>12, <1>16, <1>18 DEF M, N, m, n, left

\* A message that is sent stays as it is.
LEMMA LeadsOn ==
  ASSUME NEW S, NEW M \in Seq(S), NEW N \in Seq(S), Grows(M, N), NEW a, NEW x, NEW b,
         Leads(M, a, x, b)
  PROVE  Leads(N, a, x, b)
<1>1. CASE x.cred
  BY <1>1 DEF Leads
<1>2. CASE ~x.cred
  <2>1. Len(M) \in Nat /\ Len(N) \in Nat /\ a[1] \in 1..Len(M)
    BY <1>2 DEF Leads
  <2>2. a[1] \in 1..Len(N) /\ N[a[1]] = M[a[1]]
    BY <2>1 DEF Grows
  <2>3. FrameAt(N, a) = FrameAt(M, a) /\ After(N, a) = After(M, a)
    BY <2>2 DEF FrameAt, After, Piece
  <2> QED
    BY <1>2, <2>2, <2>3 DEF Leads
<1> QED
  BY <1>1, <1>2

\* The frames f[lo], ..., f[hi - 1] lead from place a to place b.
Path(M, a, f, lo, hi, b) ==
  \E P \in [lo..hi -> Places] :
    /\ P[lo] = a /\ P[hi] = b
    /\ \A i \in lo..hi - 1 : Leads(M, P[i], f[i], P[i + 1])

\* No frame leads nowhere.
LEMMA PathNone ==
  ASSUME NEW M, NEW a \in Places, NEW f, NEW lo \in Int
  PROVE  Path(M, a, f, lo, lo, a)
<1> DEFINE P == [i \in lo..lo |-> a]
<1>1. P \in [lo..lo -> Places] /\ P[lo] = a /\ lo..lo - 1 = {}
  OBVIOUS
<1> HIDE DEF P
<1> QED
  BY <1>1 DEF Path

\* The first frame of a path is the one at its beginning.
LEMMA PathPop ==
  ASSUME NEW M, NEW a, NEW f, NEW lo \in Int, NEW hi \in Int, NEW b, lo < hi,
         Path(M, a, f, lo, hi, b)
  PROVE  \E c \in Places : Leads(M, a, f[lo], c) /\ Path(M, c, f, lo + 1, hi, b)
<1>1. PICK P \in [lo..hi -> Places] :
        /\ P[lo] = a /\ P[hi] = b
        /\ \A i \in lo..hi - 1 : Leads(M, P[i], f[i], P[i + 1])
  BY DEF Path
<1> DEFINE Q == [i \in lo + 1..hi |-> P[i]]
<1>2. lo \in lo..hi - 1 /\ lo + 1 \in lo..hi /\ lo + 1 \in lo + 1..hi /\ hi \in lo + 1..hi
  OBVIOUS
<1>3. \A i \in lo + 1..hi : i \in lo..hi
  OBVIOUS
<1>4. Q \in [lo + 1..hi -> Places] /\ \A i \in lo + 1..hi : Q[i] = P[i]
  BY <1>3
<1>5. \A i \in lo + 1..hi - 1 : i \in lo..hi - 1 /\ i \in lo + 1..hi /\ i + 1 \in lo + 1..hi
  OBVIOUS
<1> HIDE DEF Q
<1>6. \A i \in lo + 1..hi - 1 : Leads(M, Q[i], f[i], Q[i + 1])
  BY <1>1, <1>4, <1>5
<1>7. Path(M, P[lo + 1], f, lo + 1, hi, b)
  BY <1>1, <1>2, <1>4, <1>6 DEF Path
<1>8. Leads(M, a, f[lo], P[lo + 1]) /\ P[lo + 1] \in Places
  BY <1>1, <1>2
<1> QED
  BY <1>7, <1>8

\* A path goes on with a frame that leads on from its end; what is not on it may
\* change, and messages may follow.
LEMMA PathPush ==
  ASSUME NEW M, NEW a, NEW f, NEW lo \in Int, NEW hi \in Int, NEW b, lo <= hi,
         Path(M, a, f, lo, hi, b),
         NEW g, \A i \in lo..hi - 1 : g[i] = f[i],
         NEW c \in Places, Leads(M, b, g[hi], c)
  PROVE  Path(M, a, g, lo, hi + 1, c)
<1>1. PICK P \in [lo..hi -> Places] :
        /\ P[lo] = a /\ P[hi] = b
        /\ \A i \in lo..hi - 1 : Leads(M, P[i], f[i], P[i + 1])
  BY DEF Path
<1> DEFINE Q == [i \in lo..hi + 1 |-> IF i = hi + 1 THEN c ELSE P[i]]
<1>2. \A i \in lo..hi + 1 : i = hi + 1 \/ i \in lo..hi
  OBVIOUS
<1>3. \A i \in lo..hi : i \in lo..hi + 1 /\ i # hi + 1
  OBVIOUS
<1>4. Q \in [lo..hi + 1 -> Places]
  BY <1>2
<1>5. Q[hi + 1] = c /\ \A i \in lo..hi : Q[i] = P[i]
  BY <1>3
<1> HIDE DEF Q
<1>6. ASSUME NEW i \in lo..(hi + 1) - 1 PROVE Leads(M, Q[i], g[i], Q[i + 1])
  <2>1. CASE i = hi
    <3>1. hi \in lo..hi
      OBVIOUS
    <3> QED
      BY <1>1, <1>5, <2>1, <3>1
  <2>2. CASE i # hi
    <3>1. i \in lo..hi - 1 /\ i \in lo..hi /\ i + 1 \in lo..hi
      BY <2>2
    <3> QED
      BY <1>1, <1>5, <3>1
  <2> QED
    BY <2>1, <2>2
<1>7. lo \in lo..hi
  OBVIOUS
<1>8. Q[lo] = a
  BY <1>1, <1>5, <1>7
<1> QED
  BY <1>4, <1>5, <1>6, <1>8 DEF Path

\* A path stays one when only frames off it change and messages are added.
LEMMA PathStays ==
  ASSUME NEW S, NEW M \in Seq(S), NEW N \in Seq(S), Grows(M, N),
         NEW a, NEW f, NEW lo, NEW hi, NEW b, Path(M, a, f, lo, hi, b),
         NEW g, \A i \in lo..hi - 1 : g[i] = f[i]
  PROVE  Path(N, a, g, lo, hi, b)
<1>1. PICK P \in [lo..hi -> Places] :
        /\ P[lo] = a /\ P[hi] = b
        /\ \A i \in lo..hi - 1 : Leads(M, P[i], f[i], P[i + 1])
  BY DEF Path
<1>2. \A i \in lo..hi - 1 : Leads(N, P[i], g[i], P[i + 1])
  BY <1>1, LeadsOn
<1> QED
  BY <1>1, <1>2 DEF Path

\* It may be numbered anew.
LEMMA PathShifts ==
  ASSUME NEW M, NEW a, NEW f, NEW lo \in Int, NEW hi \in Int, NEW b, lo <= hi,
         Path(M, a, f, lo, hi, b),
         NEW g, \A i \in lo..hi - 1 : g[i - 1] = f[i]
  PROVE  Path(M, a, g, lo - 1, hi - 1, b)
<1>1. PICK P \in [lo..hi -> Places] :
        /\ P[lo] = a /\ P[hi] = b
        /\ \A i \in lo..hi - 1 : Leads(M, P[i], f[i], P[i + 1])
  BY DEF Path
<1> DEFINE Q == [i \in lo - 1..hi - 1 |-> P[i + 1]]
<1>2. \A i \in lo - 1..hi - 1 : i + 1 \in lo..hi
  OBVIOUS
<1>3. Q \in [lo - 1..hi - 1 -> Places] /\ \A i \in lo - 1..hi - 1 : Q[i] = P[i + 1]
  BY <1>2
<1> HIDE DEF Q
<1>4. ASSUME NEW i \in lo - 1..(hi - 1) - 1 PROVE Leads(M, Q[i], g[i], Q[i + 1])
  <2>1. /\ i + 1 \in lo..hi - 1 /\ i \in lo - 1..hi - 1 /\ i + 1 \in lo - 1..hi - 1
        /\ (i + 1) - 1 = i
    OBVIOUS
  <2> DEFINE j == i + 1
  <2>2. Leads(M, P[j], f[j], P[j + 1]) /\ g[j - 1] = f[j]
    BY <1>1, <2>1
  <2>3. Q[i] = P[j] /\ Q[i + 1] = P[j + 1] /\ g[i] = f[j]
    BY <1>3, <2>1, <2>2
  <2> QED
    BY <2>2, <2>3
<1>5. lo - 1 \in lo - 1..hi - 1 /\ hi - 1 \in lo - 1..hi - 1 /\ (lo - 1) + 1 = lo /\ (hi - 1) + 1 = hi
  OBVIOUS
<1>6. Q[lo - 1] = a /\ Q[hi - 1] = b
  BY <1>1, <1>3, <1>5
<1> QED
  BY <1>3, <1>4, <1>6 DEF Path

-----------------------------------------------------------------------------
(* What an end is still to read: the frames in its ring, those among its      *)
(* completions, and the one on the wire.                                     *)

\* Stands for a frame where there is none.
Skip == [load |-> << >>, last |-> FALSE, cred |-> TRUE]

\* The frames in a ring f of n places, and those of the completions c; s is what
\* the slots hold.
RingFrames(s, f, n) == [i \in Nat |-> s[f[i % n]]]
Data(x) == x.kind = "recv" /\ x.what = "frame"
CqFrame(s, x) == IF Data(x) THEN s[x.slot] ELSE Skip
CqFrames(s, c) == [i \in 1..Len(c) |-> CqFrame(s, c[i])]

\* They lead, one after the other, from a, where the reader is in the messages M,
\* to z, where the sender is; x is the frame on the wire.
Stream(M, a, s, f, n, h, t, c, x, z) ==
  /\ \A i \in h..t - 1 : ~s[f[i % n]].cred
  /\ \E b \in Places : \E d \in Places :
       /\ Path(M, a, RingFrames(s, f, n), h, t, b)
       /\ Path(M, b, CqFrames(s, c), 1, Len(c) + 1, d)
       /\ Leads(M, d, x, z)

\* A frame goes on the wire.
LEMMA StreamPost ==
  ASSUME NEW S, NEW M \in Seq(S), NEW N \in Seq(S), Grows(M, N),
         NEW a, NEW s, NEW f, NEW n, NEW h, NEW t, NEW c, NEW z,
         Stream(M, a, s, f, n, h, t, c, Skip, z),
         NEW x, NEW y, Leads(N, z, x, y)
  PROVE  Stream(N, a, s, f, n, h, t, c, x, y)
<1>1. PICK b \in Places : \E d \in Places :
        /\ Path(M, a, RingFrames(s, f, n), h, t, b)
        /\ Path(M, b, CqFrames(s, c), 1, Len(c) + 1, d)
        /\ Leads(M, d, Skip, z)
  BY DEF Stream
<1>2. PICK d \in Places :
        /\ Path(M, a, RingFrames(s, f, n), h, t, b)
        /\ Path(M, b, CqFrames(s, c), 1, Len(c) + 1, d)
        /\ Leads(M, d, Skip, z)
  BY <1>1
<1>3. z = d
  BY <1>2 DEF Leads, Skip
<1>4. Path(N, a, RingFrames(s, f, n), h, t, b)
  BY <1>2, PathStays
<1>5. Path(N, b, CqFrames(s, c), 1, Len(c) + 1, d)
  BY <1>2, PathStays
<1>6. \A i \in h..t - 1 : ~s[f[i % n]].cred
  BY DEF Stream
<1> QED
  BY <1>3, <1>4, <1>5, <1>6 DEF Stream

\* A completion that is no frame changes nothing.
LEMMA StreamOther ==
  ASSUME NEW S, NEW M \in Seq(S), NEW a, NEW s, NEW f, NEW n, NEW h, NEW t,
         NEW T, NEW c \in Seq(T), NEW x, NEW z, Stream(M, a, s, f, n, h, t, c, x, z),
         NEW y \in T, ~Data(y)
  PROVE  Stream(M, a, s, f, n, h, t, Append(c, y), x, z)
<1>1. PICK b \in Places : \E d \in Places :
        /\ Path(M, a, RingFrames(s, f, n), h, t, b)
        /\ Path(M, b, CqFrames(s, c), 1, Len(c) + 1, d)
        /\ Leads(M, d, x, z)
  BY DEF Stream
<1>2. PICK d \in Places :
        /\ Path(M, a, RingFrames(s, f, n), h, t, b)
        /\ Path(M, b, CqFrames(s, c), 1, Len(c) + 1, d)
        /\ Leads(M, d, x, z)
  BY <1>1
<1> DEFINE u == Append(c, y)
           k == Len(c)
<1>3. /\ k \in Nat /\ Len(u) = k + 1 /\ u[k + 1] = y /\ \A i \in 1..k : u[i] = c[i]
  OBVIOUS
<1> HIDE DEF u
<1>4. /\ \A i \in 1..k : CqFrames(s, u)[i] = CqFrames(s, c)[i]
      /\ CqFrames(s, u)[k + 1] = Skip
  <2>1. \A i \in 1..k : i \in 1..k + 1
    BY <1>3
  <2>2. k + 1 \in 1..k + 1
    BY <1>3
  <2> HIDE DEF k
  <2>3. CqFrames(s, u) = [i \in 1..k + 1 |-> CqFrame(s, u[i])]
    BY <1>3 DEF CqFrames
  <2>4. CqFrames(s, c) = [i \in 1..k |-> CqFrame(s, c[i])]
    BY DEF CqFrames, k
  <2>5. CqFrame(s, y) = Skip
    BY DEF CqFrame
  <2> QED
    BY <1>3, <2>1, <2>2, <2>3, <2>4, <2>5
<1>5. Leads(M, d, CqFrames(s, u)[k + 1], d)
  BY <1>4 DEF Leads, Skip
<1> DEFINE F == CqFrames(s, c)
           G == CqFrames(s, u)
           hi == k + 1
<1>6. 1 <= hi /\ hi \in Int /\ \A i \in 1..hi - 1 : G[i] = F[i]
  BY <1>3, <1>4
<1>7. Path(M, b, F, 1, hi, d) /\ Leads(M, d, G[hi], d)
  BY <1>2, <1>5
<1> HIDE DEF F, G, hi
<1>8. Path(M, b, G, 1, hi + 1, d)
  BY <1>6, <1>7, PathPush
<1>9. \A i \in h..t - 1 : ~s[f[i % n]].cred
  BY DEF Stream
<1>10. hi + 1 = Len(u) + 1
  BY <1>3 DEF hi
<1>11. Stream(M, a, s, f, n, h, t, u, x, z)
  BY <1>2, <1>8, <1>9, <1>10 DEF Stream, G
<1> QED
  BY <1>11 DEF u

\* The frame on the wire is put into a slot that no other one is in.
LEMMA StreamDeliver ==
  ASSUME NEW S, NEW M \in Seq(S), NEW a, NEW n \in Nat \ {0}, NEW h \in Nat, NEW t \in Nat,
         NEW I, NEW s, DOMAIN s = I, NEW f,
         NEW T, NEW c \in Seq(T), NEW x, NEW z \in Places, Stream(M, a, s, f, n, h, t, c, x, z),
         NEW y \in T, Data(y), y.slot \in I, y.slot \notin SlotsOf(c), y.slot \notin Span(f, n, h, t)
  PROVE  Stream(M, a, [s EXCEPT ![y.slot] = x], f, n, h, t, Append(c, y), Skip, z)
<1>1. PICK b \in Places : \E d \in Places :
        /\ Path(M, a, RingFrames(s, f, n), h, t, b)
        /\ Path(M, b, CqFrames(s, c), 1, Len(c) + 1, d)
        /\ Leads(M, d, x, z)
  BY DEF Stream
<1>2. PICK d \in Places :
        /\ Path(M, a, RingFrames(s, f, n), h, t, b)
        /\ Path(M, b, CqFrames(s, c), 1, Len(c) + 1, d)
        /\ Leads(M, d, x, z)
  BY <1>1
<1> DEFINE u == Append(c, y)
           k == Len(c)
           r == [s EXCEPT ![y.slot] = x]
<1>3. /\ k \in Nat /\ Len(u) = k + 1 /\ u[k + 1] = y /\ \A i \in 1..k : u[i] = c[i]
  OBVIOUS
<1>4. r[y.slot] = x /\ \A i \in I \ {y.slot} : r[i] = s[i]
  OBVIOUS
<1>5. \A i : i # y.slot => r[i] = s[i]
  OBVIOUS
<1> HIDE DEF u, r
<1>6. \A i \in h..t - 1 : r[f[i % n]] = s[f[i % n]]
  BY <1>5 DEF Span
<1>7. \A i \in 1..k : Data(c[i]) => c[i].slot # y.slot
  BY DEF SlotsOf, Data, IsRecv
<1>8. /\ \A i \in 1..k : CqFrames(r, u)[i] = CqFrames(s, c)[i]
      /\ CqFrames(r, u)[k + 1] = x
  <2>1. \A i \in 1..k : i \in 1..k + 1
    BY <1>3
  <2>2. k + 1 \in 1..k + 1
    BY <1>3
  <2>6. \A i \in 1..k : CqFrame(r, c[i]) = CqFrame(s, c[i])
    BY <1>5, <1>7 DEF CqFrame
  <2> HIDE DEF k
  <2>3. CqFrames(r, u) = [i \in 1..k + 1 |-> CqFrame(r, u[i])]
    BY <1>3 DEF CqFrames
  <2>4. CqFrames(s, c) = [i \in 1..k |-> CqFrame(s, c[i])]
    BY DEF CqFrames, k
  <2>5. CqFrame(r, y) = x
    BY <1>4 DEF CqFrame
  <2> QED
    BY <1>3, <2>1, <2>2, <2>3, <2>4, <2>5, <2>6
<1>9. \A i \in h..t - 1 : RingFrames(r, f, n)[i] = RingFrames(s, f, n)[i]
  <2>1. \A i \in h..t - 1 : i \in Nat
    OBVIOUS
  <2> QED
    BY <1>6, <2>1 DEF RingFrames
<1> DEFINE F == CqFrames(s, c)
           G == CqFrames(r, u)
           hi == k + 1
<1>10. 1 <= hi /\ hi \in Int /\ \A i \in 1..hi - 1 : G[i] = F[i]
  BY <1>3, <1>8
<1>11. Path(M, b, F, 1, hi, d) /\ Leads(M, d, G[hi], z)
  BY <1>2, <1>8
<1> HIDE DEF F, G, hi
<1>12. Path(M, b, G, 1, hi + 1, z)
  BY <1>10, <1>11, PathPush
<1>13. Path(M, a, RingFrames(r, f, n), h, t, b)
  <2>1. Grows(M, M)
    BY DEF Grows
  <2> QED
    BY <1>2, <1>9, <2>1, PathStays
<1>14. \A i \in h..t - 1 : ~r[f[i % n]].cred
  BY <1>6 DEF Stream
<1>15. hi + 1 = Len(u) + 1
  BY <1>3 DEF hi
<1>16. Leads(M, z, Skip, z)
  BY DEF Leads, Skip
<1>17. Stream(M, a, r, f, n, h, t, u, Skip, z)
  BY <1>12, <1>13, <1>14, <1>15, <1>16 DEF Stream, G
<1> QED
  BY <1>17 DEF u, r

\* The frames of the completions but for the first.
LEMMA CqFramesTail ==
  ASSUME NEW T, NEW c \in Seq(T), c # << >>, NEW s, NEW M, NEW b,
         NEW d, Path(M, b, CqFrames(s, c), 1, Len(c) + 1, d)
  PROVE  \E g \in Places :
           /\ Leads(M, b, CqFrame(s, Head(c)), g)
           /\ Path(M, g, CqFrames(s, Tail(c)), 1, Len(Tail(c)) + 1, d)
<1> DEFINE u == Tail(c)
           k == Len(c)
           F == CqFrames(s, c)
           G == CqFrames(s, u)
<1>1. /\ k \in Nat \ {0} /\ Len(u) = k - 1 /\ Head(c) = c[1]
      /\ \A i \in 1..k - 1 : u[i] = c[i + 1]
  OBVIOUS
<1> HIDE DEF u
<1>2. F[1] = CqFrame(s, Head(c))
  <2>1. 1 \in 1..k
    BY <1>1
  <2> QED
    BY <1>1, <2>1 DEF CqFrames
<1>3. \A i \in 2..(k + 1) - 1 : G[i - 1] = F[i]
  <2> TAKE i \in 2..(k + 1) - 1
  <2>1. i - 1 \in 1..k - 1 /\ i \in 1..k /\ (i - 1) + 1 = i
    BY <1>1
  <2>2. u[i - 1] = c[i]
    BY <1>1, <2>1
  <2>3. F[i] = CqFrame(s, c[i])
    BY <2>1 DEF CqFrames
  <2>4. G[i - 1] = CqFrame(s, u[i - 1])
    <3> DEFINE j == i - 1
    <3>1. j \in 1..Len(u)
      BY <1>1, <2>1
    <3> HIDE DEF j
    <3>2. G[j] = CqFrame(s, u[j])
      BY <3>1 DEF CqFrames
    <3> QED
      BY <3>2 DEF j
  <2> QED
    BY <2>2, <2>3, <2>4
<1> DEFINE hi == k + 1
<1>4. hi \in Int /\ 1 < hi /\ 2 <= hi /\ Path(M, b, F, 1, hi, d)
  BY <1>1
<1>5. \A i \in 2..hi - 1 : G[i - 1] = F[i]
  BY <1>3
<1>6. hi - 1 = Len(u) + 1
  BY <1>1
<1> HIDE DEF F, G, hi
<1>7. PICK g \in Places : Leads(M, b, F[1], g) /\ Path(M, g, F, 1 + 1, hi, d)
  BY <1>4, PathPop
<1>8. Path(M, g, F, 2, hi, d)
  BY <1>7
<1>9. Path(M, g, G, 2 - 1, hi - 1, d)
  BY <1>4, <1>5, <1>8, PathShifts
<1>10. Path(M, g, G, 1, Len(u) + 1, d)
  BY <1>6, <1>9
<1> QED
  BY <1>2, <1>7, <1>10 DEF u, G

\* A completion that carries no frame of a message is handled.
LEMMA StreamHandle ==
  ASSUME NEW M, NEW a, NEW s, NEW f, NEW n, NEW h, NEW t, NEW T, NEW c \in Seq(T), c # << >>,
         NEW x, NEW z, Stream(M, a, s, f, n, h, t, c, x, z), CqFrame(s, Head(c)).cred
  PROVE  Stream(M, a, s, f, n, h, t, Tail(c), x, z)
<1>1. PICK b \in Places : \E d \in Places :
        /\ Path(M, a, RingFrames(s, f, n), h, t, b)
        /\ Path(M, b, CqFrames(s, c), 1, Len(c) + 1, d)
        /\ Leads(M, d, x, z)
  BY DEF Stream
<1>2. PICK d \in Places :
        /\ Path(M, a, RingFrames(s, f, n), h, t, b)
        /\ Path(M, b, CqFrames(s, c), 1, Len(c) + 1, d)
        /\ Leads(M, d, x, z)
  BY <1>1
<1>3. PICK g \in Places :
        /\ Leads(M, b, CqFrame(s, Head(c)), g)
        /\ Path(M, g, CqFrames(s, Tail(c)), 1, Len(Tail(c)) + 1, d)
  BY <1>2, CqFramesTail
<1>4. g = b
  BY <1>3 DEF Leads
<1> QED
  BY <1>2, <1>3, <1>4 DEF Stream

\* A frame of a message goes from the completions into the ring.
LEMMA StreamRing ==
  ASSUME NEW M, NEW a, NEW s, NEW n \in Nat \ {0}, NEW h \in Nat, NEW t \in Nat,
         h <= t, t - h < n, NEW I, NEW f \in [0..n - 1 -> I],
         NEW T, NEW c \in Seq(T), c # << >>, NEW x, NEW z, Stream(M, a, s, f, n, h, t, c, x, z),
         Data(Head(c)), ~s[Head(c).slot].cred
  PROVE  Stream(M, a, s, [f EXCEPT ![t % n] = Head(c).slot], n, h, t + 1, Tail(c), x, z)
<1> DEFINE y == Head(c).slot
           g == [f EXCEPT ![t % n] = y]
           F == RingFrames(s, f, n)
           G == RingFrames(s, g, n)
<1>1. PICK b \in Places : \E d \in Places :
        /\ Path(M, a, F, h, t, b)
        /\ Path(M, b, CqFrames(s, c), 1, Len(c) + 1, d)
        /\ Leads(M, d, x, z)
  BY DEF Stream
<1>2. PICK d \in Places :
        /\ Path(M, a, F, h, t, b)
        /\ Path(M, b, CqFrames(s, c), 1, Len(c) + 1, d)
        /\ Leads(M, d, x, z)
  BY <1>1
<1>3. PICK e \in Places :
        /\ Leads(M, b, CqFrame(s, Head(c)), e)
        /\ Path(M, e, CqFrames(s, Tail(c)), 1, Len(Tail(c)) + 1, d)
  BY <1>2, CqFramesTail
<1>4. CqFrame(s, Head(c)) = s[y]
  BY DEF CqFrame
<1>5. \A i \in h..t - 1 : i \in Nat /\ i % n \in 0..n - 1 /\ i % n # t % n
  <2> TAKE i \in h..t - 1
  <2>1. i \in Nat /\ i < t /\ t < i + n
    OBVIOUS
  <2>2. i % n # t % n
    BY <2>1, SlotsDistinct
  <2> QED
    BY <2>1, <2>2
<1>6. t % n \in 0..n - 1 /\ \A i \in h..(t + 1) - 1 : i \in h..t - 1 \/ i = t
  OBVIOUS
<1>7. g[t % n] = y /\ \A i \in h..t - 1 : g[i % n] = f[i % n]
  BY <1>5, <1>6
<1> HIDE DEF g, y
<1>8. \A i \in h..(t + 1) - 1 : ~s[g[i % n]].cred
  <2>1. \A i \in h..t - 1 : ~s[f[i % n]].cred
    BY DEF Stream
  <2> QED
    BY <1>6, <1>7, <2>1 DEF y
<1>9. G[t] = s[y] /\ \A i \in h..t - 1 : G[i] = F[i]
  BY <1>5, <1>7 DEF RingFrames
<1>10. Path(M, a, F, h, t, b) /\ Leads(M, b, G[t], e)
  BY <1>2, <1>3, <1>4, <1>9
<1> HIDE DEF F, G
<1>11. Path(M, a, G, h, t + 1, e)
  BY <1>9, <1>10, PathPush
<1>12. Stream(M, a, s, g, n, h, t + 1, Tail(c), x, z)
  BY <1>2, <1>3, <1>8, <1>11 DEF Stream, G
<1> QED
  BY <1>12 DEF g, y

\* The first frame of the ring is the one at the place of the reader, and what
\* follows it leads on from the next.
AtReader(M, a, s, f, n, h, t, c, x, z) ==
  /\ a \in Places /\ a[1] \in 1..Len(M) /\ a[2] < Len(M[a[1]])
  /\ s[f[h % n]] = FrameAt(M, a) /\ After(M, a) \in Places
  /\ Stream(M, After(M, a), s, f, n, h + 1, t, c, x, z)

\* The frame that is read is the one at the place of the reader.
LEMMA StreamRead ==
  ASSUME NEW M, NEW a, NEW s, NEW f, NEW n \in Nat \ {0}, NEW h \in Nat, NEW t \in Nat, h < t,
         NEW c, NEW x, NEW z, Stream(M, a, s, f, n, h, t, c, x, z)
  PROVE  AtReader(M, a, s, f, n, h, t, c, x, z)
<1> DEFINE y == s[f[h % n]]
           F == RingFrames(s, f, n)
<1>1. PICK b \in Places : \E d \in Places :
        /\ Path(M, a, F, h, t, b)
        /\ Path(M, b, CqFrames(s, c), 1, Len(c) + 1, d)
        /\ Leads(M, d, x, z)
  BY DEF Stream
<1>2. F[h] = y
  BY DEF RingFrames
<1> HIDE DEF F
<1>3. PICK e \in Places : Leads(M, a, F[h], e) /\ Path(M, e, F, h + 1, t, b)
  BY <1>1, PathPop
<1>4. h \in h..t - 1 /\ \A i \in (h + 1)..t - 1 : i \in h..t - 1
  OBVIOUS
<1>5. ~y.cred /\ \A i \in (h + 1)..t - 1 : ~s[f[i % n]].cred
  BY <1>4 DEF Stream
<1> HIDE DEF y
<1>6. /\ a \in Places /\ a[1] \in 1..Len(M) /\ a[2] < Len(M[a[1]]) /\ y = FrameAt(M, a)
      /\ e = After(M, a)
  BY <1>2, <1>3, <1>5 DEF Leads
<1>7. Stream(M, e, s, f, n, h + 1, t, c, x, z)
  BY <1>1, <1>3, <1>5 DEF Stream, F
<1> QED
  BY <1>6, <1>7 DEF y, AtReader

\* The frame at a place goes on with what was read of the message before, and the
\* last one completes it.
LEMMA ReadOn ==
  ASSUME NEW v, NEW M \in Seq(Msgs(v)), NEW a \in Places, a[1] \in 1..Len(M),
         a[2] < Len(M[a[1]]), NEW g, g = SubSeq(M[a[1]], 1, a[2])
  PROVE  LET m == M[a[1]]
             x == FrameAt(M, a)
             r == g \o x.load
         IN /\ r \in Seq(Nat) /\ Len(r) \in Nat /\ r # << >> /\ Len(r) <= Len(m)
            /\ x.last => r = m /\ After(M, a) = <<a[1] + 1, 0>>
            /\ ~x.last => r = SubSeq(m, 1, Len(r)) /\ After(M, a) = <<a[1], Len(r)>>
<1> DEFINE m == M[a[1]]
           o == a[2]
           p == Piece(M, a)
           b == SubSeq(m, o + 1, o + p)
           r == g \o b
<1>1. m \in Msgs(v) /\ o \in Nat /\ o < Len(m)
  BY DEF Places
<1> DEFINE left == Len(m) - o
<1>2. p = Smaller(left, CTL_PAY)
  BY DEF Piece
<1> HIDE DEF m, o
<1>3. m \in Seq(Nat) /\ Len(m) \in Nat /\ left \in Nat /\ left > 0
  <2>1. m \in Seq(Nat) /\ Len(m) \in Nat
    BY <1>1 DEF Msgs
  <2> QED
    BY <1>1, <2>1
<1>4. p \in Nat /\ p > 0 /\ p <= left
  <2> HIDE DEF left
  <2> QED
    BY <1>2, <1>3, CtlAssumption DEF Smaller
<1> HIDE DEF p
<1>5. o + p <= Len(m) /\ (left = p <=> o + p = Len(m))
  BY <1>1, <1>3, <1>4
<1>6. FrameAt(M, a).load = b /\ (FrameAt(M, a).last <=> left = p)
  BY DEF FrameAt, m, o, p
<1>7. After(M, a) = IF left = p THEN <<a[1] + 1, 0>> ELSE <<a[1], o + p>>
  BY DEF After, m, o, p
<1>8. r = SubSeq(m, 1, o + p)
  <2> DEFINE n == o + p
  <2>1. 1 \in 1..Len(m) + 1 /\ o \in 1 - 1..Len(m) /\ n \in o..Len(m)
    BY <1>1, <1>3, <1>4, <1>5
  <2> HIDE DEF n
  <2>2. SubSeq(m, 1, o) \o SubSeq(m, o + 1, n) = SubSeq(m, 1, n)
    BY <1>3, <2>1, ConcatAdjacentSubSeq
  <2> QED
    BY <2>2 DEF n, m, o
<1> HIDE DEF b, r, left
<1>9. r \in Seq(Nat) /\ Len(r) = o + p
  <2> DEFINE n == o + p
  <2>1. n \in Int /\ 1 <= n /\ n <= Len(m) /\ n - 1 + 1 = n
    BY <1>1, <1>4, <1>5
  <2> HIDE DEF n
  <2>2. \A i \in 1..n : i \in 1..Len(m)
    BY <1>3, <2>1
  <2>3. \A i \in 1..n : m[i] \in Nat
    BY <1>3, <2>2, ElementOfSeq
  <2>4. SubSeq(m, 1, n) \in Seq(Nat) /\ Len(SubSeq(m, 1, n)) = n
    BY <2>1, <2>3, SubSeqProperties
  <2> QED
    BY <1>8, <2>4 DEF n
<1>10. r # << >> /\ Len(r) \in Nat /\ Len(r) <= Len(m)
  BY <1>1, <1>4, <1>5, <1>9
<1>11. o + p = Len(m) => r = m
  BY <1>3, <1>8, SubSeqFull
<1> QED
  BY <1>5, <1>6, <1>7, <1>8, <1>9, <1>10, <1>11 DEF r, m, b

-----------------------------------------------------------------------------
(* The inductive invariant.                                                 *)

\* Of an end that reads: what it returned is how the messages M of the other one
\* begin, and while it is up, what it has of the next one is how that begins, and
\* the frames it is still to read lead from there to where the other one is.
Reading(M, r, g, up, s, f, n, h, t, c, x, z) ==
  /\ r \in Seq(Seq(Nat)) /\ g \in Seq(Nat)
  /\ Grows(r, M)
  /\ up => /\ g # << >> => Len(r) < Len(M) /\ g = SubSeq(M[Len(r) + 1], 1, Len(g))
           /\ Stream(M, <<Len(r) + 1, Len(g)>>, s, f, n, h, t, c, x, z)

\* What an end has begun to send, the place of its next frame, and the frame that
\* is on the wire to it.
Sent(e) == SentSoFar(plan[e], pc[e], off[e])
Place(e) == Cursor(plan[e], pc[e], off[e])
Flying(e) == IF NoneIn(wire[e], "frame") THEN Skip ELSE out[Peer[e]]

PlanOf(e) == PlanOk(e, plan[e], pc[e], off[e])
AckOf(e) == Waiting(sendOut[e], wire[Peer[e]], acks[e], cq[e])
ReadOf(e) ==
  Reading(Sent(Peer[e]), rcvd[e], got[e], mode[e] = "run", slot[e], ctlq[e], NRecv[e],
          qh[e], qt[e], cq[e], Flying(e), Place(Peer[e]))

QDomains ==
  /\ DOMAIN plan = Ends /\ DOMAIN pc = Ends /\ DOMAIN off = Ends /\ DOMAIN out = Ends
  /\ DOMAIN sendOut = Ends /\ DOMAIN got = Ends /\ DOMAIN rcvd = Ends /\ DOMAIN slot = Ends
  /\ \A e \in Ends : DOMAIN slot[e] = Slots(e)

Sides == \A e \in Ends : PlanOf(e) /\ AckOf(e) /\ ReadOf(e)

QInv == job \in Jobs /\ CInv /\ QDomains /\ Sides

\* A step that begins no message and returns none.
Quiet == rcvd' = rcvd /\ \A e \in Ends : Sent(e)' = Sent(e)

\* There are two ends.
LEMMA TwoEnds ==
  ASSUME NEW e \in Ends
  PROVE  /\ Peer[e] \in Ends /\ Peer[e] # e /\ Peer[Peer[e]] = e
         /\ \A o \in Ends : o = e \/ o = Peer[e]
BY CtlAssumption DEF Ends, Peer

\* What an end sends has messages of its version, and its place is one.
LEMMA SendingTyped ==
  ASSUME QInv, NEW e \in Ends
  PROVE  /\ Sent(e) \in Seq(Msgs(VersionOf(e))) /\ Place(e) \in Places
         /\ Sent(e) \in Seq(Seq(Nat)) /\ Grows(Sent(e), Sent(e))
<1>1. Sent(e) \in Seq(Msgs(VersionOf(e))) /\ Place(e) \in Places
  BY SentTyped DEF QInv, Sides, PlanOf, Sent, Place
<1>2. Msgs(VersionOf(e)) \subseteq Seq(Nat)
  BY DEF Msgs
<1>3. Sent(e) \in Seq(Seq(Nat))
  BY <1>1, <1>2, SeqMonotonic
<1>4. Grows(Sent(e), Sent(e))
  BY <1>3 DEF Grows
<1> QED
  BY <1>1, <1>3, <1>4

\* What a step leaves alone stays as it is.
LEMMA PlanKept ==
  ASSUME job' = job, NEW e \in Ends, PlanOf(e), plan'[e] = plan[e], pc'[e] = pc[e],
         off'[e] = off[e]
  PROVE  PlanOf(e)' /\ Sent(e)' = Sent(e) /\ Place(e)' = Place(e)
<1>1. PlanOf(e)'
  BY DEF PlanOf, PlanOk, Mine, VersionOf
<1>2. Sent(e)' = Sent(e) /\ Place(e)' = Place(e)
  BY DEF Sent, Place
<1> QED
  BY <1>1, <1>2

\* A step that keeps the plan sound keeps its part of the invariant.
LEMMA PlanMoved ==
  ASSUME job' = job, NEW e \in Ends, PlanOk(e, plan'[e], pc'[e], off'[e])
  PROVE  PlanOf(e)'
BY DEF PlanOf, PlanOk, Mine, VersionOf

\* Steps elsewhere leave the acknowledgements of an end alone.
LEMMA AckKept ==
  ASSUME NEW e \in Ends, AckOf(e), sendOut'[e] = sendOut[e], acks'[e] = acks[e],
         cq'[e] = cq[e], wire'[Peer[e]] = wire[Peer[e]]
  PROVE  AckOf(e)'
BY DEF AckOf

\* Steps elsewhere leave what an end reads alone.
LEMMA ReadKept ==
  ASSUME NEW e \in Ends, ReadOf(e), rcvd'[e] = rcvd[e], got'[e] = got[e], slot'[e] = slot[e],
         ctlq'[e] = ctlq[e], qh'[e] = qh[e], qt'[e] = qt[e], cq'[e] = cq[e],
         wire'[e] = wire[e], out'[Peer[e]] = out[Peer[e]],
         mode'[e] = "run" => mode[e] = "run",
         Sent(Peer[e])' = Sent(Peer[e]), Place(Peer[e])' = Place(Peer[e])
  PROVE  ReadOf(e)'
<1>1. Flying(e)' = Flying(e)
  BY DEF Flying
<1> QED
  BY <1>1 DEF ReadOf, Reading

-----------------------------------------------------------------------------
(* One lemma per action.                                                    *)

\* What lies on the wire to an end, and in what order it comes.
LEMMA DeliverQueues ==
  ASSUME QInv, job' = job, NEW e \in Ends, Deliver(e)
  PROVE  QDomains' /\ Sides' /\ Quiet
<1> DEFINE p == Peer[e]
           w == Head(wire[e])
           i == Head(rq[e])
           y == [kind |-> "recv", what |-> w, slot |-> i]
<1>1. p \in Ends /\ p # e /\ Peer[p] = e /\ \A o \in Ends : o = e \/ o = p
  BY TwoEnds
<1> HIDE DEF p
<1>2. /\ wire[e] # << >> /\ rq[e] # << >>
      /\ UNCHANGED <<plan, pc, mode, off, out, sendOut, ctlq, qh, qt, got, rcvd>>
      /\ cq' = Set(cq, e, Append(cq[e], y)) /\ wire' = Set(wire, e, Tail(wire[e]))
      /\ acks' = Set(acks, p, Append(acks[p], w))
      /\ slot' = IF w = "imm" THEN slot ELSE Set(slot, e, [slot[e] EXCEPT ![i] = out[p]])
  BY DEF Deliver, sendVars, readVars, p
<1>3. /\ DOMAIN wire = Ends /\ DOMAIN acks = Ends /\ DOMAIN cq = Ends /\ DOMAIN slot = Ends
      /\ DOMAIN slot[e] = Slots(e)
      /\ wire[e] \in Seq(Tokens) /\ acks[p] \in Seq(Tokens)
      /\ wire[p] \in Seq(Tokens) /\ acks[e] \in Seq(Tokens)
      /\ Parts(e, rq[e], cq[e], ctlq[e], qh[e], qt[e], mode[e] = "run")
      /\ cq[p] \in Seq(Completions(p))
  BY <1>1 DEF QInv, CInv, Domains, Traffic, QDomains, PartsOf, Parts
<1>4. /\ cq[e] \in Seq(Completions(e)) /\ i \in Slots(e) /\ w \in Tokens
      /\ i \notin SlotsOf(cq[e]) /\ i \notin Span(ctlq[e], NRecv[e], qh[e], qt[e])
      /\ qh[e] \in Nat /\ qt[e] \in Nat
  <2>1. i \in Slots(e) /\ i \in ToSet(rq[e])
    BY <1>2, <1>3, QueuePop DEF Parts
  <2>2. w \in Tokens
    BY <1>2, <1>3
  <2> QED
    BY <1>3, <2>1, <2>2 DEF Parts
<1>5. y \in Completions(e) /\ y.kind = "recv" /\ y.slot = i /\ y.what = w
  BY <1>4 DEF Completions
<1>6. /\ PlanOf(e)' /\ Sent(e)' = Sent(e) /\ Place(e)' = Place(e)
      /\ PlanOf(p)' /\ Sent(p)' = Sent(p) /\ Place(p)' = Place(p)
  BY <1>1, <1>2, PlanKept DEF QInv, Sides
<1> HIDE DEF w, i, y
<1>7. /\ cq'[e] = Append(cq[e], y) /\ cq'[p] = cq[p] /\ wire'[e] = Tail(wire[e])
      /\ wire'[p] = wire[p] /\ acks'[p] = Append(acks[p], w) /\ acks'[e] = acks[e]
      /\ slot'[p] = slot[p] /\ DOMAIN slot' = Ends
      /\ slot'[e] = IF w = "imm" THEN slot[e] ELSE [slot[e] EXCEPT ![i] = out[p]]
  BY <1>1, <1>2, <1>3 DEF Set
<1>8. AckOf(e)'
  <2>1. Waiting(sendOut[e], wire[p], acks[e], cq[e])
    BY DEF QInv, Sides, AckOf, p
  <2>2. Waiting(sendOut[e], wire[p], acks[e], Append(cq[e], y))
    BY <1>3, <1>4, <1>5, <2>1, WaitingMoves
  <2> QED
    BY <1>2, <1>7, <2>2 DEF AckOf, p
<1>9. Waiting(sendOut[p], wire[e], acks[p], cq[p])
  BY <1>1 DEF QInv, Sides, AckOf
<1>10. AckOf(p)'
  <2>1. Waiting(sendOut[p], Tail(wire[e]), Append(acks[p], w), cq[p])
    BY <1>1, <1>2, <1>3, <1>9, WaitingMoves DEF w
  <2> QED
    BY <1>1, <1>2, <1>7, <2>1 DEF AckOf
<1>11. ReadOf(p)'
  BY <1>1, <1>2, <1>6, <1>7, ReadKept DEF QInv, Sides
<1>12. ReadOf(e)'
  <2> DEFINE M == Sent(p)
             a == <<Len(rcvd[e]) + 1, Len(got[e])>>
             x == Flying(e)
             z == Place(p)
  <2>1. Reading(M, rcvd[e], got[e], mode[e] = "run", slot[e], ctlq[e], NRecv[e],
                qh[e], qt[e], cq[e], x, z)
    BY DEF QInv, Sides, ReadOf, p
  <2>2. M \in Seq(Seq(Nat)) /\ z \in Places /\ NRecv[e] \in Nat \ {0}
    BY <1>1, SendingTyped, CtlAssumption
  <2>3. Flying(e)' = IF w = "imm" THEN x ELSE Skip
    <3>1. /\ w = "frame" => NoneIn(Tail(wire[e]), "frame")
          /\ w = "imm" => (NoneIn(Tail(wire[e]), "frame") <=> NoneIn(wire[e], "frame"))
          /\ w = "imm" \/ w = "frame"
      <4>1. OneIn(wire[e], "frame") /\ (w = "imm" \/ w = "frame")
        BY <1>4, <1>9 DEF Waiting, Tokens
      <4>2. w = "frame" => NoneIn(Tail(wire[e]), "frame")
        BY <1>2, <1>3, <4>1, InTail DEF w
      <4>3. NoneIn(wire[e], "frame") => NoneIn(Tail(wire[e]), "frame")
        BY <1>2, <1>3, InTail
      <4>4. w = "imm" /\ NoneIn(Tail(wire[e]), "frame") => NoneIn(wire[e], "frame")
        BY <1>2, <1>3, InTail DEF w
      <4> QED
        BY <4>1, <4>2, <4>3, <4>4
    <3>2. "imm" # "frame"
      OBVIOUS
    <3> QED
      BY <1>2, <1>7, <3>1, <3>2 DEF Flying, p
  <2>4. mode[e] = "run" => Stream(M, a, slot'[e], ctlq[e], NRecv[e], qh[e], qt[e],
                                  Append(cq[e], y), Flying(e)', z)
    <3> SUFFICES ASSUME mode[e] = "run"
                 PROVE Stream(M, a, slot'[e], ctlq[e], NRecv[e], qh[e], qt[e],
                              Append(cq[e], y), Flying(e)', z)
      OBVIOUS
    <3>1. Stream(M, a, slot[e], ctlq[e], NRecv[e], qh[e], qt[e], cq[e], x, z)
      BY <2>1 DEF Reading
    <3> HIDE DEF M, a, x, z
    <3>2. CASE w = "imm"
      <4>1. ~Data(y)
        BY <1>5, <3>2 DEF Data
      <4>2. Stream(M, a, slot[e], ctlq[e], NRecv[e], qh[e], qt[e], Append(cq[e], y), x, z)
        BY <1>4, <1>5, <2>2, <3>1, <4>1, StreamOther
      <4> QED
        BY <1>7, <2>3, <3>2, <4>2
    <3>3. CASE w # "imm"
      <4>1. Data(y)
        BY <1>4, <1>5, <3>3 DEF Data, Tokens
      <4>2. x = out[p]
        <5>1. w = "frame"
          BY <1>4, <3>3 DEF Tokens
        <5>2. ~NoneIn(wire[e], "frame")
          BY <1>2, <1>3, <5>1, InTail DEF w
        <5> QED
          BY <5>2 DEF x, Flying, p
      <4>3. Stream(M, a, [slot[e] EXCEPT ![i] = x], ctlq[e], NRecv[e], qh[e], qt[e],
                   Append(cq[e], y), Skip, z)
        BY <1>3, <1>4, <1>5, <2>2, <3>1, <4>1, StreamDeliver
      <4> QED
        BY <1>7, <2>3, <3>3, <4>2, <4>3
    <3> QED
      BY <3>2, <3>3
  <2> HIDE DEF M, a, x, z
  <2>5. Reading(M, rcvd[e], got[e], mode[e] = "run", slot'[e], ctlq[e], NRecv[e],
                qh[e], qt[e], Append(cq[e], y), Flying(e)', z)
    BY <2>1, <2>4 DEF Reading, a
  <2> QED
    BY <1>2, <1>6, <1>7, <2>5 DEF ReadOf, M, z, p
<1>13. QDomains'
  <2>1. DOMAIN slot'[e] = Slots(e)
    BY <1>3, <1>7
  <2>2. DOMAIN slot'[p] = Slots(p)
    BY <1>1, <1>7 DEF QInv, QDomains
  <2>3. \A o \in Ends : DOMAIN slot'[o] = Slots(o)
    BY <1>1, <2>1, <2>2
  <2>4. \A o \in Ends : DOMAIN slot[o]' = Slots(o)'
    BY <2>3 DEF Slots
  <2> QED
    BY <1>2, <1>7, <2>4 DEF QInv, QDomains
<1>14. Sides'
  BY <1>1, <1>6, <1>8, <1>10, <1>11, <1>12 DEF Sides
<1> QED
  BY <1>1, <1>2, <1>6, <1>13, <1>14 DEF Quiet

\* The place of a reader in the messages of the other end.
Reader(e) == <<Len(rcvd[e]) + 1, Len(got[e])>>

\* What is still to be read moves on, and nothing is read of it.
LEMMA ReadMoved ==
  ASSUME NEW e \in Ends, ReadOf(e), rcvd'[e] = rcvd[e], got'[e] = got[e],
         Sent(Peer[e])' = Sent(Peer[e]), Place(Peer[e])' = Place(Peer[e]),
         mode'[e] = "run" =>
           /\ mode[e] = "run"
           /\ Stream(Sent(Peer[e]), Reader(e), slot[e], ctlq[e], NRecv[e], qh[e], qt[e],
                     cq[e], Flying(e), Place(Peer[e])) =>
              Stream(Sent(Peer[e]), Reader(e), slot'[e], ctlq'[e], NRecv[e], qh'[e], qt'[e],
                     cq'[e], Flying(e)', Place(Peer[e]))
  PROVE  ReadOf(e)'
BY DEF ReadOf, Reading, Reader

\* An acknowledgement comes.
LEMMA AcknowledgeQueues ==
  ASSUME QInv, job' = job, NEW e \in Ends, Acknowledge(e)
  PROVE  QDomains' /\ Sides' /\ Quiet
<1> DEFINE p == Peer[e]
           w == Head(acks[e])
           y == [kind |-> "sent", what |-> w]
<1>1. p \in Ends /\ p # e /\ Peer[p] = e /\ \A o \in Ends : o = e \/ o = p
  BY TwoEnds
<1> HIDE DEF p
<1>2. /\ acks[e] # << >>
      /\ UNCHANGED <<plan, pc, mode, off, out, sendOut, slot, ctlq, qh, qt, got, rcvd, wire>>
      /\ cq' = Set(cq, e, Append(cq[e], y)) /\ acks' = Set(acks, e, Tail(acks[e]))
  BY DEF Acknowledge, sendVars, readVars, recvVars
<1>3. /\ DOMAIN acks = Ends /\ DOMAIN cq = Ends
      /\ acks[e] \in Seq(Tokens) /\ wire[p] \in Seq(Tokens)
      /\ cq[e] \in Seq(Completions(e))
  BY <1>1 DEF QInv, CInv, Domains, Traffic, PartsOf, Parts
<1>4. w \in Tokens
  BY <1>2, <1>3
<1>5. y \in Completions(e) /\ y.kind = "sent"
  BY <1>4 DEF Completions
<1>6. /\ PlanOf(e)' /\ Sent(e)' = Sent(e) /\ Place(e)' = Place(e)
      /\ PlanOf(p)' /\ Sent(p)' = Sent(p) /\ Place(p)' = Place(p)
  BY <1>1, <1>2, PlanKept DEF QInv, Sides
<1>7. AckOf(e)'
  <2>1. Waiting(sendOut[e], wire[p], acks[e], cq[e])
    BY DEF QInv, Sides, AckOf, p
  <2>2. Waiting(sendOut[e], wire[p], Tail(acks[e]), Append(cq[e], y))
    BY <1>2, <1>3, <2>1, WaitingMoves
  <2> HIDE DEF y
  <2>3. cq'[e] = Append(cq[e], y) /\ acks'[e] = Tail(acks[e])
    BY <1>2, <1>3 DEF Set
  <2> QED
    BY <1>2, <2>2, <2>3 DEF AckOf, p
<1> HIDE DEF w, y
<1>8. /\ cq'[e] = Append(cq[e], y) /\ cq'[p] = cq[p] /\ acks'[p] = acks[p]
  BY <1>1, <1>2, <1>3 DEF Set
<1>9. AckOf(p)' /\ ReadOf(p)'
  BY <1>1, <1>2, <1>6, <1>8, AckKept, ReadKept DEF QInv, Sides
<1>10. ReadOf(e)'
  <2>1. Flying(e)' = Flying(e)
    BY <1>2 DEF Flying
  <2>2. Sent(p) \in Seq(Seq(Nat)) /\ ~Data(y)
    BY <1>1, <1>5, SendingTyped DEF Data
  <2>3. Stream(Sent(p), Reader(e), slot[e], ctlq[e], NRecv[e], qh[e], qt[e], cq[e],
               Flying(e), Place(p)) =>
        Stream(Sent(p), Reader(e), slot[e], ctlq[e], NRecv[e], qh[e], qt[e],
               Append(cq[e], y), Flying(e), Place(p))
    BY <1>3, <1>5, <2>2, StreamOther
  <2> QED
    BY <1>2, <1>6, <1>8, <2>1, <2>3, ReadMoved DEF QInv, Sides, p
<1>11. QDomains'
  BY <1>2 DEF QInv, QDomains, Slots
<1>12. Sides'
  BY <1>1, <1>6, <1>7, <1>9, <1>10 DEF Sides
<1> QED
  BY <1>1, <1>2, <1>6, <1>11, <1>12 DEF Quiet

\* A completion is handled.
LEMMA HandleQueues ==
  ASSUME QInv, job' = job, NEW e \in Ends, HandleWc(e)
  PROVE  QDomains' /\ Sides' /\ Quiet
<1> DEFINE p == Peer[e]
           y == Head(cq[e])
           n == NRecv[e]
<1>1. p \in Ends /\ p # e /\ Peer[p] = e /\ \A o \in Ends : o = e \/ o = p
  BY TwoEnds
<1> HIDE DEF p
<1>2. /\ cq[e] # << >> /\ mode[e] = "run"
      /\ UNCHANGED <<plan, pc, off, out, slot, qh, got, rcvd, wire, acks>>
      /\ cq' = Set(cq, e, Tail(cq[e]))
      /\ HandleSent(e) \/ HandleImm(e) \/ HandleCredit(e) \/ HandleFrame(e)
  <2>1. UNCHANGED <<slot, qh>>
    BY DEF HandleWc, HandleSent, HandleImm, HandleCredit, HandleFrame, recvVars
  <2> QED
    BY <2>1 DEF HandleWc, Running, readVars
<1>3. /\ DOMAIN sendOut = Ends /\ DOMAIN cq = Ends /\ DOMAIN ctlq = Ends /\ DOMAIN qt = Ends
      /\ DOMAIN mode = Ends
      /\ acks[e] \in Seq(Tokens) /\ wire[p] \in Seq(Tokens)
      /\ cq[e] \in Seq(Completions(e)) /\ ctlq[e] \in [Slots(e) -> Slots(e)]
      /\ qh[e] \in Nat /\ qt[e] \in Nat /\ qh[e] <= qt[e] /\ n \in Nat \ {0}
  BY <1>1, CtlAssumption DEF QInv, CInv, Domains, Traffic, PartsOf, Parts, QDomains
<1>4. y \in Completions(e)
  BY <1>2, <1>3
<1>5. /\ PlanOf(e)' /\ Sent(e)' = Sent(e) /\ Place(e)' = Place(e)
      /\ PlanOf(p)' /\ Sent(p)' = Sent(p) /\ Place(p)' = Place(p)
  BY <1>1, <1>2, PlanKept DEF QInv, Sides
<1>6. cq'[e] = Tail(cq[e]) /\ cq'[p] = cq[p]
  BY <1>1, <1>2, <1>3 DEF Set
<1>7. /\ sendOut'[e] = IF y = Landed THEN sendOut[e] - 1 ELSE sendOut[e]
      /\ sendOut'[p] = sendOut[p] /\ DOMAIN sendOut' = Ends
  <2>1. CASE HandleSent(e)
    <3>1. y.kind = "sent" /\ sendOut' = Set(sendOut, e, IF y.what = "frame" THEN sendOut[e] - 1
                                                          ELSE sendOut[e])
      BY <2>1 DEF HandleSent
    <3>2. y = Landed <=> y.what = "frame"
      BY <1>4, <3>1 DEF Completions, Landed
    <3> QED
      BY <1>1, <1>3, <3>1, <3>2 DEF Set
  <2>2. CASE HandleImm(e) \/ HandleCredit(e) \/ HandleFrame(e)
    <3>1. sendOut' = sendOut /\ y # Landed
      BY <2>2 DEF HandleImm, HandleCredit, HandleFrame, Landed
    <3> QED
      BY <1>3, <3>1
  <2> QED
    BY <1>2, <2>1, <2>2
<1>8. AckOf(e)' /\ AckOf(p)'
  <2>1. Waiting(sendOut[e], wire[p], acks[e], cq[e])
    BY DEF QInv, Sides, AckOf, p
  <2>2. Waiting(IF y = Landed THEN sendOut[e] - 1 ELSE sendOut[e], wire[p], acks[e], Tail(cq[e]))
    BY <1>2, <1>3, <2>1, WaitingMoves
  <2> HIDE DEF y
  <2>3. AckOf(e)'
    BY <1>2, <1>6, <1>7, <2>2 DEF AckOf, p
  <2> QED
    BY <1>1, <1>2, <1>6, <1>7, <2>3, AckKept DEF QInv, Sides
<1>9. /\ ctlq'[p] = ctlq[p] /\ qt'[p] = qt[p] /\ mode'[p] = mode[p]
      /\ \/ mode'[e] = "err" /\ DOMAIN mode' = Ends
         \/ ~Data(y) /\ UNCHANGED <<ctlq, qt, mode>>
         \/ Data(y) /\ slot[e][y.slot].cred /\ UNCHANGED <<ctlq, qt, mode>>
         \/ /\ Data(y) /\ ~slot[e][y.slot].cred /\ qt[e] - qh[e] < n
            /\ ctlq'[e] = [ctlq[e] EXCEPT ![qt[e] % n] = y.slot] /\ qt'[e] = qt[e] + 1
            /\ UNCHANGED mode
  <2>1. CASE HandleSent(e)
    BY <2>1 DEF HandleSent, recvVars, Data
  <2>2. CASE HandleImm(e)
    <3>1. ~Data(y) /\ UNCHANGED <<ctlq, qt>>
      BY <2>2 DEF HandleImm, Data
    <3>2. mode' = mode \/ mode' = Set(mode, e, "err")
      BY <2>2 DEF HandleImm
    <3> QED
      BY <1>1, <1>3, <3>1, <3>2 DEF Set
  <2>3. CASE HandleCredit(e)
    BY <2>3 DEF HandleCredit, Data
  <2>4. CASE HandleFrame(e)
    <3>1. Data(y) /\ ~slot[e][y.slot].cred
      BY <2>4 DEF HandleFrame, Data
    <3>2. \/ mode' = Set(mode, e, "err") /\ UNCHANGED <<ctlq, qt>>
          \/ /\ ~(qt[e] - qh[e] >= n) /\ UNCHANGED mode
             /\ ctlq' = Set(ctlq, e, [ctlq[e] EXCEPT ![qt[e] % n] = y.slot])
             /\ qt' = Set(qt, e, qt[e] + 1)
      BY <2>4 DEF HandleFrame
    <3>3. ~(qt[e] - qh[e] >= n) => qt[e] - qh[e] < n
      BY <1>3
    <3> HIDE DEF n, y
    <3> QED
      BY <1>1, <1>3, <3>1, <3>2, <3>3 DEF Set
  <2> QED
    BY <1>2, <2>1, <2>2, <2>3, <2>4
<1>10. ReadOf(p)'
  BY <1>1, <1>2, <1>5, <1>6, <1>9, ReadKept DEF QInv, Sides
<1>11. ReadOf(e)'
  <2>1. Flying(e)' = Flying(e)
    BY <1>2 DEF Flying
  <2> DEFINE Before == Stream(Sent(p), Reader(e), slot[e], ctlq[e], n, qh[e], qt[e], cq[e],
                              Flying(e), Place(p))
  <2>2. CASE ~Data(y) \/ slot[e][y.slot].cred
    <3>1. CqFrame(slot[e], y).cred
      BY <2>2 DEF CqFrame, Skip
    <3>2. Before => Stream(Sent(p), Reader(e), slot[e], ctlq[e], n, qh[e], qt[e],
                           Tail(cq[e]), Flying(e), Place(p))
      BY <1>2, <1>3, <3>1, StreamHandle
    <3>3. mode'[e] = "run" => UNCHANGED <<ctlq, qt>>
      BY <1>9, <2>2
    <3> QED
      BY <1>2, <1>5, <1>6, <2>1, <3>2, <3>3, ReadMoved DEF QInv, Sides, p
  <2>3. CASE Data(y) /\ ~slot[e][y.slot].cred
    <3>1. qt[e] - qh[e] < n /\ Before =>
            Stream(Sent(p), Reader(e), slot[e], [ctlq[e] EXCEPT ![qt[e] % n] = y.slot], n,
                   qh[e], qt[e] + 1, Tail(cq[e]), Flying(e), Place(p))
      <4>1. ctlq[e] \in [0..n - 1 -> Slots(e)]
        BY <1>3 DEF Slots
      <4> QED
        BY <1>2, <1>3, <2>3, <4>1, StreamRing
    <3> HIDE DEF y, n
    <3>2. mode'[e] = "run" =>
            /\ qt[e] - qh[e] < n /\ ctlq'[e] = [ctlq[e] EXCEPT ![qt[e] % n] = y.slot]
            /\ qt'[e] = qt[e] + 1
      BY <1>9, <2>3
    <3> QED
      BY <1>2, <1>5, <1>6, <2>1, <3>1, <3>2, ReadMoved DEF QInv, Sides, p, n
  <2> QED
    BY <2>2, <2>3
<1>12. QDomains'
  BY <1>2, <1>7 DEF QInv, QDomains, Slots
<1>13. Sides'
  BY <1>1, <1>5, <1>8, <1>10, <1>11 DEF Sides
<1> QED
  BY <1>1, <1>2, <1>5, <1>12, <1>13 DEF Quiet

\* A call returns: nothing that the ends have under way is touched, but for a
\* WRITE that is posted.
LEMMA ReturnQueues ==
  ASSUME QInv, job' = job, NEW e \in Ends,
         SendDone(e) \/ CreditDone(e) \/ WaitDone(e) \/ Pop(e) \/ Write(e)
  PROVE  QDomains' /\ Sides' /\ Quiet
<1> DEFINE p == Peer[e]
<1>1. p \in Ends /\ p # e /\ Peer[p] = e /\ \A o \in Ends : o = e \/ o = p
  BY TwoEnds
<1> HIDE DEF p
<1>2. /\ UNCHANGED <<plan, mode, out, sendOut, slot, ctlq, qh, qt, got, rcvd, acks, cq>>
      /\ pc' = Set(pc, e, pc[e] + 1) /\ pc[e] <= Len(plan[e])
      /\ off' = off \/ off' = Set(off, e, 0)
      /\ wire' = wire \/ wire' = Set(wire, p, Append(wire[p], "imm"))
  BY DEF SendDone, CreditDone, WaitDone, Pop, Write, Returns, In, Running, sendVars, readVars,
         recvVars, netVars, p
<1>3. /\ \/ Call(e).op # "send" /\ (off[e] = 0 \/ Call(e).op = "credit")
         \/ Call(e).op = "send" /\ off[e] = Len(Call(e).msg)
      /\ off'[e] = 0
  <2>1. DOMAIN off = Ends /\ off[e] \in Nat
    BY DEF QInv, QDomains, Sides, PlanOf, PlanOk
  <2>2. off[e] > 0 => Call(e).op \in {"send", "credit"}
    BY DEF QInv, Sides, PlanOf, PlanOk, Call
  <2>3. CASE SendDone(e) \/ CreditDone(e)
    BY <2>1, <2>3 DEF SendDone, CreditDone, In, Set
  <2>4. CASE WaitDone(e) \/ Pop(e) \/ Write(e)
    <3>1. Call(e).op \in {"drain", "acquire", "pop", "write"} /\ off' = off
      BY <2>4 DEF WaitDone, Pop, Write, In, sendVars
    <3> QED
      BY <2>1, <2>2, <3>1
  <2> QED
    BY <2>3, <2>4
<1>4. /\ PlanOk(e, plan[e], pc[e] + 1, 0)
      /\ SentSoFar(plan[e], pc[e] + 1, 0) = SentSoFar(plan[e], pc[e], off[e])
      /\ Cursor(plan[e], pc[e] + 1, 0) = Cursor(plan[e], pc[e], off[e])
  <2>1. PlanOk(e, plan[e], pc[e], off[e]) /\ job \in Jobs
    BY DEF QInv, Sides, PlanOf
  <2> QED
    BY <1>2, <1>3, <2>1, CallReturns DEF Call
<1>5. /\ DOMAIN pc = Ends /\ DOMAIN off = Ends /\ DOMAIN wire = Ends
      /\ wire[p] \in Seq(Tokens) /\ acks[e] \in Seq(Tokens) /\ cq[e] \in Seq(Completions(e))
  BY <1>1 DEF QInv, CInv, Traffic, QDomains, PartsOf, Parts
<1>6. /\ pc'[e] = pc[e] + 1 /\ pc'[p] = pc[p] /\ off'[p] = off[p] /\ wire'[e] = wire[e]
      /\ wire'[p] = wire[p] \/ wire'[p] = Append(wire[p], "imm")
      /\ DOMAIN pc' = Ends /\ DOMAIN off' = Ends
  BY <1>1, <1>2, <1>5 DEF Set
<1>7. /\ PlanOf(e)' /\ Sent(e)' = Sent(e) /\ Place(e)' = Place(e)
      /\ PlanOf(p)' /\ Sent(p)' = Sent(p) /\ Place(p)' = Place(p)
  <2>1. PlanOf(e)'
    BY <1>2, <1>3, <1>4, <1>6, PlanMoved
  <2>2. Sent(e)' = Sent(e) /\ Place(e)' = Place(e)
    BY <1>2, <1>3, <1>4, <1>6 DEF Sent, Place
  <2> QED
    BY <1>1, <1>2, <1>6, <2>1, <2>2, PlanKept DEF QInv, Sides
<1>8. AckOf(e)' /\ AckOf(p)'
  <2>1. Waiting(sendOut[e], wire[p], acks[e], cq[e])
    BY DEF QInv, Sides, AckOf, p
  <2>2. Waiting(sendOut[e], wire'[p], acks[e], cq[e])
    BY <1>5, <1>6, <2>1, WaitingMoves
  <2>3. AckOf(e)'
    BY <1>2, <2>2 DEF AckOf, p
  <2> QED
    BY <1>1, <1>2, <1>6, <2>3, AckKept DEF QInv, Sides
<1>9. ReadOf(e)'
  BY <1>1, <1>2, <1>6, <1>7, ReadKept DEF QInv, Sides, p
<1>10. ReadOf(p)'
  <2>1. Flying(p)' = Flying(p)
    <3>1. NoneIn(wire'[p], "frame") <=> NoneIn(wire[p], "frame")
      <4>1. "imm" \in Tokens /\ "imm" # "frame"
        BY DEF Tokens
      <4>2. NoneIn(Append(wire[p], "imm"), "frame") <=> NoneIn(wire[p], "frame")
        BY <1>5, <4>1, InAppend
      <4> QED
        BY <1>6, <4>2
    <3> QED
      BY <1>2, <3>1 DEF Flying
  <2> QED
    BY <1>1, <1>2, <1>7, <2>1, ReadMoved DEF QInv, Sides
<1>11. QDomains'
  BY <1>2, <1>6 DEF QInv, QDomains, Slots
<1>12. Sides'
  BY <1>1, <1>7, <1>8, <1>9, <1>10 DEF Sides
<1> QED
  BY <1>1, <1>2, <1>7, <1>11, <1>12 DEF Quiet

\* A poll comes to its end, or a message is refused.
LEMMA StopQueues ==
  ASSUME QInv, job' = job, NEW e \in Ends, PollReturns(e) \/ SendRefused(e)
  PROVE  QDomains' /\ Sides' /\ Quiet
<1>1. /\ UNCHANGED <<plan, pc, off, out, sendOut, slot, ctlq, qh, qt, got, rcvd, wire, acks, cq>>
      /\ mode' = mode \/ mode' = Set(mode, e, "timeout") \/ mode' = Set(mode, e, "err")
  BY DEF PollReturns, SendRefused, sendVars, readVars, recvVars, netVars
<1>2. \A o \in Ends : mode'[o] = "run" => mode[o] = "run"
  BY <1>1 DEF Set, QInv, CInv, Domains
<1>3. ASSUME NEW o \in Ends
      PROVE  (PlanOf(o) /\ AckOf(o) /\ ReadOf(o))' /\ Sent(o)' = Sent(o)
  <2>1. Peer[o] \in Ends
    BY TwoEnds
  <2>2. \A i \in Ends : PlanOf(i)' /\ Sent(i)' = Sent(i) /\ Place(i)' = Place(i)
    BY <1>1, PlanKept DEF QInv, Sides
  <2>3. AckOf(o)' /\ ReadOf(o)'
    BY <1>1, <1>2, <2>1, <2>2, AckKept, ReadKept DEF QInv, Sides
  <2> QED
    BY <2>2, <2>3
<1>4. QDomains'
  BY <1>1 DEF QInv, QDomains, Slots
<1> QED
  BY <1>1, <1>3, <1>4 DEF Sides, Quiet

\* A frame is put on the wire: it leads from the place of the sender to the next.
LEMMA PostQueues ==
  ASSUME QInv, job' = job, NEW e \in Ends, NEW x, Post(e, x), sendOut[e] = 0,
         NEW k, off' = Set(off, e, k),
         UNCHANGED <<plan, pc, mode, recvVars, readVars, acks, cq>>,
         PlanOk(e, plan[e], pc[e], k), Grows(Sent(e), SentSoFar(plan[e], pc[e], k)),
         Leads(SentSoFar(plan[e], pc[e], k), Place(e), x, Cursor(plan[e], pc[e], k))
  PROVE  /\ QDomains' /\ Sides' /\ rcvd' = rcvd /\ Sent(Peer[e])' = Sent(Peer[e])
         /\ Sent(e)' = SentSoFar(plan[e], pc[e], k)
<1> DEFINE p == Peer[e]
           N == SentSoFar(plan[e], pc[e], k)
           z == Cursor(plan[e], pc[e], k)
<1>1. p \in Ends /\ p # e /\ Peer[p] = e /\ \A o \in Ends : o = e \/ o = p
  BY TwoEnds
<1> HIDE DEF p
<1>2. /\ UNCHANGED <<plan, pc, mode, slot, ctlq, qh, qt, got, rcvd, acks, cq>>
      /\ out' = Set(out, e, x) /\ sendOut' = Set(sendOut, e, sendOut[e] + 1)
      /\ wire' = Set(wire, p, Append(wire[p], "frame"))
  BY DEF Post, recvVars, readVars, p
<1>3. /\ DOMAIN off = Ends /\ DOMAIN out = Ends /\ DOMAIN sendOut = Ends /\ DOMAIN wire = Ends
      /\ wire[p] \in Seq(Tokens) /\ acks[e] \in Seq(Tokens) /\ cq[e] \in Seq(Completions(e))
      /\ cq[p] \in Seq(Completions(p))
  BY <1>1 DEF QInv, CInv, Traffic, QDomains, PartsOf, Parts
<1>4. /\ off'[e] = k /\ off'[p] = off[p] /\ out'[e] = x /\ out'[p] = out[p]
      /\ sendOut'[e] = sendOut[e] + 1 /\ sendOut'[p] = sendOut[p]
      /\ wire'[p] = Append(wire[p], "frame") /\ wire'[e] = wire[e]
      /\ DOMAIN off' = Ends /\ DOMAIN out' = Ends /\ DOMAIN sendOut' = Ends
  BY <1>1, <1>2, <1>3 DEF Set
<1>5. PlanOf(p)' /\ Sent(p)' = Sent(p) /\ Place(p)' = Place(p)
  BY <1>1, <1>2, <1>4, PlanKept DEF QInv, Sides
<1>6. PlanOf(e)' /\ Sent(e)' = N /\ Place(e)' = z
  <2>1. PlanOf(e)'
    BY <1>2, <1>4, PlanMoved
  <2> QED
    BY <1>2, <1>4, <2>1 DEF Sent, Place
<1>7. NoneIn(wire[p], "frame") /\ AckOf(e)'
  <2>1. Waiting(sendOut[e], wire[p], acks[e], cq[e])
    BY DEF QInv, Sides, AckOf, p
  <2>2. Waiting(sendOut[e] + 1, Append(wire[p], "frame"), acks[e], cq[e])
    BY <1>3, <2>1, WaitingMoves
  <2> QED
    BY <1>2, <1>4, <2>1, <2>2 DEF AckOf, p, Waiting
<1>8. AckOf(p)' /\ ReadOf(e)'
  BY <1>1, <1>2, <1>4, <1>5, AckKept, ReadKept DEF QInv, Sides, p
<1>9. ReadOf(p)'
  <2> DEFINE M == Sent(e)
  <2>1. Flying(p) = Skip /\ Flying(p)' = x
    <3>1. Flying(p) = Skip
      BY <1>7 DEF Flying
    <3>2. ~NoneIn(wire'[p], "frame")
      <4>1. /\ Len(wire[p]) + 1 \in 1..Len(Append(wire[p], "frame"))
            /\ Append(wire[p], "frame")[Len(wire[p]) + 1] = "frame"
        <5>1. "frame" \in Tokens
          BY DEF Tokens
        <5> QED
          BY <1>3, <5>1
      <4> QED
        BY <1>4, <4>1 DEF NoneIn
    <3> QED
      BY <1>1, <1>4, <3>1, <3>2 DEF Flying
  <2>2. Reading(M, rcvd[p], got[p], mode[p] = "run", slot[p], ctlq[p], NRecv[p],
                qh[p], qt[p], cq[p], Skip, Place(e))
    BY <1>1, <2>1 DEF QInv, Sides, ReadOf
  <2>3. M \in Seq(Seq(Nat)) /\ N \in Seq(Seq(Nat))
    <3>1. N \in Seq(Msgs(VersionOf(e)))
      BY SentTyped DEF QInv
    <3>2. Msgs(VersionOf(e)) \subseteq Seq(Nat)
      BY DEF Msgs
    <3> HIDE DEF N
    <3> QED
      BY <3>1, <3>2, SeqMonotonic, SendingTyped
  <2>4. Grows(M, N) /\ Leads(N, Place(e), x, z)
    OBVIOUS
  <2> HIDE DEF M, N, z
  <2>5. Grows(rcvd[p], N)
    <3>1. Grows(rcvd[p], M) /\ Grows(M, N) /\ rcvd[p] \in Seq(Seq(Nat))
      BY <2>2, <2>4 DEF Reading
    <3>2. Len(rcvd[p]) \in Nat /\ Len(M) \in Nat /\ Len(N) \in Nat
      BY <2>3, <3>1
    <3> QED
      BY <3>1, <3>2 DEF Grows
  <2>6. ASSUME mode[p] = "run"
        PROVE  /\ got[p] # << >> => /\ Len(rcvd[p]) < Len(N)
                                    /\ got[p] = SubSeq(N[Len(rcvd[p]) + 1], 1, Len(got[p]))
               /\ Stream(N, Reader(p), slot[p], ctlq[p], NRecv[p], qh[p], qt[p], cq[p], x, z)
    <3>1. Stream(M, Reader(p), slot[p], ctlq[p], NRecv[p], qh[p], qt[p], cq[p], Skip, Place(e))
      BY <2>2, <2>6 DEF Reading, Reader
    <3>2. Stream(N, Reader(p), slot[p], ctlq[p], NRecv[p], qh[p], qt[p], cq[p], x, z)
      BY <2>3, <2>4, <3>1, StreamPost
    <3>3. ASSUME got[p] # << >>
          PROVE /\ Len(rcvd[p]) < Len(N)
                /\ got[p] = SubSeq(N[Len(rcvd[p]) + 1], 1, Len(got[p]))
      <4>1. Len(rcvd[p]) < Len(M) /\ got[p] = SubSeq(M[Len(rcvd[p]) + 1], 1, Len(got[p]))
        BY <2>2, <2>6, <3>3 DEF Reading
      <4>2. Len(rcvd[p]) \in Nat /\ Len(M) \in Nat /\ Len(N) \in Nat
        BY <2>2, <2>3 DEF Reading
      <4> DEFINE i == Len(rcvd[p]) + 1
      <4>3. i \in 1..Len(M) /\ Len(rcvd[p]) < Len(N)
        BY <2>4, <4>1, <4>2 DEF Grows
      <4> HIDE DEF i
      <4>4. N[i] = M[i]
        BY <2>4, <4>3 DEF Grows
      <4> QED
        BY <4>1, <4>3, <4>4 DEF i
    <3> QED
      BY <3>2, <3>3
  <2>7. Reading(N, rcvd[p], got[p], mode[p] = "run", slot[p], ctlq[p], NRecv[p],
                qh[p], qt[p], cq[p], x, z)
    BY <2>2, <2>5, <2>6 DEF Reading, Reader
  <2> QED
    BY <1>1, <1>2, <1>6, <2>1, <2>7 DEF ReadOf, N, z
<1>10. QDomains'
  BY <1>2, <1>4 DEF QInv, QDomains, Slots
<1>11. Sides'
  BY <1>1, <1>5, <1>6, <1>7, <1>8, <1>9 DEF Sides
<1> QED
  BY <1>2, <1>5, <1>6, <1>10, <1>11 DEF p

\* A frame of credit is sent.
LEMMA CreditQueues ==
  ASSUME QInv, job' = job, NEW e \in Ends, CreditFrame(e)
  PROVE  QDomains' /\ Sides' /\ Quiet
<1> DEFINE x == [load |-> <<Call(e).count>>, last |-> TRUE, cred |-> TRUE]
<1>1. /\ sendOut[e] = 0 /\ Post(e, x) /\ off' = Set(off, e, 1)
      /\ UNCHANGED <<plan, pc, mode, recvVars, readVars, acks, cq>>
      /\ off[e] = 0 /\ pc[e] <= Len(plan[e]) /\ plan[e][pc[e]].op = "credit"
  BY DEF CreditFrame, In, Running, Call
<1>2. x.cred
  OBVIOUS
<1> HIDE DEF x
<1>3. PlanOk(e, plan[e], pc[e], 0)
  BY <1>1 DEF QInv, Sides, PlanOf
<1>4. /\ PlanOk(e, plan[e], pc[e], 1)
      /\ SentSoFar(plan[e], pc[e], 1) = Sent(e) /\ Cursor(plan[e], pc[e], 1) = Place(e)
  BY <1>1, <1>3, CreditPosted DEF Sent, Place
<1>5. Grows(Sent(e), SentSoFar(plan[e], pc[e], 1))
  BY <1>4, SendingTyped
<1>6. Leads(SentSoFar(plan[e], pc[e], 1), Place(e), x, Cursor(plan[e], pc[e], 1))
  BY <1>2, <1>4 DEF Leads
<1>7. /\ QDomains' /\ Sides' /\ rcvd' = rcvd /\ Sent(Peer[e])' = Sent(Peer[e])
      /\ Sent(e)' = SentSoFar(plan[e], pc[e], 1)
  BY <1>1, <1>4, <1>5, <1>6, PostQueues
<1> QED
  BY <1>4, <1>7, TwoEnds DEF Quiet

\* A frame of a message is sent; the first one begins the message.
LEMMA SendQueues ==
  ASSUME QInv, job' = job, NEW e \in Ends, SendFrame(e)
  PROVE  /\ QDomains' /\ Sides' /\ rcvd' = rcvd /\ Sent(Peer[e])' = Sent(Peer[e])
         /\ Sent(e)' = Sent(e) \/ Sent(e)' = Append(Sent(e), Call(e).msg)
<1> DEFINE m == Call(e).msg
           o == off[e]
           left == Len(m) - o
           n == Smaller(left, CTL_PAY)
           x == [load |-> SubSeq(m, o + 1, o + n), last |-> left = n, cred |-> FALSE]
           N == SentSoFar(plan[e], pc[e], o + n)
<1>1. /\ sendOut[e] = 0 /\ Post(e, x) /\ off' = Set(off, e, o + n) /\ left > 0
      /\ UNCHANGED <<plan, pc, mode, recvVars, readVars, acks, cq>>
      /\ pc[e] <= Len(plan[e]) /\ Call(e).op = "send"
  BY DEF SendFrame, In, Running
<1>2. PlanOk(e, plan[e], pc[e], o) /\ job \in Jobs
  BY DEF QInv, Sides, PlanOf
<1>3. o < Len(m)
  <2>1. m \in Msgs(VersionOf(e))
    BY <1>1, <1>2, MessageTyped DEF Call
  <2>2. Len(m) \in Nat /\ o \in Nat
    BY <1>2, <2>1 DEF Msgs, PlanOk
  <2> HIDE DEF m, o
  <2> QED
    BY <1>1, <2>2
<1>4. /\ PlanOk(e, plan[e], pc[e], o + n) /\ Leads(N, Place(e), x, Cursor(plan[e], pc[e], o + n))
      /\ IF o = 0 THEN N = Append(Sent(e), m) ELSE N = Sent(e)
      /\ Grows(Sent(e), N)
  BY <1>1, <1>2, <1>3, FramePosted DEF Sent, Place, Call
<1> HIDE DEF x, n
<1>5. /\ QDomains' /\ Sides' /\ rcvd' = rcvd /\ Sent(Peer[e])' = Sent(Peer[e]) /\ Sent(e)' = N
  BY <1>1, <1>4, PostQueues
<1> QED
  BY <1>4, <1>5

\* What ReadFrame finds: the next piece of the message that is read.
LEMMA NextFrame ==
  ASSUME QInv, NEW e \in Ends, mode[e] = "run", qh[e] # qt[e]
  PROVE  LET M == Sent(Peer[e])
             a == Reader(e)
             x == slot[e][NextSlot(e)]
             msg == got[e] \o x.load
         IN /\ Len(rcvd[e]) + 1 \in 1..Len(M) /\ msg \in Seq(Nat) /\ msg # << >>
            /\ After(M, a) = IF x.last THEN <<Len(rcvd[e]) + 2, 0>>
                             ELSE <<Len(rcvd[e]) + 1, Len(msg)>>
            /\ msg = IF x.last THEN M[Len(rcvd[e]) + 1]
                     ELSE SubSeq(M[Len(rcvd[e]) + 1], 1, Len(msg))
            /\ Len(msg) <= Len(M[Len(rcvd[e]) + 1])
            /\ Stream(M, After(M, a), slot[e], ctlq[e], NRecv[e], qh[e] + 1, qt[e], cq[e],
                      Flying(e), Place(Peer[e]))
<1> DEFINE p == Peer[e]
           M == Sent(p)
           a == Reader(e)
           k == Len(rcvd[e]) + 1
           g == got[e]
           x == slot[e][NextSlot(e)]
           msg == g \o x.load
<1>1. p \in Ends /\ M \in Seq(Msgs(VersionOf(p))) /\ Len(M) \in Nat
  BY TwoEnds, SendingTyped
<1>2. /\ NRecv[e] \in Nat \ {0} /\ qh[e] \in Nat /\ qt[e] \in Nat /\ qh[e] < qt[e]
  <2>1. NRecv[e] \in Nat \ {0} /\ qh[e] \in Nat /\ qt[e] \in Nat /\ qh[e] <= qt[e]
    BY CtlAssumption DEF QInv, CInv, PartsOf, Parts
  <2> QED
    BY <2>1
<1>3. /\ rcvd[e] \in Seq(Seq(Nat)) /\ g \in Seq(Nat)
      /\ g # << >> => k - 1 < Len(M) /\ g = SubSeq(M[k], 1, Len(g))
      /\ Stream(M, a, slot[e], ctlq[e], NRecv[e], qh[e], qt[e], cq[e], Flying(e), Place(p))
  <2>1. Reading(M, rcvd[e], g, TRUE, slot[e], ctlq[e], NRecv[e], qh[e], qt[e], cq[e],
                Flying(e), Place(p))
    BY DEF QInv, Sides, ReadOf
  <2>2. rcvd[e] \in Seq(Seq(Nat)) => k - 1 = Len(rcvd[e])
    OBVIOUS
  <2> QED
    BY <2>1, <2>2 DEF Reading, Reader
<1>4. /\ a \in Places /\ a[1] \in 1..Len(M) /\ a[2] < Len(M[a[1]]) /\ x = FrameAt(M, a)
      /\ Stream(M, After(M, a), slot[e], ctlq[e], NRecv[e], qh[e] + 1, qt[e], cq[e],
                Flying(e), Place(p))
  <2> HIDE DEF p, M, a
  <2>1. x = slot[e][ctlq[e][qh[e] % NRecv[e]]]
    BY DEF NextSlot
  <2>2. AtReader(M, a, slot[e], ctlq[e], NRecv[e], qh[e], qt[e], cq[e], Flying(e), Place(p))
    BY <1>2, <1>3, StreamRead
  <2> QED
    BY <2>1, <2>2 DEF AtReader
<1>5. a[1] = k /\ a[2] = Len(g)
  BY DEF Reader
<1>6. g = SubSeq(M[k], 1, Len(g))
  <2>1. CASE g = << >>
    <3>1. Len(g) = 0 /\ SubSeq(M[k], 1, 0) = << >>
      BY <2>1, SubSeqEmpty
    <3> QED
      BY <2>1, <3>1
  <2> QED
    BY <1>3, <2>1
<1> HIDE DEF a, M, p, g, k
<1>7. x.load = FrameAt(M, a).load /\ x.last = FrameAt(M, a).last
  BY <1>4
<1>8. /\ msg \in Seq(Nat) /\ Len(msg) \in Nat /\ msg # << >> /\ Len(msg) <= Len(M[k])
      /\ x.last => msg = M[k] /\ After(M, a) = <<k + 1, 0>>
      /\ ~x.last => msg = SubSeq(M[k], 1, Len(msg)) /\ After(M, a) = <<k, Len(msg)>>
  <2>1. g = SubSeq(M[a[1]], 1, a[2])
    BY <1>5, <1>6
  <2> DEFINE r == g \o FrameAt(M, a).load
  <2>2. /\ r \in Seq(Nat) /\ Len(r) \in Nat /\ r # << >> /\ Len(r) <= Len(M[a[1]])
        /\ FrameAt(M, a).last => r = M[a[1]] /\ After(M, a) = <<a[1] + 1, 0>>
        /\ ~FrameAt(M, a).last => r = SubSeq(M[a[1]], 1, Len(r)) /\ After(M, a) = <<a[1], Len(r)>>
    BY <1>1, <1>4, <2>1, ReadOn
  <2> HIDE DEF r
  <2>3. msg = r
    BY <1>7 DEF r
  <2> HIDE DEF x, msg
  <2> QED
    BY <1>5, <1>7, <2>2, <2>3
<1> HIDE DEF x, msg
<1>9. k + 1 = Len(rcvd[e]) + 2
  BY <1>3 DEF k
<1> QED
  BY <1>4, <1>5, <1>8, <1>9 DEF a, M, p, g, k, x, msg

\* An end returns the next message of the other one.
Returned(e) ==
  /\ Len(rcvd[e]) + 1 \in 1..Len(Sent(Peer[e]))
  /\ rcvd' = Set(rcvd, e, Append(rcvd[e], Sent(Peer[e])[Len(rcvd[e]) + 1]))

\* A frame is read; the last one returns the message.
LEMMA ReadQueues ==
  ASSUME QInv, job' = job, NEW e \in Ends, ReadFrame(e)
  PROVE  /\ QDomains' /\ Sides' /\ \A o \in Ends : Sent(o)' = Sent(o)
         /\ rcvd' = rcvd \/ Returned(e)
<1> DEFINE p == Peer[e]
           M == Sent(p)
           x == slot[e][NextSlot(e)]
           msg == got[e] \o x.load
           k == Len(rcvd[e]) + 1
           more == GoesOn(e, Len(rcvd'[e]), msg)
<1>1. p \in Ends /\ p # e /\ Peer[p] = e /\ \A o \in Ends : o = e \/ o = p
  BY TwoEnds
<1>2. /\ mode[e] = "run" /\ qh[e] # qt[e] /\ pc[e] <= Len(plan[e])
      /\ plan[e][pc[e]].op = "recv" /\ qh' = Set(qh, e, qh[e] + 1)
      /\ UNCHANGED <<off, out, sendOut, slot, ctlq, qt, wire, acks, cq>>
      /\ \/ /\ mode' = Set(mode, e, "err") /\ UNCHANGED <<plan, pc, got, rcvd>>
         \/ /\ x.last /\ rcvd' = Set(rcvd, e, Append(rcvd[e], msg))
            /\ plan' = Set(plan, e, plan[e] \o more)
            /\ got' = Set(got, e, << >>) /\ pc' = Set(pc, e, pc[e] + 1) /\ UNCHANGED mode
         \/ ~x.last /\ got' = Set(got, e, msg) /\ UNCHANGED <<plan, pc, rcvd, mode>>
  BY DEF ReadFrame, In, Running, Call, sendVars, netVars, Returns
<1>3. /\ k \in 1..Len(M) /\ msg \in Seq(Nat) /\ msg # << >>
      /\ After(M, Reader(e)) = IF x.last THEN <<Len(rcvd[e]) + 2, 0>> ELSE <<k, Len(msg)>>
      /\ msg = IF x.last THEN M[k] ELSE SubSeq(M[k], 1, Len(msg))
      /\ Stream(M, After(M, Reader(e)), slot[e], ctlq[e], NRecv[e], qh[e] + 1, qt[e], cq[e],
                Flying(e), Place(p))
  BY <1>2, NextFrame
<1> HIDE DEF p, M, x, msg, more
<1>4. PlanOk(e, plan[e], pc[e], off[e]) /\ job \in Jobs /\ off[e] = 0
  BY <1>2 DEF QInv, Sides, PlanOf, PlanOk
<1>5. /\ DOMAIN plan = Ends /\ DOMAIN pc = Ends /\ DOMAIN got = Ends /\ DOMAIN rcvd = Ends
      /\ DOMAIN qh = Ends /\ DOMAIN mode = Ends
  BY DEF QInv, QDomains, CInv, Domains
<1>6. /\ plan'[p] = plan[p] /\ pc'[p] = pc[p] /\ got'[p] = got[p] /\ rcvd'[p] = rcvd[p]
      /\ qh'[p] = qh[p] /\ mode'[p] = mode[p] /\ qh'[e] = qh[e] + 1
      /\ DOMAIN plan' = Ends /\ DOMAIN pc' = Ends /\ DOMAIN got' = Ends /\ DOMAIN rcvd' = Ends
  <2>1. CASE mode' = Set(mode, e, "err") /\ UNCHANGED <<plan, pc, got, rcvd>>
    BY <1>1, <1>2, <1>5, <2>1 DEF Set
  <2>2. CASE /\ x.last /\ rcvd' = Set(rcvd, e, Append(rcvd[e], msg))
             /\ plan' = Set(plan, e, plan[e] \o more)
             /\ got' = Set(got, e, << >>) /\ pc' = Set(pc, e, pc[e] + 1) /\ UNCHANGED mode
    BY <1>1, <1>2, <1>5, <2>2 DEF Set
  <2>3. CASE ~x.last /\ got' = Set(got, e, msg) /\ UNCHANGED <<plan, pc, rcvd, mode>>
    BY <1>1, <1>2, <1>5, <2>3 DEF Set
  <2> QED
    BY <1>2, <2>1, <2>2, <2>3
<1>7. PlanOf(p)' /\ Sent(p)' = M /\ Place(p)' = Place(p)
  BY <1>1, <1>2, <1>6, PlanKept DEF QInv, Sides, M
<1>8. PlanOf(e)' /\ Sent(e)' = Sent(e) /\ Place(e)' = Place(e)
  <2>1. CASE UNCHANGED <<plan, pc>>
    BY <1>2, <2>1, PlanKept DEF QInv, Sides
  <2>2. CASE plan' = Set(plan, e, plan[e] \o more) /\ pc' = Set(pc, e, pc[e] + 1)
    <3>1. more \in Seq(Mine(e))
      BY <1>3, <1>4, GoesOnTyped DEF more
    <3> DEFINE r == plan[e] \o more
    <3>0. SameWith(e, plan[e], more, pc[e], off[e])
      BY <1>2, <1>4, <3>1, CallsAdded
    <3> HIDE DEF r
    <3>2. /\ PlanOk(e, r, pc[e], 0) /\ SentSoFar(r, pc[e], 0) = Sent(e)
          /\ Cursor(r, pc[e], 0) = Place(e) /\ pc[e] <= Len(r) /\ r[pc[e]].op = "recv"
      BY <1>2, <1>4, <3>0 DEF Sent, Place, r, SameWith
    <3>3. /\ PlanOk(e, r, pc[e] + 1, 0) /\ SentSoFar(r, pc[e] + 1, 0) = Sent(e)
          /\ Cursor(r, pc[e] + 1, 0) = Place(e)
      BY <1>4, <3>2, CallReturns
    <3>4. plan'[e] = r /\ pc'[e] = pc[e] + 1 /\ off'[e] = 0
      BY <1>2, <1>4, <1>5, <2>2 DEF Set, r
    <3>5. PlanOf(e)'
      BY <3>3, <3>4, PlanMoved
    <3> QED
      BY <3>3, <3>4, <3>5 DEF Sent, Place
  <2> QED
    BY <1>2, <2>1, <2>2
<1>9. AckOf(e)' /\ AckOf(p)' /\ ReadOf(p)'
  BY <1>1, <1>2, <1>6, <1>8, AckKept, ReadKept DEF QInv, Sides
<1>10. Flying(e)' = Flying(e)
  BY <1>2 DEF Flying
<1>11. /\ rcvd[e] \in Seq(Seq(Nat)) /\ got[e] \in Seq(Nat) /\ Grows(rcvd[e], M)
  BY DEF QInv, Sides, ReadOf, Reading, M, p
<1>12. ReadOf(e)' /\ (rcvd' = rcvd \/ Returned(e))
  <2>1. CASE mode' = Set(mode, e, "err") /\ UNCHANGED <<plan, pc, got, rcvd>>
    <3>1. mode'[e] # "run"
      BY <1>5, <2>1 DEF Set
    <3> QED
      BY <1>7, <2>1, <3>1, ReadMoved DEF QInv, Sides, M, p
  <2>2. CASE ~x.last /\ got' = Set(got, e, msg) /\ UNCHANGED <<plan, pc, rcvd, mode>>
    <3>1. got'[e] = msg /\ rcvd'[e] = rcvd[e] /\ rcvd[e] \in Seq(Seq(Nat)) /\ Len(rcvd[e]) < Len(M)
      <4>1. Len(rcvd[e]) \in Nat /\ Len(M) \in Nat
        BY <1>1, <1>11, SendingTyped DEF M
      <4> QED
        BY <1>3, <1>5, <1>11, <2>2, <4>1 DEF Set
    <3>2. Reading(M, rcvd[e], msg, TRUE, slot[e], ctlq[e], NRecv[e], qh[e] + 1, qt[e], cq[e],
                  Flying(e), Place(p))
      BY <1>3, <1>11, <2>2, <3>1 DEF Reading
    <3>3. Reading(M, rcvd'[e], got'[e], mode'[e] = "run", slot'[e], ctlq'[e], NRecv[e],
                  qh'[e], qt'[e], cq'[e], Flying(e)', Place(p))
      BY <1>2, <1>6, <1>10, <2>2, <3>1, <3>2
    <3> QED
      BY <1>7, <2>2, <3>3 DEF ReadOf, M, p
  <2>3. CASE /\ x.last /\ rcvd' = Set(rcvd, e, Append(rcvd[e], msg))
             /\ plan' = Set(plan, e, plan[e] \o more)
             /\ got' = Set(got, e, << >>) /\ pc' = Set(pc, e, pc[e] + 1) /\ UNCHANGED mode
    <3> DEFINE r == Append(rcvd[e], msg)
    <3>1. r \in Seq(Seq(Nat)) /\ Len(r) = k /\ Grows(r, M)
      <4>1. /\ Len(rcvd[e]) \in Nat /\ r \in Seq(Seq(Nat)) /\ Len(r) = Len(rcvd[e]) + 1
            /\ r[Len(rcvd[e]) + 1] = msg /\ \A i \in 1..Len(rcvd[e]) : r[i] = rcvd[e][i]
        <5> DEFINE S == Seq(Nat)
        <5>1. rcvd[e] \in Seq(S) /\ msg \in S
          BY <1>3, <1>11
        <5> HIDE DEF S
        <5>2. /\ Len(rcvd[e]) \in Nat /\ r \in Seq(S) /\ Len(r) = Len(rcvd[e]) + 1
              /\ r[Len(rcvd[e]) + 1] = msg /\ \A i \in 1..Len(rcvd[e]) : r[i] = rcvd[e][i]
          BY <5>1
        <5> QED
          BY <5>2 DEF S
      <4> HIDE DEF r
      <4>2. \A i \in 1..Len(r) : i \in 1..Len(rcvd[e]) \/ i = Len(rcvd[e]) + 1
        BY <4>1
      <4>3. M[Len(rcvd[e]) + 1] = msg
        BY <1>3, <2>3
      <4>4. \A i \in 1..Len(r) : M[i] = r[i]
        BY <1>11, <4>1, <4>2, <4>3 DEF Grows
      <4>5. Len(M) \in Nat /\ Len(r) <= Len(M)
        BY <1>1, <1>3, <4>1, SendingTyped DEF M
      <4> QED
        BY <4>1, <4>4, <4>5 DEF Grows
    <3> HIDE DEF r
    <3>2. After(M, Reader(e)) = <<Len(r) + 1, 0>>
      <4>1. Len(rcvd[e]) \in Nat
        BY <1>11
      <4>2. Len(r) + 1 = Len(rcvd[e]) + 2
        BY <3>1, <4>1
      <4> QED
        BY <1>3, <2>3, <4>2
    <3>3. Reading(M, r, << >>, TRUE, slot[e], ctlq[e], NRecv[e], qh[e] + 1, qt[e], cq[e],
                  Flying(e), Place(p))
      <4>1. << >> \in Seq(Nat) /\ Len(<< >>) = 0
        OBVIOUS
      <4>2. Stream(M, <<Len(r) + 1, Len(<< >>)>>, slot[e], ctlq[e], NRecv[e], qh[e] + 1, qt[e],
                   cq[e], Flying(e), Place(p))
        BY <1>3, <3>2, <4>1
      <4> QED
        BY <3>1, <4>1, <4>2 DEF Reading
    <3>4. rcvd'[e] = r /\ got'[e] = << >> /\ mode'[e] = "run"
      BY <1>2, <1>5, <2>3 DEF Set, r
    <3>5. Reading(M, rcvd'[e], got'[e], mode'[e] = "run", slot'[e], ctlq'[e], NRecv[e],
                  qh'[e], qt'[e], cq'[e], Flying(e)', Place(p))
      BY <1>2, <1>6, <1>10, <3>3, <3>4
    <3>6. Returned(e)
      BY <1>3, <2>3 DEF Returned, M, p
    <3> QED
      BY <1>7, <3>5, <3>6 DEF ReadOf, M, p
  <2> QED
    BY <1>2, <2>1, <2>2, <2>3
<1>13. QDomains'
  BY <1>2, <1>6 DEF QInv, QDomains, Slots
<1>14. Sides' /\ \A o \in Ends : Sent(o)' = Sent(o)
  BY <1>1, <1>7, <1>8, <1>9, <1>12 DEF Sides, M
<1> QED
  BY <1>12, <1>13, <1>14

-----------------------------------------------------------------------------
(* The refinement.                                                          *)

\* At first nothing is sent and nothing on its way.
LEMMA InitQueues == Init => QInv /\ \A e \in Ends : Sent(e) = << >>
<1> SUFFICES ASSUME Init PROVE QInv /\ \A e \in Ends : Sent(e) = << >>
  OBVIOUS
<1>1. CInv /\ job \in Jobs
  BY InitEstablishesCInv DEF Init
<1>2. QDomains
  BY DEF Init, QDomains
<1>3. ASSUME NEW e \in Ends PROVE plan[e] \in Seq(Mine(e)) /\ PlanOf(e)
  <2>1. plan[e] = (IF e = client THEN Send(Hello) \o Recv ELSE Recv) /\ pc[e] = 1 /\ off[e] = 0
    BY DEF Init
  <2>2. Recv \in Seq(Mine(e))
    BY CallsTyped DEF Mine
  <2>3. CASE e = client
    <3>1. Hello \in Msgs(VersionOf(e))
      BY <1>1, <2>3, HelloTyped DEF VersionOf
    <3>2. Send(Hello) \in Seq(Mine(e))
      BY <3>1, CallsTyped DEF Mine
    <3>3. Send(Hello) \o Recv \in Seq(Mine(e))
      BY <2>2, <3>2, Joined
    <3> QED
      BY <2>1, <2>3, <3>3 DEF PlanOf, PlanOk
  <2>4. CASE e # client
    BY <2>1, <2>2, <2>4 DEF PlanOf, PlanOk
  <2> QED
    BY <2>3, <2>4
<1>4. ASSUME NEW e \in Ends PROVE Sent(e) = << >> /\ Place(e) = <<1, 0>>
  <2>1. pc[e] = 1 /\ off[e] = 0 /\ plan[e] \in Seq(Calls(Msgs(VersionOf(e))))
    BY <1>3 DEF Init, Mine
  <2>2. SendsIn(plan[e], 0) = << >>
    BY <2>1, SendsFunction
  <2>3. Sent(e) = << >>
    BY <2>1, <2>2 DEF Sent, SentSoFar
  <2>4. Len(<< >>) + 1 = 1
    OBVIOUS
  <2> QED
    BY <2>1, <2>3, <2>4 DEF Place, Cursor, Sent
<1>5. ASSUME NEW e \in Ends PROVE AckOf(e) /\ ReadOf(e)
  <2>1. Peer[e] \in Ends
    BY TwoEnds
  <2>2. /\ wire[e] = << >> /\ wire[Peer[e]] = << >> /\ acks[e] = << >> /\ cq[e] = << >>
        /\ sendOut[e] = 0 /\ qh[e] = 0 /\ qt[e] = 0 /\ rcvd[e] = << >> /\ got[e] = << >>
    BY <2>1 DEF Init
  <2>3. Len(<< >>) = 0 /\ \A x : NoneIn(<< >>, x) /\ OneIn(<< >>, x)
    BY DEF NoneIn, OneIn
  <2>4. AckOf(e)
    BY <2>2, <2>3 DEF AckOf, Waiting
  <2>5. Flying(e) = Skip
    BY <2>2, <2>3 DEF Flying
  <2> DEFINE a == <<1, 0>>
  <2>6. a \in Places
    BY DEF Places
  <2> HIDE DEF a
  <2>7. Stream(<< >>, a, slot[e], ctlq[e], NRecv[e], 0, 0, << >>, Skip, a)
    <3>1. Path(<< >>, a, RingFrames(slot[e], ctlq[e], NRecv[e]), 0, 0, a)
      BY <2>6, PathNone
    <3>2. Path(<< >>, a, CqFrames(slot[e], << >>), 1, 1, a)
      BY <2>6, PathNone
    <3>3. Len(<< >>) + 1 = 1
      OBVIOUS
    <3>4. Path(<< >>, a, CqFrames(slot[e], << >>), 1, Len(<< >>) + 1, a)
      BY <3>2, <3>3
    <3>5. Leads(<< >>, a, Skip, a)
      BY DEF Leads, Skip
    <3>6. \A i \in 0..0 - 1 : ~slot[e][ctlq[e][i % NRecv[e]]].cred
      OBVIOUS
    <3> QED
      BY <2>6, <3>1, <3>4, <3>5, <3>6 DEF Stream
  <2>8. Reader(e) = a
    <3>1. Len(<< >>) + 1 = 1
      OBVIOUS
    <3> QED
      BY <2>2, <2>3, <3>1 DEF Reader, a
  <2>9. << >> \in Seq(Seq(Nat)) /\ << >> \in Seq(Nat) /\ Grows(<< >>, << >>)
    BY DEF Grows
  <2>10. Reading(<< >>, rcvd[e], got[e], mode[e] = "run", slot[e], ctlq[e], NRecv[e], qh[e],
                 qt[e], cq[e], Skip, a)
    BY <2>2, <2>7, <2>8, <2>9 DEF Reading, Reader
  <2>11. Sent(Peer[e]) = << >> /\ Place(Peer[e]) = a
    BY <1>4, <2>1 DEF a
  <2> QED
    BY <2>4, <2>5, <2>10, <2>11 DEF ReadOf
<1> QED
  BY <1>1, <1>2, <1>3, <1>4, <1>5 DEF QInv, Sides

\* An end begins a message.
Began(e) ==
  /\ rcvd' = rcvd /\ Sent(Peer[e])' = Sent(Peer[e])
  /\ \E m : Sent(e)' = Append(Sent(e), m)

\* Every step keeps the invariant, and sends or returns one message at most.
LEMMA NextQueues ==
  ASSUME QInv, [Next]_vars
  PROVE  /\ QInv'
         /\ \/ Quiet
            \/ \E e \in Ends :
                 Began(e) \/ (Returned(e) /\ \A o \in Ends : Sent(o)' = Sent(o))
<1> DEFINE Steps == \/ Quiet
                    \/ \E e \in Ends :
                         Began(e) \/ (Returned(e) /\ \A o \in Ends : Sent(o)' = Sent(o))
<1>1. CInv' /\ job' = job
  BY NextKeepsCInv DEF QInv, Next, vars
<1>2. QDomains' /\ Sides' /\ Steps
  <2>1. CASE UNCHANGED vars
    <3>1. /\ UNCHANGED <<plan, pc, mode, off, out, sendOut, slot, ctlq, qh, qt, got, rcvd,
                         wire, acks, cq>>
      BY <2>1 DEF vars, stepVars, sendVars, recvVars, readVars, netVars
    <3>2. \A o \in Ends : PlanOf(o)' /\ Sent(o)' = Sent(o) /\ Place(o)' = Place(o)
      BY <1>1, <3>1, PlanKept DEF QInv, Sides
    <3>3. \A o \in Ends : Peer[o] \in Ends
      BY TwoEnds
    <3>4. \A o \in Ends : AckOf(o)' /\ ReadOf(o)'
      BY <3>1, <3>2, <3>3, AckKept, ReadKept DEF QInv, Sides
    <3>5. QDomains'
      BY <3>1 DEF QInv, QDomains, Slots
    <3> QED
      BY <3>1, <3>2, <3>4, <3>5 DEF Quiet, Sides
  <2>2. ASSUME NEW e \in Ends, Deliver(e) \/ Acknowledge(e) PROVE QDomains' /\ Sides' /\ Steps
    BY <1>1, <2>2, DeliverQueues, AcknowledgeQueues
  <2>3. ASSUME NEW e \in Ends, EndStep(e) PROVE QDomains' /\ Sides' /\ Steps
    <3>1. CASE HandleWc(e) \/ CreditFrame(e)
      BY <1>1, <3>1, HandleQueues, CreditQueues
    <3>2. CASE SendDone(e) \/ CreditDone(e) \/ WaitDone(e) \/ Pop(e) \/ Write(e)
      BY <1>1, <3>2, ReturnQueues
    <3>3. CASE PollReturns(e) \/ SendRefused(e)
      BY <1>1, <3>3, StopQueues
    <3>4. CASE SendFrame(e)
      <4>1. /\ QDomains' /\ Sides' /\ rcvd' = rcvd /\ Sent(Peer[e])' = Sent(Peer[e])
            /\ Sent(e)' = Sent(e) \/ Sent(e)' = Append(Sent(e), Call(e).msg)
        BY <1>1, <3>4, SendQueues
      <4>2. Quiet \/ Began(e)
        BY <4>1, TwoEnds DEF Quiet, Began
      <4> QED
        BY <4>1, <4>2
    <3>5. CASE ReadFrame(e)
      <4>1. /\ QDomains' /\ Sides' /\ \A o \in Ends : Sent(o)' = Sent(o)
            /\ rcvd' = rcvd \/ Returned(e)
        BY <1>1, <3>5, ReadQueues
      <4> QED
        BY <4>1 DEF Quiet
    <3> QED
      BY <2>3, <3>1, <3>2, <3>3, <3>4, <3>5 DEF EndStep
  <2> QED
    BY <2>1, <2>2, <2>3 DEF Next
<1> QED
  BY <1>1, <1>2 DEF QInv


\* The invariant holds in every state: the plan of each end is one of calls with
\* messages of its version, a frame is sent when the last one has been acknowledged,
\* and what an end has read and is still to read, frame by frame, is what the other
\* one has sent (ctl_send_flagged and ibx_ctl_recv, src/csrc/ibx.c).
THEOREM QueueInvariant == Spec => []QInv
<1>1. Init => QInv
  BY InitQueues
<1>2. QInv /\ [Next]_vars => QInv'
  BY NextQueues
<1> QED
  BY <1>1, <1>2, PTL DEF Spec

\* What is sent is as the specification of the queues is told.
LEMMA SentIs == \A e \in Ends : SentBy(e) = Sent(e) /\ (SentBy(e) = Sent(e))'
BY DEF SentBy, Sent, SentSoFar

\* A step of the channel is one of the queues, or none.
LEMMA NextIsQueues ==
  ASSUME QInv, [Next]_vars
  PROVE  [Queues!Next]_(Queues!vars)
<1> DEFINE all == [e \in Ends |-> SentBy(e)]
<1>1. all = [e \in Ends |-> Sent(e)] /\ all' = [e \in Ends |-> Sent(e)']
  BY SentIs
<1>2. DOMAIN rcvd = Ends
  BY DEF QInv, QDomains
<1>3. CASE Quiet
  BY <1>1, <1>3 DEF Quiet, Queues!vars
<1>4. ASSUME NEW e \in Ends, Began(e) PROVE Queues!Send(e)
  <2>1. PICK m : Sent(e)' = Append(Sent(e), m)
    BY <1>4 DEF Began
  <2>2. Sent(e) \in Seq(Seq(Nat))
    BY SendingTyped
  <2>3. Len(Sent(e)') = Len(Sent(e)) + 1 /\ Queues!Last(Sent(e)') = m
    BY <2>1, <2>2 DEF Queues!Last
  <2>4. \A o \in Ends : o = e \/ Sent(o)' = Sent(o)
    BY <1>4, TwoEnds DEF Began
  <2>5. all'[e] = Sent(e)' /\ all[e] = Sent(e)
    BY <1>1
  <2>6. all' = [all EXCEPT ![e] = Append(@, Queues!Last(all'[e]))]
    <3> DEFINE q == Append(Sent(e), m)
    <3>1. [all EXCEPT ![e] = q] = [o \in Ends |-> IF o = e THEN q ELSE Sent(o)]
      BY <1>1
    <3>2. \A o \in Ends : Sent(o)' = (IF o = e THEN q ELSE Sent(o))
      BY <2>1, <2>4
    <3>3. [o \in Ends |-> Sent(o)'] = [o \in Ends |-> IF o = e THEN q ELSE Sent(o)]
      BY <3>2
    <3>4. all' = [all EXCEPT ![e] = q]
      BY <1>1, <3>1, <3>3
    <3>5. q = Append(all[e], Queues!Last(all'[e]))
      BY <2>3, <2>5
    <3> QED
      BY <3>4, <3>5
  <2>7. rcvd' = rcvd
    BY <1>4 DEF Began
  <2> QED
    BY <2>3, <2>5, <2>6, <2>7 DEF Queues!Send
<1>5. ASSUME NEW e \in Ends, Returned(e), \A o \in Ends : Sent(o)' = Sent(o)
      PROVE  Queues!Receive(e)
  <2> DEFINE n == Len(rcvd[e]) + 1
  <2>1. all' = all
    BY <1>1, <1>5
  <2>2. Peer[e] \in Ends /\ all[Peer[e]] = Sent(Peer[e])
    BY <1>1, TwoEnds
  <2>3. n <= Len(all[Peer[e]])
    BY <1>5, <2>2 DEF Returned
  <2>4. rcvd' = [rcvd EXCEPT ![e] = Append(@, all[Peer[e]][n])]
    BY <1>2, <1>5, <2>2 DEF Returned, Set
  <2> QED
    BY <2>1, <2>3, <2>4 DEF Queues!Receive
<1>6. CASE \E e \in Ends : Began(e) \/ (Returned(e) /\ \A o \in Ends : Sent(o)' = Sent(o))
  <2>1. \E e \in Ends : Queues!Send(e) \/ Queues!Receive(e)
    BY <1>4, <1>5, <1>6
  <2> QED
    BY <2>1 DEF Queues!Next
<1> QED
  BY <1>3, <1>6, NextQueues

\* Each direction of the control channel is a queue of whole messages, however they
\* are cut into frames and in whatever order the frames, the immediates and the
\* credit of both ends come and are handled.
THEOREM ChannelIsQueues == Spec => QueuesSpec
<1>1. Init => Queues!Init
  <2> SUFFICES ASSUME Init PROVE Queues!Init
    OBVIOUS
  <2>1. [e \in Ends |-> SentBy(e)] = [e \in Ends |-> << >>]
    BY InitQueues, SentIs
  <2> QED
    BY <2>1 DEF Init, Queues!Init
<1>2. QInv /\ [Next]_vars => [Queues!Next]_(Queues!vars)
  BY NextIsQueues
<1> QED
  BY <1>1, <1>2, QueueInvariant, PTL DEF Spec, QueuesSpec, Queues!Spec


-----------------------------------------------------------------------------
(* Both ends learn of the other's version.                                  *)

\* No end comes past the last call of its plan before it has read a message.
Unread(e) ==
  rcvd[e] = << >> => /\ plan[e] # << >> /\ pc[e] <= Len(plan[e])
                     /\ plan[e][Len(plan[e])].op = "recv"
AllUnread == \A e \in Ends : Unread(e)

\* At first nothing has been read.
LEMMA InitUnread == Init => AllUnread
<1> SUFFICES ASSUME Init, NEW e \in Ends PROVE Unread(e)
  BY DEF AllUnread
<1>1. pc[e] = 1 /\ plan[e] = (IF e = client THEN Send(Hello) \o Recv ELSE Recv)
  BY DEF Init
<1> DEFINE c == [op |-> "send", msg |-> Hello]
           r == [op |-> "recv"]
<1>2. r.op = "recv"
  OBVIOUS
<1> HIDE DEF c, r
<1>3. Len(<<c>> \o <<r>>) = 2 /\ (<<c>> \o <<r>>)[2] = r /\ Len(<<r>>) = 1 /\ <<r>>[1] = r
  OBVIOUS
<1> QED
  BY <1>1, <1>2, <1>3 DEF Unread, Send, Recv, c, r

\* A read that does not return a message does not end a plan, and no other call
\* that returns is the one to read.
LEMMA NextUnread ==
  ASSUME QInv, AllUnread, [Next]_vars
  PROVE  AllUnread'
<1> SUFFICES ASSUME NEW o \in Ends PROVE Unread(o)'
  BY DEF AllUnread
<1>1. Unread(o) /\ pc[o] \in Nat /\ Len(plan[o]) \in Nat /\ rcvd[o] \in Seq(Seq(Nat))
      /\ DOMAIN plan = Ends /\ DOMAIN pc = Ends /\ DOMAIN rcvd = Ends
  <2>1. PlanOf(o) /\ ReadOf(o) /\ QDomains /\ Unread(o)
    BY DEF QInv, Sides, AllUnread
  <2>2. pc[o] \in Nat /\ Len(plan[o]) \in Nat
    BY <2>1 DEF PlanOf, PlanOk
  <2>3. rcvd[o] \in Seq(Seq(Nat))
    BY <2>1 DEF ReadOf, Reading
  <2> QED
    BY <2>1, <2>2, <2>3 DEF QDomains
<1>2. CASE plan'[o] = plan[o] /\ pc'[o] = pc[o] /\ rcvd'[o] = rcvd[o]
  BY <1>1, <1>2 DEF Unread
<1>3. CASE In(o, "recv") /\ \E m : rcvd' = Set(rcvd, o, Append(rcvd[o], m))
  <2>1. PICK m : rcvd' = Set(rcvd, o, Append(rcvd[o], m))
    BY <1>3
  <2>2. rcvd'[o] = Append(rcvd[o], m)
    BY <1>1, <2>1 DEF Set
  <2> DEFINE S == Seq(Nat)
             q == rcvd[o]
  <2>3. q \in Seq(S)
    BY <1>1
  <2> HIDE DEF S, q
  <2>4. Append(q, m) # << >>
    <3>1. Len(Append(q, m)) = Len(q) + 1 /\ Len(q) \in Nat /\ Len(<< >>) = 0
      BY <2>3
    <3> QED
      BY <3>1
  <2>5. rcvd'[o] # << >>
    BY <2>2, <2>4 DEF q
  <2> QED
    BY <2>5 DEF Unread
<1>4. CASE /\ ~In(o, "recv") /\ Running(o) /\ pc' = Set(pc, o, pc[o] + 1)
           /\ plan' = plan /\ rcvd' = rcvd
  <2>1. pc'[o] = pc[o] + 1 /\ plan'[o] = plan[o] /\ rcvd'[o] = rcvd[o]
    BY <1>1, <1>4 DEF Set
  <2>2. pc[o] <= Len(plan[o]) /\ plan[o][pc[o]].op # "recv"
    BY <1>4 DEF In, Running, Call
  <2>3. ASSUME rcvd[o] = << >> PROVE pc[o] # Len(plan[o])
    BY <1>1, <2>2, <2>3 DEF Unread
  <2> QED
    BY <1>1, <2>1, <2>2, <2>3 DEF Unread
<1>5. CASE UNCHANGED vars
  BY <1>2, <1>5 DEF vars, stepVars, readVars
<1>6. ASSUME NEW e \in Ends, Deliver(e) \/ Acknowledge(e) PROVE Unread(o)'
  BY <1>2, <1>6 DEF Deliver, Acknowledge, readVars
<1>7. ASSUME NEW e \in Ends, EndStep(e) PROVE Unread(o)'
  <2>1. CASE HandleWc(e) \/ PollReturns(e) \/ SendFrame(e) \/ SendRefused(e) \/ CreditFrame(e)
    BY <1>2, <2>1 DEF HandleWc, PollReturns, SendFrame, SendRefused, CreditFrame, readVars
  <2>2. CASE SendDone(e) \/ CreditDone(e) \/ WaitDone(e) \/ Pop(e) \/ Write(e)
    <3>1. /\ ~In(e, "recv") /\ Running(e) /\ pc' = Set(pc, e, pc[e] + 1)
          /\ plan' = plan /\ rcvd' = rcvd
      BY <2>2 DEF SendDone, CreditDone, WaitDone, Pop, Write, Returns, In, readVars
    <3>2. CASE e = o
      BY <1>4, <3>1, <3>2
    <3>3. CASE e # o
      <4>1. pc'[o] = pc[o]
        BY <1>1, <3>1, <3>3 DEF Set
      <4> QED
        BY <1>2, <3>1, <4>1
    <3> QED
      BY <3>2, <3>3
  <2>3. CASE ReadFrame(e)
    <3>1. /\ In(e, "recv")
          /\ \/ plan' = plan /\ pc' = pc /\ rcvd' = rcvd
             \/ /\ \E m : rcvd' = Set(rcvd, e, Append(rcvd[e], m))
                /\ \E p : plan' = Set(plan, e, p)
                /\ pc' = Set(pc, e, pc[e] + 1)
      BY <2>3 DEF ReadFrame, Returns
    <3>2. CASE plan' = plan /\ pc' = pc /\ rcvd' = rcvd
      BY <1>2, <3>2
    <3>3. CASE /\ \E m : rcvd' = Set(rcvd, e, Append(rcvd[e], m))
               /\ \E p : plan' = Set(plan, e, p)
               /\ pc' = Set(pc, e, pc[e] + 1)
      <4>1. CASE e = o
        BY <1>3, <3>1, <3>3, <4>1
      <4>2. CASE e # o
        <5>1. rcvd'[o] = rcvd[o] /\ plan'[o] = plan[o] /\ pc'[o] = pc[o]
          BY <1>1, <3>3, <4>2 DEF Set
        <5> QED
          BY <1>2, <5>1
      <4> QED
        BY <4>1, <4>2
    <3> QED
      BY <3>1, <3>2, <3>3
  <2> QED
    BY <1>7, <2>1, <2>2, <2>3 DEF EndStep
<1> QED
  BY <1>5, <1>6, <1>7 DEF Next

\* What an end has read first is of the version of the other one.
LEMMA FirstRead ==
  ASSUME QInv, NEW e \in Ends, rcvd[e] # << >>
  PROVE  rcvd[e][1] \in Msgs(VersionOf(Peer[e]))
<1> DEFINE M == Sent(Peer[e])
           V == Msgs(VersionOf(Peer[e]))
<1>1. M \in Seq(V)
  BY TwoEnds, SendingTyped
<1>2. rcvd[e] \in Seq(Seq(Nat)) /\ Grows(rcvd[e], M)
  BY DEF QInv, Sides, ReadOf, Reading
<1> HIDE DEF M, V
<1>3. 1 \in 1..Len(rcvd[e])
  BY <1>2
<1>4. 1 \in 1..Len(M) /\ M[1] = rcvd[e][1]
  BY <1>1, <1>2, <1>3 DEF Grows
<1>5. M[1] \in V
  BY <1>1, <1>4, ElementOfSeq
<1> QED
  BY <1>4, <1>5 DEF V

\* A program that meets one of another version comes to the end of its calls only
\* with that version in its hands, at both ends (recv.rs:175, decode_checked).
THEOREM BothTold == Spec => []BothToldOfVersions
<1>1. Init => AllUnread
  BY InitUnread
<1>2. QInv /\ AllUnread /\ [Next]_vars => AllUnread'
  BY NextUnread
<1>3. QInv /\ AllUnread => BothToldOfVersions
  <2> SUFFICES ASSUME QInv, AllUnread, job.version # VERSION, NEW e \in Ends, AtEnd(e)
               PROVE  Heard(e, rcvd[e][1]) = VersionMismatch(VersionOf(Peer[e]))
    <3>1. /\ client \in Ends /\ server \in Ends
          /\ VersionOf(Peer[server]) = job.version /\ VersionOf(Peer[client]) = VERSION
      BY CtlAssumption DEF Ends, Peer, VersionOf
    <3> QED
      BY <3>1 DEF BothToldOfVersions
  <2>1. rcvd[e] # << >>
    <3>1. pc[e] \in Nat /\ Len(plan[e]) \in Nat
      BY DEF QInv, Sides, PlanOf, PlanOk
    <3> QED
      BY <3>1 DEF AtEnd, AllUnread, Unread
  <2>2. rcvd[e][1] \in Msgs(VersionOf(Peer[e]))
    BY <2>1, FirstRead
  <2>3. VersionOf(Peer[e]) # VersionOf(e)
    BY CtlAssumption DEF Ends, Peer, VersionOf
  <2> DEFINE m == rcvd[e][1]
             v == VersionOf(Peer[e])
  <2>4. m \in Seq(Nat) /\ Len(m) >= 3 /\ m[1] = MAGIC /\ m[2] = v
    BY <2>2 DEF Msgs
  <2> HIDE DEF m, v
  <2>5. ~(Len(m) < 3) /\ ~(m[1] # MAGIC)
    BY <2>4
  <2>6. m[2] # VersionOf(e)
    BY <2>3, <2>4 DEF v
  <2>7. decode_checked(VersionOf(e), m) = VersionMismatch(m[2])
    BY <2>5, <2>6 DEF decode_checked
  <2> QED
    BY <2>4, <2>7 DEF Heard, m, v
<1> QED
  BY <1>1, <1>2, <1>3, QueueInvariant, PTL DEF Spec


-----------------------------------------------------------------------------
(* How many elements of a queue are of a kind.                              *)

Marked(s, T) == {i \in 1..Len(s) : s[i] \in T}
Count(s, T) == Cardinality(Marked(s, T))

\* Adding an element counts it if it is of the kind, and taking one uncounts it.
LEMMA Counted ==
  ASSUME NEW S, NEW s \in Seq(S), NEW T
  PROVE  /\ Count(s, T) \in Nat
         /\ \A x \in S : Count(Append(s, x), T) = IF x \in T THEN Count(s, T) + 1 ELSE Count(s, T)
         /\ s # << >> => Count(Tail(s), T) = IF Head(s) \in T THEN Count(s, T) - 1 ELSE Count(s, T)
<1> DEFINE n == Len(s)
           P == Marked(s, T)
<1>1. n \in Nat /\ P \subseteq 1..n
  BY DEF Marked
<1>2. IsFiniteSet(1..n)
  BY <1>1, FS_Interval
<1>3. IsFiniteSet(P) /\ Cardinality(P) \in Nat
  BY <1>1, <1>2, FS_Subset, FS_CardinalityType
<1>4. ASSUME NEW x \in S
      PROVE  Count(Append(s, x), T) = IF x \in T THEN Count(s, T) + 1 ELSE Count(s, T)
  <2>1. /\ Len(Append(s, x)) = n + 1 /\ Append(s, x)[n + 1] = x
        /\ \A i \in 1..n : Append(s, x)[i] = s[i]
    OBVIOUS
  <2>2. 1..n + 1 = (1..n) \cup {n + 1} /\ n + 1 \notin 1..n
    BY <1>1
  <2>3. Marked(Append(s, x), T) = IF x \in T THEN P \cup {n + 1} ELSE P
    BY <2>1, <2>2 DEF Marked
  <2>4. n + 1 \notin P
    BY <1>1, <2>2
  <2> HIDE DEF P
  <2>5. Cardinality(P \cup {n + 1}) = Cardinality(P) + 1
    BY <1>3, <2>4, FS_AddElement
  <2> QED
    BY <2>3, <2>5 DEF Count, P
<1>5. ASSUME s # << >>
      PROVE  Count(Tail(s), T) = IF Head(s) \in T THEN Count(s, T) - 1 ELSE Count(s, T)
  <2> DEFINE Q == Marked(Tail(s), T)
             R == P \ {1}
             f == [i \in Q |-> i + 1]
  <2>1. /\ n \in Nat \ {0} /\ Head(s) = s[1] /\ Len(Tail(s)) = n - 1
        /\ \A i \in 1..n - 1 : Tail(s)[i] = s[i + 1]
    BY <1>5
  <2>2. Q \subseteq 1..n - 1 /\ \A i \in 1..n - 1 : i \in Q <=> i + 1 \in P
    <3>1. Q = {i \in 1..n - 1 : s[i + 1] \in T}
      BY <2>1 DEF Marked
    <3>2. \A i \in 1..n - 1 : i + 1 \in 1..n
      BY <2>1
    <3> QED
      BY <3>1, <3>2 DEF Marked
  <2>3. IsFiniteSet(1..n - 1)
    BY <2>1, FS_Interval
  <2>4. IsFiniteSet(Q)
    BY <2>2, <2>3, FS_Subset
  <2> HIDE DEF P, Q
  <2>5. f \in Bijection(Q, R)
    <3>1. \A i \in Q : i \in Nat /\ i + 1 \in R /\ f[i] = i + 1
      BY <2>2
    <3>2. f \in [Q -> R]
      BY <3>1
    <3>3. \A i, j \in Q : f[i] = f[j] => i = j
      BY <3>1
    <3>4. \A j \in R : j - 1 \in Q /\ f[j - 1] = j
      <4>1. ASSUME NEW j \in R PROVE j - 1 \in 1..n - 1 /\ (j - 1) + 1 = j /\ j \in P
        BY <1>1, <2>1
      <4> QED
        BY <2>2, <3>1, <4>1
    <3> HIDE DEF f, R
    <3>5. f \in Injection(Q, R)
      BY <3>2, <3>3 DEF Injection, IsInjective
    <3>6. f \in Surjection(Q, R)
      BY <3>2, <3>4 DEF Surjection
    <3> QED
      BY <3>5, <3>6 DEF Bijection
  <2>6. Cardinality(Q) = Cardinality(R)
    BY <2>4, <2>5, FS_Bijection DEF ExistsBijection
  <2>7. Cardinality(R) = IF 1 \in P THEN Cardinality(P) - 1 ELSE Cardinality(P)
    BY <1>3, FS_RemoveElement
  <2>8. 1 \in P <=> Head(s) \in T
    BY <2>1 DEF P, Marked
  <2> QED
    BY <2>6, <2>7, <2>8 DEF Count, P, Q
<1> QED
  BY <1>3, <1>4, <1>5 DEF Count

\* There is none in an empty queue.
LEMMA CountNone == \A T : Count(<< >>, T) = 0
<1> SUFFICES ASSUME NEW T PROVE Count(<< >>, T) = 0
  OBVIOUS
<1>1. Marked(<< >>, T) = {}
  BY DEF Marked
<1> QED
  BY <1>1, FS_EmptySet DEF Count


-----------------------------------------------------------------------------
(* The plans.  The data plane of both ends begins with the fourth call.      *)

ClientPlan(p) ==
  /\ Len(p) \in {2, 3, 2 * Blocks + 5}
  /\ \A i \in 1..Len(p) :
       /\ i \in {1, 3, 2 * Blocks + 5} => p[i].op = "send"
       /\ i = 2 => p[i].op = "recv"
       /\ i \in 4..2 * Blocks + 4 => p[i] = DataOut[i - 3]
ServerPlan(p) ==
  /\ Len(p) \in {1, 2, 3, 2 * Blocks + 3}
  /\ \A i \in 1..Len(p) :
       /\ i \in {1, 3, 2 * Blocks + 3} => p[i].op = "recv"
       /\ i = 2 => p[i].op = "send"
       /\ i \in 4..2 * Blocks + 2 => p[i] = DataIn[i - 3]
Plan(e, p) == IF e = client THEN ClientPlan(p) ELSE ServerPlan(p)

\* Pairs of calls of the data plane before call k.
Pairs(k) == IF k < 4 THEN 0 ELSE Smaller(Blocks, (k - 3) \div 2)

\* Of an end in call k, the slabs it has acquired and the WRITEs it has posted, and
\* the immediates it has taken out.
Acquired(e, k) == IF e = client THEN Pairs(k) ELSE 0
Written(e, k) == IF e = client THEN Pairs(k - 1) ELSE 0
Popped(e, k) == IF e = server THEN Pairs(k) ELSE 0

\* They are bounded by the blocks of the transfer.
LEMMA PairsBounded ==
  ASSUME NEW e \in Ends, NEW k \in Nat
  PROVE  /\ Pairs(k) \in 0..Blocks /\ Pairs(k - 1) \in 0..Blocks /\ Pairs(k - 1) <= Pairs(k)
         /\ Pairs(k) <= Pairs(k + 1)
<1>1. Blocks \in Nat \ {0}
  BY CtlAssumption
<1>2. ASSUME NEW j \in Int PROVE Pairs(j) \in 0..Blocks /\ Pairs(j) <= Pairs(j + 1)
  <2>1. (j - 3) \div 2 \in Int /\ (j + 1 - 3) \div 2 \in Int
    OBVIOUS
  <2>2. (j - 3) \div 2 <= (j + 1 - 3) \div 2 /\ (j >= 4 => (j - 3) \div 2 >= 0)
        /\ (j >= 3 => (j + 1 - 3) \div 2 >= 0)
    OBVIOUS
  <2> QED
    BY <1>1, <2>1, <2>2 DEF Pairs, Smaller
<1>3. k \in Int /\ k - 1 \in Int /\ (k - 1) + 1 = k
  OBVIOUS
<1> QED
  BY <1>2, <1>3

\* What a call that returns adds to them.
Adds(e, p, k) ==
  /\ Acquired(e, k + 1) = Acquired(e, k) + (IF p[k].op = "acquire" THEN 1 ELSE 0)
  /\ Written(e, k + 1) = Written(e, k) + (IF p[k].op = "write" THEN 1 ELSE 0)
  /\ Popped(e, k + 1) = Popped(e, k) + (IF p[k].op = "pop" THEN 1 ELSE 0)
  /\ p[k].op = "acquire" => e = client /\ p[k].count = Acquired(e, k + 1) - Window
  /\ p[k].op = "credit" => p[k].count = Popped(e, k)
  /\ p[k].op = "write" => e = client
  /\ p[k].op = "pop" => e = server

\* The client acquires and writes, in turn.
LEMMA ClientCounts ==
  ASSUME NEW p, ClientPlan(p), NEW k \in 1..Len(p)
  PROVE  Adds(client, p, k)
<1>1. Blocks \in Nat \ {0} /\ client # server /\ k \in Nat
  BY CtlAssumption DEF ClientPlan
<1>2. k \in {1, 2, 3} \/ k \in 4..2 * Blocks + 4 \/ k = 2 * Blocks + 5
  <2>1. Len(p) <= 2 * Blocks + 5 /\ Len(p) \in Nat
    BY <1>1 DEF ClientPlan
  <2> DEFINE l == Len(p)
  <2>2. k \in 1..l /\ l <= 2 * Blocks + 5 /\ l \in Nat
    BY <2>1
  <2> HIDE DEF l
  <2> QED
    BY <1>1, <2>2
<1>3. CASE k \in {1, 2, 3}
  <2>1. p[k].op \in {"send", "recv"}
    BY <1>3 DEF ClientPlan
  <2>2. Pairs(k - 1) = 0 /\ Pairs(k) = 0
    BY <1>3 DEF Pairs
  <2>3. Pairs(k + 1) = 0
    <3>1. k < 3 \/ (k = 3 /\ (4 - 3) \div 2 = 0)
      BY <1>3
    <3> QED
      BY <1>1, <1>3, <3>1 DEF Pairs, Smaller
  <2> QED
    BY <1>1, <2>1, <2>2, <2>3 DEF Adds, Acquired, Written, Popped
<1>4. CASE k = 2 * Blocks + 5
  <2>1. p[k].op = "send"
    BY <1>4 DEF ClientPlan
  <2>2. Pairs(k - 1) = Blocks /\ Pairs(k) = Blocks /\ Pairs(k + 1) = Blocks
    <3>1. (k - 1 - 3) \div 2 >= Blocks /\ (k - 3) \div 2 >= Blocks /\ (k + 1 - 3) \div 2 >= Blocks
      BY <1>1, <1>4
    <3> QED
      BY <1>1, <1>4, <3>1 DEF Pairs, Smaller
  <2>3. (k + 1) - 1 = k
    BY <1>1
  <2> QED
    BY <1>1, <2>1, <2>2, <2>3 DEF Adds, Acquired, Written, Popped
<1>5. CASE k \in 4..2 * Blocks + 4
  <2> DEFINE i == k - 3
  <2>1. /\ i \in 1..2 * Blocks + 1 /\ p[k] = DataOut[i]
        /\ DataOut[i] = IF i > 2 * Blocks THEN [op |-> "drain"]
                        ELSE IF i % 2 = 0 THEN [op |-> "write"]
                        ELSE [op |-> "acquire", count |-> i \div 2 + 1 - Window]
    <3>1. i \in 1..2 * Blocks + 1
      BY <1>1, <1>5
    <3>2. p[k] = DataOut[k - 3]
      BY <1>5 DEF ClientPlan
    <3> HIDE DEF i
    <3> QED
      BY <3>1, <3>2 DEF DataOut, i
  <2>2. (k + 1) - 1 = k /\ k + 1 - 3 = i + 1 /\ k - 1 - 3 = i - 1 /\ k - 3 = i
    BY <1>1
  <2>3. /\ Pairs(k + 1) = Smaller(Blocks, (i + 1) \div 2)
        /\ Pairs(k) = Smaller(Blocks, i \div 2)
        /\ Pairs(k - 1) = Smaller(Blocks, (i - 1) \div 2)
    <3>1. Pairs(k + 1) = Smaller(Blocks, (i + 1) \div 2) /\ Pairs(k) = Smaller(Blocks, i \div 2)
      BY <1>1, <1>5, <2>2 DEF Pairs
    <3>2. CASE k = 4
      <4>1. i - 1 = 0 /\ 0 \div 2 = 0 /\ k - 1 < 4
        BY <3>2
      <4> QED
        BY <1>1, <3>1, <4>1 DEF Pairs, Smaller
    <3>3. CASE k # 4
      BY <1>1, <1>5, <2>2, <3>1, <3>3 DEF Pairs
    <3> QED
      BY <3>2, <3>3
  <2> HIDE DEF i
  <2>4. CASE i > 2 * Blocks
    <3>1. (i + 1) \div 2 >= Blocks /\ i \div 2 >= Blocks /\ (i - 1) \div 2 >= Blocks
      BY <1>1, <2>1, <2>4
    <3>2. (i + 1) \div 2 \in Int /\ i \div 2 \in Int /\ (i - 1) \div 2 \in Int
      BY <2>1
    <3>3. Pairs(k + 1) = Blocks /\ Pairs(k) = Blocks /\ Pairs(k - 1) = Blocks
      BY <1>1, <2>3, <3>1, <3>2 DEF Smaller
    <3>4. p[k].op = "drain"
      BY <2>1, <2>4
    <3> QED
      BY <1>1, <2>2, <3>3, <3>4 DEF Adds, Acquired, Written, Popped
  <2>5. CASE i <= 2 * Blocks /\ i % 2 = 0
    <3>1. /\ (i + 1) \div 2 = i \div 2 /\ (i - 1) \div 2 = i \div 2 - 1 /\ i \div 2 <= Blocks
          /\ i \div 2 \in Int
      <4>1. i \in Nat
        BY <2>1
      <4>2. i = 2 * (i \div 2)
        BY <2>5, <4>1
      <4> QED
        BY <1>1, <2>5, <4>1, <4>2
    <3>2. Pairs(k + 1) = i \div 2 /\ Pairs(k) = i \div 2 /\ Pairs(k - 1) = i \div 2 - 1
      BY <1>1, <2>3, <3>1 DEF Smaller
    <3>3. p[k].op = "write"
      BY <1>1, <2>1, <2>5
    <3> DEFINE j == i \div 2
    <3>4. j \in Int
      BY <3>1
    <3>5. /\ Acquired(client, k + 1) = j /\ Acquired(client, k) = j
          /\ Written(client, k + 1) = j /\ Written(client, k) = j - 1
          /\ Popped(client, k + 1) = 0 /\ Popped(client, k) = 0
      BY <1>1, <2>2, <3>2 DEF Acquired, Written, Popped
    <3> HIDE DEF j
    <3> QED
      BY <3>3, <3>4, <3>5 DEF Adds
  <2>6. CASE i <= 2 * Blocks /\ i % 2 # 0
    <3>1. /\ (i + 1) \div 2 = i \div 2 + 1 /\ (i - 1) \div 2 = i \div 2 /\ i \div 2 + 1 <= Blocks
          /\ i \div 2 \in Int
      <4>1. i \in Nat
        BY <2>1
      <4>2. i = 2 * (i \div 2) + 1
        BY <2>6, <4>1
      <4> QED
        BY <1>1, <2>6, <4>1, <4>2
    <3>2. Pairs(k + 1) = i \div 2 + 1 /\ Pairs(k) = i \div 2 /\ Pairs(k - 1) = i \div 2
      BY <1>1, <2>3, <3>1 DEF Smaller
    <3> DEFINE j == i \div 2
    <3>3. p[k].op = "acquire" /\ p[k].count = j + 1 - Window
      BY <1>1, <2>1, <2>6
    <3>4. j \in Int
      BY <3>1
    <3>5. /\ Acquired(client, k + 1) = j + 1 /\ Acquired(client, k) = j
          /\ Written(client, k + 1) = j /\ Written(client, k) = j
          /\ Popped(client, k + 1) = 0 /\ Popped(client, k) = 0
      BY <1>1, <2>2, <3>2 DEF Acquired, Written, Popped
    <3> HIDE DEF j
    <3>6. Window \in Nat
      BY CtlAssumption
    <3> QED
      BY <3>3, <3>4, <3>5, <3>6 DEF Adds
  <2> QED
    BY <1>1, <2>1, <2>4, <2>5, <2>6
<1> QED
  BY <1>2, <1>3, <1>4, <1>5


\* The server takes an immediate out and announces credit, in turn.
LEMMA ServerCounts ==
  ASSUME NEW p, ServerPlan(p), NEW k \in 1..Len(p)
  PROVE  Adds(server, p, k)
<1>1. Blocks \in Nat \ {0} /\ client # server /\ k \in Nat
  BY CtlAssumption DEF ServerPlan
<1>2. k \in {1, 2, 3} \/ k \in 4..2 * Blocks + 2 \/ k = 2 * Blocks + 3
  <2>1. Len(p) <= 2 * Blocks + 3 /\ Len(p) \in Nat
    BY <1>1 DEF ServerPlan
  <2> DEFINE l == Len(p)
  <2>2. k \in 1..l /\ l <= 2 * Blocks + 3 /\ l \in Nat
    BY <2>1
  <2> HIDE DEF l
  <2> QED
    BY <1>1, <2>2
<1>3. CASE k \in {1, 2, 3}
  <2>1. p[k].op \in {"send", "recv"}
    BY <1>3 DEF ServerPlan
  <2>2. Pairs(k) = 0
    BY <1>3 DEF Pairs
  <2>3. Pairs(k + 1) = 0
    <3>1. k < 3 \/ (k = 3 /\ (4 - 3) \div 2 = 0)
      BY <1>3
    <3> QED
      BY <1>1, <1>3, <3>1 DEF Pairs, Smaller
  <2> QED
    BY <1>1, <2>1, <2>2, <2>3 DEF Adds, Acquired, Written, Popped
<1>4. CASE k = 2 * Blocks + 3
  <2>1. p[k].op = "recv"
    BY <1>4 DEF ServerPlan
  <2>2. Pairs(k) = Blocks /\ Pairs(k + 1) = Blocks
    <3>1. (k - 3) \div 2 >= Blocks /\ (k + 1 - 3) \div 2 >= Blocks
      BY <1>1, <1>4
    <3> QED
      BY <1>1, <1>4, <3>1 DEF Pairs, Smaller
  <2> QED
    BY <1>1, <2>1, <2>2 DEF Adds, Acquired, Written, Popped
<1>5. CASE k \in 4..2 * Blocks + 2
  <2> DEFINE i == k - 3
  <2>1. /\ i \in 1..2 * Blocks - 1 /\ p[k] = DataIn[i]
        /\ DataIn[i] = IF i % 2 = 1 THEN [op |-> "pop"] ELSE [op |-> "credit", count |-> i \div 2]
    <3>1. i \in 1..2 * Blocks - 1
      BY <1>1, <1>5
    <3>2. p[k] = DataIn[k - 3]
      BY <1>5 DEF ServerPlan
    <3> HIDE DEF i
    <3> QED
      BY <3>1, <3>2 DEF DataIn, i
  <2>2. /\ Pairs(k + 1) = Smaller(Blocks, (i + 1) \div 2)
        /\ Pairs(k) = Smaller(Blocks, i \div 2)
    <3>1. k + 1 - 3 = i + 1
      BY <1>1
    <3> QED
      BY <1>1, <1>5, <3>1 DEF Pairs
  <2> HIDE DEF i
  <2> DEFINE j == i \div 2
  <2>3. CASE i % 2 = 1
    <3>1. (i + 1) \div 2 = j + 1 /\ j + 1 <= Blocks /\ j \in Int
      BY <1>1, <2>1, <2>3
    <3>2. Pairs(k + 1) = j + 1 /\ Pairs(k) = j
      BY <1>1, <2>2, <3>1 DEF Smaller
    <3>3. p[k].op = "pop"
      BY <2>1, <2>3
    <3>4. /\ Acquired(server, k + 1) = 0 /\ Acquired(server, k) = 0
          /\ Written(server, k + 1) = 0 /\ Written(server, k) = 0
          /\ Popped(server, k + 1) = j + 1 /\ Popped(server, k) = j
      BY <1>1, <3>2 DEF Acquired, Written, Popped
    <3> HIDE DEF j
    <3> QED
      BY <3>1, <3>3, <3>4 DEF Adds
  <2>4. CASE i % 2 # 1
    <3>1. (i + 1) \div 2 = j /\ j <= Blocks /\ j \in Int
      BY <1>1, <2>1, <2>4
    <3>2. Pairs(k + 1) = j /\ Pairs(k) = j
      BY <1>1, <2>2, <3>1 DEF Smaller
    <3>3. p[k].op = "credit" /\ p[k].count = j
      BY <2>1, <2>4
    <3>4. /\ Acquired(server, k + 1) = 0 /\ Acquired(server, k) = 0
          /\ Written(server, k + 1) = 0 /\ Written(server, k) = 0
          /\ Popped(server, k + 1) = j /\ Popped(server, k) = j
      BY <1>1, <3>2 DEF Acquired, Written, Popped
    <3> HIDE DEF j
    <3> QED
      BY <3>1, <3>3, <3>4 DEF Adds
  <2> QED
    BY <2>3, <2>4
<1> QED
  BY <1>2, <1>3, <1>4, <1>5

\* So it is for either end.
LEMMA CallCounts ==
  ASSUME NEW e \in Ends, NEW p, Plan(e, p), NEW k \in 1..Len(p)
  PROVE  Adds(e, p, k)
<1>1. e = client \/ (e = server /\ e # client)
  BY CtlAssumption DEF Ends
<1> QED
  BY <1>1, ClientCounts, ServerCounts DEF Plan


\* What Send and Recv are.
LEMMA OneCall ==
  /\ Recv[1].op = "recv" /\ Len(Recv) = 1
  /\ \A m : Send(m)[1].op = "send" /\ Len(Send(m)) = 1
<1> DEFINE r == [op |-> "recv"]
           s(m) == [op |-> "send", msg |-> m]
<1>1. r.op = "recv" /\ \A m : s(m).op = "send"
  OBVIOUS
<1> HIDE DEF r, s
<1>2. <<r>>[1] = r /\ Len(<<r>>) = 1 /\ \A m : <<s(m)>>[1] = s(m) /\ Len(<<s(m)>>) = 1
  OBVIOUS
<1> QED
  BY <1>1, <1>2 DEF Recv, Send, r, s

\* The plan of the client when it has read the answer.
LEMMA ClientExtends ==
  ASSUME job \in Jobs, NEW p \in Seq(Mine(client)), ClientPlan(p), Len(p) = 2, NEW answer
  PROVE  ClientPlan(p \o ClientGoesOn(answer))
<1> DEFINE S == Mine(client)
           v == job.version
           a == Send(encode(v, MSG_ABORT, Why))
           b == Send(encode_bare(v, MSG_GO))
           c == Send(encode(v, MSG_TRAILER, Trailer_write(TrailerOf(job.manifest))))
           q == ClientGoesOn(answer)
<1>1. Blocks \in Nat \ {0}
  BY CtlAssumption
<1>2. q \in Seq(S)
  BY ClientTyped
<1>3. q = << >> \/ q = a \/ q = b \o DataOut \o c
  BY DEF ClientGoesOn
<1>4. /\ a[1].op = "send" /\ Len(a) = 1 /\ b[1].op = "send" /\ Len(b) = 1
      /\ c[1].op = "send" /\ Len(c) = 1
  BY OneCall
<1> DEFINE T == Calls(UNION {Seq(Nat), {encode(v, MSG_ABORT, Why)}, {encode_bare(v, MSG_GO)},
                             {encode(v, MSG_TRAILER, Trailer_write(TrailerOf(job.manifest)))}})
<1>5. b \in Seq(T) /\ c \in Seq(T) /\ DataOut \in Seq(T) /\ Len(DataOut) = 2 * Blocks + 1
  BY CallsTyped
<1> SUFFICES ClientPlan(p \o q)
  OBVIOUS
<1> HIDE DEF S, a, b, c, q, T
<1> DEFINE r == p \o q
<1>6. /\ r \in Seq(S) /\ Len(r) = 2 + Len(q) /\ Len(q) \in Nat
      /\ \A i \in 1..2 : r[i] = p[i]
      /\ \A i \in 1..Len(q) : r[2 + i] = q[i]
  BY <1>2, Joined DEF S
<1>7. CASE q = << >>
  <2>1. p \o << >> = p
    OBVIOUS
  <2> QED
    BY <1>7, <2>1
<1> HIDE DEF r
<1>8. CASE q = a
  <2>1. 1 \in 1..Len(q) /\ 2 + 1 = 3 /\ q[1].op = "send" /\ Len(q) = 1
    <3>1. q[1].op = "send" /\ Len(q) = 1
      BY <1>4, <1>8, Zenon
    <3> QED
      BY <3>1
  <2>2. Len(r) = 3 /\ r[3].op = "send"
    BY <1>6, <2>1
  <2>3. r[1].op = "send" /\ r[2].op = "recv"
    <3>1. 1 \in 1..2 /\ 2 \in 1..2
      OBVIOUS
    <3> QED
      BY <1>6, <3>1 DEF ClientPlan
  <2>4. ClientPlan(r)
    <3>1. \A i \in 1..3 : i \in {1, 2, 3} /\ i # 2 * Blocks + 5 /\ i \notin 4..2 * Blocks + 4
      BY <1>1
    <3> QED
      BY <2>2, <2>3, <3>1 DEF ClientPlan
  <2> QED
    BY <2>4 DEF r
<1>9. CASE q = b \o DataOut \o c
  <2> DEFINE d == b \o DataOut
             n == 2 * Blocks + 1
  <2>1. /\ d \in Seq(T) /\ Len(d) = 1 + n /\ d[1] = b[1]
        /\ \A i \in 1..n : d[1 + i] = DataOut[i]
    <3>1. 1 \in 1..Len(b)
      BY <1>4
    <3> QED
      BY <1>4, <1>5, <3>1, Joined
  <2> HIDE DEF d
  <2>2. /\ Len(q) = 2 + n /\ \A i \in 1..1 + n : q[i] = d[i]
        /\ q[2 + n] = c[1]
    <3>1. q = d \o c
      BY <1>9 DEF d
    <3>2. 1 \in 1..Len(c) /\ Len(d) + 1 = 2 + n /\ n \in Nat
      BY <1>1, <1>4, <2>1
    <3>3. d \in Seq(T) /\ c \in Seq(T)
      BY <1>5, <2>1
    <3>4. /\ Len(d \o c) = Len(d) + Len(c)
          /\ \A i \in 1..Len(d) : (d \o c)[i] = d[i]
          /\ \A i \in 1..Len(c) : (d \o c)[Len(d) + i] = c[i]
      BY <3>3, Joined
    <3> QED
      BY <1>4, <2>1, <3>1, <3>2, <3>4
  <2>3. Len(r) = 2 * Blocks + 5
    BY <1>1, <1>6, <2>2
  <2>4. r[1].op = "send" /\ r[2].op = "recv" /\ r[3].op = "send" /\ r[2 * Blocks + 5].op = "send"
    <3>1. /\ 1 \in 1..Len(q) /\ 2 + n \in 1..Len(q) /\ 2 + (2 + n) = 2 * Blocks + 5
          /\ 1 \in 1..1 + n /\ 2 + 1 = 3 /\ 1 \in 1..2 /\ 2 \in 1..2
      BY <1>1, <2>2
    <3> HIDE DEF n
    <3>2. r[3] = q[1] /\ r[2 * Blocks + 5] = q[2 + n] /\ r[1] = p[1] /\ r[2] = p[2]
      BY <1>6, <3>1
    <3>3. q[1] = b[1] /\ q[2 + n] = c[1]
      BY <2>1, <2>2, <3>1
    <3>4. p[1].op = "send" /\ p[2].op = "recv"
      BY <3>1 DEF ClientPlan
    <3> QED
      BY <1>4, <3>2, <3>3, <3>4
  <2>5. ASSUME NEW i \in 4..2 * Blocks + 4 PROVE r[i] = DataOut[i - 3]
    <3>1. /\ i - 2 \in 1..1 + n /\ i - 2 \in 1..Len(q) /\ i - 3 \in 1..n
          /\ 2 + (i - 2) = i /\ 1 + (i - 3) = i - 2
      BY <1>1, <2>2
    <3>2. r[i] = q[i - 2] /\ q[i - 2] = d[i - 2] /\ d[i - 2] = DataOut[i - 3]
      BY <1>6, <2>1, <2>2, <3>1
    <3> QED
      BY <3>2
  <2>6. ClientPlan(r)
    BY <2>3, <2>4, <2>5 DEF ClientPlan
  <2> QED
    BY <2>6 DEF r
<1> QED
  BY <1>3, <1>7, <1>8, <1>9


\* The plan of the server when it has read the n-th message.
LEMMA ServerExtends ==
  ASSUME NEW p \in Seq(Mine(server)), ServerPlan(p), NEW n \in Nat, NEW msg \in Seq(Nat), job \in Jobs,
         (n = 1 /\ Len(p) = 1) \/ (n = 2 /\ Len(p) = 3) \/ n = 3
  PROVE  LET r == p \o GoesOn(server, n, msg) IN ServerPlan(r) /\ (n = 1 => Len(r) <= 3)
<1> DEFINE S == Mine(server)
           q == GoesOn(server, n, msg)
           l == Len(p)
           r == p \o q
<1>1. Blocks \in Nat \ {0} /\ client # server
  BY CtlAssumption
<1>2. q \in Seq(S)
  BY GoesOnTyped DEF Ends
<1>3. \/ q = << >>
      \/ n = 1 /\ \E m : q = Send(m) \/ q = Send(m) \o Recv
      \/ n = 2 /\ q = DataIn \o Recv
  <2> DEFINE d == Heard(server, msg)
  <2>1. /\ n = 1 => q = Answer(d)
        /\ n = 2 => q = Receive(d)
        /\ n = 3 => q = << >>
    BY <1>1 DEF GoesOn
  <2> HIDE DEF d, q
  <2>2. Answer(d) = << >> \/ \E m : Answer(d) = Send(m) \/ Answer(d) = Send(m) \o Recv
    BY DEF Answer
  <2>3. Receive(d) = << >> \/ Receive(d) = DataIn \o Recv
    BY DEF Receive
  <2> QED
    BY <2>1, <2>2, <2>3
<1> HIDE DEF q
<1> HIDE DEF S
<1>4. /\ r \in Seq(S) /\ Len(r) = l + Len(q) /\ Len(q) \in Nat /\ l \in Nat
      /\ \A i \in 1..l : r[i] = p[i]
      /\ \A i \in 1..Len(q) : r[l + i] = q[i]
  BY <1>2, Joined DEF S
<1> SUFFICES ServerPlan(r) /\ (n = 1 => Len(r) <= 3)
  BY DEF q
<1>5. CASE q = << >>
  <2>1. p \o << >> = p
    OBVIOUS
  <2>2. n = 1 => Len(p) <= 3
    <3>1. (n = 1 /\ l = 1) \/ (n = 2 /\ l = 3) \/ n = 3
      OBVIOUS
    <3> HIDE DEF l
    <3>2. n = 1 => l <= 3
      BY <3>1
    <3> QED
      BY <3>2 DEF l
  <2>3. r = p
    BY <1>5, <2>1
  <2> HIDE DEF r
  <2> QED
    BY <2>2, <2>3
<1> HIDE DEF r, l
<1>6. ASSUME n = 1, NEW m, q = Send(m) \/ q = Send(m) \o Recv
      PROVE  ServerPlan(r) /\ Len(r) <= 3
  <2>1. Len(p) = 1 /\ l = 1
    BY <1>6 DEF l
  <2>2. Len(q) \in {1, 2} /\ q[1].op = "send" /\ (Len(q) = 2 => q[2].op = "recv")
    <3> DEFINE V == {m}
               b == Send(m)
    <3>1. b[1].op = "send" /\ Len(b) = 1 /\ Recv[1].op = "recv" /\ Len(Recv) = 1
      BY OneCall
    <3>2. b \in Seq(Calls(V)) /\ Recv \in Seq(Calls(V))
      BY CallsTyped
    <3> HIDE DEF b, V
    <3>3. /\ Len(b \o Recv) = Len(b) + Len(Recv) /\ \A i \in 1..Len(b) : (b \o Recv)[i] = b[i]
          /\ \A i \in 1..Len(Recv) : (b \o Recv)[Len(b) + i] = Recv[i]
      BY <3>2, Joined
    <3>4. Len(b) + 1 = 2 /\ 1 \in 1..Len(b) /\ 1 \in 1..Len(Recv)
      BY <3>1
    <3>5. Len(b \o Recv) = 2 /\ (b \o Recv)[1] = b[1] /\ (b \o Recv)[2] = Recv[1]
      BY <3>1, <3>3, <3>4
    <3>6. CASE q = b
      <4>1. Len(q) = 1 /\ q[1].op = "send"
        BY <3>1, <3>6, Zenon
      <4> QED
        BY <4>1
    <3>7. CASE q = b \o Recv
      <4>1. Len(q) = 2 /\ q[1].op = "send" /\ q[2].op = "recv"
        BY <3>1, <3>5, <3>7, Zenon
      <4> QED
        BY <4>1
    <3> QED
      BY <1>6, <3>6, <3>7 DEF b
  <2>3. Len(r) \in {2, 3} /\ r[1].op = "recv" /\ r[2].op = "send" /\ (Len(r) = 3 => r[3].op = "recv")
    <3>1. 1 \in 1..l /\ 1 \in 1..Len(q) /\ l + 1 = 2 /\ (Len(q) = 2 => 2 \in 1..Len(q) /\ l + 2 = 3)
      BY <2>1, <2>2
    <3>2. r[1] = p[1] /\ r[2] = q[1] /\ (Len(q) = 2 => r[3] = q[2])
      BY <1>4, <3>1
    <3>3. p[1].op = "recv"
      BY <2>1 DEF ServerPlan
    <3>4. Len(r) = 1 + Len(q)
      BY <1>4, <2>1
    <3>5. r[1].op = "recv" /\ r[2].op = "send"
      BY <2>2, <3>2, <3>3
    <3>6. CASE Len(q) = 1
      BY <3>4, <3>5, <3>6
    <3>7. CASE Len(q) = 2
      <4>1. r[3].op = "recv"
        BY <2>2, <3>2, <3>7
      <4> QED
        BY <3>4, <3>5, <3>7, <4>1
    <3> QED
      BY <2>2, <3>6, <3>7
  <2>4. \A i \in 1..Len(r) : i \in {1, 2, 3} /\ i # 2 * Blocks + 3 /\ i \notin 4..2 * Blocks + 2
    <3>1. \A i \in 1..3 : i \in {1, 2, 3} /\ i # 2 * Blocks + 3 /\ i \notin 4..2 * Blocks + 2
      BY <1>1
    <3> DEFINE k == Len(r)
    <3>2. k \in {2, 3}
      BY <2>3, Zenon
    <3> HIDE DEF k
    <3>3. \A i \in 1..k : i \in 1..3
      BY <3>2
    <3> QED
      BY <3>1, <3>3 DEF k
  <2>5. ServerPlan(r)
    BY <2>3, <2>4 DEF ServerPlan
  <2> DEFINE k == Len(r)
  <2>6. k \in {2, 3}
    BY <2>3, Zenon
  <2> HIDE DEF k
  <2>7. k <= 3
    BY <2>6
  <2> QED
    BY <2>5, <2>7 DEF k
<1>7. ASSUME n = 2, q = DataIn \o Recv PROVE ServerPlan(r) /\ n # 1
  <2> DEFINE k == 2 * Blocks - 1
  <2>1. Len(p) = 3 /\ l = 3 /\ k \in Nat
    BY <1>1, <1>7 DEF l
  <2>2. Len(q) = k + 1 /\ q[k + 1].op = "recv" /\ \A i \in 1..k : q[i] = DataIn[i]
    <3> DEFINE T == Calls({})
    <3>1. DataIn \in Seq(T) /\ Recv \in Seq(T) /\ Len(DataIn) = k
      BY CallsTyped
    <3>2. Recv[1].op = "recv" /\ Len(Recv) = 1
      BY OneCall
    <3> HIDE DEF T, k
    <3>3. DataIn \in Seq(T) /\ Recv \in Seq(T)
      BY <3>1
    <3>4. /\ Len(DataIn \o Recv) = Len(DataIn) + Len(Recv)
          /\ \A i \in 1..Len(DataIn) : (DataIn \o Recv)[i] = DataIn[i]
          /\ \A i \in 1..Len(Recv) : (DataIn \o Recv)[Len(DataIn) + i] = Recv[i]
      BY <3>3, Joined
    <3>5. 1 \in 1..Len(Recv)
      BY <3>2
    <3> QED
      BY <1>7, <3>1, <3>2, <3>4, <3>5
  <2>3. Len(r) = 2 * Blocks + 3
    BY <1>1, <1>4, <2>1, <2>2
  <2>4. /\ r[1].op = "recv" /\ r[2].op = "send" /\ r[3].op = "recv"
        /\ r[2 * Blocks + 3].op = "recv"
    <3>1. /\ 1 \in 1..l /\ 2 \in 1..l /\ 3 \in 1..l /\ k + 1 \in 1..Len(q)
          /\ l + (k + 1) = 2 * Blocks + 3
      BY <1>1, <2>1, <2>2
    <3> HIDE DEF k
    <3>2. r[1] = p[1] /\ r[2] = p[2] /\ r[3] = p[3] /\ r[2 * Blocks + 3] = q[k + 1]
      BY <1>4, <3>1
    <3>3. p[1].op = "recv" /\ p[2].op = "send" /\ p[3].op = "recv"
      BY <2>1, <3>1 DEF ServerPlan
    <3> QED
      BY <2>2, <3>2, <3>3
  <2>5. ASSUME NEW i \in 4..2 * Blocks + 2 PROVE r[i] = DataIn[i - 3]
    <3>1. i - 3 \in 1..k /\ i - 3 \in 1..Len(q) /\ l + (i - 3) = i
      BY <1>1, <2>1, <2>2
    <3>2. r[i] = q[i - 3] /\ q[i - 3] = DataIn[i - 3]
      BY <1>4, <2>2, <3>1
    <3> QED
      BY <3>2
  <2>6. ServerPlan(r)
    BY <2>3, <2>4, <2>5 DEF ServerPlan
  <2> QED
    BY <1>7, <2>6
<1> QED
  BY <1>3, <1>5, <1>6, <1>7


\* Where the plans have a read.
LEMMA ClientReads ==
  ASSUME NEW p, ClientPlan(p), NEW k \in 1..Len(p), p[k].op = "recv"
  PROVE  k = 2
<1>1. Blocks \in Nat \ {0}
  BY CtlAssumption
<1>2. k \in {1, 3, 2 * Blocks + 5} \/ k = 2 \/ k \in 4..2 * Blocks + 4
  BY <1>1 DEF ClientPlan
<1>3. k \notin {1, 3, 2 * Blocks + 5}
  BY DEF ClientPlan
<1>4. CASE k \in 4..2 * Blocks + 4
  <2>1. k - 3 \in 1..2 * Blocks + 1
    BY <1>1, <1>4
  <2>2. p[k] = DataOut[k - 3]
    BY <1>4 DEF ClientPlan
  <2>3. DataOut[k - 3].op # "recv"
    BY <2>1 DEF DataOut
  <2> QED
    BY <2>2, <2>3
<1> QED
  BY <1>2, <1>3, <1>4

\* The server reads the hello, the manifest and the trailer.
LEMMA ServerReads ==
  ASSUME NEW p, ServerPlan(p), NEW k \in 1..Len(p)
  PROVE  p[k].op = "recv" <=> k \in {1, 3, 2 * Blocks + 3}
<1>1. Blocks \in Nat \ {0}
  BY CtlAssumption
<1>2. k \in {1, 3, 2 * Blocks + 3} \/ k = 2 \/ k \in 4..2 * Blocks + 2
  <2>1. Len(p) <= 2 * Blocks + 3 /\ Len(p) \in Nat
    BY <1>1 DEF ServerPlan
  <2> DEFINE l == Len(p)
  <2>2. k \in 1..l /\ l <= 2 * Blocks + 3 /\ l \in Nat
    BY <2>1
  <2> HIDE DEF l
  <2> QED
    BY <1>1, <2>2
<1>3. CASE k \in {1, 3, 2 * Blocks + 3}
  BY <1>3 DEF ServerPlan
<1>4. CASE k = 2
  <2>1. p[k].op = "send"
    BY <1>4 DEF ServerPlan
  <2> QED
    BY <1>1, <1>4, <2>1
<1>5. CASE k \in 4..2 * Blocks + 2
  <2>1. k - 3 \in 1..2 * Blocks - 1
    BY <1>1, <1>5
  <2>2. p[k] = DataIn[k - 3]
    BY <1>5 DEF ServerPlan
  <2>3. DataIn[k - 3].op # "recv"
    BY <2>1 DEF DataIn
  <2>4. k \notin {1, 3, 2 * Blocks + 3}
    BY <1>1, <1>5
  <2> QED
    BY <2>2, <2>3, <2>4
<1> QED
  BY <1>2, <1>3, <1>4, <1>5


\* How far an end has come, how many messages it has read, and how much of its plan
\* it knows by then.
At(e, l, k, n) ==
  IF e = client THEN k <= 2 => l = 2
  ELSE /\ k = 1 => l = 1 /\ n = 0
       /\ k \in {2, 3} => l <= 3 /\ n = 1
       /\ k >= 4 /\ k <= 2 * Blocks + 3 => n = 2

ShapeOf(e) == Plan(e, plan[e]) /\ At(e, Len(plan[e]), pc[e], Len(rcvd[e]))
Shapes == \A e \in Ends : ShapeOf(e)

\* The plans have their shape at first.
LEMMA InitShapes == Init => Shapes
<1> SUFFICES ASSUME Init, NEW e \in Ends PROVE ShapeOf(e)
  BY DEF Shapes
<1>1. /\ pc[e] = 1 /\ rcvd[e] = << >>
      /\ plan[e] = (IF e = client THEN Send(Hello) \o Recv ELSE Recv)
  BY DEF Init
<1>2. Blocks \in Nat \ {0}
  BY CtlAssumption
<1>3. CASE e = client
  <2> DEFINE a == Send(Hello)
             p == a \o Recv
             V == {Hello}
  <2>1. a[1].op = "send" /\ Len(a) = 1 /\ Recv[1].op = "recv" /\ Len(Recv) = 1
    BY OneCall
  <2>2. a \in Seq(Calls(V)) /\ Recv \in Seq(Calls(V))
    BY CallsTyped
  <2> HIDE DEF a, V
  <2>3. /\ Len(p) = Len(a) + Len(Recv) /\ \A i \in 1..Len(a) : p[i] = a[i]
        /\ \A i \in 1..Len(Recv) : p[Len(a) + i] = Recv[i]
    BY <2>2, Joined
  <2>4. 1 \in 1..Len(a) /\ 1 \in 1..Len(Recv) /\ Len(a) + 1 = 2 /\ Len(a) + Len(Recv) = 2
    BY <2>1
  <2> HIDE DEF p
  <2>5. Len(p) = 2 /\ p[1].op = "send" /\ p[2].op = "recv"
    <3>1. p[1] = a[1] /\ p[2] = Recv[1] /\ Len(p) = 2
      BY <2>3, <2>4
    <3> QED
      BY <2>1, <3>1
  <2>6. \A i \in 1..2 : i \in {1, 2} /\ i # 2 * Blocks + 5 /\ i \notin 4..2 * Blocks + 4 /\ i # 3
    BY <1>2
  <2>7. ClientPlan(p)
    BY <2>5, <2>6 DEF ClientPlan
  <2>8. plan[e] = p
    BY <1>1, <1>3 DEF p, a
  <2> QED
    BY <1>3, <2>5, <2>7, <2>8 DEF ShapeOf, Plan, At
<1>4. CASE e # client
  <2>1. Recv[1].op = "recv" /\ Len(Recv) = 1
    BY OneCall
  <2>2. \A i \in 1..1 : i = 1 /\ i # 2 /\ i \notin 4..2 * Blocks + 2
    BY <1>2
  <2>3. ServerPlan(Recv)
    BY <2>1, <2>2 DEF ServerPlan
  <2>4. Len(<< >>) = 0
    OBVIOUS
  <2> QED
    BY <1>1, <1>2, <1>4, <2>1, <2>3, <2>4 DEF ShapeOf, Plan, At
<1> QED
  BY <1>3, <1>4

\* A step keeps the plans and the place of an end in its own, returns from a call
\* that is not a read, or returns a message.
LEMMA EndMoves ==
  ASSUME QInv, [Next]_vars
  PROVE  /\ job' = job
         /\ \/ UNCHANGED <<plan, pc>> /\ rcvd' = rcvd
            \/ \E e \in Ends :
                 /\ Running(e) /\ pc' = Set(pc, e, pc[e] + 1)
                 /\ \/ ~In(e, "recv") /\ plan' = plan /\ rcvd' = rcvd
                    \/ /\ In(e, "recv")
                       /\ \E m \in Seq(Nat) :
                            /\ rcvd' = Set(rcvd, e, Append(rcvd[e], m))
                            /\ plan' = Set(plan, e, plan[e] \o GoesOn(e, Len(rcvd'[e]), m))
<1>1. CASE UNCHANGED vars
  BY <1>1 DEF vars, stepVars, readVars
<1>2. ASSUME NEW e \in Ends, Deliver(e) \/ Acknowledge(e), job' = job
      PROVE  UNCHANGED <<plan, pc>> /\ rcvd' = rcvd
  BY <1>2 DEF Deliver, Acknowledge, readVars
<1>3. ASSUME NEW e \in Ends, job' = job,
             \/ HandleWc(e) \/ PollReturns(e) \/ SendFrame(e) \/ SendRefused(e) \/ CreditFrame(e)
      PROVE  UNCHANGED <<plan, pc>> /\ rcvd' = rcvd
  BY <1>3 DEF HandleWc, PollReturns, SendFrame, SendRefused, CreditFrame, readVars
<1>4. ASSUME NEW e \in Ends, SendDone(e) \/ CreditDone(e) \/ WaitDone(e) \/ Pop(e) \/ Write(e)
      PROVE  /\ Running(e) /\ pc' = Set(pc, e, pc[e] + 1)
             /\ ~In(e, "recv") /\ plan' = plan /\ rcvd' = rcvd
  BY <1>4 DEF SendDone, CreditDone, WaitDone, Pop, Write, Returns, In, readVars
<1>5. ASSUME NEW e \in Ends, ReadFrame(e)
      PROVE  \/ UNCHANGED <<plan, pc>> /\ rcvd' = rcvd
             \/ /\ Running(e) /\ pc' = Set(pc, e, pc[e] + 1) /\ In(e, "recv")
                /\ \E m \in Seq(Nat) :
                     /\ rcvd' = Set(rcvd, e, Append(rcvd[e], m))
                     /\ plan' = Set(plan, e, plan[e] \o GoesOn(e, Len(rcvd'[e]), m))
  <2> DEFINE m == got[e] \o slot[e][NextSlot(e)].load
  <2>1. mode[e] = "run" /\ qh[e] # qt[e] /\ Running(e) /\ In(e, "recv")
    BY <1>5 DEF ReadFrame, In, Running
  <2>2. m \in Seq(Nat)
    BY <2>1, NextFrame
  <2>3. \/ UNCHANGED <<plan, pc>> /\ rcvd' = rcvd
        \/ /\ pc' = Set(pc, e, pc[e] + 1)
           /\ rcvd' = Set(rcvd, e, Append(rcvd[e], m))
           /\ plan' = Set(plan, e, plan[e] \o GoesOn(e, Len(rcvd'[e]), m))
    BY <1>5 DEF ReadFrame, Returns
  <2> HIDE DEF m
  <2> QED
    BY <2>1, <2>2, <2>3
<1>6. job' = job
  BY DEF Next, vars
<1> QED
  BY <1>1, <1>2, <1>3, <1>4, <1>5, <1>6 DEF Next, EndStep


\* The calls of the plans are where they are throughout.
LEMMA NextShapes ==
  ASSUME QInv, Shapes, [Next]_vars
  PROVE  Shapes'
<1> SUFFICES ASSUME NEW o \in Ends PROVE ShapeOf(o)'
  BY DEF Shapes
<1>1. /\ PlanOf(o) /\ ReadOf(o) /\ job \in Jobs /\ DOMAIN plan = Ends /\ DOMAIN pc = Ends
      /\ DOMAIN rcvd = Ends /\ Plan(o, plan[o]) /\ At(o, Len(plan[o]), pc[o], Len(rcvd[o]))
  BY DEF QInv, Sides, QDomains, Shapes, ShapeOf
<1> DEFINE p == plan[o]
           k == pc[o]
           l == Len(plan[o])
           n == Len(rcvd[o])
<1>2. p \in Seq(Mine(o)) /\ k \in 1..l + 1 /\ l \in Nat
  BY <1>1 DEF PlanOf, PlanOk
<1>3. n \in Nat /\ \A m \in Seq(Nat) : Len(Append(rcvd[o], m)) = n + 1
  <2> DEFINE q == rcvd[o]
             S == Seq(Nat)
  <2>1. q \in Seq(S)
    BY <1>1 DEF ReadOf, Reading
  <2> HIDE DEF q, S
  <2>2. Len(q) \in Nat /\ \A m \in S : Len(Append(q, m)) = Len(q) + 1
    BY <2>1
  <2> QED
    BY <2>2 DEF q, S
<1>4. Blocks \in Nat \ {0}
  BY CtlAssumption
<1>5. CASE plan'[o] = plan[o] /\ pc'[o] = pc[o] /\ rcvd'[o] = rcvd[o]
  BY <1>1, <1>5 DEF ShapeOf
<1>6. ASSUME Running(o), ~In(o, "recv"), pc'[o] = k + 1, plan'[o] = p, rcvd'[o] = rcvd[o]
      PROVE  ShapeOf(o)'
  <2>1. k \in 1..l /\ p[k].op # "recv"
    BY <1>2, <1>6 DEF Running, In, Call
  <2>2. At(o, l, k + 1, n)
    <3>1. CASE o = client
      BY <1>1, <2>1, <3>1 DEF At
    <3>2. CASE o # client
      <4>1. ServerPlan(p)
        BY <1>1, <3>2 DEF Plan
      <4>2. k \notin {1, 3, 2 * Blocks + 3}
        BY <2>1, <4>1, ServerReads
      <4> HIDE DEF k, l, n, p
      <4>3. /\ k = 1 => l = 1 /\ n = 0
            /\ k \in {2, 3} => l <= 3 /\ n = 1
            /\ k >= 4 /\ k <= 2 * Blocks + 3 => n = 2
        BY <1>1, <3>2 DEF At, k, l, n, p
      <4>4. k \in Nat
        BY <2>1
      <4>5. k + 1 \in {2, 3} => k = 2
        BY <4>2, <4>4
      <4>6. k + 1 >= 4 /\ k + 1 <= 2 * Blocks + 3 => k >= 4 /\ k <= 2 * Blocks + 3
        BY <1>4, <4>2, <4>4
      <4>7. k + 1 # 1
        BY <2>1
      <4> QED
        BY <3>2, <4>3, <4>5, <4>6, <4>7 DEF At
    <3> QED
      BY <3>1, <3>2
  <2> QED
    BY <1>1, <1>6, <2>2 DEF ShapeOf
<1>7. ASSUME Running(o), In(o, "recv"), pc'[o] = k + 1, NEW m \in Seq(Nat),
             rcvd'[o] = Append(rcvd[o], m), plan'[o] = p \o GoesOn(o, Len(rcvd'[o]), m)
      PROVE  ShapeOf(o)'
  <2>1. k \in 1..l /\ p[k].op = "recv"
    BY <1>2, <1>7 DEF Running, In, Call
  <2>2. Len(rcvd'[o]) = n + 1
    BY <1>3, <1>7
  <2> DEFINE q == p \o GoesOn(o, n + 1, m)
  <2>3. Plan(o, q) /\ At(o, Len(q), k + 1, n + 1)
    <3>1. CASE o = client
      <4>1. ClientPlan(p)
        BY <1>1, <3>1 DEF Plan
      <4>2. k = 2
        BY <2>1, <4>1, ClientReads
      <4>3. l = 2
        BY <1>1, <3>1, <4>2 DEF At
      <4>4. GoesOn(o, n + 1, m) = ClientGoesOn(Heard(o, m))
        BY <3>1, CtlAssumption DEF GoesOn
      <4>5. ClientPlan(q)
        BY <1>1, <1>2, <3>1, <4>1, <4>3, <4>4, ClientExtends
      <4> QED
        BY <3>1, <4>2, <4>5 DEF Plan, At
    <3>2. CASE o # client
      <4>1. ServerPlan(p) /\ o = server
        BY <1>1, <3>2 DEF Plan, Ends
      <4>2. k \in {1, 3, 2 * Blocks + 3}
        BY <2>1, <4>1, ServerReads
      <4>3. /\ k = 1 => l = 1 /\ n = 0
            /\ k \in {2, 3} => l <= 3 /\ n = 1
            /\ k >= 4 /\ k <= 2 * Blocks + 3 => n = 2
        BY <1>1, <3>2 DEF At
      <4> HIDE DEF k, l, n
      <4>4. /\ (n + 1 = 1 /\ l = 1) \/ (n + 1 = 2 /\ l = 3) \/ n + 1 = 3
            /\ k = 1 => n + 1 = 1
            /\ k = 3 => n + 1 = 2
        <5>1. CASE k = 1
          BY <4>3, <5>1
        <5>2. CASE k = 3
          BY <1>2, <2>1, <4>3, <5>2
        <5>3. CASE k = 2 * Blocks + 3
          BY <1>4, <4>3, <5>3
        <5> QED
          BY <4>2, <5>1, <5>2, <5>3
      <4>5. ServerPlan(q) /\ (n + 1 = 1 => Len(q) <= 3)
        <5>1. (n + 1 = 1 /\ Len(p) = 1) \/ (n + 1 = 2 /\ Len(p) = 3) \/ n + 1 = 3
          BY <4>4 DEF l
        <5>2. n + 1 \in Nat /\ p \in Seq(Mine(server))
          BY <1>2, <1>3, <4>1
        <5> QED
          BY <1>1, <4>1, <5>1, <5>2, ServerExtends
      <4>6. At(o, Len(q), k + 1, n + 1)
        <5>1. CASE k = 1
          <6> DEFINE j == k + 1
                     r == n + 1
                     h == Len(q)
          <6>1. r = 1
            BY <4>4, <5>1
          <6>2. h <= 3
            BY <4>5, <6>1, Zenon
          <6>3. j = 2
            BY <5>1
          <6> HIDE DEF j, r, h
          <6>4. At(o, h, j, r)
            BY <1>4, <3>2, <6>1, <6>2, <6>3 DEF At
          <6> QED
            BY <6>4 DEF j, r, h
        <5>2. CASE k = 3
          BY <3>2, <4>4, <5>2 DEF At
        <5>3. CASE k = 2 * Blocks + 3
          <6>1. k + 1 # 1 /\ k + 1 \notin {2, 3} /\ ~(k + 1 <= 2 * Blocks + 3)
            BY <1>4, <5>3
          <6> QED
            BY <3>2, <6>1 DEF At
        <5> QED
          BY <4>2, <5>1, <5>2, <5>3
      <4> QED
        BY <3>2, <4>5, <4>6 DEF Plan
    <3> QED
      BY <3>1, <3>2
  <2>4. plan'[o] = q
    BY <1>7, <2>2
  <2> QED
    BY <1>7, <2>2, <2>3, <2>4 DEF ShapeOf
<1>8. ASSUME NEW e \in Ends, e # o, NEW v, NEW u, NEW w,
             pc' = Set(pc, e, u), plan' = plan \/ plan' = Set(plan, e, v),
             rcvd' = rcvd \/ rcvd' = Set(rcvd, e, w)
      PROVE  ShapeOf(o)'
  <2>1. plan'[o] = plan[o] /\ pc'[o] = pc[o] /\ rcvd'[o] = rcvd[o]
    BY <1>1, <1>8 DEF Set
  <2> QED
    BY <1>5, <2>1
<1>9. ASSUME NEW e \in Ends, Running(e), pc' = Set(pc, e, pc[e] + 1), ~In(e, "recv"),
             plan' = plan, rcvd' = rcvd
      PROVE  ShapeOf(o)'
  <2>1. CASE e = o
    <3>1. pc'[o] = k + 1
      BY <1>1, <1>9, <2>1 DEF Set
    <3> QED
      BY <1>6, <1>9, <2>1, <3>1
  <2>2. CASE e # o
    BY <1>8, <1>9, <2>2
  <2> QED
    BY <2>1, <2>2
<1>10. ASSUME NEW e \in Ends, Running(e), pc' = Set(pc, e, pc[e] + 1), In(e, "recv"),
              NEW m \in Seq(Nat), rcvd' = Set(rcvd, e, Append(rcvd[e], m)),
              plan' = Set(plan, e, plan[e] \o GoesOn(e, Len(rcvd'[e]), m))
       PROVE  ShapeOf(o)'
  <2>1. CASE e = o
    <3>1. /\ pc'[o] = k + 1 /\ rcvd'[o] = Append(rcvd[o], m)
          /\ plan'[o] = p \o GoesOn(o, Len(rcvd'[o]), m)
      BY <1>1, <1>10, <2>1 DEF Set
    <3> QED
      BY <1>7, <1>10, <2>1, <3>1
  <2>2. CASE e # o
    BY <1>8, <1>10, <2>2
  <2> QED
    BY <2>1, <2>2
<1> QED
  BY <1>5, <1>9, <1>10, EndMoves


-----------------------------------------------------------------------------
(* Immediates under way: on the wire, among the acknowledgements, and among  *)
(* the completions, of WRITEs that landed and of immediates that came.       *)

LandedImm == [kind |-> "sent", what |-> "imm"]
ImmCame == [kind : {"recv"}, what : {"imm"}, slot : Nat]

Wires(e) == Count(wire[e], {"imm"})
Acked(e) == Count(acks[e], {"imm"})
Done(e) == Count(cq[e], {LandedImm})
Came(e) == Count(cq[e], ImmCame)

\* They are numbers, and all there is when nothing happened.
LEMMA Tallies ==
  ASSUME CInv, NEW e \in Ends
  PROVE  Wires(e) \in Nat /\ Acked(e) \in Nat /\ Done(e) \in Nat /\ Came(e) \in Nat
<1>1. /\ wire[e] \in Seq(Tokens) /\ acks[e] \in Seq(Tokens) /\ cq[e] \in Seq(Completions(e))
  BY DEF CInv, Traffic, PartsOf, Parts
<1> QED
  BY <1>1, Counted DEF Wires, Acked, Done, Came

\* What a completion is counted as.
LEMMA Kinds ==
  ASSUME NEW e \in Ends, NEW x \in Completions(e)
  PROVE  /\ x \in {LandedImm} <=> x.kind = "sent" /\ x.what = "imm"
         /\ x \in ImmCame <=> x.kind = "recv" /\ x.what = "imm"
<1>1. Slots(e) \subseteq Nat
  BY CtlAssumption DEF Slots
<1>2. CASE x \in [kind : {"recv"}, what : Tokens, slot : Slots(e)]
  <2>1. x.kind = "recv" /\ x.slot \in Nat /\ x = [kind |-> x.kind, what |-> x.what, slot |-> x.slot]
    BY <1>1, <1>2
  <2>2. x \notin {LandedImm}
    BY <2>1 DEF LandedImm
  <2>3. x \in ImmCame <=> x.what = "imm"
    BY <2>1 DEF ImmCame
  <2> QED
    BY <2>1, <2>2, <2>3
<1>3. CASE x \in [kind : {"sent"}, what : Tokens]
  <2>1. x.kind = "sent" /\ x = [kind |-> x.kind, what |-> x.what]
    BY <1>3
  <2>2. x \notin ImmCame
    BY <2>1 DEF ImmCame
  <2>3. x = LandedImm <=> x.what = "imm"
    BY <2>1 DEF LandedImm
  <2> QED
    BY <2>1, <2>2, <2>3
<1> QED
  BY <1>2, <1>3 DEF Completions

One(b) == IF b THEN 1 ELSE 0

\* An immediate that is delivered leaves the wire and is acknowledged.
LEMMA DeliverTally ==
  ASSUME CInv, NEW e \in Ends, Deliver(e)
  PROVE  LET p == Peer[e]
             x == One(Head(wire[e]) = "imm")
         IN /\ Wires(e)' = Wires(e) - x /\ Came(e)' = Came(e) + x /\ Done(e)' = Done(e)
            /\ Acked(e)' = Acked(e) /\ Acked(p)' = Acked(p) + x
            /\ Wires(p)' = Wires(p) /\ Came(p)' = Came(p) /\ Done(p)' = Done(p)
<1> DEFINE p == Peer[e]
           w == Head(wire[e])
           y == [kind |-> "recv", what |-> w, slot |-> Head(rq[e])]
<1>1. /\ p \in Ends /\ p # e /\ wire[e] # << >> /\ rq[e] # << >>
      /\ wire[e] \in Seq(Tokens) /\ acks[p] \in Seq(Tokens) /\ cq[e] \in Seq(Completions(e))
      /\ rq[e] \in Seq(Slots(e))
      /\ DOMAIN wire = Ends /\ DOMAIN acks = Ends /\ DOMAIN cq = Ends
  BY TwoEnds DEF CInv, Traffic, PartsOf, Parts, Domains, Deliver
<1>2. /\ wire' = Set(wire, e, Tail(wire[e])) /\ acks' = Set(acks, p, Append(acks[p], w))
      /\ cq' = Set(cq, e, Append(cq[e], y))
  BY DEF Deliver
<1>3. w \in Tokens /\ Head(rq[e]) \in Slots(e)
  BY <1>1
<1>4. y \in Completions(e) /\ y.kind = "recv" /\ y.what = w
  BY <1>3 DEF Completions
<1> HIDE DEF p, w, y
<1>5. /\ wire'[e] = Tail(wire[e]) /\ wire'[p] = wire[p] /\ acks'[e] = acks[e]
      /\ acks'[p] = Append(acks[p], w) /\ cq'[e] = Append(cq[e], y) /\ cq'[p] = cq[p]
  BY <1>1, <1>2 DEF Set
<1>6. Wires(e)' = Wires(e) - One(w = "imm")
  <2>1. Count(Tail(wire[e]), {"imm"}) = IF Head(wire[e]) \in {"imm"} THEN Wires(e) - 1 ELSE Wires(e)
    BY <1>1, Counted DEF Wires
  <2>2. Wires(e) \in Nat
    BY Tallies
  <2> QED
    BY <1>5, <2>1, <2>2 DEF Wires, One, w
<1>7. Acked(p)' = Acked(p) + One(w = "imm")
  <2>1. Count(Append(acks[p], w), {"imm"}) = IF w \in {"imm"} THEN Acked(p) + 1 ELSE Acked(p)
    BY <1>1, <1>3, Counted DEF Acked
  <2>2. Acked(p) \in Nat
    BY <1>1, Tallies
  <2> QED
    BY <1>5, <2>1, <2>2 DEF Acked, One
<1>8. Came(e)' = Came(e) + One(w = "imm") /\ Done(e)' = Done(e)
  <2>1. /\ Count(Append(cq[e], y), ImmCame) = IF y \in ImmCame THEN Came(e) + 1 ELSE Came(e)
        /\ Count(Append(cq[e], y), {LandedImm}) = IF y \in {LandedImm} THEN Done(e) + 1 ELSE Done(e)
    BY <1>1, <1>4, Counted DEF Came, Done
  <2>2. Came(e) \in Nat /\ Done(e) \in Nat
    BY Tallies
  <2>3. y \notin {LandedImm} /\ (y \in ImmCame <=> w = "imm")
    BY <1>4, Kinds
  <2>4. Came(e)' = Count(Append(cq[e], y), ImmCame) /\ Done(e)' = Count(Append(cq[e], y), {LandedImm})
    BY <1>5 DEF Came, Done
  <2> QED
    BY <2>1, <2>2, <2>3, <2>4 DEF One
<1>9. /\ Acked(e)' = Acked(e) /\ Wires(p)' = Wires(p) /\ Came(p)' = Came(p) /\ Done(p)' = Done(p)
  BY <1>5 DEF Acked, Wires, Came, Done
<1> QED
  BY <1>6, <1>7, <1>8, <1>9 DEF p, w

\* The acknowledgement of a WRITE becomes a completion.
LEMMA AcknowledgeTally ==
  ASSUME CInv, NEW e \in Ends, Acknowledge(e)
  PROVE  LET x == One(Head(acks[e]) = "imm") IN
           /\ Acked(e)' = Acked(e) - x /\ Done(e)' = Done(e) + x /\ Came(e)' = Came(e)
           /\ \A o \in Ends : /\ Wires(o)' = Wires(o)
                              /\ o # e => /\ Acked(o)' = Acked(o) /\ Done(o)' = Done(o)
                                          /\ Came(o)' = Came(o)
<1> DEFINE w == Head(acks[e])
           y == [kind |-> "sent", what |-> w]
<1>1. /\ acks[e] # << >> /\ acks[e] \in Seq(Tokens) /\ cq[e] \in Seq(Completions(e))
      /\ DOMAIN acks = Ends /\ DOMAIN cq = Ends
  BY DEF CInv, Traffic, PartsOf, Parts, Domains, Acknowledge
<1>2. /\ acks' = Set(acks, e, Tail(acks[e])) /\ cq' = Set(cq, e, Append(cq[e], y)) /\ wire' = wire
  BY DEF Acknowledge
<1>3. w \in Tokens
  BY <1>1
<1>4. y \in Completions(e) /\ y.kind = "sent" /\ y.what = w
  BY <1>3 DEF Completions
<1> HIDE DEF w, y
<1>5. /\ acks'[e] = Tail(acks[e]) /\ cq'[e] = Append(cq[e], y)
      /\ \A o \in Ends : o # e => acks'[o] = acks[o] /\ cq'[o] = cq[o]
  BY <1>1, <1>2 DEF Set
<1>6. Acked(e)' = Acked(e) - One(w = "imm")
  <2>1. Count(Tail(acks[e]), {"imm"}) = IF Head(acks[e]) \in {"imm"} THEN Acked(e) - 1 ELSE Acked(e)
    BY <1>1, Counted DEF Acked
  <2>2. Acked(e) \in Nat
    BY Tallies
  <2> QED
    BY <1>5, <2>1, <2>2 DEF Acked, One, w
<1>7. Done(e)' = Done(e) + One(w = "imm") /\ Came(e)' = Came(e)
  <2>1. /\ Count(Append(cq[e], y), ImmCame) = IF y \in ImmCame THEN Came(e) + 1 ELSE Came(e)
        /\ Count(Append(cq[e], y), {LandedImm}) = IF y \in {LandedImm} THEN Done(e) + 1 ELSE Done(e)
    BY <1>1, <1>4, Counted DEF Came, Done
  <2>2. Came(e) \in Nat /\ Done(e) \in Nat
    BY Tallies
  <2>3. y \notin ImmCame /\ (y \in {LandedImm} <=> w = "imm")
    BY <1>4, Kinds
  <2>4. Came(e)' = Count(Append(cq[e], y), ImmCame) /\ Done(e)' = Count(Append(cq[e], y), {LandedImm})
    BY <1>5 DEF Came, Done
  <2> QED
    BY <2>1, <2>2, <2>3, <2>4 DEF One
<1>8. \A o \in Ends : /\ Wires(o)' = Wires(o)
                      /\ o # e => Acked(o)' = Acked(o) /\ Done(o)' = Done(o) /\ Came(o)' = Came(o)
  BY <1>2, <1>5 DEF Acked, Wires, Came, Done
<1> QED
  BY <1>6, <1>7, <1>8 DEF w

\* A completion that is handled leaves the queue.
LEMMA HandleTally ==
  ASSUME CInv, NEW e \in Ends, cq[e] # << >>, cq' = Set(cq, e, Tail(cq[e])), UNCHANGED <<wire, acks>>
  PROVE  LET x == Head(cq[e]) IN
           /\ x \in Completions(e)
           /\ Done(e)' = Done(e) - One(x.kind = "sent" /\ x.what = "imm")
           /\ Came(e)' = Came(e) - One(x.kind = "recv" /\ x.what = "imm")
           /\ \A o \in Ends : /\ Wires(o)' = Wires(o) /\ Acked(o)' = Acked(o)
                              /\ o # e => Done(o)' = Done(o) /\ Came(o)' = Came(o)
<1> DEFINE x == Head(cq[e])
<1>1. cq[e] \in Seq(Completions(e)) /\ DOMAIN cq = Ends
  BY DEF CInv, PartsOf, Parts, Domains
<1>2. x \in Completions(e)
  BY <1>1
<1>3. cq'[e] = Tail(cq[e]) /\ \A o \in Ends : o # e => cq'[o] = cq[o]
  BY <1>1 DEF Set
<1>4. /\ Count(Tail(cq[e]), ImmCame) = IF x \in ImmCame THEN Came(e) - 1 ELSE Came(e)
      /\ Count(Tail(cq[e]), {LandedImm}) = IF x \in {LandedImm} THEN Done(e) - 1 ELSE Done(e)
  BY <1>1, Counted DEF Came, Done
<1> HIDE DEF x
<1>5. Came(e) \in Nat /\ Done(e) \in Nat
  BY Tallies
<1>6. /\ x \in {LandedImm} <=> x.kind = "sent" /\ x.what = "imm"
      /\ x \in ImmCame <=> x.kind = "recv" /\ x.what = "imm"
  BY <1>2, Kinds
<1>7. Came(e)' = Count(Tail(cq[e]), ImmCame) /\ Done(e)' = Count(Tail(cq[e]), {LandedImm})
  BY <1>3 DEF Came, Done
<1>8. Done(e)' = Done(e) - One(x.kind = "sent" /\ x.what = "imm")
  BY <1>4, <1>5, <1>6, <1>7 DEF One
<1>9. Came(e)' = Came(e) - One(x.kind = "recv" /\ x.what = "imm")
  BY <1>4, <1>5, <1>6, <1>7 DEF One
<1>10. \A o \in Ends : /\ Wires(o)' = Wires(o) /\ Acked(o)' = Acked(o)
                       /\ o # e => Done(o)' = Done(o) /\ Came(o)' = Came(o)
  BY <1>3 DEF Acked, Wires, Came, Done
<1> QED
  BY <1>2, <1>8, <1>9, <1>10 DEF x

\* What is posted is on the wire.
LEMMA PostTally ==
  ASSUME CInv, NEW e \in Ends, NEW t \in Tokens, UNCHANGED <<acks, cq>>,
         wire' = Set(wire, Peer[e], Append(wire[Peer[e]], t))
  PROVE  /\ Wires(Peer[e])' = Wires(Peer[e]) + One(t = "imm") /\ Wires(e)' = Wires(e)
         /\ \A o \in Ends : Acked(o)' = Acked(o) /\ Done(o)' = Done(o) /\ Came(o)' = Came(o)
<1> DEFINE p == Peer[e]
<1>1. p \in Ends /\ p # e /\ wire[p] \in Seq(Tokens) /\ DOMAIN wire = Ends
  BY TwoEnds DEF CInv, Traffic
<1>2. wire'[p] = Append(wire[p], t) /\ wire'[e] = wire[e]
  BY <1>1 DEF Set
<1>3. Count(Append(wire[p], t), {"imm"}) = IF t \in {"imm"} THEN Wires(p) + 1 ELSE Wires(p)
  BY <1>1, Counted DEF Wires
<1>4. Wires(p) \in Nat
  BY <1>1, Tallies
<1> HIDE DEF p
<1>5. Wires(p)' = Wires(p) + One(t = "imm") /\ Wires(e)' = Wires(e)
  BY <1>2, <1>3, <1>4 DEF Wires, One
<1>6. \A o \in Ends : Acked(o)' = Acked(o) /\ Done(o)' = Done(o) /\ Came(o)' = Came(o)
  BY DEF Acked, Done, Came
<1> QED
  BY <1>5, <1>6 DEF p


-----------------------------------------------------------------------------
(* The plain registers.                                                     *)

Registers ==
  /\ mode \in [Ends -> {"run", "err", "timeout"}] /\ polled \in [Ends -> 0..Batch]
  /\ imm \in [Ends -> 0..ImmCap] /\ DOMAIN writes = Ends /\ DOMAIN credit = Ends

\* The registers are typed at first.
LEMMA InitRegisters == Init => Registers
BY CtlAssumption DEF Init, Registers

\* A batch is never larger than it may be, and imm_q never fuller.
LEMMA NextRegisters ==
  ASSUME Registers, [Next]_vars
  PROVE  Registers'
<1>1. Batch \in Nat \ {0} /\ ImmCap \in Nat
  BY CtlAssumption
<1>2. CASE UNCHANGED <<mode, polled, imm, writes, credit>>
  BY <1>2 DEF Registers
<1>3. CASE UNCHANGED vars
  BY <1>2, <1>3 DEF vars, stepVars, sendVars, recvVars
<1>4. ASSUME NEW e \in Ends,
             \/ Deliver(e) \/ Acknowledge(e) \/ SendFrame(e) \/ SendDone(e) \/ CreditFrame(e)
             \/ CreditDone(e) \/ WaitDone(e)
      PROVE  Registers'
  BY <1>2, <1>4 DEF Deliver, Acknowledge, SendFrame, SendDone, CreditFrame, CreditDone, WaitDone,
                    sendVars, recvVars
<1>5. ASSUME NEW e \in Ends, SendRefused(e) \/ ReadFrame(e) PROVE Registers'
  <2>1. mode' = mode \/ mode' = Set(mode, e, "err")
    BY <1>5 DEF SendRefused, ReadFrame
  <2>2. UNCHANGED <<polled, imm, writes, credit>>
    BY <1>5 DEF SendRefused, ReadFrame, sendVars, recvVars
  <2> QED
    BY <2>1, <2>2 DEF Registers, Set
<1>6. ASSUME NEW e \in Ends, PollReturns(e) PROVE Registers'
  <2>1. mode' = mode \/ mode' = Set(mode, e, "timeout")
    BY <1>6 DEF PollReturns
  <2>2. UNCHANGED <<imm, writes, credit>> /\ polled' = Set(polled, e, 0)
    BY <1>6 DEF PollReturns, sendVars, recvVars
  <2> QED
    BY <1>1, <2>1, <2>2 DEF Registers, Set
<1>7. ASSUME NEW e \in Ends, Write(e) \/ Pop(e) PROVE Registers'
  <2>1. UNCHANGED <<mode, polled, credit>>
    BY <1>7 DEF Write, Pop, sendVars
  <2>2. writes' = writes \/ writes' = Set(writes, e, writes[e] + 1)
    BY <1>7 DEF Write, Pop, sendVars
  <2>3. imm' = imm \/ (imm[e] > 0 /\ imm' = Set(imm, e, imm[e] - 1))
    BY <1>7 DEF Write, Pop, recvVars
  <2>4. imm' \in [Ends -> 0..ImmCap]
    BY <1>1, <2>3 DEF Registers, Set
  <2> QED
    BY <2>1, <2>2, <2>4 DEF Registers, Set
<1>8. ASSUME NEW e \in Ends, HandleWc(e) PROVE Registers'
  <2>1. mode' = mode \/ mode' = Set(mode, e, "err")
    BY <1>8 DEF HandleWc, HandleSent, HandleImm, HandleCredit, HandleFrame
  <2>2. imm' = imm \/ (~(imm[e] >= ImmCap) /\ imm' = Set(imm, e, imm[e] + 1))
    BY <1>8 DEF HandleWc, HandleSent, HandleImm, HandleCredit, HandleFrame, recvVars
  <2>3. writes' = writes \/ \E v : writes' = Set(writes, e, v)
    BY <1>8 DEF HandleWc, HandleSent, HandleImm, HandleCredit, HandleFrame
  <2>4. credit' = credit \/ \E v : credit' = Set(credit, e, v)
    BY <1>8 DEF HandleWc, HandleSent, HandleImm, HandleCredit, HandleFrame
  <2>5. /\ (Idle(e) /\ Waits(e)) \/ polled[e] \in 1..Batch - 1
        /\ polled' = Set(polled, e, polled[e] + 1)
    BY <1>8 DEF HandleWc
  <2>6. polled' \in [Ends -> 0..Batch]
    BY <1>1, <2>5 DEF Registers, Set, Idle
  <2>7. imm' \in [Ends -> 0..ImmCap]
    BY <1>1, <2>2 DEF Registers, Set
  <2>8. mode' \in [Ends -> {"run", "err", "timeout"}]
    BY <2>1 DEF Registers, Set
  <2>9. DOMAIN writes' = Ends /\ DOMAIN credit' = Ends
    BY <2>3, <2>4 DEF Registers, Set
  <2> QED
    BY <2>6, <2>7, <2>8, <2>9 DEF Registers
<1> QED
  BY <1>3, <1>4, <1>5, <1>6, <1>7, <1>8 DEF Next, EndStep

-----------------------------------------------------------------------------
(* Where the WRITEs and their immediates are.                               *)

\* A WRITE that is not completed has one trace of its own: its immediate on the
\* wire, its acknowledgement, or its completion.
WritesOf(e) ==
  writes[e] = Wires(Peer[e]) + Acked(e) + Done(e) /\ writes[e] <= Written(e, pc[e])

\* What is in imm_q, on its way there or taken out was written.
FlowOf(e) ==
  imm[e] + Wires(e) + Came(e) + Popped(e, pc[e]) <= Written(Peer[e], pc[Peer[e]])

Numbers == \A e \in Ends : WritesOf(e) /\ FlowOf(e)

\* The numbers of an end are natural ones.
LEMMA NumbersTyped ==
  ASSUME QInv, Registers, NEW e \in Ends
  PROVE  /\ Wires(e) \in Nat /\ Acked(e) \in Nat /\ Done(e) \in Nat /\ Came(e) \in Nat
         /\ Written(e, pc[e]) \in 0..Blocks /\ Popped(e, pc[e]) \in 0..Blocks /\ imm[e] \in Nat
         /\ Acquired(e, pc[e]) \in 0..Blocks /\ pc[e] \in Nat
         /\ Written(e, pc[e]) <= Acquired(e, pc[e])
<1>1. pc[e] \in Nat /\ CInv
  BY DEF QInv, Sides, PlanOf, PlanOk
<1>2. imm[e] \in Nat /\ Blocks \in Nat
  BY CtlAssumption DEF Registers
<1>3. /\ Written(e, pc[e]) \in 0..Blocks /\ Popped(e, pc[e]) \in 0..Blocks
      /\ Acquired(e, pc[e]) \in 0..Blocks /\ Written(e, pc[e]) <= Acquired(e, pc[e])
  BY <1>1, <1>2, PairsBounded DEF Written, Popped, Acquired
<1> QED
  BY <1>1, <1>2, <1>3, Tallies

\* A call that returns adds to what its end has written, taken out and acquired.
LEMMA ReturnAdds ==
  ASSUME QInv, Shapes, Registers, NEW e \in Ends, Running(e), pc' = Set(pc, e, pc[e] + 1)
  PROVE  /\ Written(e, pc'[e]) = Written(e, pc[e]) + One(Call(e).op = "write")
         /\ Popped(e, pc'[e]) = Popped(e, pc[e]) + One(Call(e).op = "pop")
         /\ Acquired(e, pc'[e]) = Acquired(e, pc[e]) + One(Call(e).op = "acquire")
         /\ Call(e).op = "acquire" => e = client /\ Call(e).count = Acquired(e, pc'[e]) - Window
         /\ Call(e).op = "write" => e = client
         /\ Call(e).op = "pop" => e = server
         /\ pc'[Peer[e]] = pc[Peer[e]]
<1>1. /\ pc[e] \in 1..Len(plan[e]) /\ DOMAIN pc = Ends /\ Plan(e, plan[e])
      /\ Peer[e] \in Ends /\ Peer[e] # e
  BY TwoEnds DEF QInv, QDomains, Sides, PlanOf, PlanOk, Running, Shapes, ShapeOf
<1>2. pc'[e] = pc[e] + 1 /\ pc'[Peer[e]] = pc[Peer[e]]
  BY <1>1 DEF Set
<1>3. Adds(e, plan[e], pc[e])
  BY <1>1, CallCounts
<1> QED
  BY <1>2, <1>3 DEF Adds, One, Call


\* Where nothing comes, goes or returns, the numbers stay.
LEMMA NumbersKept ==
  ASSUME Numbers, UNCHANGED <<writes, imm, pc>>,
         \A o \in Ends : /\ Wires(o)' = Wires(o) /\ Acked(o)' = Acked(o)
                         /\ Done(o)' = Done(o) /\ Came(o)' = Came(o)
  PROVE  Numbers'
<1> SUFFICES ASSUME NEW e \in Ends PROVE WritesOf(e)' /\ FlowOf(e)'
  BY DEF Numbers
<1>1. Peer[e] \in Ends
  BY TwoEnds
<1> QED
  BY <1>1 DEF Numbers, WritesOf, FlowOf

\* At first nothing is written and nothing is under way.
LEMMA InitNumbers == Init => Numbers
<1> SUFFICES ASSUME Init, NEW e \in Ends PROVE WritesOf(e) /\ FlowOf(e)
  BY DEF Numbers
<1>1. Peer[e] \in Ends
  BY TwoEnds
<1>2. /\ \A o \in Ends : wire[o] = << >> /\ acks[o] = << >> /\ cq[o] = << >> /\ pc[o] = 1
      /\ writes[e] = 0 /\ imm[e] = 0
  BY DEF Init
<1>3. \A o \in Ends : Wires(o) = 0 /\ Acked(o) = 0 /\ Done(o) = 0 /\ Came(o) = 0
  BY <1>2, CountNone DEF Wires, Acked, Done, Came
<1>4. Pairs(1) = 0 /\ Pairs(1 - 1) = 0
  BY DEF Pairs
<1>5. \A o \in Ends : Written(o, pc[o]) = 0 /\ Popped(o, pc[o]) = 0
  BY <1>2, <1>4 DEF Written, Popped
<1> QED
  BY <1>1, <1>2, <1>3, <1>5 DEF WritesOf, FlowOf

\* What the adapters do moves a trace along.
LEMMA AdapterNumbers ==
  ASSUME QInv, Registers, Numbers, NEW e \in Ends, Deliver(e) \/ Acknowledge(e)
  PROVE  Numbers'
<1> DEFINE p == Peer[e]
<1>1. p \in Ends /\ p # e /\ p = Peer[e] /\ Peer[p] = e /\ \A o \in Ends : o = e \/ o = p
  BY TwoEnds
<1>2. CInv /\ UNCHANGED <<writes, imm, pc>>
  BY DEF QInv, Deliver, Acknowledge, sendVars, recvVars
<1>3. WritesOf(e) /\ WritesOf(p) /\ FlowOf(e) /\ FlowOf(p)
  BY <1>1 DEF Numbers
<1>4. /\ Wires(e) \in Nat /\ Acked(e) \in Nat /\ Done(e) \in Nat /\ Came(e) \in Nat
      /\ Wires(p) \in Nat /\ Acked(p) \in Nat /\ Done(p) \in Nat /\ Came(p) \in Nat
      /\ imm[e] \in Nat /\ imm[p] \in Nat
      /\ Written(e, pc[e]) \in Nat /\ Written(p, pc[p]) \in Nat
      /\ Popped(e, pc[e]) \in Nat /\ Popped(p, pc[p]) \in Nat
  BY <1>1, NumbersTyped
<1>5. ASSUME NEW x, x \in {0, 1},
             /\ Wires(e)' = Wires(e) - x /\ Came(e)' = Came(e) + x /\ Done(e)' = Done(e)
             /\ Acked(e)' = Acked(e) /\ Acked(p)' = Acked(p) + x
             /\ Wires(p)' = Wires(p) /\ Came(p)' = Came(p) /\ Done(p)' = Done(p)
      PROVE  Numbers'
  <2> HIDE DEF p
  <2>1. WritesOf(e)' /\ FlowOf(p)'
    BY <1>1, <1>2, <1>3, <1>5 DEF WritesOf, FlowOf
  <2>2. WritesOf(p)' /\ FlowOf(e)'
    BY <1>1, <1>2, <1>3, <1>4, <1>5 DEF WritesOf, FlowOf
  <2> QED
    BY <1>1, <2>1, <2>2 DEF Numbers
<1>6. ASSUME NEW x, x \in {0, 1},
             /\ Acked(e)' = Acked(e) - x /\ Done(e)' = Done(e) + x /\ Came(e)' = Came(e)
             /\ Wires(e)' = Wires(e) /\ Wires(p)' = Wires(p) /\ Acked(p)' = Acked(p)
             /\ Done(p)' = Done(p) /\ Came(p)' = Came(p)
      PROVE  Numbers'
  <2> HIDE DEF p
  <2>1. WritesOf(e)' /\ WritesOf(p)'
    BY <1>1, <1>2, <1>3, <1>4, <1>6 DEF WritesOf
  <2>2. FlowOf(e)' /\ FlowOf(p)'
    BY <1>1, <1>2, <1>3, <1>6 DEF FlowOf
  <2> QED
    BY <1>1, <2>1, <2>2 DEF Numbers
<1>7. \A b : One(b) \in {0, 1}
  BY DEF One
<1>8. CASE Deliver(e)
  BY <1>2, <1>5, <1>7, <1>8, DeliverTally
<1>9. CASE Acknowledge(e)
  BY <1>1, <1>2, <1>6, <1>7, <1>9, AcknowledgeTally
<1> QED
  BY <1>8, <1>9

\* A completion that is handled ends a WRITE, or puts an immediate into imm_q.
LEMMA HandleNumbers ==
  ASSUME QInv, Registers, Numbers, NEW e \in Ends, HandleWc(e)
  PROVE  Numbers'
<1> DEFINE p == Peer[e]
           x == Head(cq[e])
<1>1. p \in Ends /\ p # e /\ p = Peer[e] /\ Peer[p] = e /\ \A o \in Ends : o = e \/ o = p
  BY TwoEnds
<1>2. CInv /\ cq[e] # << >> /\ cq' = Set(cq, e, Tail(cq[e])) /\ UNCHANGED <<wire, acks, pc>>
  BY DEF QInv, HandleWc
<1>3. WritesOf(e) /\ WritesOf(p) /\ FlowOf(e) /\ FlowOf(p)
  BY <1>1 DEF Numbers
<1>4. /\ Wires(e) \in Nat /\ Acked(e) \in Nat /\ Done(e) \in Nat /\ Came(e) \in Nat
      /\ Wires(p) \in Nat /\ Acked(p) \in Nat
      /\ imm[e] \in Nat /\ Written(e, pc[e]) \in Nat /\ Written(p, pc[p]) \in Nat
      /\ Popped(e, pc[e]) \in Nat
  BY <1>1, NumbersTyped
<1>5. /\ x \in Completions(e)
      /\ Done(e)' = Done(e) - One(x.kind = "sent" /\ x.what = "imm")
      /\ Came(e)' = Came(e) - One(x.kind = "recv" /\ x.what = "imm")
      /\ \A o \in Ends : /\ Wires(o)' = Wires(o) /\ Acked(o)' = Acked(o)
                         /\ o # e => Done(o)' = Done(o) /\ Came(o)' = Came(o)
  BY <1>2, HandleTally
<1>6. \/ /\ x.kind = "sent" /\ imm' = imm
         /\ writes' = Set(writes, e, IF x.what = "imm" THEN writes[e] - 1 ELSE writes[e])
      \/ /\ x.kind = "recv" /\ x.what = "imm" /\ writes' = writes
         /\ imm' = imm \/ imm' = Set(imm, e, imm[e] + 1)
      \/ x.kind = "recv" /\ x.what = "frame" /\ writes' = writes /\ imm' = imm
  BY DEF HandleWc, HandleSent, HandleImm, HandleCredit, HandleFrame, recvVars
<1> HIDE DEF x, p
<1>7. DOMAIN writes = Ends /\ DOMAIN imm = Ends
  BY DEF Registers
<1>8. WritesOf(p)' /\ FlowOf(p)'
  <2>1. writes'[p] = writes[p] /\ imm'[p] = imm[p]
    BY <1>1, <1>6, <1>7 DEF Set
  <2> QED
    BY <1>1, <1>2, <1>3, <1>5, <2>1 DEF WritesOf, FlowOf
<1>9. WritesOf(e)'
  <2>1. writes'[e] = writes[e] - One(x.kind = "sent" /\ x.what = "imm")
    <3>1. writes[e] \in Int
      BY <1>3, <1>4, <1>1 DEF WritesOf, p
    <3> QED
      BY <1>6, <1>7, <3>1 DEF Set, One
  <2> DEFINE y == One(x.kind = "sent" /\ x.what = "imm")
  <2>2. y \in {0, 1}
    BY DEF One
  <2>3. WritesOf(e) /\ Peer[e] = p
    BY <1>3 DEF p
  <2>4. /\ writes'[e] = writes[e] - y /\ Done(e)' = Done(e) - y /\ Acked(e)' = Acked(e)
        /\ Wires(p)' = Wires(p) /\ pc' = pc
    BY <1>1, <1>2, <1>5, <2>1
  <2> HIDE DEF y
  <2> QED
    BY <1>1, <1>4, <2>2, <2>3, <2>4 DEF WritesOf
<1>10. FlowOf(e)'
  <2> DEFINE b == x.kind = "recv" /\ x.what = "imm"
  <2>1. imm'[e] = imm[e] \/ (b /\ imm'[e] = imm[e] + 1)
    BY <1>6, <1>7 DEF Set
  <2>2. Came(e)' = Came(e) - One(b) /\ (b => One(b) = 1) /\ One(b) \in {0, 1}
    BY <1>5 DEF One
  <2> HIDE DEF b
  <2> DEFINE y == One(b)
  <2>3. imm'[e] <= imm[e] + y /\ imm'[e] \in Nat /\ y \in {0, 1}
    BY <1>4, <2>1, <2>2
  <2>5. Came(e)' = Came(e) - y /\ Wires(e)' = Wires(e) /\ pc' = pc
    BY <1>2, <1>5, <2>2
  <2> HIDE DEF y
  <2>4. FlowOf(e) /\ Peer[e] = p
    BY <1>3 DEF p
  <2> QED
    BY <1>4, <2>3, <2>4, <2>5 DEF FlowOf
<1> QED
  BY <1>1, <1>8, <1>9, <1>10 DEF Numbers


\* So a frame that is posted, and calls that return, leave them; a WRITE that is
\* posted and an immediate that is taken out count on both sides.
LEMMA CallNumbers ==
  ASSUME QInv, Shapes, Registers, Numbers, NEW e \in Ends,
         \/ SendFrame(e) \/ CreditFrame(e) \/ SendDone(e) \/ CreditDone(e) \/ WaitDone(e)
         \/ ReadFrame(e) \/ Write(e) \/ Pop(e)
  PROVE  Numbers'
<1> DEFINE p == Peer[e]
<1>1. p \in Ends /\ p # e /\ p = Peer[e] /\ Peer[p] = e /\ \A o \in Ends : o = e \/ o = p
  BY TwoEnds
<1>2. CInv /\ DOMAIN writes = Ends /\ DOMAIN imm = Ends
  BY DEF QInv, Registers
<1>3. WritesOf(e) /\ WritesOf(p) /\ FlowOf(e) /\ FlowOf(p)
  BY <1>1 DEF Numbers
<1>4. /\ Wires(e) \in Nat /\ Acked(e) \in Nat /\ Done(e) \in Nat /\ Came(e) \in Nat
      /\ Wires(p) \in Nat /\ Acked(p) \in Nat /\ Done(p) \in Nat /\ Came(p) \in Nat
      /\ imm[e] \in Nat /\ imm[p] \in Nat
      /\ Written(e, pc[e]) \in Nat /\ Written(p, pc[p]) \in Nat
      /\ Popped(e, pc[e]) \in Nat /\ Popped(p, pc[p]) \in Nat
  BY <1>1, NumbersTyped
<1> HIDE DEF p
<1>5. CASE SendFrame(e) \/ CreditFrame(e)
  <2>1. /\ UNCHANGED <<writes, imm, pc, acks, cq>> /\ wire' = Set(wire, p, Append(wire[p], "frame"))
    BY <1>5 DEF SendFrame, CreditFrame, Post, recvVars, p
  <2>2. "frame" \in Tokens /\ One("frame" = "imm") = 0
    BY DEF Tokens, One
  <2>3. /\ Wires(p)' = Wires(p) + 0 /\ Wires(e)' = Wires(e)
        /\ \A o \in Ends : Acked(o)' = Acked(o) /\ Done(o)' = Done(o) /\ Came(o)' = Came(o)
    BY <1>1, <1>2, <2>1, <2>2, PostTally
  <2>4. Wires(p)' = Wires(p)
    BY <1>4, <2>3
  <2> QED
    BY <1>1, <2>1, <2>3, <2>4, NumbersKept
<1>6. CASE UNCHANGED <<writes, imm, wire, acks, cq, pc>>
  BY <1>6, NumbersKept DEF Wires, Acked, Done, Came
<1>7. ASSUME Running(e), pc' = Set(pc, e, pc[e] + 1), Call(e).op \notin {"write", "pop"},
             UNCHANGED <<writes, imm, wire, acks, cq>>
      PROVE  Numbers'
  <2>1. /\ Written(e, pc'[e]) = Written(e, pc[e]) + One(Call(e).op = "write")
        /\ Popped(e, pc'[e]) = Popped(e, pc[e]) + One(Call(e).op = "pop")
        /\ pc'[p] = pc[p]
    BY <1>1, <1>7, ReturnAdds
  <2>2. One(Call(e).op = "write") = 0 /\ One(Call(e).op = "pop") = 0
    BY <1>7 DEF One
  <2>3. Written(e, pc'[e]) = Written(e, pc[e]) /\ Popped(e, pc'[e]) = Popped(e, pc[e])
    BY <1>4, <2>1, <2>2
  <2>4. \A o \in Ends : /\ Wires(o)' = Wires(o) /\ Acked(o)' = Acked(o) /\ Done(o)' = Done(o)
                        /\ Came(o)' = Came(o)
    BY <1>7 DEF Wires, Acked, Done, Came
  <2>5. WritesOf(e)' /\ FlowOf(e)'
    BY <1>1, <1>3, <1>7, <2>1, <2>3, <2>4 DEF WritesOf, FlowOf
  <2>6. WritesOf(p)' /\ FlowOf(p)'
    BY <1>1, <1>3, <1>7, <2>1, <2>3, <2>4 DEF WritesOf, FlowOf
  <2> QED
    BY <1>1, <2>5, <2>6 DEF Numbers
<1>8. CASE SendDone(e) \/ CreditDone(e) \/ WaitDone(e)
  <2>1. /\ Running(e) /\ pc' = Set(pc, e, pc[e] + 1) /\ Call(e).op \notin {"write", "pop"}
    BY <1>8 DEF SendDone, CreditDone, WaitDone, Returns, In
  <2>2. UNCHANGED <<writes, imm, wire, acks, cq>>
    BY <1>8 DEF SendDone, CreditDone, WaitDone, sendVars, recvVars, netVars
  <2> QED
    BY <1>7, <2>1, <2>2
<1>9. CASE ReadFrame(e)
  <2>1. UNCHANGED <<writes, imm, wire, acks, cq>>
    BY <1>9 DEF ReadFrame, sendVars, netVars
  <2>2. /\ Running(e) /\ Call(e).op \notin {"write", "pop"}
        /\ pc' = pc \/ pc' = Set(pc, e, pc[e] + 1)
    BY <1>9 DEF ReadFrame, In, Returns
  <2> QED
    BY <1>6, <1>7, <2>1, <2>2
<1>10. CASE Write(e)
  <2>1. /\ Running(e) /\ pc' = Set(pc, e, pc[e] + 1) /\ Call(e).op = "write"
        /\ writes' = Set(writes, e, writes[e] + 1) /\ UNCHANGED <<imm, acks, cq>>
        /\ wire' = Set(wire, p, Append(wire[p], "imm"))
    BY <1>10 DEF Write, In, Returns, recvVars, p
  <2>2. /\ Written(e, pc'[e]) = Written(e, pc[e]) + One(Call(e).op = "write")
        /\ Popped(e, pc'[e]) = Popped(e, pc[e]) + One(Call(e).op = "pop")
        /\ pc'[p] = pc[p]
    BY <1>1, <2>1, ReturnAdds
  <2>3. One(Call(e).op = "write") = 1 /\ One(Call(e).op = "pop") = 0 /\ One("imm" = "imm") = 1
        /\ "imm" \in Tokens
    BY <2>1 DEF One, Tokens
  <2>4. Written(e, pc'[e]) = Written(e, pc[e]) + 1 /\ Popped(e, pc'[e]) = Popped(e, pc[e])
    BY <1>4, <2>2, <2>3
  <2>5. /\ Wires(p)' = Wires(p) + 1 /\ Wires(e)' = Wires(e)
        /\ \A o \in Ends : Acked(o)' = Acked(o) /\ Done(o)' = Done(o) /\ Came(o)' = Came(o)
    BY <1>1, <1>2, <2>1, <2>3, PostTally
  <2>6. writes'[e] = writes[e] + 1 /\ writes'[p] = writes[p]
    BY <1>1, <1>2, <2>1 DEF Set
  <2>7. WritesOf(e)'
    BY <1>1, <1>3, <1>4, <2>4, <2>5, <2>6 DEF WritesOf
  <2>8. WritesOf(p)'
    BY <1>1, <1>3, <2>2, <2>5, <2>6 DEF WritesOf
  <2>9. FlowOf(e)'
    BY <1>1, <1>3, <2>1, <2>2, <2>4, <2>5 DEF FlowOf
  <2>10. FlowOf(p)'
    BY <1>1, <1>3, <1>4, <2>1, <2>2, <2>4, <2>5 DEF FlowOf
  <2> QED
    BY <1>1, <2>7, <2>8, <2>9, <2>10 DEF Numbers
<1>11. CASE Pop(e)
  <2>1. /\ Running(e) /\ pc' = Set(pc, e, pc[e] + 1) /\ Call(e).op = "pop" /\ imm[e] > 0
        /\ imm' = Set(imm, e, imm[e] - 1) /\ UNCHANGED <<writes, wire, acks, cq>>
    BY <1>11 DEF Pop, In, Returns, sendVars, netVars
  <2>2. /\ Written(e, pc'[e]) = Written(e, pc[e]) + One(Call(e).op = "write")
        /\ Popped(e, pc'[e]) = Popped(e, pc[e]) + One(Call(e).op = "pop")
        /\ pc'[p] = pc[p]
    BY <1>1, <2>1, ReturnAdds
  <2>3. One(Call(e).op = "write") = 0 /\ One(Call(e).op = "pop") = 1
    BY <2>1 DEF One
  <2>4. Written(e, pc'[e]) = Written(e, pc[e]) /\ Popped(e, pc'[e]) = Popped(e, pc[e]) + 1
    BY <1>4, <2>2, <2>3
  <2>5. \A o \in Ends : /\ Wires(o)' = Wires(o) /\ Acked(o)' = Acked(o) /\ Done(o)' = Done(o)
                        /\ Came(o)' = Came(o)
    BY <2>1 DEF Wires, Acked, Done, Came
  <2>6. imm'[e] = imm[e] - 1 /\ imm'[p] = imm[p]
    BY <1>1, <1>2, <2>1 DEF Set
  <2>7. WritesOf(e)' /\ WritesOf(p)'
    BY <1>1, <1>3, <2>1, <2>2, <2>4, <2>5 DEF WritesOf
  <2>8. FlowOf(e)'
    BY <1>1, <1>3, <1>4, <2>2, <2>4, <2>5, <2>6 DEF FlowOf
  <2>9. FlowOf(p)'
    BY <1>1, <1>3, <2>2, <2>4, <2>5, <2>6 DEF FlowOf
  <2> QED
    BY <1>1, <2>7, <2>8, <2>9 DEF Numbers
<1> QED
  BY <1>5, <1>8, <1>9, <1>10, <1>11

\* The counts hold after every step.
LEMMA NextNumbers ==
  ASSUME QInv, Shapes, Registers, Numbers, [Next]_vars
  PROVE  Numbers'
<1>1. CASE UNCHANGED <<writes, imm, wire, acks, cq, pc>>
  BY <1>1, NumbersKept DEF Wires, Acked, Done, Came
<1>2. CASE UNCHANGED vars
  BY <1>1, <1>2 DEF vars, stepVars, sendVars, recvVars, netVars
<1>3. ASSUME NEW e \in Ends, PollReturns(e) \/ SendRefused(e) PROVE Numbers'
  BY <1>1, <1>3 DEF PollReturns, SendRefused, sendVars, recvVars, netVars
<1> QED
  BY <1>2, <1>3, AdapterNumbers, HandleNumbers, CallNumbers DEF Next, EndStep


-----------------------------------------------------------------------------
(* Credit: what is announced has been taken out of imm_q.                   *)

\* A frame, which announces at most n if it announces anything.
Grants(x, n) == x \in Frames /\ (x.cred => \E c \in 0..n : x.load = <<c>>)

CreditOf(e) ==
  LET n == Popped(Peer[e], pc[Peer[e]]) IN
    /\ Grants(out[Peer[e]], n) /\ \A i \in Slots(e) : Grants(slot[e][i], n)
    /\ credit[e] \in 0..n

\* The client acquires a slab once the server has taken out all but a window.
Ahead == Acquired(client, pc[client]) <= Popped(server, pc[server]) + Window

Credits == (\A e \in Ends : CreditOf(e)) /\ Ahead

\* At first nothing is granted.
LEMMA InitCredits == Init => Credits
<1> SUFFICES ASSUME Init PROVE Credits
  OBVIOUS
<1>1. Pairs(1) = 0 /\ Window \in Nat /\ client \in Ends /\ server \in Ends
  BY CtlAssumption DEF Pairs, Ends
<1>2. \A e \in Ends : Popped(e, pc[e]) = 0 /\ Acquired(e, pc[e]) = 0
  BY <1>1 DEF Init, Popped, Acquired
<1>3. Grants(NoFrame, 0)
  BY DEF Grants, NoFrame, Frames
<1>4. ASSUME NEW e \in Ends PROVE CreditOf(e)
  <2>1. Peer[e] \in Ends
    BY TwoEnds
  <2>2. out[Peer[e]] = NoFrame /\ (\A i \in Slots(e) : slot[e][i] = NoFrame) /\ credit[e] = 0
    BY <2>1 DEF Init
  <2> QED
    BY <1>2, <1>3, <2>1, <2>2 DEF CreditOf
<1> QED
  BY <1>1, <1>2, <1>4 DEF Credits, Ahead

\* A call that returns takes nothing back.
LEMMA PoppedGrows ==
  ASSUME QInv, Shapes, Registers, [Next]_vars, NEW o \in Ends
  PROVE  Popped(o, pc[o]) \in Nat /\ Popped(o, pc'[o]) \in Nat /\ Popped(o, pc[o]) <= Popped(o, pc'[o])
<1>1. Popped(o, pc[o]) \in Nat
  BY NumbersTyped
<1>2. CASE pc' = pc
  BY <1>1, <1>2
<1>3. ASSUME NEW e \in Ends, Running(e), pc' = Set(pc, e, pc[e] + 1)
      PROVE  Popped(o, pc'[o]) \in Nat /\ Popped(o, pc[o]) <= Popped(o, pc'[o])
  <2>1. Popped(e, pc'[e]) = Popped(e, pc[e]) + One(Call(e).op = "pop") /\ pc'[Peer[e]] = pc[Peer[e]]
    BY <1>3, ReturnAdds
  <2>2. o = e \/ o = Peer[e]
    BY TwoEnds
  <2>3. One(Call(e).op = "pop") \in {0, 1}
    BY DEF One
  <2> DEFINE y == One(Call(e).op = "pop")
  <2> HIDE DEF y
  <2>4. y \in {0, 1} /\ Popped(e, pc'[e]) = Popped(e, pc[e]) + y
    BY <2>1, <2>3 DEF y
  <2> QED
    BY <1>1, <2>1, <2>2, <2>4
<1>4. pc' = pc \/ \E e \in Ends : Running(e) /\ pc' = Set(pc, e, pc[e] + 1)
  BY EndMoves
<1> QED
  BY <1>1, <1>2, <1>3, <1>4

\* What was announced before still may be.
LEMMA GrantsMore ==
  ASSUME NEW n \in Nat, NEW m \in Nat, n <= m
  PROVE  /\ \A x : Grants(x, n) => Grants(x, m)
         /\ \A c : c \in 0..n => c \in 0..m
BY DEF Grants

\* The client stays within the window.
LEMMA NextAhead ==
  ASSUME QInv, Shapes, Registers, Credits, [Next]_vars
  PROVE  Ahead'
<1>1. client \in Ends /\ server \in Ends /\ client # server /\ Peer[client] = server
  BY CtlAssumption DEF Ends, Peer
<1>2. /\ Popped(server, pc[server]) \in Nat /\ Popped(server, pc'[server]) \in Nat
      /\ Popped(server, pc[server]) <= Popped(server, pc'[server])
  BY <1>1, PoppedGrows
<1>3. Acquired(client, pc[client]) \in Nat /\ Window \in Nat
  BY <1>1, NumbersTyped, CtlAssumption
<1>4. Ahead /\ CreditOf(client)
  BY <1>1 DEF Credits
<1>5. CASE pc'[client] = pc[client]
  BY <1>2, <1>3, <1>4, <1>5 DEF Ahead
<1>6. ASSUME Running(client), pc' = Set(pc, client, pc[client] + 1)
      PROVE  Ahead'
  <2>1. /\ Acquired(client, pc'[client]) = Acquired(client, pc[client]) + One(Call(client).op = "acquire")
        /\ Call(client).op = "acquire" => Call(client).count = Acquired(client, pc'[client]) - Window
    BY <1>1, <1>6, ReturnAdds
  <2>2. CASE Call(client).op = "acquire"
    <3>1. credit[client] >= Call(client).count
      <4>1. pc' # pc
        <5>1. pc'[client] = pc[client] + 1 /\ pc[client] \in Nat
          BY <1>1, <1>6, NumbersTyped DEF QInv, QDomains, Set
        <5> QED
          BY <5>1
      <4>2. ~UNCHANGED vars
        BY <4>1 DEF vars, stepVars
      <4>3. ASSUME NEW e \in Ends, EndStep(e) \/ Deliver(e) \/ Acknowledge(e)
            PROVE  credit[client] >= Call(client).count
        <5>1. /\ SendDone(e) \/ CreditDone(e) \/ WaitDone(e) \/ Pop(e) \/ Write(e) \/ ReadFrame(e)
          BY <4>1, <4>3 DEF EndStep, Deliver, Acknowledge, HandleWc, PollReturns, SendFrame,
                            SendRefused, CreditFrame
        <5>2. pc' = Set(pc, e, pc[e] + 1)
          BY <4>1, <5>1 DEF SendDone, CreditDone, WaitDone, Pop, Write, ReadFrame, Returns
        <5>3. e = client
          <6>1. pc'[client] = pc[client] + 1 /\ pc[client] \in Nat
            BY <1>1, <1>6, NumbersTyped DEF QInv, QDomains, Set
          <6>2. e # client => pc'[client] = pc[client]
            BY <1>1, <5>2 DEF QInv, QDomains, Set
          <6> QED
            BY <6>1, <6>2
        <5>4. WaitDone(client)
          BY <2>2, <5>1, <5>3 DEF SendDone, CreditDone, Pop, Write, ReadFrame, In
        <5> QED
          BY <2>2, <5>4 DEF WaitDone, In
      <4> QED
        BY <4>2, <4>3 DEF Next
    <3>2. credit[client] \in 0..Popped(server, pc[server])
      BY <1>1, <1>4 DEF CreditOf
    <3>3. One(Call(client).op = "acquire") = 1
      BY <2>2 DEF One
    <3>4. Acquired(client, pc'[client]) - Window <= credit[client] /\ Acquired(client, pc'[client]) \in Nat
      BY <1>3, <2>1, <2>2, <3>1, <3>3
    <3> QED
      BY <1>2, <1>3, <3>2, <3>4 DEF Ahead
  <2>3. CASE Call(client).op # "acquire"
    <3>1. One(Call(client).op = "acquire") = 0
      BY <2>3 DEF One
    <3>2. Acquired(client, pc'[client]) = Acquired(client, pc[client])
      BY <1>3, <2>1, <3>1
    <3> QED
      BY <1>2, <1>3, <1>4, <3>2 DEF Ahead
  <2> QED
    BY <2>2, <2>3
<1>7. pc' = pc \/ \E e \in Ends : Running(e) /\ pc' = Set(pc, e, pc[e] + 1)
  BY EndMoves
<1>8. ASSUME NEW e \in Ends, Running(e), pc' = Set(pc, e, pc[e] + 1)
      PROVE  Ahead'
  <2>1. CASE e = client
    BY <1>6, <1>8, <2>1
  <2>2. CASE e # client
    BY <1>1, <1>5, <1>8, <2>2 DEF QInv, QDomains, Set
  <2> QED
    BY <2>1, <2>2
<1> QED
  BY <1>5, <1>7, <1>8


\* What is announced has been taken out, in every frame that announces it.
LEMMA NextCredits ==
  ASSUME QInv, Shapes, Registers, Credits, [Next]_vars
  PROVE  Credits'
<1> DEFINE n(o) == Popped(o, pc[o])
           m(o) == Popped(o, pc'[o])
<1>1. ASSUME NEW o \in Ends
      PROVE  /\ Peer[o] \in Ends /\ n(o) \in Nat /\ m(o) \in Nat /\ n(o) <= m(o)
             /\ Grants(out[o], n(o)) /\ credit[o] \in 0..n(Peer[o])
             /\ \A i \in Slots(o) : Grants(slot[o][i], n(Peer[o]))
  <2>1. Peer[o] \in Ends /\ Peer[Peer[o]] = o
    BY TwoEnds
  <2>2. n(o) \in Nat /\ m(o) \in Nat /\ n(o) <= m(o)
    BY PoppedGrows
  <2>3. CreditOf(o) /\ CreditOf(Peer[o])
    BY <2>1 DEF Credits
  <2> QED
    BY <2>1, <2>2, <2>3 DEF CreditOf
<1> HIDE DEF n, m
<1>2. ASSUME NEW o \in Ends
      PROVE  /\ Grants(out[o], m(o)) /\ credit[o] \in 0..m(Peer[o])
             /\ \A i \in Slots(o) : Grants(slot[o][i], m(Peer[o]))
  <2>1. /\ \A x : Grants(x, n(o)) => Grants(x, m(o))
        /\ \A x : Grants(x, n(Peer[o])) => Grants(x, m(Peer[o]))
        /\ credit[o] \in 0..n(Peer[o]) => credit[o] \in 0..m(Peer[o])
    BY <1>1, GrantsMore
  <2> QED
    BY <1>1, <2>1
<1>3. Ahead'
  BY NextAhead
<1>4. ASSUME NEW o \in Ends, Grants(out'[Peer[o]], m(Peer[o])), credit'[o] \in 0..m(Peer[o]),
             \A i \in Slots(o) : Grants(slot'[o][i], m(Peer[o]))
      PROVE  CreditOf(o)'
  BY <1>4 DEF CreditOf, m, Slots
<1>5. /\ DOMAIN out = Ends /\ DOMAIN slot = Ends /\ DOMAIN credit = Ends
      /\ \A o \in Ends : DOMAIN slot[o] = Slots(o)
  BY DEF QInv, QDomains, Registers
<1>6. CASE UNCHANGED <<out, slot, credit>>
  BY <1>1, <1>2, <1>3, <1>4, <1>6 DEF Credits
<1>7. CASE UNCHANGED vars
  BY <1>6, <1>7 DEF vars, stepVars, sendVars, recvVars
<1>8. ASSUME NEW e \in Ends,
             \/ Acknowledge(e) \/ PollReturns(e) \/ SendDone(e) \/ SendRefused(e) \/ CreditDone(e)
             \/ ReadFrame(e) \/ Write(e) \/ WaitDone(e) \/ Pop(e)
      PROVE  Credits'
  BY <1>6, <1>8 DEF Acknowledge, PollReturns, SendDone, SendRefused, CreditDone, ReadFrame, Write,
                    WaitDone, Pop, sendVars, recvVars
<1>9. ASSUME NEW e \in Ends, Deliver(e) PROVE Credits'
  <2>1. /\ UNCHANGED <<out, credit>>
        /\ \/ slot' = slot
           \/ \E i : slot' = Set(slot, e, [slot[e] EXCEPT ![i] = out[Peer[e]]])
    BY <1>9 DEF Deliver, sendVars
  <2>2. ASSUME NEW o \in Ends, NEW i \in Slots(o) PROVE Grants(slot'[o][i], m(Peer[o]))
    <3>1. slot'[o][i] = slot[o][i] \/ slot'[o][i] = out[Peer[o]]
      BY <1>5, <2>1 DEF Set
    <3> QED
      BY <1>1, <1>2, <3>1
  <2> QED
    BY <1>1, <1>2, <1>3, <1>4, <2>1, <2>2 DEF Credits
<1>10. ASSUME NEW e \in Ends, NEW x, out' = Set(out, e, x), Grants(x, m(e)), UNCHANGED <<slot, credit>>
       PROVE  Credits'
  <2>1. \A o \in Ends : Grants(out'[o], m(o))
    BY <1>2, <1>5, <1>10 DEF Set
  <2> QED
    BY <1>1, <1>2, <1>3, <1>4, <1>10, <2>1 DEF Credits
<1>11. ASSUME NEW e \in Ends, SendFrame(e) PROVE Credits'
  <2> DEFINE msg == Call(e).msg
             k == Smaller(Len(msg) - off[e], CTL_PAY)
             x == [load |-> SubSeq(msg, off[e] + 1, off[e] + k), last |-> Len(msg) - off[e] = k,
                   cred |-> FALSE]
  <2>1. /\ out' = Set(out, e, x) /\ UNCHANGED <<slot, credit>> /\ In(e, "send")
        /\ Len(msg) - off[e] > 0
    BY <1>11 DEF SendFrame, Post, recvVars
  <2>2. msg \in Seq(Nat) /\ off[e] \in Nat /\ k \in 1..Len(msg) - off[e]
    <3>1. PlanOk(e, plan[e], pc[e], off[e]) /\ pc[e] <= Len(plan[e]) /\ plan[e][pc[e]].op = "send"
      BY <2>1 DEF QInv, Sides, PlanOf, In, Running, Call
    <3>2. msg \in Msgs(VersionOf(e))
      BY <3>1, MessageTyped DEF Call
    <3>3. msg \in Seq(Nat) /\ off[e] \in Nat
      BY <3>1, <3>2 DEF PlanOk, Msgs
    <3> HIDE DEF msg
    <3> QED
      BY <2>1, <3>3, CtlAssumption DEF Smaller
  <2> HIDE DEF msg, k
  <2>3. SubSeq(msg, off[e] + 1, off[e] + k) \in Seq(Nat)
    <3> DEFINE o == off[e]
    <3> HIDE DEF o
    <3>1. Len(msg) \in Nat /\ o \in Nat /\ k \in 1..Len(msg) - o /\ msg \in Seq(Nat)
      BY <2>2 DEF o
    <3>2. o + 1 \in Int /\ o + k \in Int /\ \A i \in o + 1..o + k : i \in 1..Len(msg)
      BY <3>1
    <3>3. \A i \in o + 1..o + k : msg[i] \in Nat
      BY <3>1, <3>2
    <3> QED
      BY <3>2, <3>3, SubSeqProperties DEF o
  <2>4. x \in Frames /\ ~x.cred
    BY <2>3 DEF Frames
  <2> HIDE DEF x
  <2> QED
    BY <1>10, <2>1, <2>4 DEF Grants
<1>12. ASSUME NEW e \in Ends, CreditFrame(e) PROVE Credits'
  <2> DEFINE c == Call(e).count
             x == [load |-> <<c>>, last |-> TRUE, cred |-> TRUE]
  <2>1. out' = Set(out, e, x) /\ UNCHANGED <<slot, credit, pc>> /\ In(e, "credit")
    BY <1>12 DEF CreditFrame, Post, recvVars
  <2>2. c = n(e)
    <3>1. pc[e] \in 1..Len(plan[e]) /\ Plan(e, plan[e]) /\ plan[e][pc[e]].op = "credit"
      BY <2>1 DEF QInv, Sides, PlanOf, PlanOk, In, Running, Call, Shapes, ShapeOf
    <3> QED
      BY <3>1, CallCounts DEF Adds, Call, n
  <2>3. m(e) = n(e) /\ n(e) \in Nat
    BY <1>1, <2>1 DEF m, n
  <2> HIDE DEF c
  <2>4. <<c>> \in Seq(Nat) /\ c \in 0..m(e)
    BY <2>2, <2>3
  <2>5. x \in Frames /\ x.load = <<c>>
    BY <2>4 DEF Frames
  <2> HIDE DEF x
  <2>6. Grants(x, m(e))
    BY <2>4, <2>5 DEF Grants
  <2> QED
    BY <1>10, <2>1, <2>6
<1>13. ASSUME NEW e \in Ends, HandleWc(e) PROVE Credits'
  <2>1. CASE HandleSent(e) \/ HandleImm(e) \/ HandleFrame(e)
    BY <1>6, <1>13, <2>1 DEF HandleWc, HandleSent, HandleImm, HandleFrame, recvVars
  <2>2. CASE HandleCredit(e)
    <3> DEFINE i == Head(cq[e]).slot
               x == slot[e][i]
    <3>1. UNCHANGED <<out, slot>> /\ x.cred /\ credit' = Set(credit, e, Head(x.load))
      BY <1>13, <2>2 DEF HandleWc, HandleCredit
    <3>2. i \in Slots(e)
      <4>1. cq[e] # << >> /\ cq[e] \in Seq(Completions(e)) /\ Head(cq[e]).kind = "recv"
        BY <1>13, <2>2 DEF HandleWc, HandleCredit, QInv, CInv, PartsOf, Parts
      <4>2. Head(cq[e]) \in Completions(e)
        BY <4>1
      <4> QED
        BY <4>1, <4>2 DEF Completions
    <3>3. Grants(x, m(Peer[e]))
      BY <1>2, <3>2
    <3> HIDE DEF x
    <3>4. PICK c \in 0..m(Peer[e]) : x.load = <<c>>
      BY <3>1, <3>3 DEF Grants
    <3>5. Head(x.load) = c
      BY <3>4
    <3>6. \A o \in Ends : credit'[o] \in 0..m(Peer[o])
      BY <1>2, <1>5, <3>1, <3>4, <3>5 DEF Set
    <3> QED
      BY <1>1, <1>2, <1>3, <1>4, <3>1, <3>6 DEF Credits
  <2> QED
    BY <1>13, <2>1, <2>2 DEF HandleWc
<1> QED
  BY <1>7, <1>8, <1>9, <1>11, <1>12, <1>13 DEF Next, EndStep


-----------------------------------------------------------------------------
(* The types of the variables.                                              *)

\* Every register is there for both ends.
IsMap(f) == f = [o \in Ends |-> f[o]]

Maps ==
  /\ IsMap(off) /\ IsMap(out) /\ IsMap(sendOut) /\ IsMap(writes) /\ IsMap(credit) /\ IsMap(slot)
  /\ IsMap(qh) /\ IsMap(qt) /\ IsMap(got) /\ IsMap(rcvd) /\ IsMap(wire) /\ IsMap(acks)
  /\ \A e \in Ends : slot[e] = [i \in Slots(e) |-> slot[e][i]]

\* An assignment keeps a map a map.
LEMMA SetIsMap ==
  ASSUME NEW f, IsMap(f), NEW e \in Ends, NEW v
  PROVE  IsMap(Set(f, e, v))
BY DEF IsMap, Set

\* The state of the ends is a map of the ends at first.
LEMMA InitMaps == Init => Maps
<1> SUFFICES ASSUME Init PROVE Maps
  OBVIOUS
<1>1. /\ IsMap(off) /\ IsMap(out) /\ IsMap(sendOut) /\ IsMap(writes) /\ IsMap(credit)
      /\ IsMap(qh) /\ IsMap(qt) /\ IsMap(got) /\ IsMap(rcvd) /\ IsMap(wire) /\ IsMap(acks)
  BY DEF Init, IsMap
<1>2. slot = [e \in Ends |-> [i \in Slots(e) |-> NoFrame]]
  BY DEF Init
<1>3. IsMap(slot) /\ \A e \in Ends : slot[e] = [i \in Slots(e) |-> slot[e][i]]
  BY <1>2 DEF IsMap
<1> QED
  BY <1>1, <1>3 DEF Maps

\* It stays one.
LEMMA NextMaps ==
  ASSUME Maps, DOMAIN slot = Ends, [Next]_vars
  PROVE  Maps'
<1> DEFINE slots == \A e \in Ends : slot[e] = [i \in Slots(e) |-> slot[e][i]]
<1>1. CASE UNCHANGED vars
  BY <1>1 DEF Maps, vars, stepVars, sendVars, recvVars, readVars, netVars, Slots
<1>2. slot' = slot => slots'
  BY DEF Maps, Slots
<1>3. ASSUME NEW e \in Ends, Deliver(e) \/ Acknowledge(e)
      PROVE  Maps'
  <2>1. Peer[e] \in Ends
    BY TwoEnds
  <2>2. slots'
    <3>1. slot' = slot \/ \E i, v : slot' = Set(slot, e, [slot[e] EXCEPT ![i] = v])
      BY <1>3 DEF Deliver, Acknowledge, recvVars
    <3> QED
      BY <1>2, <3>1 DEF Set, Slots, Maps
  <2>3. UNCHANGED <<off, out, sendOut, writes, credit, qh, qt, got, rcvd>>
    BY <1>3 DEF Deliver, Acknowledge, sendVars, recvVars, readVars
  <2>4. /\ wire' = wire \/ \E v : wire' = Set(wire, e, v)
        /\ acks' = acks \/ \E v : \E o \in Ends : acks' = Set(acks, o, v)
        /\ slot' = slot \/ \E v : slot' = Set(slot, e, v)
    BY <1>3, <2>1 DEF Deliver, Acknowledge, recvVars
  <2> HIDE DEF slots
  <2>5. IsMap(wire') /\ IsMap(acks') /\ IsMap(slot')
    BY <2>4, SetIsMap DEF Maps
  <2> QED
    BY <2>2, <2>3, <2>5 DEF Maps, IsMap, slots
<1>4. ASSUME NEW e \in Ends, EndStep(e)
      PROVE  Maps'
  <2>1. slots' /\ UNCHANGED <<slot, acks>>
    <3>1. UNCHANGED <<slot, acks>>
      BY <1>4 DEF EndStep, HandleWc, HandleSent, HandleImm, HandleCredit, HandleFrame, PollReturns,
                  SendFrame, SendDone, SendRefused, CreditFrame, CreditDone, ReadFrame, Write,
                  WaitDone, Pop, Post, recvVars, netVars
    <3> QED
      BY <1>2, <3>1
  <2>2. /\ off' = off \/ \E v : off' = Set(off, e, v)
        /\ out' = out \/ \E v : out' = Set(out, e, v)
        /\ qh' = qh \/ \E v : qh' = Set(qh, e, v)
        /\ qt' = qt \/ \E v : qt' = Set(qt, e, v)
    BY <1>4 DEF EndStep, HandleWc, HandleSent, HandleImm, HandleCredit, HandleFrame, PollReturns,
                SendFrame, SendDone, SendRefused, CreditFrame, CreditDone, ReadFrame, Write,
                WaitDone, Pop, Post, sendVars, recvVars
  <2>3. /\ sendOut' = sendOut \/ \E v : sendOut' = Set(sendOut, e, v)
        /\ writes' = writes \/ \E v : writes' = Set(writes, e, v)
        /\ credit' = credit \/ \E v : credit' = Set(credit, e, v)
    BY <1>4 DEF EndStep, HandleWc, HandleSent, HandleImm, HandleCredit, HandleFrame, PollReturns,
                SendFrame, SendDone, SendRefused, CreditFrame, CreditDone, ReadFrame, Write,
                WaitDone, Pop, Post, sendVars
  <2>4. /\ got' = got \/ \E v : got' = Set(got, e, v)
        /\ rcvd' = rcvd \/ \E v : rcvd' = Set(rcvd, e, v)
        /\ wire' = wire \/ \E v : wire' = Set(wire, Peer[e], v)
    BY <1>4 DEF EndStep, HandleWc, PollReturns,
                SendFrame, SendDone, SendRefused, CreditFrame, CreditDone, ReadFrame, Write,
                WaitDone, Pop, Post, readVars, netVars
  <2>5. Peer[e] \in Ends
    BY TwoEnds
  <2> HIDE DEF slots
  <2>6. IsMap(off') /\ IsMap(out') /\ IsMap(qh') /\ IsMap(qt')
    BY <2>2, SetIsMap DEF Maps
  <2>7. IsMap(sendOut') /\ IsMap(writes') /\ IsMap(credit')
    BY <2>3, SetIsMap DEF Maps
  <2>8. IsMap(got') /\ IsMap(rcvd') /\ IsMap(wire')
    BY <2>4, <2>5, SetIsMap DEF Maps
  <2> QED
    BY <2>1, <2>6, <2>7, <2>8 DEF Maps, IsMap, slots
<1> QED
  BY <1>1, <1>3, <1>4 DEF Next

CountInv == QInv /\ Shapes /\ Registers /\ Numbers /\ Credits /\ Maps

\* The invariant of the counts holds at first.
LEMMA InitCounts == Init => CountInv
BY InitQueues, InitShapes, InitRegisters, InitNumbers, InitCredits, InitMaps DEF CountInv

\* Every step keeps it.
LEMMA NextCounts == CountInv /\ [Next]_vars => CountInv'
BY NextQueues, NextShapes, NextRegisters, NextNumbers, NextCredits, NextMaps
DEF CountInv, QInv, QDomains

\* The invariant gives the types.
LEMMA CountsTyped == CountInv => TypeOK
<1> SUFFICES ASSUME CountInv PROVE TypeOK
  OBVIOUS
<1>1. QInv /\ Registers /\ Numbers /\ Credits /\ Maps /\ Blocks \in Nat \ {0}
  BY CtlAssumption DEF CountInv
<1> DEFINE Typed(e) ==
             /\ pc[e] \in 1..Len(plan[e]) + 1 /\ off[e] \in Nat
             /\ out[e] \in Frames /\ sendOut[e] \in 0..1 /\ writes[e] \in 0..Blocks
             /\ credit[e] \in 0..Blocks /\ rq[e] \in Seq(Slots(e))
             /\ slot[e] \in [Slots(e) -> Frames] /\ ctlq[e] \in [Slots(e) -> Slots(e)]
             /\ cq[e] \in Seq(Completions(e)) /\ qh[e] \in Nat /\ qt[e] \in Nat
             /\ got[e] \in Seq(Nat) /\ rcvd[e] \in Seq(Seq(Nat))
             /\ wire[e] \in Seq(Tokens) /\ acks[e] \in Seq(Tokens)
<1>3. ASSUME NEW e \in Ends PROVE Typed(e)
  <2>1. Peer[e] \in Ends /\ Peer[Peer[e]] = e
    BY TwoEnds
  <2>2. PlanOf(e) /\ AckOf(e) /\ ReadOf(e) /\ PartsOf(e) /\ Traffic
    BY <1>1 DEF QInv, Sides, CInv
  <2>3. pc[e] \in 1..Len(plan[e]) + 1 /\ off[e] \in Nat
    BY <2>2 DEF PlanOf, PlanOk
  <2>4. sendOut[e] \in 0..1 /\ got[e] \in Seq(Nat) /\ rcvd[e] \in Seq(Seq(Nat))
    BY <2>2 DEF AckOf, Waiting, ReadOf, Reading
  <2>5. /\ rq[e] \in Seq(Slots(e)) /\ ctlq[e] \in [Slots(e) -> Slots(e)]
        /\ cq[e] \in Seq(Completions(e)) /\ qh[e] \in Nat /\ qt[e] \in Nat
    BY <2>2 DEF PartsOf, Parts
  <2>6. wire[e] \in Seq(Tokens) /\ acks[e] \in Seq(Tokens)
    BY <2>2 DEF Traffic
  <2>7. CreditOf(e) /\ CreditOf(Peer[e])
    BY <1>1, <2>1 DEF Credits
  <2>8. out[e] \in Frames /\ \A i \in Slots(e) : slot[e][i] \in Frames
    BY <2>1, <2>7 DEF CreditOf, Grants
  <2>9. slot[e] \in [Slots(e) -> Frames]
    <3>1. slot[e] = [i \in Slots(e) |-> slot[e][i]]
      BY <1>1 DEF Maps
    <3> QED
      BY <2>8, <3>1
  <2>10. credit[e] \in 0..Blocks
    <3>1. Popped(Peer[e], pc[Peer[e]]) \in 0..Blocks
      BY <1>1, <2>1, NumbersTyped
    <3> QED
      BY <1>1, <2>7, <3>1 DEF CreditOf
  <2>11. writes[e] \in 0..Blocks
    <3>1. /\ Wires(Peer[e]) \in Nat /\ Acked(e) \in Nat /\ Done(e) \in Nat
          /\ Written(e, pc[e]) \in 0..Blocks
      BY <1>1, <2>1, NumbersTyped
    <3> QED
      BY <1>1, <3>1 DEF Numbers, WritesOf
  <2> QED
    BY <2>3, <2>4, <2>5, <2>6, <2>8, <2>9, <2>10, <2>11
<1> HIDE DEF Typed
<1>4. /\ off \in [Ends -> Nat] /\ out \in [Ends -> Frames] /\ sendOut \in [Ends -> 0..1]
      /\ writes \in [Ends -> 0..Blocks] /\ credit \in [Ends -> 0..Blocks]
  BY <1>1, <1>3 DEF Typed, Maps, IsMap
<1>5. qh \in [Ends -> Nat] /\ qt \in [Ends -> Nat]
  BY <1>1, <1>3 DEF Typed, Maps, IsMap
<1>6. /\ got \in [Ends -> Seq(Nat)] /\ rcvd \in [Ends -> Seq(Seq(Nat))]
      /\ wire \in [Ends -> Seq(Tokens)] /\ acks \in [Ends -> Seq(Tokens)]
  BY <1>1, <1>3 DEF Typed, Maps, IsMap
<1>7. job \in Jobs
  BY <1>1 DEF QInv
<1> QED
  BY <1>1, <1>3, <1>4, <1>5, <1>6, <1>7 DEF TypeOK, Registers, Typed

\* Every variable has its type in every state; at most one frame is not
\* acknowledged, no more WRITEs are under way than there are blocks, and imm_q is
\* never over its capacity (struct ibx_ep, src/csrc/ibx.c).
THEOREM ChannelTypes == Spec => []TypeOK
BY InitCounts, NextCounts, CountsTyped, PTL DEF Spec


-----------------------------------------------------------------------------
(* No call fails.  That immediates have room in imm_q takes a window that is *)
(* not larger than imm_q; that messages are not refused takes a reply to the *)
(* longest list of files that is not too long a message.                     *)

\* The ring of an end has room while one of its slots holds a completion.
LEMMA RingHasRoom ==
  ASSUME NEW e \in Ends, NEW R, NEW C, NEW f, NEW h, NEW t, NEW up,
         Parts(e, R, C, f, h, t, up), NEW x \in SlotsOf(C), x \in Slots(e)
  PROVE  t - h < NRecv[e]
<1> SUFFICES ASSUME ~(t - h < NRecv[e]) PROVE FALSE
  OBVIOUS
<1> DEFINE n == NRecv[e]
           S == h..t - 1
           T == Slots(e) \ {x}
           g == [i \in S |-> f[i % n]]
<1>1. n \in Nat \ {0} /\ h \in Nat /\ t \in Nat /\ t - h = n /\ f \in [Slots(e) -> Slots(e)]
  BY CtlAssumption DEF Parts
<1>2. /\ Apart(f, n, h, t) /\ x \notin Span(f, n, h, t)
  BY DEF Parts
<1>3. IsFiniteSet(S) /\ Cardinality(S) = n
  <2>1. h \in Int /\ t - 1 \in Int /\ (t - 1) - h + 1 = n /\ h <= t - 1
    BY <1>1
  <2> QED
    BY <2>1, FS_Interval
<1>4. IsFiniteSet(T) /\ Cardinality(T) < n
  <2>1. 0 \in Int /\ n - 1 \in Int /\ (n - 1) - 0 + 1 = n /\ 0 <= n - 1 /\ n \in Int
    <3> HIDE DEF n
    <3> QED
      BY <1>1
  <2>2. IsFiniteSet(0..n - 1) /\ Cardinality(0..n - 1) = n
    <3>1. \A b \in Int : 0 <= b => IsFiniteSet(0..b) /\ Cardinality(0..b) = b + 1
      BY FS_Interval
    <3> HIDE DEF n
    <3>2. IsFiniteSet(0..n - 1) /\ Cardinality(0..n - 1) = (n - 1) + 1
      BY <2>1, <3>1
    <3> QED
      BY <2>1, <3>2
  <2>3. Slots(e) = 0..n - 1
    BY DEF Slots
  <2> HIDE DEF n
  <2>4. IsFiniteSet(Slots(e)) /\ Cardinality(Slots(e)) = n
    BY <2>2, <2>3
  <2>5. IsFiniteSet(T) /\ Cardinality(T) = Cardinality(Slots(e)) - 1
    BY <2>4, FS_RemoveElement
  <2>6. IsFiniteSet(T) /\ Cardinality(T) = n - 1
    BY <2>4, <2>5
  <2> HIDE DEF T
  <2> QED
    BY <2>1, <2>6
<1>5. g \in [S -> T]
  <2>1. ASSUME NEW i \in S PROVE f[i % n] \in T
    <3>1. i % n \in Slots(e)
      BY <1>1 DEF Slots
    <3>2. f[i % n] \in Span(f, n, h, t)
      BY DEF Span
    <3> QED
      BY <1>1, <1>2, <3>1, <3>2
  <2> QED
    BY <2>1
<1>6. \A i, j \in S : g[i] = g[j] => i = j
  BY <1>2 DEF Apart
<1> HIDE DEF g, S, T, n
<1>7. Cardinality(T) < Cardinality(S)
  BY <1>3, <1>4
<1>8. \E i, j \in S : i # j /\ g[i] = g[j]
  BY <1>3, <1>4, <1>5, <1>7, FS_PigeonHole
<1> QED
  BY <1>6, <1>8

\* A message that may be sent.
Fitting == {m \in Seq(Nat) : Len(m) <= CTL_MAX}

\* The client has said hello before anything else, and the hello was not too long.
FirstCall == Len(plan[client]) >= 1 /\ plan[client][1] = [op |-> "send", msg |-> Hello]
HelloFits == pc[client] > 1 \/ off[client] > 0 => Len(Hello) <= CTL_MAX

\* If it was not, nor is any message of a plan.
PlanFits(e) == e = server \/ Len(Hello) <= CTL_MAX => plan[e] \in Seq(Calls(Fitting))

\* Nobody stopped, unless the hello was too long.
Works(e) == mode[e] # "run" => e = client /\ mode[e] = "err" /\ Len(Hello) > CTL_MAX

FitInv == FirstCall /\ HelloFits /\ \A e \in Ends : PlanFits(e) /\ Works(e)

\* The calls of the first plans fit, and no call has failed.
LEMMA InitFits == Init => FitInv
<1> SUFFICES ASSUME Init PROVE FitInv
  OBVIOUS
<1>1. client # server /\ client \in Ends /\ server \in Ends
  BY CtlAssumption DEF Ends
<1> DEFINE a == Send(Hello)
<1>2. /\ plan[client] = a \o Recv /\ plan[server] = Recv /\ pc[client] = 1 /\ off[client] = 0
      /\ \A e \in Ends : mode[e] = "run"
  BY <1>1 DEF Init
<1>3. /\ a \in Seq(Calls({Hello})) /\ Recv \in Seq(Calls({Hello})) /\ Len(a) = 1
  BY CallsTyped
<1>4. a[1] = [op |-> "send", msg |-> Hello]
  <2> DEFINE c == [op |-> "send", msg |-> Hello]
  <2> HIDE DEF c
  <2>1. <<c>>[1] = c
    OBVIOUS
  <2> QED
    BY <2>1 DEF Send, c
<1> HIDE DEF a
<1>5. FirstCall
  <2> DEFINE S == Calls({Hello})
  <2> HIDE DEF S
  <2>1. a \in Seq(S) /\ Recv \in Seq(S)
    BY <1>3 DEF S
  <2>2. Len(a \o Recv) = Len(a) + Len(Recv) /\ Len(Recv) \in Nat /\ \A i \in 1..Len(a) : (a \o Recv)[i] = a[i]
    BY <2>1, Joined
  <2>3. 1 \in 1..Len(a)
    BY <1>3
  <2>4. (a \o Recv)[1] = a[1] /\ Len(a \o Recv) >= 1
    BY <1>3, <2>2, <2>3
  <2> QED
    BY <1>2, <1>4, <2>4 DEF FirstCall
<1>6. HelloFits
  BY <1>2 DEF HelloFits
<1>7. ASSUME NEW e \in Ends PROVE PlanFits(e) /\ Works(e)
  <2>1. Recv \in Seq(Calls(Fitting))
    BY CallsTyped
  <2>2. Len(Hello) <= CTL_MAX => a \in Seq(Calls(Fitting))
    <3>1. Hello \in Seq(Nat)
      BY <1>1, HelloTyped DEF Init, Msgs
    <3>2. Len(Hello) <= CTL_MAX => Hello \in Fitting
      BY <3>1 DEF Fitting
    <3> QED
      BY <3>2, CallsTyped DEF a
  <2> DEFINE S == Calls(Fitting)
  <2> HIDE DEF S
  <2>3. Len(Hello) <= CTL_MAX => a \o Recv \in Seq(S)
    BY <2>1, <2>2, Joined DEF S
  <2>4. PlanFits(e)
    BY <1>1, <1>2, <2>1, <2>3 DEF PlanFits, Ends, S
  <2> QED
    BY <1>2, <2>4 DEF Works
<1> QED
  BY <1>5, <1>6, <1>7 DEF FitInv

\* What follows a message that is read may be sent.
LEMMA GoesOnFits ==
  ASSUME MaxEntries + 10 <= CTL_MAX, job \in Jobs, NEW e \in Ends,
         e = server \/ Len(Hello) <= CTL_MAX, NEW n, NEW msg \in Seq(Nat)
  PROVE  GoesOn(e, n, msg) \in Seq(Calls(Fitting))
<1>1. /\ client # server /\ CTL_MAX \in Nat /\ MaxEntries \in Nat /\ VERSION \in Nat
      /\ job.version \in Nat
  BY CtlAssumption, ProtoAssumption, JobTyped
<1>2. CTL_MAX >= 10
  BY <1>1
<1>3. ASSUME NEW v \in Nat PROVE AbortOf(v) \in Fitting /\ GoOf(v) \in Fitting
  <2>1. AbortOf(v) \in Seq(Nat) /\ Len(AbortOf(v)) = 4 /\ GoOf(v) \in Seq(Nat) /\ Len(GoOf(v)) = 3
    BY AbortTyped DEF Msgs
  <2>2. \A m \in Seq(Nat) : Len(m) = 4 => Len(m) <= CTL_MAX
    BY <1>1, <1>2
  <2>3. \A m \in Seq(Nat) : Len(m) = 3 => Len(m) <= CTL_MAX
    BY <1>1, <1>2
  <2> QED
    BY <2>1, <2>2, <2>3 DEF Fitting
<1>4. Info \in Fitting
  <2>1. Info \in Seq(Nat) /\ Len(Info) = 9
    BY InfoTyped DEF Msgs
  <2>2. \A m \in Seq(Nat) : Len(m) = 9 => Len(m) <= CTL_MAX
    BY <1>1, <1>2
  <2> QED
    BY <2>1, <2>2 DEF Fitting
<1>5. ASSUME NEW m, Len(m.files) \in 0..MaxEntries PROVE ReplyIs(m) \in Fitting
  <2> DEFINE k == Len(m.files)
             l == Len(ReplyIs(m))
  <2>1. k \in 0..MaxEntries
    BY <1>5
  <2>2. ReplyIs(m) \in Seq(Nat) /\ l = 10 + k
    <3>1. Len(m.files) \in Nat
      BY <1>1, <1>5
    <3> QED
      BY <3>1, ReplyTyped DEF Msgs
  <2> HIDE DEF k, l
  <2>3. l <= CTL_MAX
    BY <1>1, <2>1, <2>2
  <2> QED
    BY <2>2, <2>3 DEF Fitting, l
<1>6. << >> \in Seq(Calls(Fitting))
  OBVIOUS
<1>7. CASE e = server
  <2>1. Answer(Heard(e, msg)) \in Seq(Calls(Fitting)) /\ Receive(Heard(e, msg)) \in Seq(Calls(Fitting))
    BY <1>1, <1>3, <1>4, <1>5, <1>7, ServerSays
  <2> QED
    BY <1>1, <1>6, <1>7, <2>1 DEF GoesOn
<1>8. CASE e = client
  <2>1. CASE job.does = "probe"
    <3>1. GoesOn(e, n, msg) = ClientGoesOn(Heard(e, msg))
      BY <1>1, <1>8 DEF GoesOn
    <3>2. ClientGoesOn(Heard(e, msg)) = << >>
      BY <2>1 DEF ClientGoesOn
    <3> QED
      BY <1>6, <3>1, <3>2
  <2>2. CASE job.does # "probe"
    <3> DEFINE w == Manifest_write(job.manifest)
               k == Len(job.manifest.files)
               l == Len(TrailerOfJob)
               h == Len(Hello)
    <3>1. w \in Seq(Nat) /\ k \in Nat /\ Len(w) >= 2 + k
      BY JobTyped, ManifestWritten
    <3>2. h = 3 + Len(w)
      <4> HIDE DEF w
      <4>1. Len(encode(job.version, MSG_TRANSFER, w)) = 3 + Len(w)
        BY <1>1, <3>1, Encoded DEF MSG_TRANSFER
      <4> QED
        BY <2>2, <4>1 DEF Hello, w
    <3>3. TrailerOfJob \in Seq(Nat) /\ l = 4 + k
      BY TrailerTyped DEF Msgs
    <3>4. h <= CTL_MAX
      BY <1>1, <1>8
    <3> DEFINE lw == Len(w)
    <3>5. lw \in Nat /\ lw >= 2 + k /\ h = 3 + lw
      BY <3>1, <3>2
    <3> HIDE DEF k, l, h, lw
    <3>6. l <= CTL_MAX
      BY <1>1, <3>1, <3>3, <3>4, <3>5
    <3>7. TrailerOfJob \in Fitting
      BY <3>3, <3>6 DEF Fitting, l
    <3>8. ClientGoesOn(Heard(e, msg)) \in Seq(Calls(Fitting))
      BY <1>1, <1>3, <3>7, ClientSays
    <3> QED
      BY <1>1, <1>8, <3>8 DEF GoesOn
  <2> QED
    BY <2>1, <2>2
<1> QED
  BY <1>7, <1>8 DEF Ends


\* A plan grows by what follows a message.
LEMMA PlanGrows ==
  ASSUME QInv, [Next]_vars
  PROVE  \/ plan' = plan
         \/ \E e \in Ends : \E m \in Seq(Nat) : \E n :
              plan' = Set(plan, e, plan[e] \o GoesOn(e, n, m))
<1>1. ASSUME NEW e \in Ends, NEW m \in Seq(Nat),
             plan' = Set(plan, e, plan[e] \o GoesOn(e, Len(rcvd'[e]), m))
      PROVE  \E n : plan' = Set(plan, e, plan[e] \o GoesOn(e, n, m))
  BY <1>1
<1> QED
  BY <1>1, EndMoves

\* The first call of the client stays what it is, and so does the hello.
LEMMA NextFirst ==
  ASSUME QInv, FirstCall, [Next]_vars
  PROVE  FirstCall' /\ Hello' = Hello
<1>1. Hello' = Hello
  BY EndMoves DEF Hello
<1>2. client \in Ends
  BY DEF Ends
<1>3. CASE plan'[client] = plan[client]
  BY <1>1, <1>3 DEF FirstCall
<1>4. ASSUME NEW q \in Seq(Mine(client)), plan'[client] = plan[client] \o q
      PROVE  FirstCall'
  <2> DEFINE S == Mine(client)
             p == plan[client]
  <2>1. p \in Seq(S) /\ Len(p) >= 1
    BY <1>2 DEF QInv, Sides, PlanOf, PlanOk, FirstCall
  <2> HIDE DEF S, p
  <2>2. q \in Seq(S)
    BY <1>4 DEF S
  <2>3. Len(p \o q) = Len(p) + Len(q) /\ Len(p) \in Nat /\ Len(q) \in Nat /\ \A i \in 1..Len(p) : (p \o q)[i] = p[i]
    BY <2>1, <2>2, Joined
  <2>4. 1 \in 1..Len(p)
    BY <2>1, <2>3
  <2>5. (p \o q)[1] = p[1] /\ Len(p \o q) >= 1
    BY <2>1, <2>3, <2>4
  <2> QED
    BY <1>1, <1>4, <2>5 DEF FirstCall, p
<1>5. ASSUME NEW e \in Ends, NEW n, NEW m \in Seq(Nat), plan' = Set(plan, e, plan[e] \o GoesOn(e, n, m))
      PROVE  FirstCall'
  <2>1. GoesOn(e, n, m) \in Seq(Mine(e))
    BY <1>5, GoesOnTyped DEF QInv
  <2>2. plan'[client] = plan[client] \/ (e = client /\ plan'[client] = plan[client] \o GoesOn(e, n, m))
    BY <1>2, <1>5 DEF QInv, QDomains, Set
  <2> QED
    BY <1>3, <1>4, <2>1, <2>2
<1>6. \/ plan' = plan
      \/ \E e \in Ends : \E m \in Seq(Nat) : \E n : plan' = Set(plan, e, plan[e] \o GoesOn(e, n, m))
  BY PlanGrows
<1> QED
  BY <1>1, <1>3, <1>5, <1>6

\* The messages of the plans stay within the length.
LEMMA NextPlanFits ==
  ASSUME MaxEntries + 10 <= CTL_MAX, QInv, FirstCall, [Next]_vars, NEW o \in Ends, PlanFits(o)
  PROVE  PlanFits(o)'
<1> SUFFICES ASSUME o = server \/ Len(Hello) <= CTL_MAX
             PROVE  plan'[o] \in Seq(Calls(Fitting))
  BY NextFirst DEF PlanFits, Fitting, Calls
<1> DEFINE S == Calls(Fitting)
<1>1. plan[o] \in Seq(S)
  BY DEF PlanFits
<1>2. CASE plan' = plan
  BY <1>1, <1>2
<1>3. ASSUME NEW e \in Ends, NEW n, NEW m \in Seq(Nat), plan' = Set(plan, e, plan[e] \o GoesOn(e, n, m))
      PROVE  plan'[o] \in Seq(S)
  <2>1. CASE e = o
    <3>1. GoesOn(o, n, m) \in Seq(S)
      BY GoesOnFits DEF QInv
    <3>2. plan'[o] = plan[o] \o GoesOn(o, n, m)
      BY <1>3, <2>1 DEF QInv, QDomains, Set
    <3> HIDE DEF S
    <3>3. plan[o] \o GoesOn(o, n, m) \in Seq(S)
      BY <1>1, <3>1, Joined
    <3> QED
      BY <3>2, <3>3
  <2>2. CASE e # o
    BY <1>1, <1>3, <2>2 DEF QInv, QDomains, Set
  <2> QED
    BY <2>1, <2>2
<1>4. \/ plan' = plan
      \/ \E e \in Ends : \E m \in Seq(Nat) : \E n : plan' = Set(plan, e, plan[e] \o GoesOn(e, n, m))
  BY PlanGrows
<1> QED
  BY <1>2, <1>3, <1>4

\* The client gets past its hello only if it is not too long.
LEMMA NextHelloFits ==
  ASSUME QInv, FirstCall, HelloFits, [Next]_vars
  PROVE  HelloFits'
<1>1. Hello' = Hello /\ client \in Ends
  BY NextFirst DEF Ends
<1>2. CASE pc[client] > 1 \/ off[client] > 0
  BY <1>1, <1>2 DEF HelloFits
<1>3. CASE pc'[client] = pc[client] /\ off'[client] = off[client]
  BY <1>1, <1>3 DEF HelloFits
<1>4. ASSUME ~(pc[client] > 1 \/ off[client] > 0)
      PROVE  pc[client] = 1 /\ off[client] = 0 /\ Call(client) = [op |-> "send", msg |-> Hello]
  <2>1. pc[client] \in 1..Len(plan[client]) + 1 /\ off[client] \in Nat
    BY <1>1 DEF QInv, Sides, PlanOf, PlanOk
  <2>2. pc[client] = 1 /\ off[client] = 0
    BY <1>4, <2>1
  <2> QED
    BY <2>2 DEF Call, FirstCall
<1>5. Call(client) = [op |-> "send", msg |-> Hello] => Call(client).op = "send" /\ Call(client).msg = Hello
  OBVIOUS
<1>6. ASSUME NEW e \in Ends, Deliver(e) \/ Acknowledge(e) \/ HandleWc(e) \/ PollReturns(e) \/ SendRefused(e)
      PROVE  UNCHANGED <<pc, off>>
  BY <1>6 DEF Deliver, Acknowledge, HandleWc, PollReturns, SendRefused, sendVars
<1>7. ASSUME NEW e \in Ends, e # client, EndStep(e)
      PROVE  pc'[client] = pc[client] /\ off'[client] = off[client]
  <2>1. /\ pc' = pc \/ pc' = Set(pc, e, pc[e] + 1)
        /\ off' = off \/ \E v : off' = Set(off, e, v)
    BY <1>7 DEF EndStep, HandleWc, PollReturns, SendFrame, SendDone, SendRefused, CreditFrame,
                CreditDone, ReadFrame, Write, WaitDone, Pop, Returns, sendVars
  <2> QED
    BY <1>1, <1>7, <2>1 DEF QInv, QDomains, Set
<1>8. ASSUME ~(pc[client] > 1 \/ off[client] > 0), SendFrame(client)
      PROVE  Len(Hello) <= CTL_MAX
  BY <1>4, <1>5, <1>8 DEF SendFrame
<1>9. ASSUME ~(pc[client] > 1 \/ off[client] > 0), SendDone(client)
      PROVE  FALSE
  <2>1. off[client] = 0 /\ off[client] = Len(Hello)
    BY <1>4, <1>5, <1>9 DEF SendDone
  <2>2. Hello \in Msgs(job.version)
    BY HelloTyped DEF QInv
  <2>3. Len(Hello) >= 3
    BY <2>2 DEF Msgs
  <2> QED
    BY <2>1, <2>3
<1>10. ASSUME ~(pc[client] > 1 \/ off[client] > 0),
              \/ CreditFrame(client) \/ CreditDone(client) \/ ReadFrame(client) \/ Write(client)
              \/ WaitDone(client) \/ Pop(client)
       PROVE  FALSE
  BY <1>4, <1>5, <1>10 DEF CreditFrame, CreditDone, ReadFrame, Write, WaitDone, Pop, In
<1>11. CASE UNCHANGED vars
  BY <1>3, <1>11 DEF vars, stepVars, sendVars
<1>12. ASSUME NEW e \in Ends, EndStep(e), ~(pc[client] > 1 \/ off[client] > 0)
       PROVE  HelloFits'
  <2>1. CASE e # client
    BY <1>3, <1>7, <1>12, <2>1
  <2>2. CASE e = client
    <3>1. Len(Hello) <= CTL_MAX => HelloFits'
      BY <1>1 DEF HelloFits
    <3> QED
      BY <1>3, <1>6, <1>8, <1>9, <1>10, <1>12, <2>2, <3>1 DEF EndStep
  <2> QED
    BY <2>1, <2>2
<1> QED
  BY <1>2, <1>3, <1>6, <1>11, <1>12 DEF Next


\* The completion of an immediate finds room in imm_q.
LEMMA ImmHasRoom ==
  ASSUME CountInv, Window <= ImmCap, NEW e \in Ends, cq[e] # << >>, Head(cq[e]).kind = "recv",
         Head(cq[e]).what = "imm"
  PROVE  imm[e] < ImmCap
<1> DEFINE x == Head(cq[e])
           p == Peer[e]
<1>1. QInv /\ Registers /\ FlowOf(e) /\ Ahead /\ p \in Ends
  BY TwoEnds DEF CountInv, Numbers, Credits
<1>2. cq[e] \in Seq(Completions(e)) /\ x \in Completions(e)
  BY <1>1 DEF QInv, CInv, PartsOf, Parts
<1>3. x \in ImmCame
  BY <1>2, Kinds
<1>4. Came(e) >= 1
  <2>1. Count(Tail(cq[e]), ImmCame) = Came(e) - 1
    BY <1>2, <1>3, Counted DEF Came
  <2>2. Tail(cq[e]) \in Seq(Completions(e))
    BY <1>2
  <2>3. Count(Tail(cq[e]), ImmCame) \in Nat
    BY <2>2, Counted
  <2>4. Came(e) \in Nat
    BY <1>1, NumbersTyped
  <2> QED
    BY <2>1, <2>3, <2>4
<1>5. /\ Wires(e) \in Nat /\ Came(e) \in Nat /\ imm[e] \in Nat /\ Popped(e, pc[e]) \in 0..Blocks
      /\ Written(p, pc[p]) \in 0..Blocks /\ Written(p, pc[p]) <= Acquired(p, pc[p])
      /\ Acquired(p, pc[p]) \in 0..Blocks /\ Blocks \in Nat /\ Window \in Nat /\ ImmCap \in Nat
  BY <1>1, NumbersTyped, CtlAssumption
<1> DEFINE im == imm[e]
           wr == Written(p, pc[p])
           po == Popped(e, pc[e])
           came == Came(e)
           wires == Wires(e)
<1>6. im + wires + came + po <= wr
  BY <1>1 DEF FlowOf
<1>7. im \in Nat /\ wr \in Nat /\ po \in Nat /\ came \in Nat /\ wires \in Nat /\ came >= 1
  BY <1>4, <1>5
<1>8. im + 1 + po <= wr
  <2> HIDE DEF im, wr, po, came, wires
  <2> QED
    BY <1>6, <1>7
<1>9. wr # 0
  <2> HIDE DEF im, wr, po
  <2> QED
    BY <1>7, <1>8
<1>10. p = client
  <2>1. p # client => wr = 0
    BY DEF Written
  <2> HIDE DEF wr, p
  <2> QED
    BY <1>9, <2>1
<1>11. e = server
  BY <1>10, TwoEnds, CtlAssumption DEF Ends
<1>12. wr = Written(client, pc[client]) /\ po = Popped(server, pc[server])
  BY <1>10, <1>11
<1>13. wr <= po + Window
  <2> DEFINE ac == Acquired(client, pc[client])
  <2>1. ac <= Popped(server, pc[server]) + Window
    BY <1>1 DEF Ahead
  <2>2. ac <= po + Window
    <3> HIDE DEF ac, po
    <3> QED
      BY <1>12, <2>1
  <2>3. ac = Acquired(p, pc[p])
    BY <1>10
  <2>4. wr <= ac /\ ac \in Nat
    BY <1>5, <2>3
  <2> HIDE DEF ac, wr, po
  <2> QED
    BY <1>5, <1>7, <2>2, <2>4
<1>14. im < ImmCap
  <2> HIDE DEF im, wr, po
  <2> QED
    BY <1>5, <1>7, <1>8, <1>13
<1> QED
  BY <1>14 DEF im

\* A message that is read is not too long.
LEMMA ReadFits ==
  ASSUME QInv, FitInv, NEW e \in Ends, mode[e] = "run", qh[e] # qt[e]
  PROVE  Len(got[e] \o slot[e][NextSlot(e)].load) <= CTL_MAX
<1> DEFINE p == Peer[e]
           M == Sent(p)
           k == Len(rcvd[e]) + 1
           msg == got[e] \o slot[e][NextSlot(e)].load
<1>1. /\ k \in 1..Len(M) /\ msg \in Seq(Nat) /\ Len(msg) <= Len(M[k])
  BY NextFrame
<1> HIDE DEF k, msg
<1>2. p \in Ends
  BY TwoEnds
<1>3. CTL_MAX \in Nat
  BY CtlAssumption
<1>4. PlanOk(p, plan[p], pc[p], off[p])
  BY <1>2 DEF QInv, Sides, PlanOf
<1>5. M # << >>
  <2>1. Len(<< >>) = 0
    OBVIOUS
  <2>2. M = << >> => Len(M) = 0
    BY <2>1
  <2> HIDE DEF M
  <2> QED
    BY <1>1, <2>2
<1>6. p = server \/ Len(Hello) <= CTL_MAX
  <2>1. CASE p = client
    <3>1. pc[p] > 1 \/ off[p] > 0
      <4> SUFFICES ASSUME ~(pc[p] > 1 \/ off[p] > 0) PROVE FALSE
        OBVIOUS
      <4>1. pc[p] = 1 /\ off[p] = 0
        BY <1>4 DEF PlanOk
      <4>2. M = SendsIn(plan[p], 0)
        BY <4>1 DEF Sent, SentSoFar
      <4>3. SendsIn(plan[p], 0) = << >>
        BY <1>4, SendsFunction DEF PlanOk, Mine
      <4> QED
        BY <1>5, <4>2, <4>3
    <3> QED
      BY <2>1, <3>1 DEF FitInv, HelloFits
  <2> QED
    BY <1>2, <2>1 DEF Ends
<1>7. M \in Seq(Fitting)
  <2>1. plan[p] \in Seq(Calls(Fitting))
    BY <1>2, <1>6 DEF FitInv, PlanFits
  <2>2. (IF off[p] > 0 THEN pc[p] ELSE pc[p] - 1) \in 0..Len(plan[p])
    <3>1. Len(plan[p]) \in Nat
      BY <2>1
    <3> QED
      BY <1>4, <3>1 DEF PlanOk
  <2> QED
    BY <2>1, <2>2, SendsFunction DEF Sent, SentSoFar
<1> HIDE DEF M
<1>8. M[k] \in Fitting
  BY <1>1, <1>7, ElementOfSeq
<1>9. Len(M[k]) <= CTL_MAX /\ M[k] \in Seq(Nat)
  BY <1>8 DEF Fitting
<1>10. Len(msg) \in Nat /\ Len(M[k]) \in Nat
  BY <1>1, <1>9
<1>11. Len(msg) <= CTL_MAX
  BY <1>1, <1>3, <1>9, <1>10
<1> QED
  BY <1>11 DEF msg

\* So no call fails but the send of a hello that is too long.
LEMMA NextWorks ==
  ASSUME Window <= ImmCap, CountInv, FitInv, [Next]_vars, NEW o \in Ends
  PROVE  Works(o)'
<1>1. QInv /\ Registers /\ Works(o) /\ DOMAIN mode = Ends
  BY DEF CountInv, FitInv, Registers
<1>2. Hello' = Hello
  BY <1>1, NextFirst DEF FitInv
<1>3. CASE mode' = mode
  BY <1>1, <1>2, <1>3 DEF Works
<1>4. CASE UNCHANGED vars
  BY <1>3, <1>4 DEF vars, stepVars
<1>5. ASSUME NEW e \in Ends,
             \/ Deliver(e) \/ Acknowledge(e) \/ SendFrame(e) \/ SendDone(e) \/ CreditFrame(e)
             \/ CreditDone(e) \/ Write(e) \/ WaitDone(e) \/ Pop(e)
      PROVE  mode' = mode
  BY <1>5 DEF Deliver, Acknowledge, SendFrame, SendDone, CreditFrame, CreditDone, Write, WaitDone,
              Pop
<1>6. ASSUME NEW e \in Ends, PollReturns(e) PROVE mode' = mode
  <2>1. polled[e] \in Nat
    BY <1>1 DEF Registers
  <2>2. polled[e] # POLL_TIMEOUT
    BY <2>1 DEF POLL_TIMEOUT
  <2> QED
    BY <1>6, <2>2 DEF PollReturns
<1>7. ASSUME NEW e \in Ends, ReadFrame(e) PROVE mode' = mode
  <2>1. mode[e] = "run" /\ qh[e] # qt[e]
    BY <1>7 DEF ReadFrame, In, Running
  <2>2. Len(got[e] \o slot[e][NextSlot(e)].load) <= CTL_MAX
    BY <1>1, <2>1, ReadFits
  <2> DEFINE msg == got[e] \o slot[e][NextSlot(e)].load
             k == Len(msg)
  <2>3. ~(k > CTL_MAX)
    <3>1. msg \in Seq(Nat)
      BY <1>1, <2>1, NextFrame
    <3>2. k \in Nat
      <4> HIDE DEF msg
      <4> QED
        BY <3>1
    <3>3. k <= CTL_MAX
      BY <2>2
    <3> HIDE DEF k
    <3> QED
      BY <3>2, <3>3, CtlAssumption
  <2> QED
    BY <1>7, <2>3 DEF ReadFrame
<1>8. ASSUME NEW e \in Ends, HandleWc(e) PROVE mode' = mode
  <2>1. CASE HandleSent(e) \/ HandleCredit(e)
    BY <2>1 DEF HandleSent, HandleCredit
  <2>2. CASE HandleImm(e)
    <3>1. imm[e] < ImmCap
      BY <1>8, <2>2, ImmHasRoom DEF HandleWc, HandleImm
    <3>2. imm[e] \in Nat /\ ImmCap \in Nat
      BY <1>1, CtlAssumption DEF Registers
    <3>3. ~(imm[e] >= ImmCap)
      BY <3>1, <3>2
    <3> QED
      BY <2>2, <3>3 DEF HandleImm
  <2>3. CASE HandleFrame(e)
    <3> DEFINE x == Head(cq[e])
    <3>1. cq[e] # << >> /\ x.kind = "recv"
      BY <1>8, <2>3 DEF HandleWc, HandleFrame
    <3>2. /\ Parts(e, rq[e], cq[e], ctlq[e], qh[e], qt[e], mode[e] = "run")
          /\ cq[e] \in Seq(Completions(e)) /\ OncePerSlot(cq[e])
          /\ qt[e] \in Nat /\ qh[e] \in Nat
      BY <1>1 DEF QInv, CInv, PartsOf, Parts
    <3>3. x \in Completions(e) /\ x.slot \in SlotsOf(cq[e])
      BY <3>1, <3>2, CompletionPop
    <3>4. x.slot \in Slots(e)
      BY <3>1, <3>3 DEF Completions
    <3>5. qt[e] - qh[e] < NRecv[e]
      BY <3>2, <3>3, <3>4, RingHasRoom
    <3>6. ~(qt[e] - qh[e] >= NRecv[e])
      BY <3>2, <3>5, CtlAssumption
    <3> QED
      BY <2>3, <3>6 DEF HandleFrame
  <2> QED
    BY <1>8, <2>1, <2>2, <2>3 DEF HandleWc
<1>9. ASSUME NEW e \in Ends, SendRefused(e) PROVE Works(o)'
  <2>1. mode' = Set(mode, e, "err") /\ In(e, "send") /\ Len(Call(e).msg) > CTL_MAX
    BY <1>9 DEF SendRefused
  <2>2. e = client /\ Len(Hello) > CTL_MAX
    <3> SUFFICES ASSUME e = server \/ Len(Hello) <= CTL_MAX PROVE FALSE
      <4>1. Hello \in Seq(Nat)
        BY <1>1, HelloTyped DEF QInv, Msgs
      <4>2. Len(Hello) \in Nat /\ CTL_MAX \in Nat
        BY <4>1, CtlAssumption
      <4> QED
        BY <4>2 DEF Ends
    <3>1. plan[e] \in Seq(Calls(Fitting))
      BY DEF FitInv, PlanFits
    <3>2. pc[e] \in 1..Len(plan[e]) /\ plan[e][pc[e]].op = "send"
      BY <1>1, <2>1 DEF QInv, Sides, PlanOf, PlanOk, In, Running, Call
    <3>3. plan[e][pc[e]] \in Calls(Fitting)
      BY <3>1, <3>2, ElementOfSeq
    <3>4. Call(e).msg \in Fitting
      BY <3>2, <3>3 DEF Calls, Call
    <3>5. Len(Call(e).msg) \in Nat /\ Len(Call(e).msg) <= CTL_MAX /\ CTL_MAX \in Nat
      BY <3>4, CtlAssumption DEF Fitting
    <3> QED
      BY <2>1, <3>5
  <2> QED
    BY <1>1, <1>2, <2>1, <2>2 DEF Works, Set
<1> QED
  BY <1>3, <1>4, <1>5, <1>6, <1>7, <1>8, <1>9 DEF Next, EndStep

\* The invariant rules out what a failed call would be.
LEMMA WorksIs ==
  ASSUME QInv, FitInv
  PROVE  NoCallFails
<1> SUFFICES ASSUME NEW e \in Ends, mode[e] # "run"
             PROVE  e = client /\ mode[e] = "err" /\ Len(Hello) > CTL_MAX /\ rcvd[server] = << >>
  BY DEF NoCallFails
<1>1. e = client /\ mode[e] = "err" /\ Len(Hello) > CTL_MAX
  BY DEF FitInv, Works
<1>2. client \in Ends /\ server \in Ends /\ Peer[server] = client
  BY CtlAssumption DEF Ends, Peer
<1>3. pc[client] = 1 /\ off[client] = 0 /\ Sent(client) = << >>
  <2>1. PlanOk(client, plan[client], pc[client], off[client])
    BY <1>2 DEF QInv, Sides, PlanOf
  <2>2. Hello \in Seq(Nat) /\ CTL_MAX \in Nat
    BY HelloTyped, CtlAssumption DEF QInv, Msgs
  <2>3. ~(pc[client] > 1) /\ ~(off[client] > 0)
    <3>1. ~(Len(Hello) <= CTL_MAX)
      BY <1>1, <2>2
    <3> QED
      BY <3>1 DEF FitInv, HelloFits
  <2>4. pc[client] = 1 /\ off[client] = 0
    BY <2>1, <2>3 DEF PlanOk
  <2>5. SendsIn(plan[client], 0) = << >>
    BY <2>1, SendsFunction DEF PlanOk, Mine
  <2> QED
    BY <2>4, <2>5 DEF Sent, SentSoFar
<1>4. Grows(rcvd[server], Sent(client)) /\ rcvd[server] \in Seq(Seq(Nat))
  BY <1>2 DEF QInv, Sides, ReadOf, Reading
<1>5. Len(rcvd[server]) = 0
  <2>1. Len(<< >>) = 0
    OBVIOUS
  <2> DEFINE none == << >>
  <2> HIDE DEF none
  <2>2. Len(rcvd[server]) <= Len(none) /\ Len(none) = 0 /\ Len(rcvd[server]) \in Nat
    BY <1>3, <1>4, <2>1 DEF Grows, none
  <2> QED
    BY <2>2
<1>6. rcvd[server] = << >>
  BY <1>4, <1>5
<1> QED
  BY <1>1, <1>6

\* No call fails but the send of a hello that is too long, for every number of receive
\* slots and every size of frames, if the window is not larger than imm_q and a reply
\* to as many files as a manifest may have is not too long a message: the ring of
\* slots, imm_q and the limit of a message hold whatever the other end sends, and no
\* batch of completions is taken for a timeout (handle_wc, poll_cq_to, ibx_ctl_recv,
\* src/csrc/ibx.c).
THEOREM CallsSucceed ==
  ASSUME Window <= ImmCap, MaxEntries + 10 <= CTL_MAX
  PROVE  Spec => []NoCallFails
<1> DEFINE I == CountInv /\ FitInv
<1>1. Init => I
  BY InitCounts, InitFits
<1>2. I /\ [Next]_vars => I'
  <2> SUFFICES ASSUME I, [Next]_vars PROVE I'
    OBVIOUS
  <2>1. CountInv'
    BY NextCounts
  <2>2. QInv /\ FirstCall /\ HelloFits /\ \A e \in Ends : PlanFits(e)
    BY DEF CountInv, FitInv
  <2>3. FirstCall' /\ HelloFits'
    BY <2>2, NextFirst, NextHelloFits
  <2>4. \A e \in Ends : PlanFits(e)'
    BY <2>2, NextPlanFits
  <2>5. \A e \in Ends : Works(e)'
    BY NextWorks
  <2> QED
    BY <2>1, <2>3, <2>4, <2>5 DEF FitInv
<1>3. I => NoCallFails
  BY WorksIs DEF CountInv
<1> QED
  BY <1>1, <1>2, <1>3, PTL DEF Spec

-----------------------------------------------------------------------------
(* What is read of a message is what was written.                           *)

\* What a client with the calls p has begun to send when it has begun n of them, and
\* what a server has.
ClientSent(p, M, n) ==
  /\ Len(M) = IF n = 0 THEN 0 ELSE IF n < 3 THEN 1 ELSE IF n < 2 * Blocks + 5 THEN 2 ELSE 3
  /\ n >= 1 => M[1] = p[1].msg
  /\ n >= 2 * Blocks + 5 => M[3] = p[2 * Blocks + 5].msg
ServerSent(p, M, n) ==
  /\ Len(M) = IF n < 2 THEN 0 ELSE 1
  /\ n >= 2 => M[1] = p[2].msg

\* The message of a call that sends one goes behind the earlier ones.
LEMMA Appended ==
  ASSUME NEW V, NEW M \in Seq(V), NEW x \in V
  PROVE  LET N == Append(M, x) IN
           /\ Len(M) \in Nat /\ N \in Seq(V) /\ Len(N) = Len(M) + 1 /\ N[Len(M) + 1] = x
           /\ \A i \in 1..Len(M) : N[i] = M[i]
OBVIOUS

\* The client sends its hello, what it makes of the answer, and the trailer.
LEMMA ClientSends ==
  ASSUME NEW V, NEW p \in Seq(Calls(V)), ClientPlan(p), NEW n \in 0..Len(p)
  PROVE  ClientSent(p, SendsIn(p, n), n)
<1> DEFINE l == Len(p)
           T == {k \in 0..l : ClientSent(p, SendsIn(p, k), k)}
           z == 2 * Blocks + 5
<1>1. l \in Nat /\ Blocks \in Nat \ {0} /\ l <= z /\ z \in Nat /\ z >= 7
  <2>1. Blocks \in Nat \ {0} /\ Len(p) \in Nat
    BY CtlAssumption
  <2> QED
    BY <2>1 DEF ClientPlan
<1>2. 0 \in T
  <2>1. SendsIn(p, 0) = << >>
    BY SendsFunction
  <2>2. Len(SendsIn(p, 0)) = 0
    BY <2>1
  <2>3. ~(0 >= 1) /\ ~(0 >= z) /\ 0 \in 0..l
    BY <1>1
  <2> QED
    BY <2>2, <2>3 DEF ClientSent
<1>3. ASSUME NEW k \in 0..l - 1, k \in T PROVE k + 1 \in T
  <2> DEFINE j == k + 1
             M == SendsIn(p, k)
             N == SendsIn(p, j)
  <2>1. k \in Nat /\ j \in 1..l /\ j - 1 = k /\ j \in 0..l /\ k \in 0..l
    BY <1>1
  <2> HIDE DEF j
  <2>2. N = IF p[j].op = "send" THEN Append(M, p[j].msg) ELSE M
    BY <2>1, SendsFunction
  <2>3. M \in Seq(V)
    BY <2>1, SendsFunction
  <2>4. p[j] \in Calls(V)
    BY <2>1, ElementOfSeq
  <2>5. p[j].op = "send" => p[j].msg \in V
    BY <2>4 DEF Calls
  <2>6. ClientSent(p, M, k)
    BY <1>3
  <2> HIDE DEF M, N
  <2>7. Len(M) = IF k = 0 THEN 0 ELSE IF k < 3 THEN 1 ELSE IF k < z THEN 2 ELSE 3
    BY <2>6 DEF ClientSent
  <2> SUFFICES ClientSent(p, N, j)
    BY <2>1 DEF N, j
  <2>8. CASE j \in {1, 3, z}
    <3>1. p[j].op = "send"
      BY <2>1, <2>8 DEF ClientPlan
    <3>2. N = Append(M, p[j].msg) /\ p[j].msg \in V
      BY <2>2, <2>5, <3>1
    <3> DEFINE x == p[j].msg
    <3> HIDE DEF x
    <3>3. Len(N) = Len(M) + 1 /\ N[Len(M) + 1] = x /\ \A i \in 1..Len(M) : N[i] = M[i]
      BY <2>3, <3>2, Appended DEF x
    <3>4. CASE j = 1
      <4>1. k = 0 /\ Len(M) = 0 /\ Len(N) = 1 /\ N[1] = x
        BY <2>1, <2>7, <3>3, <3>4
      <4> QED
        BY <1>1, <3>4, <4>1 DEF ClientSent, x
    <3>5. CASE j = 3
      <4>1. k = 2 /\ Len(M) = 1
        BY <2>1, <2>7, <3>5
      <4>2. M[1] = p[1].msg
        BY <2>6, <4>1 DEF ClientSent
      <4>3. 1 \in 1..Len(M) /\ Len(N) = 2
        BY <3>3, <4>1
      <4>4. N[1] = p[1].msg
        BY <3>3, <4>2, <4>3
      <4> QED
        BY <1>1, <3>5, <4>3, <4>4 DEF ClientSent
    <3>6. CASE j = z
      <4>1. k >= 6 /\ k < z /\ Len(M) = 2
        BY <1>1, <2>1, <2>7, <3>6
      <4>2. M[1] = p[1].msg
        BY <2>6, <4>1 DEF ClientSent
      <4>3. 1 \in 1..Len(M) /\ Len(N) = 3 /\ N[3] = x
        BY <3>3, <4>1
      <4>4. N[1] = p[1].msg
        BY <3>3, <4>2, <4>3
      <4> QED
        BY <1>1, <3>6, <4>3, <4>4 DEF ClientSent, x
    <3> QED
      BY <2>8, <3>4, <3>5, <3>6
  <2>9. CASE j \notin {1, 3, z}
    <3>1. p[j].op # "send"
      <4>1. j = 2 \/ j \in 4..2 * Blocks + 4
        BY <1>1, <2>1, <2>9
      <4>2. CASE j = 2
        BY <2>1, <4>2 DEF ClientPlan
      <4>3. CASE j \in 4..2 * Blocks + 4
        <5>1. j - 3 \in 1..2 * Blocks + 1
          BY <1>1, <4>3
        <5>2. p[j] = DataOut[j - 3]
          BY <2>1, <4>3 DEF ClientPlan
        <5>3. DataOut[j - 3].op # "send"
          BY <5>1 DEF DataOut
        <5> QED
          BY <5>2, <5>3
      <4> QED
        BY <4>1, <4>2, <4>3
    <3>2. N = M
      BY <2>2, <3>1
    <3>3. j # 1 /\ j # 3 /\ j < z
      BY <1>1, <2>1, <2>9
    <3>4. Len(M) = IF j = 0 THEN 0 ELSE IF j < 3 THEN 1 ELSE IF j < z THEN 2 ELSE 3
      BY <1>1, <2>1, <2>7, <3>3
    <3>5. k >= 1 /\ ~(j >= z)
      BY <1>1, <2>1, <3>3
    <3>6. M[1] = p[1].msg
      BY <2>6, <3>5 DEF ClientSent
    <3> QED
      BY <3>2, <3>4, <3>5, <3>6 DEF ClientSent
  <2> QED
    BY <2>8, <2>9
<1> HIDE DEF T
<1>4. 0..l \subseteq T
  BY <1>1, <1>2, <1>3, UpTo
<1> QED
  BY <1>4 DEF T

\* The server sends its answer.
LEMMA ServerSends ==
  ASSUME NEW V, NEW p \in Seq(Calls(V)), ServerPlan(p), NEW n \in 0..Len(p)
  PROVE  ServerSent(p, SendsIn(p, n), n)
<1> DEFINE l == Len(p)
           T == {k \in 0..l : ServerSent(p, SendsIn(p, k), k)}
<1>1. l \in Nat /\ Blocks \in Nat \ {0} /\ l <= 2 * Blocks + 3
  <2>1. Blocks \in Nat \ {0} /\ Len(p) \in Nat
    BY CtlAssumption
  <2> QED
    BY <2>1 DEF ServerPlan
<1>2. 0 \in T
  <2>1. SendsIn(p, 0) = << >>
    BY SendsFunction
  <2>2. Len(SendsIn(p, 0)) = 0 /\ 0 \in 0..l
    BY <1>1, <2>1
  <2> QED
    BY <2>2 DEF ServerSent
<1>3. ASSUME NEW k \in 0..l - 1, k \in T PROVE k + 1 \in T
  <2> DEFINE j == k + 1
             M == SendsIn(p, k)
             N == SendsIn(p, j)
  <2>1. k \in Nat /\ j \in 1..l /\ j - 1 = k /\ j \in 0..l /\ k \in 0..l
    BY <1>1
  <2> HIDE DEF j
  <2>2. N = IF p[j].op = "send" THEN Append(M, p[j].msg) ELSE M
    BY <2>1, SendsFunction
  <2>3. M \in Seq(V)
    BY <2>1, SendsFunction
  <2>4. p[j] \in Calls(V)
    BY <2>1, ElementOfSeq
  <2>5. p[j].op = "send" => p[j].msg \in V
    BY <2>4 DEF Calls
  <2>6. ServerSent(p, M, k)
    BY <1>3
  <2> HIDE DEF M, N
  <2> SUFFICES ServerSent(p, N, j)
    BY <2>1 DEF N, j
  <2>7. CASE j = 2
    <3>1. p[j].op = "send"
      BY <2>1, <2>7 DEF ServerPlan
    <3>2. N = Append(M, p[j].msg) /\ p[j].msg \in V
      BY <2>2, <2>5, <3>1
    <3> DEFINE x == p[j].msg
    <3> HIDE DEF x
    <3>3. Len(N) = Len(M) + 1 /\ N[Len(M) + 1] = x
      BY <2>3, <3>2, Appended DEF x
    <3>4. k = 1
      BY <2>1, <2>7
    <3>5. Len(M) = 0
      BY <2>6, <3>4 DEF ServerSent
    <3>6. Len(N) = 1 /\ N[1] = x
      BY <3>3, <3>5
    <3> QED
      BY <2>7, <3>6 DEF ServerSent, x
  <2>8. CASE j # 2
    <3>1. p[j].op # "send"
      <4>1. j \in {1, 3, 2 * Blocks + 3} \/ j \in 4..2 * Blocks + 2
        BY <1>1, <2>1, <2>8
      <4>2. CASE j \in {1, 3, 2 * Blocks + 3}
        <5>1. p[j].op = "recv"
          BY <2>1, <4>2 DEF ServerPlan
        <5> QED
          BY <5>1
      <4>3. CASE j \in 4..2 * Blocks + 2
        <5>1. j - 3 \in 1..2 * Blocks - 1
          BY <1>1, <4>3
        <5>2. p[j] = DataIn[j - 3]
          BY <2>1, <4>3 DEF ServerPlan
        <5>3. DataIn[j - 3].op # "send"
          BY <5>1 DEF DataIn
        <5> QED
          BY <5>2, <5>3
      <4> QED
        BY <4>1, <4>2, <4>3
    <3>2. N = M
      BY <2>2, <3>1
    <3>3. (k < 2 <=> j < 2) /\ (j >= 2 => k >= 2)
      BY <2>1, <2>8
    <3> QED
      BY <2>6, <3>2, <3>3 DEF ServerSent
  <2> QED
    BY <2>7, <2>8
<1> HIDE DEF T
<1>4. 0..l \subseteq T
  BY <1>1, <1>2, <1>3, UpTo
<1> QED
  BY <1>4 DEF T

\* The client goes on only to a program of its own version and only with a transfer,
\* and ends what it sends with the trailer.
ClientSaid ==
  /\ Len(plan[client]) > 2 => job.version = VERSION /\ job.does # "probe"
  /\ Len(plan[client]) = 2 * Blocks + 5 => plan[client][2 * Blocks + 5].msg = TrailerOfJob

\* The server has answered what it read first.
Answers(p, m) ==
  Len(p) >= 2 => Answer(Heard(server, m)) # << >> /\ p[2] = Answer(Heard(server, m))[1]
ServerSaid ==
  Len(plan[server]) >= 2 => rcvd[server] # << >> /\ Answers(plan[server], rcvd[server][1])

\* What the client sends after the answer: nothing, or to its own version only, and the
\* trailer last.
LEMMA ClientAdds ==
  ASSUME job \in Jobs, NEW p \in Seq(Mine(client)), Len(p) = 2, NEW m \in Msgs(VERSION)
  PROVE  LET r == p \o ClientGoesOn(Heard(client, m)) IN
           /\ Len(r) > 2 => job.version = VERSION /\ job.does # "probe"
           /\ Len(r) = 2 * Blocks + 5 => r[2 * Blocks + 5].msg = TrailerOfJob
<1> DEFINE S == Mine(client)
           a == Send(AbortOf(job.version))
           b == Send(GoOf(job.version))
           c == Send(TrailerOfJob)
           bd == b \o DataOut
           bdc == bd \o c
           q == ClientGoesOn(Heard(client, m))
           r == p \o q
           d == 2 * Blocks + 1
<1>1. Blocks \in Nat \ {0}
  BY CtlAssumption
<1>2. /\ q = << >> \/ q = a \/ q = bdc
      /\ q # << >> => job.does # "probe" /\ IsMessage(Heard(client, m), MSG_REPLY)
  BY DEF ClientGoesOn, AbortOf, GoOf, TrailerOfJob
<1>3. IsMessage(Heard(client, m), MSG_REPLY) => job.version = VERSION
  <2>1. Heard(client, m) = decode_checked(job.version, m)
    BY DEF Heard, VersionOf
  <2>2. m[2] = VERSION /\ NotIbsend.kind # "message" /\ VersionMismatch(m[2]).kind # "message"
    BY DEF Msgs, NotIbsend, VersionMismatch
  <2>3. decode_checked(job.version, m) \in {NotIbsend, VersionMismatch(m[2])} \/ m[2] = job.version
    BY DEF decode_checked
  <2> QED
    BY <2>1, <2>2, <2>3 DEF IsMessage
<1>4. /\ a \in Seq(S) /\ b \in Seq(S) /\ c \in Seq(S) /\ DataOut \in Seq(S) /\ q \in Seq(S)
      /\ Len(a) = 1 /\ Len(b) = 1 /\ Len(c) = 1 /\ Len(DataOut) = d /\ c[1].msg = TrailerOfJob
  <2>1. /\ AbortOf(job.version) \in Msgs(VersionOf(client)) /\ GoOf(job.version) \in Msgs(VersionOf(client))
        /\ TrailerOfJob \in Msgs(VersionOf(client))
    BY JobTyped, AbortTyped, TrailerTyped DEF VersionOf
  <2>2. c[1].msg = TrailerOfJob
    <3> DEFINE x == [op |-> "send", msg |-> TrailerOfJob]
    <3>1. x.msg = TrailerOfJob
      OBVIOUS
    <3> HIDE DEF x
    <3>2. <<x>>[1] = x
      OBVIOUS
    <3> QED
      BY <3>1, <3>2 DEF Send, x
  <2> QED
    BY <2>1, <2>2, CallsTyped, ClientTyped DEF Mine
<1> HIDE DEF S, a, b, c, q
<1>5. bd \in Seq(S) /\ Len(bd) = Len(b) + Len(DataOut)
  BY <1>4, Joined
<1> HIDE DEF bd
<1>6. /\ bdc \in Seq(S) /\ Len(bdc) = Len(bd) + Len(c)
      /\ \A i \in 1..Len(c) : bdc[Len(bd) + i] = c[i]
  <2>1. bd \in Seq(S) /\ c \in Seq(S)
    BY <1>4, <1>5
  <2> QED
    BY <2>1, Joined
<1> HIDE DEF bdc
<1>7. /\ Len(r) = Len(p) + Len(q) /\ Len(q) \in Nat
      /\ \A i \in 1..Len(q) : r[Len(p) + i] = q[i]
  <2> DEFINE x == p
  <2>1. x \in Seq(S) /\ q \in Seq(S)
    BY <1>4 DEF S
  <2> HIDE DEF x
  <2>2. /\ Len(x \o q) = Len(x) + Len(q) /\ Len(q) \in Nat
        /\ \A i \in 1..Len(q) : (x \o q)[Len(x) + i] = q[i]
    BY <2>1, Joined
  <2> QED
    BY <2>2 DEF x
<1>8. Len(<< >>) = 0
  OBVIOUS
<1> DEFINE l == Len(q)
           none == << >>
<1> HIDE DEF r, none
<1>9. Len(r) > 2 => q # << >>
  <2>1. Len(r) = 2 + l
    BY <1>7
  <2>2. q = none => l = 0
    BY <1>8 DEF none
  <2> HIDE DEF l
  <2> QED
    BY <2>1, <2>2 DEF none
<1>10. Len(r) = 2 * Blocks + 5 => r[2 * Blocks + 5].msg = TrailerOfJob
  <2> SUFFICES ASSUME Len(r) = 2 * Blocks + 5 PROVE r[2 * Blocks + 5].msg = TrailerOfJob
    OBVIOUS
  <2>1. Len(q) = 2 * Blocks + 3 /\ Len(q) >= 5
    BY <1>1, <1>7
  <2>2. q = bdc
    <3>1. q # none /\ q # a
      <4>1. Len(q) # Len(none) /\ Len(q) # Len(a)
        BY <1>4, <1>8, <2>1 DEF none
      <4> QED
        BY <4>1
    <3> QED
      BY <1>2, <3>1 DEF none
  <2> DEFINE i == 2 * Blocks + 3
  <2>3. 1 \in 1..Len(c) /\ Len(bd) + 1 = i /\ i \in 1..Len(q) /\ Len(p) + i = 2 * Blocks + 5
    BY <1>1, <1>4, <1>5, <2>1
  <2>4. bdc[i] = c[1]
    BY <1>6, <2>3
  <2> HIDE DEF i
  <2>5. r[Len(p) + i] = q[i]
    BY <1>7, <2>3
  <2> QED
    BY <1>4, <2>2, <2>3, <2>4, <2>5
<1>11. Len(r) > 2 => job.version = VERSION /\ job.does # "probe"
  BY <1>2, <1>3, <1>9
<1> QED
  BY <1>10, <1>11 DEF r, q

\* What the server says to what it reads first is the second of its calls.
LEMMA ServerAdds ==
  ASSUME NEW p \in Seq(Mine(server)), Len(p) = 1, NEW m \in Seq(Nat)
  PROVE  Answers(p \o Answer(Heard(server, m)), m)
<1> DEFINE S == Mine(server)
           q == Answer(Heard(server, m))
           r == p \o q
           l == Len(q)
           none == << >>
<1>1. q \in Seq(S)
  BY ServerTyped
<1> HIDE DEF S, q
<1>2. /\ Len(r) = Len(p) + Len(q) /\ Len(q) \in Nat
      /\ \A i \in 1..Len(q) : r[Len(p) + i] = q[i]
  <2> DEFINE x == p
  <2>1. x \in Seq(S) /\ q \in Seq(S)
    BY <1>1 DEF S
  <2> HIDE DEF x
  <2>2. /\ Len(x \o q) = Len(x) + Len(q) /\ Len(q) \in Nat
        /\ \A i \in 1..Len(q) : (x \o q)[Len(x) + i] = q[i]
    BY <2>1, Joined
  <2> QED
    BY <2>2 DEF x
<1>3. Len(none) = 0
  OBVIOUS
<1> HIDE DEF none, r
<1>4. ASSUME Len(r) >= 2 PROVE q # none /\ r[2] = q[1]
  <2>1. 1 \in 1..Len(q) /\ Len(p) + 1 = 2 /\ Len(q) # 0
    BY <1>2, <1>4
  <2> QED
    BY <1>2, <1>3, <2>1
<1> QED
  BY <1>4 DEF Answers, r, q, none

\* At first nobody has said more than hello.
LEMMA InitSaid == Init => ClientSaid /\ ServerSaid
<1> SUFFICES ASSUME Init PROVE ClientSaid /\ ServerSaid
  OBVIOUS
<1> DEFINE a == Send(Hello)
           S == Calls({Hello})
<1>1. client # server /\ client \in Ends /\ server \in Ends /\ Blocks \in Nat \ {0}
  BY CtlAssumption DEF Ends
<1>2. plan[client] = a \o Recv /\ plan[server] = Recv
  BY <1>1 DEF Init
<1>3. a \in Seq(S) /\ Recv \in Seq(S) /\ Len(a) = 1 /\ Len(Recv) = 1
  BY CallsTyped
<1> HIDE DEF a, S
<1>4. Len(a \o Recv) = Len(a) + Len(Recv)
  BY <1>3, Joined
<1>5. Len(plan[client]) = 2 /\ Len(plan[server]) = 1
  BY <1>2, <1>3, <1>4
<1>6. ~(2 > 2) /\ 2 # 2 * Blocks + 5 /\ ~(1 >= 2)
  BY <1>1
<1> QED
  BY <1>5, <1>6 DEF ClientSaid, ServerSaid

\* A message that has come is one that was sent, and of the version of its sender.
LEMMA OneRead ==
  ASSUME NEW V, NEW M \in Seq(V), NEW r \in Seq(Seq(Nat)), Grows(r, M), NEW i \in 1..Len(r)
  PROVE  i \in 1..Len(M) /\ r[i] = M[i] /\ r[i] \in V
<1>1. Len(r) \in Nat /\ Len(M) \in Nat /\ Len(r) <= Len(M)
  BY DEF Grows
<1>2. i \in 1..Len(M) /\ r[i] = M[i]
  BY <1>1 DEF Grows
<1>3. M[i] \in V
  BY <1>2, ElementOfSeq
<1> QED
  BY <1>2, <1>3

\* The client that reads has made its two first calls, and what it reads is of the
\* server's version.
LEMMA ClientHears ==
  ASSUME QInv, QInv', Shapes, job' = job, In(client, "recv"), NEW m \in Seq(Nat),
         rcvd' = Set(rcvd, client, Append(rcvd[client], m))
  PROVE  Len(plan[client]) = 2 /\ m \in Msgs(VERSION)
<1>1. client \in Ends /\ server \in Ends /\ client # server /\ Peer[client] = server
  BY CtlAssumption DEF Ends, Peer
<1>2. Len(plan[client]) = 2
  <2>1. ClientPlan(plan[client]) /\ At(client, Len(plan[client]), pc[client], Len(rcvd[client]))
    BY <1>1 DEF Shapes, ShapeOf, Plan
  <2>2. pc[client] \in 1..Len(plan[client]) /\ plan[client][pc[client]].op = "recv"
    <3>1. pc[client] \in 1..Len(plan[client]) + 1 /\ Len(plan[client]) \in Nat
      BY <1>1 DEF QInv, Sides, PlanOf, PlanOk
    <3> QED
      BY <3>1 DEF In, Running, Call
  <2>3. pc[client] = 2
    BY <2>1, <2>2, ClientReads
  <2> QED
    BY <2>1, <2>3 DEF At
<1> DEFINE M == SentSoFar(plan'[server], pc'[server], off'[server])
           V == Msgs(VERSION)
           r == rcvd'[client]
           q == rcvd[client]
           S == Seq(Nat)
<1>3. M \in Seq(V) /\ r \in Seq(S) /\ Grows(r, M)
  <2>1. PlanOk(server, plan'[server], pc'[server], off'[server])
    BY <1>1 DEF QInv, Sides, PlanOf, PlanOk, Mine, VersionOf
  <2>2. M \in Seq(Msgs(VersionOf(server)))
    BY <1>1, <2>1, SentTyped DEF QInv
  <2>3. VersionOf(server) = VERSION
    BY <1>1 DEF VersionOf
  <2>4. r \in Seq(S) /\ Grows(r, M)
    BY <1>1 DEF QInv, Sides, ReadOf, Reading, Sent
  <2> QED
    BY <2>2, <2>3, <2>4
<1>4. r = Append(q, m) /\ q \in Seq(S)
  BY <1>1 DEF QInv, QDomains, Sides, ReadOf, Reading, Set
<1> HIDE DEF M, V, r, q
<1>5. Len(q) + 1 \in 1..Len(r) /\ r[Len(q) + 1] = m
  <2> HIDE DEF S
  <2>1. m \in S
    BY DEF S
  <2>2. Len(r) = Len(q) + 1 /\ r[Len(q) + 1] = m /\ Len(q) \in Nat
    BY <1>4, <2>1, Appended
  <2> QED
    BY <2>2
<1>6. m \in V
  <2> DEFINE i == Len(q) + 1
  <2>1. i \in 1..Len(r) /\ r[i] = m
    BY <1>5
  <2> HIDE DEF i
  <2> QED
    BY <1>3, <2>1, OneRead
<1> QED
  BY <1>2, <1>6 DEF V

\* The server that reads its first message answers it; the others leave the answer.
LEMMA ServerHears ==
  ASSUME QInv, Shapes, ServerSaid, In(server, "recv"), NEW m \in Seq(Nat),
         NEW r, r = Append(rcvd[server], m),
         NEW p, p = plan[server] \o GoesOn(server, Len(r), m)
  PROVE  r # << >> /\ Answers(p, r[1])
<1> DEFINE q == rcvd[server]
           c == plan[server]
           x == GoesOn(server, Len(r), m)
           S == Seq(Nat)
           C == Mine(server)
           n == Len(q)
           l == Len(c)
           k == pc[server]
<1>1. client \in Ends /\ server \in Ends /\ client # server /\ Blocks \in Nat \ {0}
  BY CtlAssumption DEF Ends, Peer
<1>2. q \in Seq(S) /\ c \in Seq(C) /\ k \in 1..l + 1 /\ l \in Nat
  <2>1. q \in Seq(S)
    BY <1>1 DEF QInv, Sides, ReadOf, Reading
  <2>2. PlanOk(server, plan[server], pc[server], off[server])
    BY <1>1 DEF QInv, Sides, PlanOf
  <2> QED
    BY <2>1, <2>2 DEF PlanOk
<1>3. ServerPlan(c) /\ At(server, l, k, n)
  BY <1>1 DEF Shapes, ShapeOf, Plan
<1>4. k \in 1..l /\ c[k].op = "recv"
  BY <1>2 DEF In, Running, Call
<1>5. k \in {1, 3, 2 * Blocks + 3}
  <2> HIDE DEF k, c
  <2>1. k \in 1..Len(c)
    BY <1>4
  <2> QED
    BY <1>3, <1>4, <2>1, ServerReads
<1>6. x \in Seq(C)
  <2>1. job \in Jobs
    BY DEF QInv
  <2> QED
    BY <1>1, <2>1, GoesOnTyped
<1>7. /\ Len(r) = n + 1 /\ n \in Nat /\ r[n + 1] = m /\ \A i \in 1..n : r[i] = q[i]
      /\ r \in Seq(S)
  <2> HIDE DEF S, q
  <2>1. r = Append(q, m) /\ m \in S
    BY DEF q, S
  <2> QED
    BY <1>2, <2>1, Appended
<1>8. p = c \o x
  OBVIOUS
<1>9. At(server, l, k, n) => /\ k = 1 => l = 1 /\ n = 0
                             /\ k = 3 => n = 1
                             /\ k >= 4 /\ k <= 2 * Blocks + 3 => n = 2
  BY <1>1 DEF At
<1> HIDE DEF S, C, c, q, x, n, l, k
<1>10. CASE k = 1
  <2>1. l = 1 /\ n = 0
    BY <1>3, <1>9, <1>10
  <2>2. Len(r) = 1 /\ r[1] = m
    BY <1>7, <2>1
  <2>3. x = Answer(Heard(server, m))
    BY <1>1, <2>2 DEF x, GoesOn
  <2>4. Answers(p, m)
    BY <1>2, <1>8, <2>1, <2>3, ServerAdds DEF C, l
  <2> QED
    BY <2>2, <2>4
<1>11. CASE k # 1
  <2>1. l >= 3 /\ n >= 1
    <3>1. CASE k = 3
      BY <1>2, <1>3, <1>4, <1>9, <3>1
    <3>2. CASE k = 2 * Blocks + 3
      BY <1>1, <1>2, <1>3, <1>4, <1>9, <3>2
    <3> QED
      BY <1>5, <1>11, <3>1, <3>2
  <2>2. 1 \in 1..n /\ 2 \in 1..l /\ Len(r) > 0
    BY <1>2, <1>7, <2>1
  <2>3. r[1] = q[1] /\ r # << >>
    BY <1>7, <2>2
  <2>4. Answers(c, q[1])
    BY <2>1 DEF ServerSaid, c, q, l
  <2>5. \A i \in 1..l : p[i] = c[i]
    BY <1>2, <1>6, <1>8, Joined DEF l
  <2>6. p[2] = c[2]
    BY <2>2, <2>5
  <2>7. Answers(p, q[1])
    BY <2>1, <2>4, <2>6 DEF Answers, l
  <2> QED
    BY <2>3, <2>7
<1> QED
  BY <1>10, <1>11

\* No step takes back what has been said.
LEMMA NextSaid ==
  ASSUME QInv, QInv', Shapes, ClientSaid, ServerSaid, [Next]_vars
  PROVE  ClientSaid' /\ ServerSaid'
<1>1. client \in Ends /\ server \in Ends /\ client # server /\ job' = job
  BY CtlAssumption, EndMoves DEF Ends
<1>2. DOMAIN plan = Ends /\ DOMAIN rcvd = Ends
  BY DEF QInv, QDomains
<1>3. plan'[client] = plan[client] => ClientSaid'
  BY <1>1 DEF ClientSaid, TrailerOfJob
<1>4. plan'[server] = plan[server] /\ rcvd'[server] = rcvd[server] => ServerSaid'
  BY <1>1 DEF ServerSaid, Answers, Heard, VersionOf
<1>5. CASE plan' = plan /\ rcvd' = rcvd
  BY <1>3, <1>4, <1>5
<1>6. ASSUME NEW e \in Ends, In(e, "recv"), NEW m \in Seq(Nat),
             rcvd' = Set(rcvd, e, Append(rcvd[e], m)),
             plan' = Set(plan, e, plan[e] \o GoesOn(e, Len(rcvd'[e]), m))
      PROVE  ClientSaid' /\ ServerSaid'
  <2>1. CASE e = client
    <3>1. Len(plan[client]) = 2 /\ m \in Msgs(VERSION)
      BY <1>1, <1>6, <2>1, ClientHears
    <3>2. plan'[client] = plan[client] \o ClientGoesOn(Heard(client, m))
      BY <1>1, <1>2, <1>6, <2>1 DEF Set, GoesOn
    <3>3. plan[client] \in Seq(Mine(client)) /\ job \in Jobs
      BY <1>1 DEF QInv, Sides, PlanOf, PlanOk
    <3> DEFINE p == plan[client]
               y == p \o ClientGoesOn(Heard(client, m))
    <3>4. /\ Len(y) > 2 => job.version = VERSION /\ job.does # "probe"
          /\ Len(y) = 2 * Blocks + 5 => y[2 * Blocks + 5].msg = TrailerOfJob
      BY <3>1, <3>3, ClientAdds
    <3> HIDE DEF y
    <3>5. ClientSaid'
      BY <1>1, <3>2, <3>4 DEF ClientSaid, TrailerOfJob, y
    <3>6. plan'[server] = plan[server] /\ rcvd'[server] = rcvd[server]
      BY <1>1, <1>2, <1>6, <2>1 DEF Set
    <3> QED
      BY <1>4, <3>5, <3>6
  <2>2. CASE e = server
    <3>1. plan'[client] = plan[client]
      BY <1>1, <1>2, <1>6, <2>2 DEF Set
    <3> DEFINE r == rcvd'[server]
               p == plan'[server]
    <3>2. r = Append(rcvd[server], m) /\ p = plan[server] \o GoesOn(server, Len(r), m)
      BY <1>1, <1>2, <1>6, <2>2 DEF Set
    <3> HIDE DEF r, p
    <3>3. r # << >> /\ Answers(p, r[1])
      BY <1>6, <2>2, <3>2, ServerHears
    <3>4. ServerSaid'
      BY <1>1, <3>3 DEF ServerSaid, Answers, Heard, VersionOf, r, p
    <3> QED
      BY <1>3, <3>1, <3>4
  <2> QED
    BY <1>6, <2>1, <2>2 DEF Ends
<1> QED
  BY <1>5, <1>6, EndMoves

\* No string is longer than its length can say: the names of the files of a job, and
\* what the server says of itself.
StringsFit ==
  /\ StrMod > 2
  /\ \A j \in Jobs : \A k \in 1..Len(j.manifest.files) : Len(j.manifest.files[k].name) < StrMod

\* What an end has begun to send is given by the calls it has begun.
LEMMA Begun ==
  ASSUME QInv, Shapes, NEW e \in Ends
  PROVE  \E n \in 0..Len(plan[e]) :
           IF e = client THEN ClientSent(plan[e], Sent(e), n) ELSE ServerSent(plan[e], Sent(e), n)
<1> DEFINE n == IF off[e] > 0 THEN pc[e] ELSE pc[e] - 1
           V == Msgs(VersionOf(e))
<1>1. PlanOk(e, plan[e], pc[e], off[e]) /\ Plan(e, plan[e])
  BY DEF QInv, Sides, PlanOf, Shapes, ShapeOf
<1>2. plan[e] \in Seq(Calls(V))
  BY <1>1 DEF PlanOk, Mine
<1>3. Len(plan[e]) \in Nat
  BY <1>2
<1>4. n \in 0..Len(plan[e])
  BY <1>1, <1>3 DEF PlanOk
<1>5. Sent(e) = SendsIn(plan[e], n)
  BY DEF Sent, SentSoFar
<1> HIDE DEF n, V
<1>6. CASE e = client
  BY <1>1, <1>2, <1>4, <1>5, <1>6, ClientSends DEF Plan
<1>7. CASE e # client
  BY <1>1, <1>2, <1>4, <1>5, <1>7, ServerSends DEF Plan
<1> QED
  BY <1>6, <1>7

\* The first message that the server reads is the hello, and the third, if there is
\* one, the trailer of a transfer between programs of one version, which it has
\* answered.
LEMMA ServerHas ==
  ASSUME QInv, Shapes, FirstCall, ClientSaid
  PROVE  /\ rcvd[server] # << >> => rcvd[server][1] = Hello
         /\ Len(rcvd[server]) = 3 =>
              /\ rcvd[server][3] = TrailerOfJob /\ job.version = VERSION /\ job.does # "probe"
              /\ Len(plan[server]) >= 2
<1>1. client \in Ends /\ server \in Ends /\ client # server /\ Peer[server] = client /\ Blocks \in Nat \ {0}
  BY CtlAssumption DEF Ends, Peer
<1> DEFINE p == plan[client]
           M == Sent(client)
           r == rcvd[server]
           V == Msgs(VersionOf(client))
           z == 2 * Blocks + 5
<1>2. M \in Seq(V) /\ r \in Seq(Seq(Nat)) /\ Grows(r, M)
  BY <1>1, SendingTyped DEF QInv, Sides, ReadOf, Reading
<1>3. PICK n \in 0..Len(p) : ClientSent(p, M, n)
  BY <1>1, Begun
<1>4. Len(p) \in Nat /\ Len(p) <= z /\ z \in Nat /\ z >= 7
  <2> DEFINE l == Len(p)
  <2>1. l \in {2, 3, z}
    BY <1>1 DEF Shapes, ShapeOf, Plan, ClientPlan
  <2>2. z \in Nat /\ z >= 7
    BY <1>1
  <2> HIDE DEF l, z
  <2>3. l \in Nat /\ l <= z
    BY <2>1, <2>2
  <2> QED
    BY <2>2, <2>3 DEF l
<1>5. Len(r) <= Len(M) /\ Len(r) \in Nat
  BY <1>2 DEF Grows
<1>6. /\ Len(M) = IF n = 0 THEN 0 ELSE IF n < 3 THEN 1 ELSE IF n < z THEN 2 ELSE 3
      /\ n >= 1 => M[1] = p[1].msg
      /\ n >= z => M[3] = p[z].msg
  BY <1>3 DEF ClientSent
<1> HIDE DEF M, V, p, r
<1>7. ASSUME r # << >> PROVE r[1] = Hello
  <2>1. Len(r) # 0
    BY <1>2, <1>7
  <2>2. n >= 1 /\ 1 \in 1..Len(r)
    BY <1>4, <1>5, <1>6, <2>1
  <2>3. r[1] = M[1]
    BY <1>2, <2>2, OneRead
  <2>4. p[1].msg = Hello
    <3>1. [op |-> "send", msg |-> Hello].msg = Hello
      OBVIOUS
    <3> QED
      BY <3>1 DEF FirstCall, p
  <2> QED
    BY <1>6, <2>2, <2>3, <2>4
<1>8. ASSUME Len(r) = 3
      PROVE  /\ r[3] = TrailerOfJob /\ job.version = VERSION /\ job.does # "probe"
             /\ Len(plan[server]) >= 2
  <2>1. n = z /\ Len(p) = z /\ 3 \in 1..Len(r) /\ Len(p) > 2 /\ n >= z
    BY <1>4, <1>5, <1>6, <1>8
  <2>2. r[3] = M[3]
    BY <1>2, <2>1, OneRead
  <2>3. p[z].msg = TrailerOfJob /\ job.version = VERSION /\ job.does # "probe"
    BY <2>1 DEF ClientSaid, p
  <2>4. Len(plan[server]) >= 2
    <3> DEFINE k == pc[server]
               l == Len(plan[server])
    <3>1. k \in 1..l + 1 /\ l \in Nat
      BY <1>1 DEF QInv, Sides, PlanOf, PlanOk
    <3>2. At(server, l, k, Len(r))
      BY <1>1 DEF Shapes, ShapeOf, r
    <3> HIDE DEF k, l
    <3>3. /\ k = 1 => Len(r) = 0
          /\ k \in {2, 3} => Len(r) = 1
      BY <1>1, <3>2 DEF At
    <3>4. k # 1 /\ k # 2 /\ k # 3
      BY <1>8, <3>3
    <3> QED
      BY <3>1, <3>4 DEF l
  <2> QED
    BY <1>6, <2>1, <2>2, <2>3, <2>4
<1> QED
  BY <1>7, <1>8 DEF r

\* The first message that the client reads is the answer to its hello.
LEMMA ClientHas ==
  ASSUME QInv, Shapes, FirstCall, ClientSaid, ServerSaid, rcvd[client] # << >>
  PROVE  /\ rcvd[server] # << >> /\ Answer(Heard(server, Hello)) # << >>
         /\ rcvd[client][1] = Answer(Heard(server, Hello))[1].msg
<1>1. client \in Ends /\ server \in Ends /\ client # server /\ Peer[client] = server /\ Blocks \in Nat \ {0}
  BY CtlAssumption DEF Ends, Peer
<1> DEFINE p == plan[server]
           M == Sent(server)
           r == rcvd[client]
           V == Msgs(VersionOf(server))
<1>2. M \in Seq(V) /\ r \in Seq(Seq(Nat)) /\ Grows(r, M)
  BY <1>1, SendingTyped DEF QInv, Sides, ReadOf, Reading
<1>3. PICK n \in 0..Len(p) : ServerSent(p, M, n)
  BY <1>1, Begun
<1>4. Len(p) \in Nat
  BY <1>1 DEF QInv, Sides, PlanOf, PlanOk
<1>5. Len(r) <= Len(M) /\ Len(r) \in Nat
  BY <1>2 DEF Grows
<1>6. /\ Len(M) = IF n < 2 THEN 0 ELSE 1
      /\ n >= 2 => M[1] = p[2].msg
  BY <1>3 DEF ServerSent
<1> HIDE DEF M, V, p, r
<1>7. Len(r) # 0
  BY <1>2 DEF r
<1>8. n >= 2 /\ Len(p) >= 2 /\ 1 \in 1..Len(r)
  BY <1>4, <1>5, <1>6, <1>7
<1>9. r[1] = p[2].msg
  <2>1. r[1] = M[1]
    BY <1>2, <1>8, OneRead
  <2> QED
    BY <1>6, <1>8, <2>1
<1>10. rcvd[server] # << >> /\ Answers(plan[server], rcvd[server][1])
  BY <1>8 DEF ServerSaid, p
<1>11. rcvd[server][1] = Hello
  BY <1>10, ServerHas
<1>12. Answer(Heard(server, Hello)) # << >> /\ p[2] = Answer(Heard(server, Hello))[1]
  BY <1>8, <1>10, <1>11 DEF Answers, p
<1> QED
  BY <1>9, <1>10, <1>12 DEF r

\* A transfer that is answered: the server reads the manifest, which has no more files
\* than it accepts, and its answer is the reply to it.
LEMMA TransferAnswered ==
  ASSUME job \in Jobs, StringsFit, job.version = VERSION, job.does # "probe",
         Answer(Heard(server, Hello)) # << >>
  PROVE  /\ Manifest_read(Heard(server, Hello).body) = job.manifest
         /\ Len(job.manifest.files) \in Nat /\ Len(job.manifest.files) <= MaxEntries
         /\ Answer(Heard(server, Hello))[1].msg = ReplyIs(job.manifest)
<1> DEFINE m == job.manifest
           b == Manifest_write(m)
           h == [kind |-> "message", ty |-> MSG_TRANSFER, body |-> b]
<1>1. m \in ManifestType /\ VERSION \in Nat /\ server # client
  BY JobTyped, CtlAssumption
<1>2. /\ b \in Seq(Nat) /\ Len(m.files) \in Nat
      /\ \E at \in [0..Len(m.files) -> Nat] : Holds(m, b, at)
  BY <1>1, ManifestWritten
<1>3. b[1] = Len(m.files)
  BY <1>2 DEF Holds
<1> HIDE DEF b
<1>4. Heard(server, Hello) = h
  <2>1. Hello = encode(VERSION, MSG_TRANSFER, b)
    BY DEF Hello, b
  <2>2. MSG_TRANSFER \in Nat
    BY DEF MSG_TRANSFER
  <2>3. decode_checked(VERSION, encode(VERSION, MSG_TRANSFER, b)) = h
    BY <1>1, <1>2, <2>2, Decoded
  <2> QED
    BY <1>1, <2>1, <2>3 DEF Heard, VersionOf
<1>5. h.kind = "message" /\ h.ty = MSG_TRANSFER /\ h.body = b
  OBVIOUS
<1> DEFINE x == Manifest_read(b)
           reply == Send(ReplyIs(x))
<1>6. Answer(h) = IF x # Refused THEN reply \o Recv ELSE << >>
  <2>1. h.kind # "mismatch" /\ ~IsMessage(h, MSG_PROBE) /\ IsMessage(h, MSG_TRANSFER)
    BY <1>5 DEF IsMessage, MSG_PROBE, MSG_TRANSFER
  <2> QED
    BY <1>5, <2>1 DEF Answer, ReplyIs
<1>7. x # Refused
  BY <1>4, <1>6
<1>8. b[1] \in 0..MaxEntries
  BY <1>2, <1>7, ManifestRead
<1>9. Len(m.files) <= MaxEntries
  BY <1>3, <1>8
<1>10. x = m
  <2>1. \A k \in 1..Len(m.files) : Len(m.files[k].name) < StrMod
    BY DEF StringsFit
  <2> QED
    BY <1>1, <1>9, <2>1, ManifestReadsBack DEF b
<1>11. Answer(h)[1].msg = ReplyIs(m)
  <2> DEFINE y == ReplyIs(m)
             V == {y}
             c == [op |-> "send", msg |-> y]
             s == Send(y)
             S == Calls(V)
  <2>1. Answer(h) = s \o Recv
    BY <1>6, <1>7, <1>10
  <2>2. s \in Seq(S) /\ Recv \in Seq(S) /\ Len(s) = 1
    BY CallsTyped
  <2>3. c.msg = y
    OBVIOUS
  <2> HIDE DEF c
  <2>4. s[1] = c
    <3>1. <<c>>[1] = c
      OBVIOUS
    <3> QED
      BY <3>1 DEF Send, c
  <2> HIDE DEF s, S, y
  <2>5. \A i \in 1..Len(s) : (s \o Recv)[i] = s[i]
    BY <2>2, Joined
  <2>6. 1 \in 1..Len(s)
    BY <2>2
  <2>7. (s \o Recv)[1] = s[1]
    BY <2>5, <2>6
  <2> QED
    BY <2>1, <2>3, <2>4, <2>7 DEF y
<1> QED
  BY <1>2, <1>4, <1>5, <1>9, <1>10, <1>11

\* The client reads the reply that was sent, and the description that was.
LEMMA AnswersReadBack ==
  ASSUME job \in Jobs, StringsFit, job.version = VERSION
  PROVE  /\ Len(job.manifest.files) <= MaxEntries =>
              Reply_read(Heard(client, ReplyIs(job.manifest)).body) = ReplyTo(job.manifest)
         /\ PeerInfo_read(Heard(client, Info).body) = InfoOfServer
<1> DEFINE m == job.manifest
           r == ReplyTo(m)
           b == Reply_write(r)
           i == PeerInfo_write(InfoOfServer)
           n == Len(m.files)
<1>1. VERSION \in Nat /\ n \in Nat /\ Window \in Nat
  BY JobTyped, TrailerTyped, CtlAssumption
<1>2. b \in Seq(Nat) /\ i \in Seq(Nat)
  <2>1. Reply_write(ReplyTo(m)) \in Seq(Nat)
    BY <1>1, AnswersWritten
  <2> QED
    BY <2>1, InfoWritten
<1> HIDE DEF b, i
<1>3. Heard(client, ReplyIs(m)).body = b /\ Heard(client, Info).body = i
  <2> DEFINE u == [kind |-> "message", ty |-> MSG_REPLY, body |-> b]
             v == [kind |-> "message", ty |-> MSG_PEERINFO, body |-> i]
  <2>1. MSG_REPLY \in Nat /\ MSG_PEERINFO \in Nat
    BY DEF MSG_REPLY, MSG_PEERINFO
  <2>2. decode_checked(VERSION, encode(VERSION, MSG_REPLY, b)) = u
    BY <1>1, <1>2, <2>1, Decoded
  <2>3. decode_checked(VERSION, encode(VERSION, MSG_PEERINFO, i)) = v
    BY <1>1, <1>2, <2>1, Decoded
  <2>4. Heard(client, ReplyIs(m)) = u /\ Heard(client, Info) = v
    BY <2>2, <2>3 DEF Heard, VersionOf, ReplyIs, Info, b, i
  <2>5. u.body = b /\ v.body = i
    OBVIOUS
  <2> QED
    BY <2>4, <2>5
<1> DEFINE s == StrMod
<1>4. 0 < s /\ 1 < s /\ 2 < s
  BY ProtoAssumption DEF StringsFit
<1> HIDE DEF s
<1>5. n <= MaxEntries => Reply_read(b) = r
  <2> DEFINE have == [k \in 1..n |-> 0]
             inbox == <<3>>
  <2>1. have \in Seq(Nat) /\ Len(have) = n
    BY <1>1
  <2>2. inbox \in Seq(Nat) /\ Len(inbox) = 1
    OBVIOUS
  <2>3. r = [slab_size |-> 1, nslabs |-> Window, pool_addr |-> 6, pool_rkey |-> 5,
             inbox |-> inbox, have |-> have]
    BY DEF ReplyTo, InfoOfServer
  <2> HIDE DEF have, inbox, r
  <2>4. r \in ReplyType /\ r.inbox = inbox /\ r.have = have
    BY <1>1, <2>1, <2>2, <2>3 DEF ReplyType
  <2>5. Len(r.inbox) < StrMod
    BY <1>4, <2>2, <2>4 DEF s
  <2>6. n <= MaxEntries => Reply_read(Reply_write(r)) = r
    BY <2>1, <2>4, <2>5, ReplyReadsBack
  <2> QED
    BY <2>6 DEF b
<1>6. PeerInfo_read(i) = InfoOfServer
  <2> DEFINE x == <<1, 2>>
             y == << >>
             w == <<3>>
  <2>1. /\ x \in Seq(Nat) /\ y \in Seq(Nat) /\ w \in Seq(Nat)
        /\ Len(x) = 2 /\ Len(y) = 0 /\ Len(w) = 1
    OBVIOUS
  <2>2. InfoOfServer = [name |-> x, note |-> y, inbox |-> w]
    BY DEF InfoOfServer
  <2> HIDE DEF x, y, w
  <2> DEFINE p == InfoOfServer
  <2>3. p \in PeerInfoType /\ p.name = x /\ p.note = y /\ p.inbox = w
    BY <2>1, <2>2 DEF PeerInfoType
  <2>4. Len(p.name) < StrMod /\ Len(p.note) < StrMod /\ Len(p.inbox) < StrMod
    BY <1>4, <2>1, <2>3 DEF s
  <2> HIDE DEF p
  <2>5. PeerInfo_read(PeerInfo_write(p)) = p
    BY <2>3, <2>4, PeerInfoReadsBack
  <2> QED
    BY <2>5 DEF p, i
<1> QED
  BY <1>3, <1>5, <1>6 DEF n, m, r

\* The receiver reads the CRCs that were sent.
LEMMA TrailerHeard ==
  ASSUME job \in Jobs, job.version = VERSION, Len(job.manifest.files) <= MaxEntries
  PROVE  Trailer_read(Heard(server, TrailerOfJob).body) = TrailerOf(job.manifest)
<1> DEFINE n == Len(job.manifest.files)
           t == TrailerOf(job.manifest)
           b == Trailer_write(t)
           u == [kind |-> "message", ty |-> MSG_TRAILER, body |-> b]
           crcs == [i \in 1..n |-> i]
<1>1. VERSION \in Nat /\ n \in Nat /\ client # server
  BY JobTyped, TrailerTyped, CtlAssumption
<1>2. b \in Seq(Nat)
  BY <1>1, AnswersWritten
<1>3. crcs \in Seq(Nat) /\ Len(crcs) = n
  BY <1>1
<1>4. t = [crcs |-> crcs]
  BY DEF TrailerOf
<1> HIDE DEF b, crcs, t
<1>5. u.body = b
  OBVIOUS
<1>6. Heard(server, TrailerOfJob) = u
  <2>1. MSG_TRAILER \in Nat
    BY DEF MSG_TRAILER
  <2>2. decode_checked(VERSION, encode(VERSION, MSG_TRAILER, b)) = u
    BY <1>1, <1>2, <2>1, Decoded
  <2> QED
    BY <1>1, <2>2 DEF Heard, VersionOf, TrailerOfJob, b, t
<1>7. t \in TrailerType /\ t.crcs = crcs
  BY <1>3, <1>4 DEF TrailerType
<1>8. Trailer_read(Trailer_write(t)) = t
  BY <1>3, <1>7, TrailerReadsBack
<1> QED
  BY <1>5, <1>6, <1>8 DEF b, t

\* What is read of a message is what was written, over whatever frames, receive slots
\* and rings it went: the server has the client's manifest, the client the server's
\* reply or description, and the receiver the CRCs of the sender, for every manifest
\* whose names are not longer than the two bytes before a string can say (put_str,
\* src/src/proto.rs, casts their length).  The number of its files is not bounded: a
\* manifest that has too many is not answered.
THEOREM MessagesReadBack ==
  ASSUME StringsFit
  PROVE  Spec => []ReadsBack
<1> DEFINE I == QInv /\ Shapes /\ AllUnread /\ FirstCall /\ ClientSaid /\ ServerSaid
<1>1. Init => I
  <2> SUFFICES ASSUME Init PROVE I
    OBVIOUS
  <2>1. QInv /\ Shapes /\ AllUnread /\ FirstCall
    BY InitQueues, InitShapes, InitUnread, InitFits DEF FitInv
  <2> QED
    BY <2>1, InitSaid
<1>2. I /\ [Next]_vars => I'
  <2> SUFFICES ASSUME I, [Next]_vars PROVE I'
    OBVIOUS
  <2>1. QInv'
    BY NextQueues
  <2>2. Shapes' /\ AllUnread' /\ FirstCall'
    BY NextShapes, NextUnread, NextFirst
  <2>3. ClientSaid' /\ ServerSaid'
    BY <2>1, NextSaid
  <2> QED
    BY <2>1, <2>2, <2>3
<1>3. I => ReadsBack
  <2> SUFFICES ASSUME I PROVE ReadsBack
    OBVIOUS
  <2>1. client \in Ends /\ server \in Ends /\ job \in Jobs
    BY CtlAssumption DEF Ends, QInv
  <2>2. AtEnd(client) => rcvd[client] # << >>
    <3>1. pc[client] \in Nat /\ Len(plan[client]) \in Nat
      BY <2>1 DEF QInv, Sides, PlanOf, PlanOk
    <3> QED
      BY <2>1, <3>1 DEF AtEnd, AllUnread, Unread
  <2>3. ASSUME AtEnd(client), job.version = VERSION, job.does = "transfer"
        PROVE  /\ Manifest_read(Heard(server, rcvd[server][1]).body) = job.manifest
               /\ Reply_read(Heard(client, rcvd[client][1]).body) = ReplyTo(job.manifest)
    <3>1. /\ rcvd[server] # << >> /\ Answer(Heard(server, Hello)) # << >>
          /\ rcvd[client][1] = Answer(Heard(server, Hello))[1].msg
      BY <2>2, <2>3, ClientHas
    <3>2. rcvd[server][1] = Hello
      BY <3>1, ServerHas
    <3>3. job.does # "probe"
      BY <2>3
    <3>4. /\ Manifest_read(Heard(server, Hello).body) = job.manifest
          /\ Len(job.manifest.files) <= MaxEntries
          /\ Answer(Heard(server, Hello))[1].msg = ReplyIs(job.manifest)
      BY <2>1, <2>3, <3>1, <3>3, TransferAnswered
    <3>5. Reply_read(Heard(client, ReplyIs(job.manifest)).body) = ReplyTo(job.manifest)
      BY <2>1, <2>3, <3>4, AnswersReadBack
    <3> QED
      BY <3>1, <3>2, <3>4, <3>5
  <2>4. ASSUME AtEnd(client), job.version = VERSION, job.does = "probe"
        PROVE  PeerInfo_read(Heard(client, rcvd[client][1]).body) = InfoOfServer
    <3>1. rcvd[client][1] = Answer(Heard(server, Hello))[1].msg
      BY <2>2, <2>4, ClientHas
    <3>2. Answer(Heard(server, Hello))[1].msg = Info
      <4> DEFINE h == [kind |-> "message", ty |-> MSG_PROBE, body |-> << >>]
                 c == [op |-> "send", msg |-> Info]
      <4>1. Hello = encode(VERSION, MSG_PROBE, << >>)
        BY <2>4 DEF Hello, encode_bare
      <4>2. VERSION \in Nat /\ MSG_PROBE \in Nat /\ << >> \in Seq(Nat) /\ server # client
        BY ProtoAssumption, CtlAssumption DEF MSG_PROBE
      <4>3. Heard(server, Hello) = h
        BY <4>1, <4>2, Decoded DEF Heard, VersionOf
      <4>4. h.kind = "message" /\ h.ty = MSG_PROBE /\ h.kind # "mismatch"
        OBVIOUS
      <4> HIDE DEF h
      <4>5. Answer(h) = Send(Info)
        BY <4>4 DEF Answer, IsMessage, Info
      <4>6. c.msg = Info
        OBVIOUS
      <4> HIDE DEF c
      <4>7. <<c>>[1] = c
        OBVIOUS
      <4> QED
        BY <4>3, <4>5, <4>6, <4>7 DEF Send, c
    <3>3. PeerInfo_read(Heard(client, Info).body) = InfoOfServer
      BY <2>1, <2>4, AnswersReadBack
    <3> QED
      BY <3>1, <3>2, <3>3
  <2>5. ASSUME Len(rcvd[server]) = 3
        PROVE  Trailer_read(Heard(server, rcvd[server][3]).body) = TrailerOf(job.manifest)
    <3>1. /\ rcvd[server][3] = TrailerOfJob /\ job.version = VERSION /\ job.does # "probe"
          /\ Len(plan[server]) >= 2
      BY <2>5, ServerHas
    <3>2. rcvd[server] # << >> /\ Answers(plan[server], rcvd[server][1])
      BY <3>1 DEF ServerSaid
    <3>3. Answer(Heard(server, Hello)) # << >>
      BY <3>1, <3>2, ServerHas DEF Answers
    <3>4. Len(job.manifest.files) <= MaxEntries
      BY <2>1, <3>1, <3>3, TransferAnswered
    <3> QED
      BY <2>1, <3>1, <3>4, TrailerHeard
  <2> QED
    BY <2>3, <2>4, <2>5 DEF ReadsBack
<1> QED
  BY <1>1, <1>2, <1>3, PTL DEF Spec

=============================================================================
