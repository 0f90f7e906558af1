--------------------------- MODULE Command_proofs ---------------------------
(***************************************************************************)
(* What holds of the commands discover and send for every value of the      *)
(* constants: the checksum is CRC32C, a scan finds what answers, a walk     *)
(* lists each file once, and the names of a list land apart.                *)
(***************************************************************************)
EXTENDS Command, Counting, SequenceTheorems, FiniteSetTheorems

-----------------------------------------------------------------------------
(* The checksum.                                                            *)

\* The bits of what is made of registers.
LEMMA XorBits ==
  ASSUME NEW a \in Register, NEW b \in Register
  PROVE  Xor(a, b) \in Register /\ \A i : i \in Xor(a, b) <=> ~(i \in a <=> i \in b)
<1>1. \A i : i \in Xor(a, b) <=> ~(i \in a <=> i \in b)
  BY DEF Xor
<1> QED
  BY <1>1 DEF Register

\* The bits of a register that is shifted right.
LEMMA ShrBits ==
  ASSUME NEW c \in Register, NEW n \in Nat
  PROVE  Shr(c, n) \in Register /\ \A i : i \in Shr(c, n) <=> i \in Bit /\ i + n \in c
BY DEF Shr, Register

\* The bits of a byte.
LEMMA ByteBits ==
  ASSUME NEW b \in 0..255
  PROVE  Byte[b] \in Register /\ Byte[b] \subseteq 0..7
<1>1. Byte[b] \subseteq 0..7
  BY DEF Byte
<1> QED
  BY <1>1 DEF Register, Bit

\* The constants are registers.
LEMMA Constants == POLY \in Register /\ Ones \in Register
BY DEF POLY, Register, Bit, Ones

\* Equal bits are equal registers.
LEMMA SameBits ==
  ASSUME NEW a \in Register, NEW b \in Register, \A i \in Bit : i \in a <=> i \in b
  PROVE  a = b
BY DEF Register

\* One bit of the division.
LEMMA Divided ==
  ASSUME NEW c \in Register
  PROVE  /\ Divide[c] \in Register
         /\ \A i \in Bit : i \in Divide[c] <=> ~(i + 1 \in c <=> 0 \in c /\ i \in POLY)
<1> DEFINE a == Shr(c, 1)
           x == Xor(a, POLY)
<1>1. a \in Register /\ \A i \in Bit : i \in a <=> i + 1 \in c
  BY ShrBits
<1>2. POLY \in Register
  BY Constants
<1>3. x \in Register /\ \A i \in Bit : i \in x <=> ~(i \in a <=> i \in POLY)
  BY <1>1, <1>2, XorBits
<1>4. Divide[c] = IF 0 \in c THEN x ELSE a
  BY DEF Divide
<1> HIDE DEF a, x
<1>5. CASE 0 \in c
  <2>1. Divide[c] = x
    BY <1>4, <1>5
  <2> QED
    BY <1>1, <1>3, <1>5, <2>1
<1>6. CASE 0 \notin c
  <2>1. Divide[c] = a
    BY <1>4, <1>6
  <2> QED
    BY <1>1, <1>6, <2>1
<1> QED
  BY <1>5, <1>6

\* f is the register before and after each of n divisions.
Divisions(f, c, n) ==
  /\ f \in [0..n -> Register] /\ f[0] = c
  /\ \A k \in 0..n - 1 : f[k + 1] = Divide[f[k]]

\* Eight divisions.
LEMMA EightDivisions ==
  ASSUME NEW c \in Register
  PROVE  \E f : Divisions(f, c, 8) /\ DivideByte(c) = f[8]
<1> DEFINE g == [k \in 1..8 |-> [r \in Register |-> Divide[r]]]
           Is(f) == f = [k \in 0..8 |-> IF k = 0 THEN c ELSE Divide[f[k - 1]]]
           bits == CHOOSE f : Is(f)
<1>1. g \in [1..8 -> [Register -> Register]] /\ \A k \in 1..8 : \A r \in Register : g[k][r] = Divide[r]
  BY Divided
<1> HIDE DEF g
<1>2. PICK f \in [0..8 -> Register] : Follows(f, 8, c, g)
  <2>1. 8 \in Nat
    OBVIOUS
  <2> QED
    BY <1>1, <2>1, Recursion
<1>3. f[0] = c /\ \A k \in 1..8 : f[k] = Divide[f[k - 1]]
  <2>1. \A k \in 1..8 : k - 1 \in 0..8 /\ f[k - 1] \in Register
    BY <1>2
  <2> QED
    BY <1>1, <1>2, <2>1 DEF Follows
<1>4. Is(f)
  <2>1. \A k \in 0..8 : k = 0 \/ k \in 1..8
    OBVIOUS
  <2> QED
    BY <1>2, <1>3, <2>1
<1>5. Is(bits)
  BY <1>4
<1>6. DivideByte(c) = bits[8]
  BY DEF DivideByte
<1> HIDE DEF bits
<1>7. bits \in [0..8 -> Register] /\ bits[0] = c /\ \A k \in 0..7 : bits[k + 1] = Divide[bits[k]]
  <2> DEFINE T == {k \in 0..8 : bits[k] = f[k]}
  <2>1. 0 \in T
    BY <1>3, <1>5
  <2>2. ASSUME NEW k \in 0..7, k \in T PROVE k + 1 \in T
    <3>1. k + 1 \in 0..8 /\ k + 1 # 0 /\ (k + 1) - 1 = k /\ k + 1 \in 1..8
      OBVIOUS
    <3>2. bits[k + 1] = Divide[bits[k]] /\ f[k + 1] = Divide[f[k]]
      BY <1>3, <1>5, <3>1
    <3> QED
      BY <2>2, <3>1, <3>2
  <2> HIDE DEF T
  <2>3. 0..8 \subseteq T
    <3>1. 8 \in Nat /\ 8 - 1 = 7
      OBVIOUS
    <3> QED
      BY <2>1, <2>2, <3>1, UpTo
  <2>4. \A k \in 0..8 : bits[k] = f[k]
    BY <2>3 DEF T
  <2>5. \A k \in 0..7 : k + 1 \in 1..8 /\ k + 1 \in 0..8 /\ k \in 0..8 /\ (k + 1) - 1 = k
    OBVIOUS
  <2>6. bits[0] = c /\ \A k \in 0..7 : bits[k + 1] = Divide[bits[k]]
    BY <1>3, <2>4, <2>5
  <2>7. DOMAIN bits = 0..8
    BY <1>5
  <2> QED
    BY <1>2, <1>5, <2>4, <2>6, <2>7
<1> QED
  BY <1>6, <1>7 DEF Divisions

\* What DivideByte makes of a register is one.
LEMMA DividedByte == \A c \in Register : DivideByte(c) \in Register
<1> SUFFICES ASSUME NEW c \in Register PROVE DivideByte(c) \in Register
  OBVIOUS
<1>1. PICK f : Divisions(f, c, 8) /\ DivideByte(c) = f[8]
  BY EightDivisions
<1>2. f[8] \in Register
  BY <1>1 DEF Divisions
<1> QED
  BY <1>1, <1>2

\* The low byte decides what is subtracted; the rest only moves: what a table of
\* low bytes is good for.
LEMMA LowByteDecides ==
  ASSUME NEW x \in Register
  PROVE  /\ x \cap (0..7) \in Register
         /\ DivideByte(x) = Xor(DivideByte(x \cap (0..7)), Shr(x, 8))
<1> DEFINE low == x \cap (0..7)
<1>1. low \in Register /\ \A i : i \in low <=> i \in x /\ i \in 0..7
  BY DEF Register
<1> HIDE DEF low
<1>2. PICK f : Divisions(f, x, 8) /\ DivideByte(x) = f[8]
  BY EightDivisions
<1>3. PICK h : Divisions(h, low, 8) /\ DivideByte(low) = h[8]
  BY <1>1, EightDivisions
<1>4. /\ \A j \in 0..8 : f[j] \in Register /\ h[j] \in Register
      /\ f[0] = x /\ h[0] = low
      /\ \A j \in 0..7 : f[j + 1] = Divide[f[j]] /\ h[j + 1] = Divide[h[j]]
  <2>1. 8 - 1 = 7
    OBVIOUS
  <2> QED
    BY <1>2, <1>3, <2>1 DEF Divisions
<1> DEFINE T == {j \in 0..8 : \A i \in Bit : i \in f[j] <=> ~(i \in h[j] <=> (i + j \in x /\ i + j > 7))}
<1>5. 0 \in T
  <2>1. \A i \in Bit : i + 0 = i /\ (i \in 0..7 <=> ~(i > 7))
    BY DEF Bit
  <2> QED
    BY <1>1, <1>4, <2>1
<1>6. ASSUME NEW j \in 0..7, j \in T PROVE j + 1 \in T
  <2>1. f[j] \in Register /\ h[j] \in Register /\ 0 \in Bit /\ j + 1 \in 0..8
    BY <1>4 DEF Bit
  <2>2. 0 \in f[j] <=> 0 \in h[j]
    <3>1. ~(0 + j > 7)
      OBVIOUS
    <3> QED
      BY <1>6, <2>1, <3>1
  <2>3. ASSUME NEW i \in Bit
        PROVE  i + 1 \in f[j] <=> ~(i + 1 \in h[j] <=> (i + (j + 1) \in x /\ i + (j + 1) > 7))
    <3>1. i \in 0..31 /\ (i + 1) + j = i + (j + 1)
      BY DEF Bit
    <3>2. CASE i + 1 \in Bit
      BY <1>6, <3>1, <3>2
    <3>3. CASE i + 1 \notin Bit
      <4>1. i = 31 /\ i + (j + 1) \notin Bit
        BY <3>1, <3>3 DEF Bit
      <4>2. i + 1 \notin f[j] /\ i + 1 \notin h[j] /\ i + (j + 1) \notin x
        BY <2>1, <3>3, <4>1 DEF Register
      <4> QED
        BY <4>2
    <3> QED
      BY <3>2, <3>3
  <2>4. \A i \in Bit : /\ i \in f[j + 1] <=> ~(i + 1 \in f[j] <=> 0 \in f[j] /\ i \in POLY)
                       /\ i \in h[j + 1] <=> ~(i + 1 \in h[j] <=> 0 \in h[j] /\ i \in POLY)
    BY <1>4, <2>1, Divided
  <2>5. \A i \in Bit : i \in f[j + 1] <=> ~(i \in h[j + 1] <=> (i + (j + 1) \in x /\ i + (j + 1) > 7))
    BY Zenon, <2>2, <2>3, <2>4
  <2> QED
    BY <2>1, <2>5
<1> HIDE DEF T
<1>7. 8 \in T
  <2>1. 8 \in Nat /\ 8 - 1 = 7 /\ 8 \in 0..8
    OBVIOUS
  <2>2. 0..8 \subseteq T
    BY <1>5, <1>6, <2>1, UpTo
  <2> QED
    BY <2>1, <2>2
<1>8. f[8] = Xor(h[8], Shr(x, 8))
  <2>1. f[8] \in Register /\ h[8] \in Register
    BY <1>4
  <2>2. Shr(x, 8) \in Register /\ \A i \in Bit : i \in Shr(x, 8) <=> i + 8 \in x
    BY ShrBits
  <2>3. Xor(h[8], Shr(x, 8)) \in Register
        /\ \A i \in Bit : i \in Xor(h[8], Shr(x, 8)) <=> ~(i \in h[8] <=> i \in Shr(x, 8))
    BY <2>1, <2>2, XorBits
  <2>4. \A i \in Bit : i + 8 > 7
    BY DEF Bit
  <2>5. \A i \in Bit : i \in f[8] <=> ~(i \in h[8] <=> i + 8 \in x)
    BY Zenon, <1>7, <2>4 DEF T
  <2> QED
    BY <2>1, <2>2, <2>3, <2>5, SameBits
<1> QED
  BY <1>1, <1>2, <1>3, <1>8 DEF low

\* The table gives what the instruction gives, for every register and byte.
LEMMA TableIsInstruction ==
  /\ mm_crc32_u8 \in [Register \X (0..255) -> Register]
  /\ Soft = mm_crc32_u8
<1>1. ASSUME NEW c \in Register, NEW b \in 0..255
      PROVE  /\ DivideByte(Xor(c, Byte[b])) \in Register
             /\ Xor(table[Xor(c, Byte[b]) \cap (0..7)], Shr(c, 8)) = DivideByte(Xor(c, Byte[b]))
  <2> DEFINE x == Xor(c, Byte[b])
  <2>1. Byte[b] \in Register /\ Byte[b] \subseteq 0..7
    BY ByteBits
  <2>2. x \in Register /\ \A i : i \in x <=> ~(i \in c <=> i \in Byte[b])
    BY <2>1, XorBits
  <2> HIDE DEF x
  <2>3. table[x \cap (0..7)] = DivideByte(x \cap (0..7))
    <3>1. x \cap (0..7) \in SUBSET (0..7)
      OBVIOUS
    <3> QED
      BY <3>1 DEF table
  <2>4. Shr(x, 8) = Shr(c, 8)
    <3>1. /\ Shr(x, 8) \in Register /\ \A i \in Bit : i \in Shr(x, 8) <=> i + 8 \in x
          /\ Shr(c, 8) \in Register /\ \A i \in Bit : i \in Shr(c, 8) <=> i + 8 \in c
      BY <2>2, ShrBits
    <3>2. \A i \in Bit : i + 8 \notin Byte[b]
      BY <2>1 DEF Bit
    <3> QED
      BY <2>2, <3>1, <3>2, SameBits
  <2>5. DivideByte(x) = Xor(DivideByte(x \cap (0..7)), Shr(x, 8)) /\ DivideByte(x) \in Register
    BY <2>2, LowByteDecides, DividedByte
  <2> QED
    BY <2>3, <2>4, <2>5 DEF x
<1>2. mm_crc32_u8 = [cb \in Register \X (0..255) |-> DivideByte(Xor(cb[1], Byte[cb[2]]))]
  BY DEF mm_crc32_u8
<1>3. Soft = [cb \in Register \X (0..255) |-> Xor(table[Xor(cb[1], Byte[cb[2]]) \cap (0..7)], Shr(cb[1], 8))]
  BY DEF Soft
<1>4. \A cb \in Register \X (0..255) : cb[1] \in Register /\ cb[2] \in 0..255
  OBVIOUS
<1>5. \A cb \in Register \X (0..255) :
        /\ DivideByte(Xor(cb[1], Byte[cb[2]])) \in Register
        /\ Xor(table[Xor(cb[1], Byte[cb[2]]) \cap (0..7)], Shr(cb[1], 8))
             = DivideByte(Xor(cb[1], Byte[cb[2]]))
  BY <1>1, <1>4
<1> QED
  BY <1>2, <1>3, <1>5

\* The elements of a sequence.
LEMMA InSeq ==
  ASSUME NEW S, NEW w \in Seq(S)
  PROVE  Len(w) \in Nat /\ \A k \in 1..Len(w) : w[k] \in S
OBVIOUS

\* r is the register before and after each byte of w.
Run(r, c, w) ==
  /\ r \in [0..Len(w) -> Register] /\ r[0] = c
  /\ \A k \in 1..Len(w) : r[k] = mm_crc32_u8[<<r[k - 1], w[k]>>]

Loop8(c, w) == Loop(mm_crc32_u8, c, w)

\* A loop over bytes runs through the registers, and ends with the last.
LEMMA LoopRuns ==
  ASSUME NEW c \in Register, NEW w \in Seq(0..255)
  PROVE  /\ Loop8(c, w) \in Register
         /\ \E r : Run(r, c, w)
         /\ \A r : Run(r, c, w) => Loop8(c, w) = r[Len(w)]
<1> DEFINE n == Len(w)
           step == mm_crc32_u8
           g == [k \in 1..n |-> [r \in Register |-> step[<<r, w[k]>>]]]
           Is(f) == f = [k \in 0..n |-> IF k = 0 THEN c ELSE step[<<f[k - 1], w[k]>>]]
           reg == CHOOSE f : Is(f)
<1>1. n \in Nat /\ \A k \in 1..n : w[k] \in 0..255
  BY InSeq
<1>2. step \in [Register \X (0..255) -> Register]
  BY TableIsInstruction
<1> HIDE DEF step, n
<1>3. \A k \in 1..n : \A r \in Register : step[<<r, w[k]>>] \in Register
  BY <1>1, <1>2
<1>4. g \in [1..n -> [Register -> Register]] /\ \A k \in 1..n : \A r \in Register : g[k][r] = step[<<r, w[k]>>]
  BY <1>3
<1> HIDE DEF g
<1>5. PICK f \in [0..n -> Register] : Follows(f, n, c, g)
  BY <1>1, <1>4, Recursion
<1>6. f[0] = c /\ \A k \in 1..n : f[k] = step[<<f[k - 1], w[k]>>]
  <2>1. \A k \in 1..n : k - 1 \in 0..n /\ f[k - 1] \in Register
    BY <1>1, <1>5
  <2> QED
    BY <1>4, <1>5, <2>1 DEF Follows
<1>7. Is(f)
  <2>1. \A k \in 0..n : k = 0 \/ k \in 1..n
    BY <1>1
  <2> QED
    BY <1>5, <1>6, <2>1
<1>8. Is(reg)
  BY <1>7
<1>9. Loop8(c, w) = reg[n]
  BY DEF Loop8, Loop, step, n
<1> HIDE DEF reg
<1>10. ASSUME NEW r, r[0] = c, \A k \in 1..n : r[k] = step[<<r[k - 1], w[k]>>]
       PROVE  \A k \in 0..n : r[k] = reg[k]
  <2> DEFINE T == {k \in 0..n : r[k] = reg[k]}
  <2>1. 0 \in T
    BY <1>1, <1>8, <1>10
  <2>2. ASSUME NEW k \in 0..n - 1, k \in T PROVE k + 1 \in T
    <3>1. k + 1 \in 1..n /\ k + 1 \in 0..n /\ k + 1 # 0 /\ (k + 1) - 1 = k
      BY <1>1
    <3>2. r[k + 1] = step[<<r[k], w[k + 1]>>] /\ reg[k + 1] = step[<<reg[k], w[k + 1]>>]
      BY <1>8, <1>10, <3>1
    <3> QED
      BY <2>2, <3>1, <3>2
  <2> HIDE DEF T
  <2>3. 0..n \subseteq T
    BY <1>1, <2>1, <2>2, UpTo
  <2> QED
    BY <2>3 DEF T
<1>11. n \in 0..n
  BY <1>1
<1>12. \A r : Run(r, c, w) => r[n] = reg[n]
  BY <1>10, <1>11 DEF Run, n, step
<1>13. Run(f, c, w)
  BY <1>5, <1>6 DEF Run, n, step
<1>14. reg[n] \in Register
  BY <1>5, <1>11, <1>12, <1>13
<1> QED
  BY <1>9, <1>12, <1>13, <1>14 DEF n

\* Going on with the register of the first part gives the register of the whole.
LEMMA LoopGoesOn ==
  ASSUME NEW c \in Register, NEW a \in Seq(0..255), NEW b \in Seq(0..255)
  PROVE  Loop8(Loop8(c, a), b) = Loop8(c, a \o b)
<1> DEFINE l == Len(a)
           n == Len(b)
           w == a \o b
           d == Loop8(c, a)
<1>1. /\ l \in Nat /\ n \in Nat /\ w \in Seq(0..255) /\ Len(w) = l + n
      /\ \A k \in 1..l : w[k] = a[k]
      /\ \A k \in 1..n : w[l + k] = b[k]
  OBVIOUS
<1> HIDE DEF l, n, w, d
<1>2. PICK r : Run(r, c, w) /\ Loop8(c, w) = r[l + n]
  <2>1. w \in Seq(0..255) /\ Len(w) = l + n
    BY <1>1
  <2>2. PICK r : Run(r, c, w)
    BY <2>1, LoopRuns
  <2>3. Loop8(c, w) = r[l + n]
    BY <2>1, <2>2, LoopRuns
  <2> QED
    BY <2>2, <2>3
<1>3. PICK p : Run(p, c, a) /\ d = p[l] /\ d \in Register
  BY LoopRuns DEF d, l
<1>4. PICK q : Run(q, d, b) /\ Loop8(d, b) = q[n]
  BY <1>3, LoopRuns DEF n
<1>5. /\ r[0] = c /\ \A k \in 1..l + n : r[k] = mm_crc32_u8[<<r[k - 1], w[k]>>]
      /\ p[0] = c /\ \A k \in 1..l : p[k] = mm_crc32_u8[<<p[k - 1], a[k]>>]
      /\ q[0] = d /\ \A k \in 1..n : q[k] = mm_crc32_u8[<<q[k - 1], b[k]>>]
  BY <1>1, <1>2, <1>3, <1>4 DEF Run, l, n
<1>6. r[l] = p[l]
  <2> DEFINE T == {k \in 0..l : r[k] = p[k]}
  <2>1. 0 \in T
    BY <1>1, <1>5
  <2>2. ASSUME NEW k \in 0..l - 1, k \in T PROVE k + 1 \in T
    <3>1. k + 1 \in 1..l /\ k + 1 \in 0..l /\ k + 1 \in 1..l + n /\ (k + 1) - 1 = k
      BY <1>1
    <3>2. r[k + 1] = mm_crc32_u8[<<r[k], w[k + 1]>>] /\ p[k + 1] = mm_crc32_u8[<<p[k], a[k + 1]>>]
      BY <1>5, <3>1
    <3> QED
      BY <1>1, <2>2, <3>1, <3>2
  <2> HIDE DEF T
  <2>3. 0..l \subseteq T
    BY <1>1, <2>1, <2>2, UpTo
  <2>4. l \in 0..l
    BY <1>1
  <2> QED
    BY <2>3, <2>4 DEF T
<1>7. r[l + n] = q[n]
  <2> DEFINE T == {k \in 0..n : r[l + k] = q[k]}
  <2>1. 0 \in T
    <3>1. l + 0 = l /\ 0 \in 0..n
      BY <1>1
    <3> QED
      BY <1>3, <1>5, <1>6, <3>1
  <2>2. ASSUME NEW k \in 0..n - 1, k \in T PROVE k + 1 \in T
    <3>1. /\ k + 1 \in 1..n /\ k + 1 \in 0..n /\ l + (k + 1) \in 1..l + n /\ (k + 1) - 1 = k
          /\ (l + (k + 1)) - 1 = l + k
      BY <1>1
    <3>2. /\ r[l + (k + 1)] = mm_crc32_u8[<<r[l + k], w[l + (k + 1)]>>]
          /\ q[k + 1] = mm_crc32_u8[<<q[k], b[k + 1]>>]
      BY <1>5, <3>1
    <3> QED
      BY <1>1, <2>2, <3>1, <3>2
  <2> HIDE DEF T
  <2>3. 0..n \subseteq T
    BY <1>1, <2>1, <2>2, UpTo
  <2>4. n \in 0..n
    BY <1>1
  <2> QED
    BY <2>3, <2>4 DEF T
<1> QED
  BY <1>2, <1>4, <1>7 DEF d, w

\* A sequence is cut at i and put together again.
LEMMA CutAt ==
  ASSUME NEW S, NEW w \in Seq(S), NEW i \in 0..Len(w), NEW k \in i..Len(w)
  PROVE  /\ SubSeq(w, 1, i) \in Seq(S) /\ SubSeq(w, i + 1, k) \in Seq(S) /\ SubSeq(w, 1, k) \in Seq(S)
         /\ Len(SubSeq(w, 1, i)) = i /\ Len(SubSeq(w, i + 1, k)) = k - i
         /\ \A j \in 1..k - i : SubSeq(w, i + 1, k)[j] = w[i + j]
         /\ SubSeq(w, 1, k) = SubSeq(w, 1, i) \o SubSeq(w, i + 1, k)
<1>1. Len(w) \in Nat /\ i \in Nat /\ k \in Nat /\ i <= k /\ k <= Len(w) /\ \A j \in 1..Len(w) : w[j] \in S
  BY InSeq
<1>2. SubSeq(w, 1, i) \in Seq(S) /\ Len(SubSeq(w, 1, i)) = i
  <2>1. 1 \in Int /\ i \in Int /\ \A j \in 1..i : w[j] \in S
    BY <1>1
  <2>2. Len(SubSeq(w, 1, i)) = IF 1 <= i THEN i - 1 + 1 ELSE 0
    BY <2>1, SubSeqProperties
  <2> QED
    BY <1>1, <2>1, <2>2, SubSeqProperties
<1>3. SubSeq(w, 1, k) \in Seq(S)
  <2>1. 1 \in Int /\ k \in Int /\ \A j \in 1..k : w[j] \in S
    BY <1>1
  <2> QED
    BY <2>1, SubSeqProperties
<1>4. /\ SubSeq(w, i + 1, k) \in Seq(S) /\ Len(SubSeq(w, i + 1, k)) = k - i
      /\ \A j \in 1..k - i : SubSeq(w, i + 1, k)[j] = w[i + j]
  <2>1. i + 1 \in Int /\ k \in Int /\ \A j \in i + 1..k : w[j] \in S
    BY <1>1
  <2>2. Len(SubSeq(w, i + 1, k)) = IF i + 1 <= k THEN k - (i + 1) + 1 ELSE 0
    BY <2>1, SubSeqProperties
  <2>3. \A j \in 1..k - (i + 1) + 1 : SubSeq(w, i + 1, k)[j] = w[(i + 1) + j - 1]
    BY <2>1, SubSeqProperties
  <2>4. k - (i + 1) + 1 = k - i /\ \A j \in 1..k - i : (i + 1) + j - 1 = i + j
    BY <1>1
  <2> QED
    BY <1>1, <2>1, <2>2, <2>3, <2>4, SubSeqProperties
<1>5. SubSeq(w, 1, k) = SubSeq(w, 1, i) \o SubSeq(w, i + 1, k)
  <2>1. 1 \in 1..Len(w) + 1 /\ i \in 1 - 1..Len(w)
    BY <1>1
  <2> QED
    BY <2>1, ConcatAdjacentSubSeq
<1> QED
  BY <1>2, <1>3, <1>4, <1>5

\* The same of bytes.
LEMMA CutBytes ==
  ASSUME NEW w \in Seq(0..255), NEW i \in 0..Len(w), NEW k \in i..Len(w)
  PROVE  /\ SubSeq(w, 1, i) \in Seq(0..255) /\ SubSeq(w, i + 1, k) \in Seq(0..255)
         /\ SubSeq(w, 1, k) = SubSeq(w, 1, i) \o SubSeq(w, i + 1, k)
<1> DEFINE S == 0..255
<1>1. w \in Seq(S)
  OBVIOUS
<1> HIDE DEF S
<1>2. /\ SubSeq(w, 1, i) \in Seq(S) /\ SubSeq(w, i + 1, k) \in Seq(S)
      /\ SubSeq(w, 1, k) = SubSeq(w, 1, i) \o SubSeq(w, i + 1, k)
  BY <1>1, CutAt
<1> QED
  BY <1>2 DEF S

\* The instruction on eight bytes at a time, and on the rest one at a time, is the
\* loop over them all.
LEMMA EightsAreLoop ==
  ASSUME NEW c \in Register, NEW w \in Seq(0..255)
  PROVE  update_sse42(c, w) = Loop8(c, w)
<1> DEFINE n == Len(w) \div 8
           To(k) == Loop8(c, SubSeq(w, 1, 8 * k))
           Piece(k) == SubSeq(w, 8 * k - 7, 8 * k)
           Is(f) == f = [k \in 0..n |-> IF k = 0 THEN c ELSE mm_crc32_u64(f[k - 1], Piece(k))]
           reg == CHOOSE f : Is(f)
           f == [k \in 0..n |-> To(k)]
<1>1. n \in Nat /\ Len(w) \in Nat /\ 8 * n <= Len(w) /\ \A k \in 0..n : 8 * k \in 0..Len(w)
  OBVIOUS
<1> HIDE DEF n
<1>2. \A k \in 0..n : SubSeq(w, 1, 8 * k) \in Seq(0..255) /\ To(k) \in Register
  <2> SUFFICES ASSUME NEW k \in 0..n
               PROVE  SubSeq(w, 1, 8 * k) \in Seq(0..255) /\ To(k) \in Register
    OBVIOUS
  <2>1. 8 * k \in 0..Len(w) /\ 8 * k \in 8 * k..Len(w)
    BY <1>1
  <2>2. SubSeq(w, 1, 8 * k) \in Seq(0..255)
    BY <2>1, CutBytes
  <2> QED
    BY <2>2, LoopRuns
<1>3. To(0) = c
  <2> DEFINE e == SubSeq(w, 1, 8 * 0)
  <2>1. e \in Seq(0..255) /\ Len(e) = 0
    <3>1. 0 \in 0..Len(w) /\ 0 \in 0..Len(w) /\ 8 * 0 = 0
      BY <1>1
    <3> QED
      BY <3>1, CutAt
  <2> HIDE DEF e
  <2>2. PICK r : Run(r, c, e)
    BY <2>1, LoopRuns
  <2>3. Loop8(c, e) = r[0]
    BY <2>1, <2>2, LoopRuns
  <2> QED
    BY <2>2, <2>3 DEF Run, e
<1>4. ASSUME NEW k \in 1..n PROVE To(k) = mm_crc32_u64(To(k - 1), Piece(k))
  <2> DEFINE l == 8 * (k - 1)
             m == 8 * k
             a == SubSeq(w, 1, l)
             b == SubSeq(w, l + 1, m)
  <2>1. l \in 0..Len(w) /\ m \in l..Len(w) /\ l + 1 = 8 * k - 7
    BY <1>1
  <2> HIDE DEF l, m
  <2>4. a \in Seq(0..255) /\ b \in Seq(0..255) /\ SubSeq(w, 1, m) = a \o b
    BY <2>1, CutBytes
  <2>2. a \in Seq(0..255) /\ Piece(k) \in Seq(0..255) /\ SubSeq(w, 1, 8 * k) = a \o Piece(k)
    BY <2>1, <2>4 DEF m
  <2> HIDE DEF a
  <2>3. Loop8(Loop8(c, a), Piece(k)) = Loop8(c, a \o Piece(k))
    BY <2>2, LoopGoesOn
  <2> QED
    BY <2>2, <2>3 DEF a, l, mm_crc32_u64, Loop8
<1> HIDE DEF To, Piece
<1>5. Is(f)
  <2>1. \A k \in 0..n : k = 0 \/ (k \in 1..n /\ k - 1 \in 0..n)
    BY <1>1
  <2> QED
    BY <1>3, <1>4, <2>1
<1>6. Is(reg)
  BY <1>5
<1>7. Eights(c, w) = reg[n]
  BY DEF Eights, n, Piece
<1> HIDE DEF reg
<1>8. reg[n] = To(n)
  <2> DEFINE T == {k \in 0..n : reg[k] = To(k)}
  <2>1. 0 \in T
    BY <1>1, <1>3, <1>6
  <2>2. ASSUME NEW k \in 0..n - 1, k \in T PROVE k + 1 \in T
    <3>1. k + 1 \in 1..n /\ k + 1 \in 0..n /\ k + 1 # 0 /\ (k + 1) - 1 = k
      BY <1>1
    <3>2. reg[k + 1] = mm_crc32_u64(reg[k], Piece(k + 1)) /\ To(k + 1) = mm_crc32_u64(To(k), Piece(k + 1))
      BY <1>4, <1>6, <3>1
    <3> QED
      BY <2>2, <3>1, <3>2
  <2> HIDE DEF T
  <2>3. 0..n \subseteq T
    BY <1>1, <2>1, <2>2, UpTo
  <2>4. n \in 0..n
    BY <1>1
  <2> QED
    BY <2>3, <2>4 DEF T
<1>9. Loop8(To(n), Tail8(w)) = Loop8(c, w)
  <2> DEFINE m == 8 * n
             a == SubSeq(w, 1, m)
             b == SubSeq(w, m + 1, Len(w))
  <2>1. m \in 0..Len(w) /\ Len(w) \in m..Len(w)
    BY <1>1
  <2> HIDE DEF m
  <2>2. a \in Seq(0..255) /\ b \in Seq(0..255) /\ SubSeq(w, 1, Len(w)) = a \o b
    BY <2>1, CutBytes
  <2>3. w = a \o b
    BY <2>2, SubSeqFull
  <2> HIDE DEF a, b
  <2>4. Loop8(Loop8(c, a), b) = Loop8(c, a \o b)
    BY <2>2, LoopGoesOn
  <2> QED
    BY <2>3, <2>4 DEF a, b, m, To, Tail8, n
<1> QED
  BY <1>7, <1>8, <1>9 DEF update_sse42, Loop8

\* A machine makes the same register with the instruction and without.
LEMMA MachinesAgree ==
  ASSUME NEW h \in BOOLEAN, NEW c \in Register, NEW w \in Seq(0..255)
  PROVE  update(h, c, w) = Loop8(c, w)
<1>1. update_soft(c, w) = Loop8(c, w)
  BY TableIsInstruction DEF update_soft, Loop8
<1> QED
  BY <1>1, EightsAreLoop DEF update

\* The bits of a message, one at each place.
Ones8(w, i) == i \in 1..8 * Len(w) /\ (i - 1) % 8 \in Byte[w[(i - 1) \div 8 + 1]]

\* What long division has left after k steps: at the places after k the bits of a
\* register c, the lowest first, and the message from place b on.
LeftIs(m, w, c, k, b) ==
  \A i \in k + 1..8 * Len(w) + 32 : i \in m <=> ~(i - k - 1 \in c <=> i > b /\ Ones8(w, i))

\* One step of the long division does to its places what one division does to a register.
LEMMA StepDivides ==
  ASSUME NEW w \in Seq(0..255), NEW c \in Register, NEW k \in 0..8 * Len(w) - 1,
         NEW b \in k + 1..8 * Len(w), NEW m, LeftIs(m, w, c, k, b)
  PROVE  LeftIs(Subtract(m, k + 1, 8 * Len(w) + 32), w, Divide[c], k + 1, b)
<1> DEFINE n == 8 * Len(w) + 32
<1>1. n \in Nat /\ k + 1 \in k + 1..n /\ Len(w) \in Nat /\ b \in Nat
  OBVIOUS
<1>2. k + 1 \in m <=> 0 \in c
  <2>1. (k + 1) - k - 1 = 0 /\ ~(k + 1 > b)
    BY <1>1
  <2> QED
    BY <1>1, <2>1 DEF LeftIs
<1> SUFFICES ASSUME NEW i \in (k + 1) + 1..n
             PROVE  i \in Subtract(m, k + 1, n) <=> ~(i - (k + 1) - 1 \in Divide[c] <=> i > b /\ Ones8(w, i))
  BY DEF LeftIs
<1> DEFINE j == i - (k + 1) - 1
<1>3. i \in Nat /\ i \in k + 1..n /\ i \in 1..n /\ j \in Nat /\ i - k - 1 = j + 1 /\ i - (k + 1) = j + 1
  BY <1>1
<1>4. i \in m <=> ~(j + 1 \in c <=> i > b /\ Ones8(w, i))
  BY <1>3 DEF LeftIs
<1>5. i - (k + 1) \in Divisor <=> j \in POLY
  <2>1. POLY \subseteq Int
    BY DEF POLY
  <2>2. j + 1 \in Divisor <=> j \in POLY
    BY <1>3, <2>1 DEF Divisor
  <2> QED
    BY <1>3, <2>2
<1>6. j \in Divide[c] <=> ~(j + 1 \in c <=> 0 \in c /\ j \in POLY)
  <2>1. CASE j \in Bit
    BY <2>1, Divided
  <2>2. CASE j \notin Bit
    <3>1. j + 1 \notin Bit
      BY <1>3, <2>2 DEF Bit
    <3> QED
      BY <2>2, <3>1, Divided, Constants DEF Register
  <2> QED
    BY <2>1, <2>2
<1> HIDE DEF j, n
<1>7. CASE k + 1 \in m
  <2>1. Subtract(m, k + 1, n) = {x \in 1..n : (x \in m) # (x - (k + 1) \in Divisor)}
    BY <1>7 DEF Subtract
  <2>2. i \in Subtract(m, k + 1, n) <=> ~(i \in m <=> i - (k + 1) \in Divisor)
    BY <1>3, <2>1
  <2> QED
    BY <1>2, <1>4, <1>5, <1>6, <1>7, <2>2 DEF j
<1>8. CASE k + 1 \notin m
  <2>1. Subtract(m, k + 1, n) = m
    BY <1>8 DEF Subtract
  <2> QED
    BY <1>2, <1>4, <1>6, <1>8, <2>1 DEF j
<1> QED
  BY <1>7, <1>8

\* The byte and the bit of a place.
LEMMA ByteAndBit ==
  ASSUME NEW l \in Nat, NEW q \in 0..7
  PROVE  (8 * l + q) \div 8 = l /\ (8 * l + q) % 8 = q
<1> DEFINE d == (8 * l + q) \div 8
           r == (8 * l + q) % 8
<1>1. d \in Int /\ r \in 0..7 /\ 8 * l + q = 8 * d + r
  OBVIOUS
<1> HIDE DEF d, r
<1>2. d = l
  BY <1>1
<1> QED
  BY <1>1, <1>2 DEF d, r

\* A byte is the eight places that follow the bytes before it.
LEMMA BytePlaces ==
  ASSUME NEW w \in Seq(0..255), NEW c \in Register, NEW l \in 0..Len(w) - 1, NEW m,
         LeftIs(m, w, c, 8 * l, 8 * l)
  PROVE  LeftIs(m, w, Xor(c, Byte[w[l + 1]]), 8 * l, 8 * l + 8)
<1>1. Len(w) \in Nat /\ l \in Nat /\ l + 1 \in 1..Len(w) /\ w[l + 1] \in 0..255
  <2>1. Len(w) \in Nat /\ l \in Nat /\ l + 1 \in 1..Len(w)
    OBVIOUS
  <2> QED
    BY <2>1, InSeq
<1> DEFINE y == Byte[w[l + 1]]
           x == Xor(c, y)
<1>2. y \subseteq 0..7 /\ x \in Register /\ \A i : i \in x <=> ~(i \in c <=> i \in y)
  <2>1. y \in Register /\ y \subseteq 0..7
    BY <1>1, ByteBits
  <2> HIDE DEF y
  <2> QED
    BY <2>1, XorBits
<1> SUFFICES ASSUME NEW i \in 8 * l + 1..8 * Len(w) + 32
             PROVE  i \in m <=> ~(i - 8 * l - 1 \in x <=> i > 8 * l + 8 /\ Ones8(w, i))
  BY DEF LeftIs
<1>3. i \in m <=> ~(i - 8 * l - 1 \in c <=> i > 8 * l /\ Ones8(w, i))
  BY DEF LeftIs
<1>4. i > 8 * l /\ i \in Nat
  BY <1>1
<1> HIDE DEF x
<1>5. CASE i <= 8 * l + 8
  <2> DEFINE q == i - 8 * l - 1
  <2>3. q \in 0..7 /\ i - 1 = 8 * l + q /\ i \in 1..8 * Len(w)
    BY <1>1, <1>4, <1>5
  <2>4. (8 * l + q) \div 8 = l /\ (8 * l + q) % 8 = q
    <3> HIDE DEF q
    <3> QED
      BY <1>1, <2>3, ByteAndBit
  <2>1. i \in 1..8 * Len(w) /\ (i - 1) \div 8 = l /\ (i - 1) % 8 = i - 8 * l - 1
    BY <2>3, <2>4
  <2>2. Ones8(w, i) <=> i - 8 * l - 1 \in y
    BY <2>1 DEF Ones8
  <2> QED
    BY <1>1, <1>2, <1>3, <1>4, <1>5, <2>2
<1>6. CASE i > 8 * l + 8
  <2>2. i - 8 * l - 1 \notin 0..7
    BY <1>1, <1>4, <1>6
  <2>1. i - 8 * l - 1 \notin y
    BY <1>2, <2>2
  <2> QED
    BY <1>2, <1>3, <1>4, <1>6, <2>1
<1> QED
  BY <1>1, <1>4, <1>5, <1>6

\* What is left of a message after the division is the register of the loop.
LEMMA RemainderIsRegister ==
  ASSUME NEW w \in Seq(0..255)
  PROVE  /\ LeftIs(Remainder(w), w, Loop8(Ones, w), 8 * Len(w), 8 * Len(w))
         /\ Remainder(w) \subseteq Int
<1> DEFINE L == Len(w)
           n == 8 * L
           V == SUBSET (1..n + 32)
           g == [k \in 1..n |-> [m \in V |-> Subtract(m, k, n + 32)]]
           Is(f) == f = [k \in 0..n |-> IF k = 0 THEN Coefficients(w) ELSE Subtract(f[k - 1], k, n + 32)]
           left == CHOOSE f : Is(f)
<1>1. L \in Nat /\ n \in Nat /\ n = 8 * L
  OBVIOUS
<1>2. Remainder(w) = left[n]
  BY DEF Remainder
<1> HIDE DEF n
<1>3. Coefficients(w) \in V
  BY <1>1 DEF Coefficients
<1>4. g \in [1..n -> [V -> V]] /\ \A k \in 1..n : \A m \in V : g[k][m] = Subtract(m, k, n + 32)
  <2>1. \A k \in 1..n : \A m \in V : Subtract(m, k, n + 32) \in V
    BY DEF Subtract
  <2> QED
    BY <2>1
<1> HIDE DEF g
<1>5. Is(left)
  <2> HIDE DEF V
  <2>1. PICK f \in [0..n -> V] : Follows(f, n, Coefficients(w), g)
    BY <1>1, <1>3, <1>4, Recursion
  <2>2. f[0] = Coefficients(w) /\ \A k \in 1..n : f[k] = Subtract(f[k - 1], k, n + 32)
    <3>1. \A k \in 1..n : k - 1 \in 0..n /\ f[k - 1] \in V
      BY <1>1, <2>1
    <3> QED
      BY <1>4, <2>1, <3>1 DEF Follows
  <2>3. Is(f)
    <3>1. \A k \in 0..n : k = 0 \/ k \in 1..n
      BY <1>1
    <3> QED
      BY <2>1, <2>2, <3>1
  <2> QED
    BY <2>3
<1> HIDE DEF left
<1>12. left[n] \subseteq Int
  <2> DEFINE U == {k \in 0..n : left[k] \subseteq Int}
  <2>1. 0 \in U
    <3>1. Coefficients(w) \subseteq Int
      BY <1>3
    <3> QED
      BY <1>1, <1>5, <3>1
  <2>2. ASSUME NEW k \in 0..n - 1, k \in U PROVE k + 1 \in U
    <3>1. k + 1 \in 0..n /\ k + 1 # 0 /\ (k + 1) - 1 = k
      BY <1>1
    <3>2. left[k + 1] = Subtract(left[k], k + 1, n + 32)
      BY <1>5, <3>1
    <3>3. Subtract(left[k], k + 1, n + 32) \subseteq left[k] \cup (1..n + 32)
      BY DEF Subtract
    <3> QED
      BY <2>2, <3>1, <3>2, <3>3
  <2> HIDE DEF U
  <2>3. 0..n \subseteq U
    BY <1>1, <2>1, <2>2, UpTo
  <2>4. n \in 0..n
    BY <1>1
  <2> QED
    BY <2>3, <2>4 DEF U
<1>6. left[0] = Coefficients(w) /\ \A k \in 0..n - 1 : left[k + 1] = Subtract(left[k], k + 1, n + 32)
  <2>1. \A k \in 0..n - 1 : k + 1 \in 0..n /\ k + 1 # 0 /\ (k + 1) - 1 = k
    BY <1>1
  <2>2. 0 \in 0..n
    BY <1>1
  <2> HIDE DEF V
  <2> QED
    BY <1>5, <2>1, <2>2
<1> HIDE DEF V, L
<1>7. PICK r : Run(r, Ones, w) /\ Loop8(Ones, w) = r[L]
  <2>1. PICK r : Run(r, Ones, w)
    BY Constants, LoopRuns
  <2> QED
    BY <2>1, Constants, LoopRuns DEF L
<1>8. /\ r[0] = Ones /\ \A l \in 0..L : r[l] \in Register
      /\ \A l \in 0..L - 1 : w[l + 1] \in 0..255 /\ r[l + 1] = DivideByte(Xor(r[l], Byte[w[l + 1]]))
  <2>1. ASSUME NEW l \in 0..L - 1
        PROVE  w[l + 1] \in 0..255 /\ r[l + 1] = DivideByte(Xor(r[l], Byte[w[l + 1]]))
    <3>1. l + 1 \in 1..L /\ l \in 0..L /\ (l + 1) - 1 = l
      BY <1>1
    <3>2. w[l + 1] \in 0..255 /\ r[l] \in Register /\ r[l + 1] = mm_crc32_u8[<<r[l], w[l + 1]>>]
      BY <1>7, <3>1, InSeq DEF Run, L
    <3> QED
      BY <3>2 DEF mm_crc32_u8
  <2> QED
    BY <1>7, <2>1 DEF Run, L
<1> DEFINE T == {l \in 0..L : LeftIs(left[8 * l], w, r[l], 8 * l, 8 * l)}
<1>9. 0 \in T
  <2>1. ASSUME NEW i \in 0 + 1..8 * Len(w) + 32
        PROVE  i \in Coefficients(w) <=> ~(i - 0 - 1 \in Ones <=> i > 0 /\ Ones8(w, i))
    <3>1. i \in Nat /\ i > 0 /\ Len(w) \in Nat /\ (i - 0 - 1 \in Ones <=> i <= 32)
      BY <1>1 DEF L, Ones, Bit
    <3>2. (i <= 8 * Len(w) /\ (i - 1) % 8 \in Byte[w[(i - 1) \div 8 + 1]]) <=> Ones8(w, i)
      BY <3>1 DEF Ones8
    <3>3. i \in Coefficients(w) <=> ~(Ones8(w, i) <=> i <= 32)
      BY <3>1, <3>2 DEF Coefficients
    <3> QED
      BY <3>1, <3>3
  <2>2. 8 * 0 = 0 /\ 0 \in 0..L
    BY <1>1
  <2> QED
    BY <1>6, <1>8, <2>1, <2>2 DEF LeftIs
<1>10. ASSUME NEW l \in 0..L - 1, l \in T PROVE l + 1 \in T
  <2> DEFINE x == Xor(r[l], Byte[w[l + 1]])
  <2>1. l \in 0..L /\ l + 1 \in 0..L /\ r[l] \in Register /\ w[l + 1] \in 0..255
    <3>1. l \in 0..L /\ l + 1 \in 0..L
      BY <1>1
    <3> QED
      BY <1>8, <3>1
  <2>2. x \in Register
    <3> DEFINE y == Byte[w[l + 1]]
    <3>1. y \in Register
      BY <2>1, ByteBits
    <3> HIDE DEF y
    <3>2. Xor(r[l], y) \in Register
      BY <2>1, <3>1, XorBits
    <3> QED
      BY <3>2 DEF y
  <2>3. LeftIs(left[8 * l], w, x, 8 * l, 8 * l + 8)
    BY <1>10, <2>1, BytePlaces DEF L
  <2>4. r[l + 1] = DivideByte(x)
    BY <1>8
  <2> HIDE DEF x
  <2>5. PICK d : Divisions(d, x, 8) /\ DivideByte(x) = d[8]
    BY <2>2, EightDivisions
  <2> DEFINE U == {j \in 0..8 : LeftIs(left[8 * l + j], w, d[j], 8 * l + j, 8 * l + 8)}
  <2>6. 0 \in U
    <3>1. 8 * l + 0 = 8 * l /\ d[0] = x
      BY <1>1, <2>5 DEF Divisions
    <3> QED
      BY <2>3, <3>1
  <2>7. ASSUME NEW j \in 0..8 - 1, j \in U PROVE j + 1 \in U
    <3> DEFINE k == 8 * l + j
               b == 8 * l + 8
    <3>1. /\ k \in 0..8 * Len(w) - 1 /\ b \in k + 1..8 * Len(w) /\ k \in 0..n - 1
          /\ k + 1 = 8 * l + (j + 1) /\ j + 1 \in 0..8
      BY <1>1 DEF L
    <3>2. d[j] \in Register /\ d[j + 1] = Divide[d[j]]
      BY <2>5 DEF Divisions
    <3>3. LeftIs(left[k], w, d[j], k, b)
      BY <2>7
    <3> HIDE DEF k, b, U
    <3>4. LeftIs(Subtract(left[k], k + 1, 8 * Len(w) + 32), w, Divide[d[j]], k + 1, b)
      BY <3>1, <3>2, <3>3, StepDivides
    <3>5. left[k + 1] = Subtract(left[k], k + 1, 8 * Len(w) + 32)
      BY <1>1, <1>6, <3>1 DEF L
    <3>6. LeftIs(left[k + 1], w, d[j + 1], k + 1, b)
      BY <3>2, <3>4, <3>5
    <3> QED
      BY <3>1, <3>6 DEF U, b
  <2> HIDE DEF U
  <2>8. 8 \in U
    <3>1. 8 \in Nat /\ 8 \in 0..8
      OBVIOUS
    <3>2. 0..8 \subseteq U
      BY <2>6, <2>7, <3>1, UpTo
    <3> QED
      BY <3>1, <3>2
  <2>9. 8 * (l + 1) = 8 * l + 8
    BY <1>1
  <2> QED
    BY <2>1, <2>4, <2>5, <2>8, <2>9 DEF U
<1> HIDE DEF T
<1>11. L \in T
  <2>1. 0..L \subseteq T
    BY <1>1, <1>9, <1>10, UpTo
  <2>2. L \in 0..L
    BY <1>1
  <2> QED
    BY <2>1, <2>2
<1> QED
  BY <1>1, <1>2, <1>7, <1>11, <1>12 DEF T, L

\* The loop over the bytes of a file computes the remainder of the division of
\* polynomials (update, table and update_sse42, src/src/crc.rs), for every file, with
\* the instruction and without.
THEOREM LoopIsChecksum ==
  ASSUME NEW h \in BOOLEAN, NEW w \in Seq(0..255)
  PROVE  crc32c(h, w) = Checksum(w)
<1> DEFINE n == 8 * Len(w) + 1
           c == Loop8(Ones, w)
           m == Remainder(w)
<1>1. n \in Nat /\ Len(w) \in Nat /\ n = 8 * Len(w) + 1
  OBVIOUS
<1>2. c \in Register
  BY Constants, LoopRuns
<1>3. LeftIs(m, w, c, 8 * Len(w), 8 * Len(w)) /\ m \subseteq Int
  BY RemainderIsRegister
<1> HIDE DEF m, c, n
<1>4. ASSUME NEW j \in Bit PROVE j + n \in m <=> j \in c
  <2> DEFINE i == j + n
  <2>1. /\ i \in 8 * Len(w) + 1..8 * Len(w) + 32 /\ i - 8 * Len(w) - 1 = j
        /\ i > 8 * Len(w) /\ i \notin 1..8 * Len(w)
    BY <1>1 DEF Bit
  <2>2. i \in m <=> ~(j \in c <=> i > 8 * Len(w) /\ Ones8(w, i))
    <3> HIDE DEF i
    <3> QED
      BY <1>3, <2>1 DEF LeftIs
  <2>3. ~Ones8(w, i)
    BY <2>1 DEF Ones8
  <2> QED
    BY <2>2, <2>3
<1>5. \A j \in Bit : j \in {i - n : i \in m} <=> j \in c
  <2>1. \A i \in m : \A j \in Bit : i - n = j <=> i = j + n
    BY <1>1, <1>3 DEF Bit
  <2>2. \A j \in Bit : j \in {i - n : i \in m} <=> j + n \in m
    BY <2>1
  <2> QED
    BY Zenon, <1>4, <2>2
<1>6. Checksum(w) = Bit \ {i - n : i \in m}
  BY DEF Checksum, m, n
<1>7. crc32c(h, w) = Bit \ c
  BY Constants, MachinesAgree DEF crc32c, Not, c
<1> QED
  BY <1>5, <1>6, <1>7

-----------------------------------------------------------------------------
(* The order of a finite set.                                               *)

\* What comes before x.
Below(S, R, x) == {y \in S : <<y, x>> \in R}

\* R orders S.
Orders(R, S) ==
  /\ \A x \in S : <<x, x>> \notin R
  /\ \A x, y, z \in S : <<x, y>> \in R /\ <<y, z>> \in R => <<x, z>> \in R
  /\ \A x, y \in S : x # y => <<x, y>> \in R \/ <<y, x>> \in R

\* In a finite set that is ordered the elements are numbered by how many come before:
\* what sorting by counting is good for.
LEMMA Ranks ==
  ASSUME NEW S, NEW R, IsFiniteSet(S), Orders(R, S)
  PROVE  /\ Cardinality(S) \in Nat
         /\ \A x \in S : Cardinality(Below(S, R, x)) \in 0..Cardinality(S) - 1
         /\ \A x, y \in S : <<x, y>> \in R <=> Cardinality(Below(S, R, x)) < Cardinality(Below(S, R, y))
         /\ \A k \in 1..Cardinality(S) : \E x \in S : Cardinality(Below(S, R, x)) = k - 1
<1> DEFINE n == Cardinality(S)
           rank(x) == Cardinality(Below(S, R, x))
<1>1. n \in Nat
  BY FS_CardinalityType
<1>2. ASSUME NEW x \in S
      PROVE  IsFiniteSet(Below(S, R, x)) /\ rank(x) \in Nat /\ rank(x) < n
  <2>1. Below(S, R, x) \in SUBSET (S \ {x})
    BY DEF Below, Orders
  <2>2. IsFiniteSet(S \ {x}) /\ Cardinality(S \ {x}) = n - 1
    BY FS_RemoveElement
  <2>3. IsFiniteSet(Below(S, R, x)) /\ rank(x) <= n - 1
    BY <2>1, <2>2, FS_Subset
  <2>4. rank(x) \in Nat
    BY <2>3, FS_CardinalityType
  <2> HIDE DEF n, rank
  <2> QED
    BY <1>1, <2>3, <2>4
<1>3. ASSUME NEW x \in S, NEW y \in S, <<x, y>> \in R
      PROVE  rank(x) < rank(y)
  <2>1. Below(S, R, x) \cup {x} \in SUBSET Below(S, R, y) /\ x \notin Below(S, R, x)
    BY <1>3 DEF Below, Orders
  <2>2. Cardinality(Below(S, R, x) \cup {x}) = rank(x) + 1
    BY <1>2, <2>1, FS_AddElement
  <2>3. Cardinality(Below(S, R, x) \cup {x}) <= rank(y)
    BY <1>2, <2>1, FS_Subset
  <2>4. rank(x) \in Nat /\ rank(y) \in Nat
    BY <1>2
  <2> HIDE DEF rank
  <2> QED
    BY <2>2, <2>3, <2>4
<1> HIDE DEF rank
<1>4. ASSUME NEW x \in S, NEW y \in S, rank(x) < rank(y)
      PROVE  <<x, y>> \in R
  <2>1. ~(rank(x) < rank(x)) /\ ~(rank(y) < rank(x))
    BY <1>2, <1>4
  <2>2. x # y /\ <<y, x>> \notin R
    BY <1>3, <1>4, <2>1
  <2> QED
    BY <2>2 DEF Orders
<1>5. \A k \in 1..n : \E x \in S : rank(x) = k - 1
  <2> DEFINE f == [x \in S |-> rank(x)]
             T == 0..n - 1
  <2>1. f \in [S -> T]
    BY <1>1, <1>2
  <2>2. \A x, y \in S : f[x] = f[y] => x = y
    <3>1. \A x, y \in S : x # y => rank(x) < rank(y) \/ rank(y) < rank(x)
      BY <1>3 DEF Orders
    <3>2. \A x, y \in S : x # y => rank(x) # rank(y)
      BY <1>2, <3>1
    <3> QED
      BY <3>2
  <2>3. f \in Injection(S, T)
    BY <2>1, <2>2 DEF Injection, IsInjective
  <2>4. IsFiniteSet(T) /\ Cardinality(T) = n
    <3>1. 0 \in Int /\ n - 1 \in Int
      BY <1>1
    <3>2. Cardinality(T) = IF 0 > n - 1 THEN 0 ELSE (n - 1) - 0 + 1
      BY <3>1, FS_Interval
    <3> QED
      BY <1>1, <3>1, <3>2, FS_Interval
  <2> HIDE DEF f, T
  <2>5. f \in Surjection(S, T)
    BY <2>3, <2>4, FS_Injection DEF n
  <2>6. \A t \in T : \E x \in S : f[x] = t
    BY <2>5 DEF Surjection
  <2>7. \A k \in 1..n : k - 1 \in T
    BY <1>1 DEF T
  <2> QED
    BY <2>6, <2>7 DEF f
<1> QED
  BY <1>1, <1>2, <1>3, <1>4, <1>5 DEF n, rank

-----------------------------------------------------------------------------
(* How often something occurs in a sequence.                                *)

Places(a, s) == {k \in 1..Len(s) : s[k] = a}

\* The places of an element are as many as it occurs.
LEMMA PlacesFinite ==
  ASSUME NEW S, NEW s \in Seq(S), NEW a
  PROVE  /\ IsFiniteSet(Places(a, s)) /\ Occurrences(a, s) = Cardinality(Places(a, s))
         /\ Occurrences(a, s) \in Nat
<1>1. Len(s) \in Int /\ Places(a, s) \in SUBSET (1..Len(s))
  BY LenProperties DEF Places
<1>2. IsFiniteSet(Places(a, s))
  <2>1. IsFiniteSet(1..Len(s))
    BY <1>1, FS_Interval
  <2> QED
    BY <1>1, <2>1, FS_Subset
<1>3. Occurrences(a, s) = Cardinality(Places(a, s))
  BY DEF Occurrences, Places
<1> QED
  BY <1>2, <1>3, FS_CardinalityType

\* What is not in a sequence does not occur in it.
LEMMA OccursNot ==
  ASSUME NEW S, NEW s \in Seq(S), NEW a, a \notin S \/ s = << >>
  PROVE  Occurrences(a, s) = 0
<1>1. Places(a, s) = {}
  BY DEF Places
<1> QED
  BY <1>1, FS_EmptySet, PlacesFinite

\* An element that is appended occurs once more.
LEMMA OccursAppend ==
  ASSUME NEW S, NEW s \in Seq(S), NEW x \in S, NEW a
  PROVE  Occurrences(a, Append(s, x)) = Occurrences(a, s) + (IF x = a THEN 1 ELSE 0)
<1> DEFINE u == Append(s, x)
           n == Len(s)
<1>1. n \in Nat /\ u \in Seq(S) /\ Len(u) = n + 1 /\ u[n + 1] = x /\ \A k \in 1..n : u[k] = s[k]
  BY AppendProperties, LenProperties
<1>2. IsFiniteSet(Places(a, s)) /\ n + 1 \notin Places(a, s)
  <2>1. n + 1 \notin 1..n
    BY <1>1
  <2>2. n + 1 \notin Places(a, s)
    BY <2>1 DEF Places
  <2> QED
    BY <2>2, PlacesFinite
<1> HIDE DEF u, n
<1>3. CASE x = a
  <2>1. Places(a, u) = Places(a, s) \cup {n + 1}
    <3>1. \A k : k \in 1..n + 1 <=> k \in 1..n \/ k = n + 1
      BY <1>1
    <3> QED
      BY <1>1, <1>3, <3>1 DEF Places, n
  <2>2. Cardinality(Places(a, u)) = Cardinality(Places(a, s)) + 1
    BY <1>2, <2>1, FS_AddElement
  <2> QED
    BY <1>1, <1>3, <2>2, PlacesFinite DEF u
<1>4. CASE x # a
  <2>1. Places(a, u) = Places(a, s)
    <3>1. \A k : k \in 1..n + 1 <=> k \in 1..n \/ k = n + 1
      BY <1>1
    <3> QED
      BY <1>1, <1>4, <3>1 DEF Places, n
  <2>2. Occurrences(a, s) \in Nat /\ Occurrences(a, u) = Occurrences(a, s)
    BY <1>1, <2>1, PlacesFinite
  <2> QED
    BY <1>4, <2>2 DEF u
<1> QED
  BY <1>3, <1>4

\* The first element occurs once less in the tail.
LEMMA OccursTail ==
  ASSUME NEW S, NEW s \in Seq(S), s # << >>, NEW a
  PROVE  Occurrences(a, s) = Occurrences(a, Tail(s)) + (IF Head(s) = a THEN 1 ELSE 0)
<1> DEFINE u == Tail(s)
           n == Len(u)
           A == Places(a, u)
           B == Places(a, s) \ {1}
           f == [k \in A |-> k + 1]
<1>1. /\ n \in Nat /\ u \in Seq(S) /\ Len(s) = n + 1 /\ s[1] = Head(s) /\ \A k \in 1..n : u[k] = s[k + 1]
  <2>1. u \in Seq(S) /\ Len(u) = Len(s) - 1 /\ \A k \in 1..n : u[k] = s[k + 1]
    BY HeadTailProperties
  <2>2. Len(s) \in Nat /\ Len(u) \in Nat
    BY <2>1, LenProperties
  <2> QED
    BY <2>1, <2>2
<1> HIDE DEF u, n
<1>2. f \in Bijection(A, B)
  <2>1. \A k \in A : k \in 1..n /\ u[k] = a /\ k + 1 \in 1..n + 1 /\ k + 1 # 1
    BY <1>1 DEF Places, n
  <2>2. f \in [A -> B]
    BY <1>1, <2>1 DEF Places
  <2>3. \A k, l \in A : f[k] = f[l] => k = l
    BY <2>1
  <2>4. \A l \in B : \E k \in A : f[k] = l
    <3> SUFFICES ASSUME NEW l \in B PROVE \E k \in A : f[k] = l
      OBVIOUS
    <3>1. l \in 1..n + 1 /\ l # 1 /\ s[l] = a
      BY <1>1 DEF Places
    <3>2. l - 1 \in 1..n /\ (l - 1) + 1 = l
      BY <1>1, <3>1
    <3>3. l - 1 \in A
      BY <1>1, <3>1, <3>2 DEF Places, n
    <3> QED
      BY <3>2, <3>3
  <2> HIDE DEF f, A, B
  <2> QED
    BY <2>2, <2>3, <2>4 DEF Bijection, Injection, Surjection, IsInjective
<1>3. IsFiniteSet(A) /\ IsFiniteSet(Places(a, s))
  BY <1>1, PlacesFinite
<1>4. IsFiniteSet(B) /\ Cardinality(B) = Cardinality(A)
  <2> HIDE DEF f, A, B
  <2>1. ExistsBijection(A, B)
    BY <1>2 DEF ExistsBijection
  <2> QED
    BY <1>3, <2>1, FS_Bijection
<1>5. Occurrences(a, s) = Cardinality(Places(a, s)) /\ Occurrences(a, u) = Cardinality(A) /\ Occurrences(a, u) \in Nat
  BY <1>1, PlacesFinite
<1>6. CASE Head(s) = a
  <2>1. 1 \in Places(a, s)
    BY <1>1, <1>6 DEF Places
  <2>2. Places(a, s) = B \cup {1} /\ 1 \notin B
    BY <2>1
  <2> HIDE DEF A, B
  <2>3. Cardinality(Places(a, s)) = Cardinality(B) + 1
    BY <1>4, <2>2, FS_AddElement
  <2> QED
    BY <1>4, <1>5, <1>6, <2>3 DEF u
<1>7. CASE Head(s) # a
  <2>1. Places(a, s) = B
    BY <1>1, <1>7 DEF Places
  <2> HIDE DEF A, B
  <2> QED
    BY <1>4, <1>5, <1>7, <2>1 DEF u
<1> QED
  BY <1>6, <1>7

\* The sorted list has what the unsorted has, as often, and in order (sort_by,
\* src/src/discover.rs).
LEMMA SortedHas ==
  ASSUME NEW S \in SUBSET Int, NEW s \in Seq(S)
  PROVE  /\ Sorted(s) \in Seq(S)
         /\ \A a : Occurrences(a, Sorted(s)) = Occurrences(a, s)
         /\ \A k \in 1..Len(Sorted(s)) - 1 : Sorted(s)[k] <= Sorted(s)[k + 1]
<1> DEFINE n == Len(s)
           D == 1..n
           before(i, j) == s[i] < s[j] \/ (s[i] = s[j] /\ i < j)
           R == {ij \in D \X D : before(ij[1], ij[2])}
           rank(j) == Cardinality(Below(D, R, j))
           pi == [k \in D |-> CHOOSE j \in D : rank(j) = k - 1]
<1>1. n \in Nat /\ DOMAIN s = D /\ \A k \in D : s[k] \in S /\ s[k] \in Int
  BY LenProperties
<1>2. \A i, j \in D : <<i, j>> \in R <=> before(i, j)
  OBVIOUS
<1> HIDE DEF R, n
<1>3. Orders(R, D)
  <2>1. \A i, j, k \in D : before(i, j) /\ before(j, k) => before(i, k)
    BY <1>1
  <2>2. \A i \in D : ~before(i, i)
    BY <1>1
  <2>3. \A i, j \in D : i # j => before(i, j) \/ before(j, i)
    BY <1>1
  <2> HIDE DEF before, D
  <2> QED
    BY <1>2, <2>1, <2>2, <2>3 DEF Orders
<1>4. IsFiniteSet(D) /\ Cardinality(D) = n
  <2>1. 1 \in Int /\ n \in Int
    BY <1>1
  <2>2. Cardinality(D) = IF 1 > n THEN 0 ELSE n - 1 + 1
    BY <2>1, FS_Interval
  <2> QED
    BY <1>1, <2>1, <2>2, FS_Interval
<1> HIDE DEF D
<1>5. /\ \A j \in D : rank(j) \in 0..n - 1
      /\ \A i, j \in D : <<i, j>> \in R <=> rank(i) < rank(j)
      /\ \A k \in D : \E j \in D : rank(j) = k - 1
  BY <1>3, <1>4, Ranks DEF D
<1>6. Sorted(s) = [k \in D |-> s[pi[k]]]
  <2>1. \A j \in D : Cardinality({i \in D : before(i, j)}) = rank(j)
    <3> SUFFICES ASSUME NEW j \in D PROVE Cardinality({i \in D : before(i, j)}) = rank(j)
      OBVIOUS
    <3>1. {i \in D : before(i, j)} = Below(D, R, j)
      BY <1>2 DEF Below
    <3> QED
      BY <3>1
  <2>2. Sorted(s) = [k \in D |-> s[CHOOSE j \in D : Cardinality({i \in D : before(i, j)}) = k - 1]]
    BY <1>1 DEF Sorted
  <2>3. \A k \in D : (CHOOSE j \in D : Cardinality({i \in D : before(i, j)}) = k - 1) = pi[k]
    BY <2>1
  <2> HIDE DEF rank, pi, before
  <2> QED
    BY <2>2, <2>3
<1> HIDE DEF rank
<1>7. \A k \in D : pi[k] \in D /\ rank(pi[k]) = k - 1
  BY <1>5
<1> HIDE DEF pi
<1>8. Sorted(s) \in Seq(S) /\ Len(Sorted(s)) = n /\ \A k \in D : Sorted(s)[k] = s[pi[k]]
  BY <1>1, <1>6, <1>7 DEF D
<1>9. ASSUME NEW k \in 1..n - 1 PROVE Sorted(s)[k] <= Sorted(s)[k + 1]
  <2>1. k \in D /\ k + 1 \in D /\ k \in Int
    BY <1>1 DEF D
  <2>2. pi[k] \in D /\ pi[k + 1] \in D /\ rank(pi[k]) < rank(pi[k + 1])
    BY <1>7, <2>1
  <2>3. before(pi[k], pi[k + 1])
    BY <1>2, <1>5, <2>2
  <2>4. s[pi[k]] \in Int /\ s[pi[k + 1]] \in Int
    BY <1>1, <2>2
  <2>5. s[pi[k]] <= s[pi[k + 1]]
    BY <2>3, <2>4
  <2> QED
    BY <1>8, <2>1, <2>5
<1>10. ASSUME NEW a PROVE Occurrences(a, Sorted(s)) = Occurrences(a, s)
  <2> DEFINE A == Places(a, Sorted(s))
             B == Places(a, s)
             f == [k \in A |-> pi[k]]
  <2>1. \A k : k \in A <=> k \in D /\ s[pi[k]] = a
    BY <1>8 DEF Places, D
  <2>2. \A k : k \in B <=> k \in D /\ s[k] = a
    BY DEF Places, D, n
  <2> HIDE DEF A, B
  <2>3. f \in [A -> B]
    BY <1>7, <2>1, <2>2
  <2>4. \A k, l \in A : f[k] = f[l] => k = l
    <3> SUFFICES ASSUME NEW k \in A, NEW l \in A, pi[k] = pi[l] PROVE k = l
      OBVIOUS
    <3>1. k \in D /\ l \in D /\ k - 1 = l - 1
      BY <1>7, <2>1
    <3> QED
      BY <3>1 DEF D
  <2>5. \A l \in B : \E k \in A : f[k] = l
    <3> SUFFICES ASSUME NEW l \in B PROVE \E k \in A : f[k] = l
      OBVIOUS
    <3> DEFINE k == rank(l) + 1
    <3>1. l \in D /\ k \in D /\ k - 1 = rank(l)
      BY <1>1, <1>5, <2>2 DEF D
    <3>2. pi[k] \in D /\ rank(pi[k]) = rank(l) /\ rank(l) \in 0..n - 1
      BY <1>5, <1>7, <3>1
    <3> HIDE DEF k
    <3>3. pi[k] = l
      <4>1. ~(rank(pi[k]) < rank(l)) /\ ~(rank(l) < rank(pi[k]))
        BY <3>2
      <4> QED
        BY <1>3, <1>5, <3>1, <3>2, <4>1 DEF Orders
    <3>4. k \in A
      BY <2>1, <2>2, <3>1, <3>3
    <3> QED
      BY <3>3, <3>4
  <2> HIDE DEF f
  <2>6. ExistsBijection(A, B)
    <3>1. f \in Bijection(A, B)
      BY <2>3, <2>4, <2>5 DEF Bijection, Injection, Surjection, IsInjective
    <3> QED
      BY <3>1 DEF ExistsBijection
  <2>7. IsFiniteSet(A) /\ Occurrences(a, Sorted(s)) = Cardinality(A) /\ Occurrences(a, s) = Cardinality(B)
    BY <1>8, PlacesFinite DEF A, B
  <2> QED
    BY <2>6, <2>7, FS_Bijection
<1> QED
  BY <1>8, <1>9, <1>10

-----------------------------------------------------------------------------
(* The scan.                                                                *)

Addr == 0..AddrMod - 1

\* As many hosts as an interface has scanned.
Scanned(if) == IF hosts(if.mask) \in 2..MaxHosts THEN hosts(if.mask) - 2 ELSE 0

\* The network of an interface and the hosts in it are addresses.
LEMMA HostsAreAddresses ==
  ASSUME NEW if \in [ip : Addr, mask : Addr],
         hosts(if.mask) # 0 => AddrMod % hosts(if.mask) = 0
  PROVE  /\ Scanned(if) \in Nat /\ net(if.ip, if.mask) \in Int
         /\ \A h \in 1..Scanned(if) : net(if.ip, if.mask) + h \in Addr
<1> DEFINE n == hosts(if.mask)
           ip == if.ip
           r == ip % n
           q == ip \div n
           d == AddrMod \div n
<1>1. AddrMod \in Nat \ {0} /\ MaxHosts \in Nat /\ ip \in 0..AddrMod - 1 /\ if.mask \in 0..AddrMod - 1
  BY DiscoverAssumption DEF Addr
<1>2. n \in Nat
  BY <1>1 DEF hosts
<1> HIDE DEF n, ip
<1>3. Scanned(if) \in Nat /\ (n = 0 => Scanned(if) = 0) /\ (Scanned(if) # 0 => Scanned(if) = n - 2)
  BY <1>1, <1>2 DEF Scanned, n
<1>4. CASE n = 0
  BY <1>3, <1>4 DEF net, n
<1>5. CASE n # 0
  <2>1. /\ r \in 0..n - 1 /\ q \in Int /\ d \in Int /\ ip = n * q + r /\ AddrMod = n * d + (AddrMod % n)
    BY <1>1, <1>2, <1>5
  <2> HIDE DEF r, q, d
  <2>2. AddrMod = n * d
    <3>1. AddrMod % n = 0
      BY <1>5 DEF n
    <3> DEFINE m == n * d
    <3>2. AddrMod = m + 0 /\ m \in Int
      BY <1>1, <1>2, <2>1, <3>1
    <3> HIDE DEF m
    <3>3. AddrMod = m
      BY <3>2
    <3> QED
      BY <3>3 DEF m
  <2>3. q >= 0
    <3> SUFFICES ASSUME q <= -1 PROVE FALSE
      BY <2>1
    <3>1. n * q <= n * (-1)
      BY <1>2, <2>1
    <3> QED
      BY <1>1, <1>2, <2>1, <3>1
  <2>4. q + 1 <= d
    <3> SUFFICES ASSUME d <= q PROVE FALSE
      BY <2>1
    <3>1. n * d <= n * q
      BY <1>2, <2>1
    <3> QED
      BY <1>1, <1>2, <2>1, <2>2, <3>1
  <2>5. n * (q + 1) <= n * d /\ n * (q + 1) = n * q + n /\ n * q >= 0 /\ n * q \in Int
    BY <1>2, <2>1, <2>3, <2>4
  <2>6. net(if.ip, if.mask) = n * q
    <3>1. net(if.ip, if.mask) = ip - r
      BY <1>5 DEF net, n, ip, r
    <3>2. ip - r = n * q
      BY <2>1, <2>5, <1>1
    <3> QED
      BY <3>1, <3>2
  <2> DEFINE m == n * q
  <2>7. m \in Nat /\ m + n <= AddrMod
    BY <1>1, <2>2, <2>5
  <2> HIDE DEF m
  <2>8. \A h \in 1..Scanned(if) : m + h \in 0..AddrMod - 1
    BY <1>1, <1>2, <1>3, <2>7
  <2> QED
    BY <1>3, <2>6, <2>7, <2>8 DEF Addr, m
<1> QED
  BY <1>4, <1>5

\* An interface leads to every host of its subnet but itself, and to each once
\* (the loop over hosts of scan, src/src/discover.rs).
THEOREM TargetsAreHosts ==
  ASSUME NEW if \in [ip : Addr, mask : Addr],
         hosts(if.mask) # 0 => AddrMod % hosts(if.mask) = 0
  PROVE  /\ TargetsOf(if) \in Seq(Addr)
         /\ \A a \in Int : Occurrences(a, TargetsOf(if)) =
              IF a - net(if.ip, if.mask) \in 1..Scanned(if) /\ a # if.ip THEN 1 ELSE 0
<1> DEFINE n == Scanned(if)
           b == net(if.ip, if.mask)
           ip == if.ip
           V == Seq(Addr)
           g == [h \in 1..n |-> [s \in V |-> IF b + h = ip THEN s ELSE Append(s, b + h)]]
           Is(f) == f = [h \in 0..n |-> IF h = 0 THEN << >>
                                        ELSE IF b + h = ip THEN f[h - 1]
                                        ELSE Append(f[h - 1], b + h)]
           upTo == CHOOSE f : Is(f)
<1>1. n \in Nat /\ b \in Int /\ \A h \in 1..n : b + h \in Addr
  BY HostsAreAddresses
<1>2. TargetsOf(if) = upTo[n]
  BY DEF TargetsOf, Scanned
<1> HIDE DEF n, b, ip
<1>3. g \in [1..n -> [V -> V]] /\ << >> \in V
      /\ \A h \in 1..n : \A s \in V : g[h][s] = IF b + h = ip THEN s ELSE Append(s, b + h)
  <2>1. \A h \in 1..n : \A s \in V : Append(s, b + h) \in V
    BY <1>1, AppendProperties
  <2> HIDE DEF V
  <2>2. << >> \in V
    BY DEF V
  <2> QED
    BY <2>1, <2>2
<1> HIDE DEF g
<1>4. PICK f \in [0..n -> V] : Follows(f, n, << >>, g)
  <2> HIDE DEF V
  <2> QED
    BY <1>1, <1>3, Recursion
<1>5. /\ f[0] = << >>
      /\ \A h \in 1..n : h - 1 \in 0..n /\ f[h - 1] \in V
                         /\ f[h] = IF b + h = ip THEN f[h - 1] ELSE Append(f[h - 1], b + h)
  <2> HIDE DEF V
  <2>1. \A h \in 1..n : h - 1 \in 0..n
    BY <1>1
  <2> QED
    BY <1>3, <1>4, <2>1 DEF Follows
<1>6. Is(upTo)
  <2>1. \A h \in 0..n : h = 0 \/ h \in 1..n
    BY <1>1
  <2>2. Is(f)
    <3> HIDE DEF V
    <3> QED
      BY <1>4, <1>5, <2>1
  <2> HIDE DEF Is
  <2> QED
    BY <2>2
<1> HIDE DEF upTo, V
<1> DEFINE Count(h, a) == IF a - b \in 1..h /\ a # ip THEN 1 ELSE 0
           T == {h \in 0..n : upTo[h] \in V /\ \A a \in Int : Occurrences(a, upTo[h]) = Count(h, a)}
<1>7. 0 \in T
  <2>1. upTo[0] = << >> /\ 0 \in 0..n
    BY <1>1, <1>6
  <2>2. \A a \in Int : Occurrences(a, << >>) = 0
    BY <1>3, OccursNot DEF V
  <2> QED
    BY <1>1, <1>3, <2>1, <2>2
<1>8. ASSUME NEW h \in 0..n - 1, h \in T PROVE h + 1 \in T
  <2>1. h + 1 \in 1..n /\ h + 1 \in 0..n /\ (h + 1) - 1 = h /\ h + 1 # 0 /\ h \in 0..n /\ h \in Int
    BY <1>1
  <2>2. upTo[h] \in V /\ \A a \in Int : Occurrences(a, upTo[h]) = Count(h, a)
    BY <1>8
  <2>3. b + (h + 1) \in Addr
    BY <1>1, <2>1
  <2>4. upTo[h + 1] = IF b + (h + 1) = ip THEN upTo[h] ELSE Append(upTo[h], b + (h + 1))
    BY <1>6, <2>1
  <2>5. \A a \in Int : Count(h + 1, a) = Count(h, a) + (IF a = b + (h + 1) /\ a # ip THEN 1 ELSE 0)
    BY <1>1, <2>1
  <2> HIDE DEF Count
  <2>6. CASE b + (h + 1) = ip
    <3>1. upTo[h + 1] = upTo[h]
      BY <2>4, <2>6
    <3>2. \A a \in Int : Count(h, a) \in Int /\ Count(h + 1, a) = Count(h, a)
      BY <2>5, <2>6 DEF Count
    <3> QED
      BY <2>1, <2>2, <3>1, <3>2
  <2>7. CASE b + (h + 1) # ip
    <3> DEFINE x == b + (h + 1)
    <3>1. upTo[h + 1] = Append(upTo[h], x) /\ x \in Addr
      BY <2>3, <2>4, <2>7
    <3>2. upTo[h + 1] \in V
      BY <2>2, <3>1, AppendProperties DEF V
    <3> HIDE DEF x
    <3>3. \A a \in Int : Occurrences(a, upTo[h + 1]) = Occurrences(a, upTo[h]) + (IF x = a THEN 1 ELSE 0)
      BY <2>2, <3>1, OccursAppend DEF V
    <3>4. \A a \in Int : Count(h + 1, a) = Count(h, a) + (IF x = a THEN 1 ELSE 0)
      BY <2>5, <2>7 DEF x
    <3> QED
      BY <2>1, <2>2, <3>2, <3>3, <3>4
  <2> QED
    BY <2>6, <2>7
<1> HIDE DEF T
<1>9. n \in T
  <2>1. 0..n \subseteq T
    BY <1>1, <1>7, <1>8, UpTo
  <2> QED
    BY <1>1, <2>1
<1> QED
  BY <1>2, <1>9 DEF T, V, b, n, ip

\* What is scanned are addresses.
LEMMA TargetsTyped == targets \in Seq(Addr)
<1> DEFINE n == Len(Ifaces)
           V == Seq(Addr)
           g == [k \in 1..n |-> [s \in V |-> s \o TargetsOf(Ifaces[k])]]
           Is(f) == f = [k \in 0..n |-> IF k = 0 THEN << >> ELSE f[k - 1] \o TargetsOf(Ifaces[k])]
           upTo == CHOOSE f : Is(f)
<1>1. /\ n \in Nat
      /\ \A k \in 1..n : /\ Ifaces[k] \in [ip : Addr, mask : Addr]
                         /\ hosts(Ifaces[k].mask) # 0 => AddrMod % hosts(Ifaces[k].mask) = 0
  <2> DEFINE S == [ip : Addr, mask : Addr]
  <2>1. Ifaces \in Seq(S)
    BY DiscoverAssumption DEF Addr
  <2> HIDE DEF S
  <2>2. n \in Nat /\ DOMAIN Ifaces = 1..n /\ \A k \in 1..n : Ifaces[k] \in S
    BY <2>1, LenProperties
  <2> QED
    BY <2>2, DiscoverAssumption DEF S
<1>2. \A k \in 1..n : TargetsOf(Ifaces[k]) \in V
  BY <1>1, TargetsAreHosts
<1>3. targets = upTo[n]
  BY DEF targets
<1> HIDE DEF n
<1>4. /\ g \in [1..n -> [V -> V]] /\ << >> \in V
      /\ \A k \in 1..n : \A s \in V : g[k][s] = s \o TargetsOf(Ifaces[k])
  <2>1. \A k \in 1..n : \A s \in V : s \o TargetsOf(Ifaces[k]) \in V
    BY <1>2, ConcatProperties
  <2>2. << >> \in V
    OBVIOUS
  <2> HIDE DEF V
  <2> QED
    BY <2>1, <2>2
<1> HIDE DEF g, V
<1>5. PICK f \in [0..n -> V] : Follows(f, n, << >>, g)
  BY <1>1, <1>4, Recursion
<1>6. /\ f[0] = << >>
      /\ \A k \in 1..n : k - 1 \in 0..n /\ f[k - 1] \in V /\ f[k] = f[k - 1] \o TargetsOf(Ifaces[k])
  <2>1. \A k \in 1..n : k - 1 \in 0..n
    BY <1>1
  <2> QED
    BY <1>4, <1>5, <2>1 DEF Follows
<1>7. Is(upTo)
  <2>1. \A k \in 0..n : k = 0 \/ k \in 1..n
    BY <1>1
  <2>2. Is(f)
    BY <1>5, <1>6, <2>1
  <2> HIDE DEF Is
  <2> QED
    BY <2>2
<1> HIDE DEF upTo
<1> DEFINE T == {k \in 0..n : upTo[k] \in V}
<1>8. 0 \in T
  BY <1>1, <1>4, <1>7
<1>9. ASSUME NEW k \in 0..n - 1, k \in T PROVE k + 1 \in T
  <2>1. k + 1 \in 1..n /\ k + 1 \in 0..n /\ (k + 1) - 1 = k /\ k + 1 # 0
    BY <1>1
  <2>2. upTo[k + 1] = upTo[k] \o TargetsOf(Ifaces[k + 1])
    BY <1>7, <2>1
  <2>3. upTo[k] \in V /\ TargetsOf(Ifaces[k + 1]) \in V
    BY <1>2, <1>9, <2>1
  <2>4. upTo[k + 1] \in V
    BY <2>2, <2>3, ConcatProperties DEF V
  <2> QED
    BY <2>1, <2>4
<1> HIDE DEF T
<1>10. n \in T
  <2>1. 0..n \subseteq T
    BY <1>1, <1>8, <1>9, UpTo
  <2> QED
    BY <1>1, <2>1
<1> QED
  BY <1>3, <1>10 DEF T, V

Probes == Range(targets)
Holding(f, a) == {t \in Threads : f[t] = a}
Holders(a) == Holding(thread, a)

ScanTypes ==
  /\ scan \in {"off", "run", "done"} /\ todo \in Seq(Probes)
  /\ thread \in [Threads -> {Off, Idle, Ended} \cup Probes]
  /\ rx \in Seq(Probes) /\ peers \in Seq(Probes)

\* As often as in n places an address is found among the targets, or less often if it
\* may not have answered.
Shares(a, n) ==
  n <= Occurrences(a, targets) /\ (a \in Steady => n = Occurrences(a, targets))

\* While the threads run every target is in the list, with a thread, or in the channel
\* or answered not; a thread ends only when the list is empty.
ScanInv ==
  /\ ScanTypes
  /\ scan = "run" =>
       /\ \A a \in Probes :
            Shares(a, Occurrences(a, todo) + Cardinality(Holders(a)) + Occurrences(a, rx))
       /\ (\E t \in Threads : thread[t] = Ended) => todo = << >>
  /\ scan = "done" =>
       /\ \A a \in Probes : Shares(a, Occurrences(a, peers))
       /\ \A k \in 1..Len(peers) - 1 : peers[k] <= peers[k + 1]

\* What is probed are addresses, which no state of a thread without a probe is.
LEMMA ProbesTyped ==
  /\ Probes \in SUBSET Addr /\ Probes \in SUBSET Int /\ targets \in Seq(Probes)
  /\ Off \notin Probes /\ Idle \notin Probes /\ Ended \notin Probes
  /\ \A x \in {Off, Idle, Ended} : ~(x >= 0)
<1>1. Probes \in SUBSET Addr /\ targets \in Seq(Probes)
  BY TargetsTyped, RangeOfSeq, SeqOfRange DEF Probes
<1>2. \A a \in Addr : a \in Int /\ a >= 0
  BY DiscoverAssumption DEF Addr
<1>3. \A x \in {Off, Idle, Ended} : ~(x >= 0)
  BY DEF Off, Idle, Ended
<1> QED
  BY <1>1, <1>2, <1>3

\* A thread that takes or gives back an address is one holder more or less of it.
LEMMA HoldersMove ==
  ASSUME NEW f, DOMAIN f = Threads, NEW t \in Threads, NEW x, f[t] # x, NEW a
  PROVE  LET h == Cardinality(Holding(f, a)) IN
           /\ h \in Nat
           /\ Cardinality(Holding([f EXCEPT ![t] = x], a)) =
                IF x = a THEN h + 1 ELSE IF f[t] = a THEN h - 1 ELSE h
           /\ f[t] = a => h > 0
<1> DEFINE g == [f EXCEPT ![t] = x]
           A == Holding(f, a)
           B == Holding(g, a)
<1>1. IsFiniteSet(A) /\ Cardinality(A) \in Nat
  <2>1. A \in SUBSET Threads
    BY DEF Holding
  <2> HIDE DEF A
  <2> QED
    BY <2>1, DiscoverAssumption, FS_Subset, FS_CardinalityType
<1>2. CASE x = a
  <2>1. B = A \cup {t} /\ t \notin A
    BY <1>2 DEF Holding
  <2> HIDE DEF A, B
  <2> QED
    BY <1>1, <1>2, <2>1, FS_AddElement DEF A, B
<1>3. CASE x # a /\ f[t] = a
  <2>1. B = A \ {t} /\ t \in A
    BY <1>3 DEF Holding
  <2> HIDE DEF A, B
  <2>2. Cardinality(B) = Cardinality(A) - 1 /\ Cardinality(B) \in Nat
    BY <1>1, <2>1, FS_RemoveElement, FS_CardinalityType
  <2>3. Cardinality(A) > 0
    BY <1>1, <2>2
  <2> QED
    BY <1>1, <1>3, <2>2, <2>3 DEF A, B
<1>4. CASE x # a /\ f[t] # a
  <2>1. B = A
    BY <1>4 DEF Holding
  <2> QED
    BY <1>1, <1>4, <2>1
<1> QED
  BY <1>2, <1>3, <1>4

\* The start of a scan.
LEMMA ScanStarts ==
  ASSUME StartThreads
  PROVE  ScanInv'
<1>1. /\ scan' = (IF targets = << >> THEN "done" ELSE "run")
      /\ todo' = targets /\ rx' = << >> /\ peers' = << >>
      /\ thread' = [t \in Threads |-> IF targets = << >> THEN Off ELSE Idle]
  BY DEF StartThreads
<1>2. << >> \in Seq(Probes) /\ Len(<< >>) = 0 /\ \A a : Occurrences(a, << >>) = 0
  BY EmptySeq, OccursNot
<1>3. ScanTypes'
  BY <1>1, <1>2, ProbesTyped DEF ScanTypes, Probes
<1>4. ASSUME NEW a \in Probes
      PROVE  Shares(a, Occurrences(a, todo') + Cardinality(Holders(a)') + Occurrences(a, rx'))
  <2>1. Holders(a)' = {}
    BY <1>1, ProbesTyped DEF Holders, Holding
  <2>2. Cardinality(Holders(a)') = 0 /\ Occurrences(a, rx') = 0
    BY <1>1, <1>2, <2>1, FS_EmptySet
  <2>3. Occurrences(a, targets) \in Nat
    BY TargetsTyped, PlacesFinite
  <2>4. Occurrences(a, todo') + Cardinality(Holders(a)') + Occurrences(a, rx') = Occurrences(a, targets)
    BY <1>1, <2>2, <2>3
  <2> QED
    BY <2>3, <2>4 DEF Shares
<1>5. scan' = "done" => \A a \in Probes : Shares(a, Occurrences(a, peers'))
  <2>1. targets = << >> => Probes = {}
    BY DEF Probes, Range
  <2> QED
    BY <1>1, <2>1
<1>6. \A k \in 1..Len(peers') - 1 : peers'[k] <= peers'[k + 1]
  BY <1>1, <1>2
<1>7. ~\E t \in Threads : thread'[t] = Ended
  BY <1>1 DEF Off, Idle, Ended
<1> QED
  BY <1>3, <1>4, <1>5, <1>6, <1>7 DEF ScanInv, Probes, Shares

\* A thread takes an address from the list.
LEMMA ScanTake ==
  ASSUME ScanInv, NEW t \in Threads, Take(t)
  PROVE  ScanInv'
<1>1. /\ scan = "run" /\ thread[t] = Idle /\ todo # << >> /\ scan' = "run"
      /\ thread' = [thread EXCEPT ![t] = Head(todo)] /\ todo' = Tail(todo)
      /\ rx' = rx /\ peers' = peers
  BY DEF Take
<1> DEFINE S == {Off, Idle, Ended} \cup Probes
<1>2. /\ todo \in Seq(Probes) /\ thread \in [Threads -> S] /\ rx \in Seq(Probes) /\ peers \in Seq(Probes)
  BY DEF ScanInv, ScanTypes
<1>3. Head(todo) \in Probes /\ Tail(todo) \in Seq(Probes)
  BY <1>1, <1>2, HeadTailProperties
<1>4. ScanTypes'
  BY <1>1, <1>2, <1>3 DEF ScanTypes, Probes
<1>5. ASSUME NEW a \in Probes
      PROVE  Shares(a, Occurrences(a, todo') + Cardinality(Holders(a)') + Occurrences(a, rx'))
  <2> DEFINE x == Head(todo)
             o == Occurrences(a, Tail(todo))
             h == Cardinality(Holders(a))
             r == Occurrences(a, rx)
  <2>1. thread[t] # x /\ thread[t] # a
    BY <1>1, <1>3, ProbesTyped
  <2>2. /\ h \in Nat
        /\ Cardinality(Holders(a)') = IF x = a THEN h + 1 ELSE h
    <3> HIDE DEF x, S
    <3>1. /\ Cardinality(Holding(thread, a)) \in Nat
          /\ Cardinality(Holding([thread EXCEPT ![t] = x], a))
               = IF x = a THEN Cardinality(Holding(thread, a)) + 1
                 ELSE IF thread[t] = a THEN Cardinality(Holding(thread, a)) - 1
                 ELSE Cardinality(Holding(thread, a))
          /\ thread[t] = a => Cardinality(Holding(thread, a)) > 0
      <4>1. DOMAIN thread = Threads
        BY <1>2
      <4>2. thread[t] # x
        BY <2>1
      <4> QED
        BY <4>1, <4>2, HoldersMove
    <3> QED
      BY <1>1, <2>1, <3>1 DEF Holders, x
  <2>3. o \in Nat /\ r \in Nat /\ Occurrences(a, todo) = o + (IF x = a THEN 1 ELSE 0)
    BY <1>1, <1>2, <1>3, PlacesFinite, OccursTail
  <2>4. Shares(a, Occurrences(a, todo) + h + r)
    BY <1>1 DEF ScanInv
  <2> HIDE DEF x, o, h, r
  <2>5. Occurrences(a, todo) + h + r = o + Cardinality(Holders(a)') + r
    BY <2>2, <2>3
  <2> QED
    BY <1>1, <2>4, <2>5 DEF o, r
<1>6. ~\E u \in Threads : thread'[u] = Ended
  <2>1. ~\E u \in Threads : thread[u] = Ended
    BY <1>1 DEF ScanInv
  <2>2. Head(todo) # Ended
    BY <1>3, ProbesTyped
  <2> QED
    BY <1>1, <1>2, <2>1, <2>2
<1> QED
  BY <1>1, <1>4, <1>5, <1>6 DEF ScanInv, Probes, Shares

\* A probe comes back.
LEMMA ScanProbed ==
  ASSUME ScanInv, NEW t \in Threads, Probed(t)
  PROVE  ScanInv'
<1> DEFINE x == thread[t]
           S == {Off, Idle, Ended} \cup Probes
<1>1. /\ scan = "run" /\ x >= 0 /\ scan' = "run" /\ todo' = todo /\ peers' = peers
      /\ thread' = [thread EXCEPT ![t] = Idle]
      /\ rx' = Append(rx, x) \/ (x \notin Steady /\ rx' = rx)
  BY DEF Probed
<1>2. /\ todo \in Seq(Probes) /\ thread \in [Threads -> S] /\ rx \in Seq(Probes) /\ peers \in Seq(Probes)
  BY DEF ScanInv, ScanTypes
<1>3. x \in Probes /\ x # Idle /\ Idle \notin Probes
  BY <1>1, <1>2, ProbesTyped
<1> HIDE DEF x
<1>4. rx' \in Seq(Probes)
  <2>1. Append(rx, x) \in Seq(Probes)
    BY <1>2, <1>3, AppendProperties
  <2> QED
    BY <1>1, <1>2, <2>1
<1>5. ScanTypes'
  BY <1>1, <1>2, <1>4 DEF ScanTypes, Probes
<1>6. ASSUME NEW a \in Probes
      PROVE  Shares(a, Occurrences(a, todo') + Cardinality(Holders(a)') + Occurrences(a, rx'))
  <2> DEFINE o == Occurrences(a, todo)
             h == Cardinality(Holders(a))
             r == Occurrences(a, rx)
             y == Cardinality(Holders(a)')
             z == Occurrences(a, rx')
             all == Occurrences(a, targets)
  <2>1. /\ h \in Nat /\ y = (IF x = a THEN h - 1 ELSE h) /\ (x = a => h > 0)
    <3> HIDE DEF S
    <3>1. /\ Cardinality(Holding(thread, a)) \in Nat
          /\ Cardinality(Holding([thread EXCEPT ![t] = Idle], a))
               = IF Idle = a THEN Cardinality(Holding(thread, a)) + 1
                 ELSE IF thread[t] = a THEN Cardinality(Holding(thread, a)) - 1
                 ELSE Cardinality(Holding(thread, a))
          /\ thread[t] = a => Cardinality(Holding(thread, a)) > 0
      <4>1. thread[t] # Idle
        BY <1>3 DEF x
      <4>2. DOMAIN thread = Threads
        BY <1>2
      <4> QED
        BY <4>1, <4>2, HoldersMove
    <3> QED
      BY <1>1, <1>3, <3>1 DEF Holders, x
  <2>2. o \in Nat /\ r \in Nat /\ all \in Nat
    BY <1>2, TargetsTyped, PlacesFinite
  <2>3. Shares(a, o + h + r)
    BY <1>1 DEF ScanInv
  <2>4. z = r + (IF x = a THEN 1 ELSE 0) \/ (x \notin Steady /\ z = r)
    <3>1. Occurrences(a, Append(rx, x)) = r + (IF x = a THEN 1 ELSE 0)
      BY <1>2, <1>3, OccursAppend
    <3> QED
      BY <1>1, <3>1
  <2> HIDE DEF o, h, r, y, z, all
  <2>5. o + h + r <= all /\ (a \in Steady => o + h + r = all)
    BY <2>3 DEF Shares, all
  <2>6. o + y + z <= all /\ (a \in Steady => o + y + z = all)
    <3>1. CASE x = a
      BY <2>1, <2>2, <2>4, <2>5, <3>1
    <3>2. CASE x # a
      BY <2>1, <2>2, <2>4, <2>5, <3>2
    <3> QED
      BY <3>1, <3>2
  <2> QED
    BY <1>1, <2>6 DEF Shares, o, y, z, all
<1>7. (\E u \in Threads : thread'[u] = Ended) => todo' = << >>
  <2>1. (\E u \in Threads : thread[u] = Ended) => todo = << >>
    BY <1>1 DEF ScanInv
  <2>2. Idle # Ended
    BY DEF Idle, Ended
  <2> QED
    BY <1>1, <1>2, <2>1, <2>2
<1> QED
  BY <1>1, <1>5, <1>6, <1>7 DEF ScanInv, Probes, Shares

\* A thread finds the list empty.
LEMMA ScanThreadEnds ==
  ASSUME ScanInv, NEW t \in Threads, ThreadEnds(t)
  PROVE  ScanInv'
<1>1. /\ scan = "run" /\ thread[t] = Idle /\ todo = << >> /\ scan' = "run"
      /\ thread' = [thread EXCEPT ![t] = Ended] /\ todo' = todo
      /\ rx' = rx /\ peers' = peers
  BY DEF ThreadEnds
<1> DEFINE S == {Off, Idle, Ended} \cup Probes
<1>2. /\ todo \in Seq(Probes) /\ thread \in [Threads -> S] /\ rx \in Seq(Probes) /\ peers \in Seq(Probes)
  BY DEF ScanInv, ScanTypes
<1>3. ScanTypes'
  BY <1>1, <1>2 DEF ScanTypes, Probes
<1>4. ASSUME NEW a \in Probes
      PROVE  Shares(a, Occurrences(a, todo') + Cardinality(Holders(a)') + Occurrences(a, rx'))
  <2>1. Holders(a)' = Holders(a)
    BY <1>1, <1>2, ProbesTyped DEF Holders, Holding
  <2>2. Shares(a, Occurrences(a, todo) + Cardinality(Holders(a)) + Occurrences(a, rx))
    BY <1>1 DEF ScanInv
  <2> QED
    BY <1>1, <2>1, <2>2
<1> QED
  BY <1>1, <1>3, <1>4 DEF ScanInv, Probes, Shares

\* The last sender is gone.
LEMMA ScanCollect ==
  ASSUME ScanInv, Collect
  PROVE  ScanInv'
<1>1. /\ scan = "run" /\ \A t \in Threads : thread[t] = Ended
      /\ peers' = Sorted(rx) /\ scan' = "done" /\ thread' = [t \in Threads |-> Off]
      /\ rx' = << >> /\ todo' = todo
  BY DEF Collect
<1>2. todo \in Seq(Probes) /\ rx \in Seq(Probes) /\ todo = << >>
  BY <1>1, DiscoverAssumption DEF ScanInv, ScanTypes
<1>3. /\ peers' \in Seq(Probes)
      /\ \A a : Occurrences(a, peers') = Occurrences(a, rx)
      /\ \A k \in 1..Len(peers') - 1 : peers'[k] <= peers'[k + 1]
  BY <1>1, <1>2, ProbesTyped, SortedHas
<1>4. ScanTypes'
  BY <1>1, <1>2, <1>3, EmptySeq DEF ScanTypes, Probes
<1>5. ASSUME NEW a \in Probes PROVE Shares(a, Occurrences(a, peers'))
  <2>1. Holders(a) = {}
    BY <1>1, ProbesTyped DEF Holders, Holding
  <2>2. Occurrences(a, todo) = 0 /\ Cardinality(Holders(a)) = 0 /\ Occurrences(a, rx) \in Nat
    BY <1>2, <2>1, FS_EmptySet, OccursNot, PlacesFinite
  <2>3. Shares(a, Occurrences(a, todo) + Cardinality(Holders(a)) + Occurrences(a, rx))
    BY <1>1 DEF ScanInv
  <2>4. Occurrences(a, todo) + Cardinality(Holders(a)) + Occurrences(a, rx) = Occurrences(a, rx)
    BY <2>2
  <2> QED
    BY <1>3, <2>3, <2>4
<1> QED
  BY <1>1, <1>3, <1>4, <1>5 DEF ScanInv, Probes, Shares

\* Every step of a command keeps what the scan has.
LEMMA ScanStep == ScanInv /\ [Next]_vars => ScanInv'
<1> SUFFICES ASSUME ScanInv, [Next]_vars PROVE ScanInv'
  OBVIOUS
<1>1. ASSUME UNCHANGED scanVars PROVE ScanInv'
  BY <1>1 DEF ScanInv, ScanTypes, scanVars, Holders, Holding, Occurrences, Shares, Probes
<1>2. CASE ParseArgs
  <2>1. UNCHANGED scanVars \/ StartThreads
    BY <1>2 DEF ParseArgs
  <2> QED
    BY <1>1, <2>1, ScanStarts
<1>3. CASE Scanning
  <2>1. Collect \/ \E t \in Threads : Take(t) \/ Probed(t) \/ ThreadEnds(t)
    BY <1>3 DEF Scanning, ScanThread
  <2> QED
    BY <2>1, ScanCollect, ScanTake, ScanProbed, ScanThreadEnds
<1>4. CASE LookedUp
  <2>1. scan' = "off" /\ peers' = << >> /\ todo' = todo /\ thread' = thread /\ rx' = rx
    BY <1>4 DEF LookedUp
  <2>2. ScanTypes'
    BY <2>1, EmptySeq DEF ScanInv, ScanTypes, Probes
  <2> QED
    BY <2>1, <2>2 DEF ScanInv
<1>5. CASE Listed \/ Expanding \/ NothingToSend \/ Manifested \/ Sending \/ Sent
  <2>1. UNCHANGED scanVars
    BY <1>5 DEF Listed, Expanding, NothingToSend, Manifested, Sending, Sent
  <2> QED
    BY <1>1, <2>1
<1>6. CASE UNCHANGED vars
  BY <1>1, <1>6 DEF vars
<1> QED
  BY <1>2, <1>3, <1>4, <1>5, <1>6 DEF Next

\* The invariant of the scan.
LEMMA ScanHolds == Spec => []ScanInv
<1>1. Init => ScanInv
  <2> SUFFICES ASSUME Init PROVE ScanInv
    OBVIOUS
  <2>1. /\ scan = "off" /\ todo = << >> /\ rx = << >> /\ peers = << >>
        /\ thread = [t \in Threads |-> Off]
    BY DEF Init, ScanInit
  <2> QED
    BY <2>1, EmptySeq DEF ScanInv, ScanTypes
<1> QED
  BY <1>1, ScanStep, PTL DEF Spec

\* A finished scan lists every peer that always answers as often as interfaces lead to
\* it, and nothing that was not to be scanned, in order (src/src/discover.rs), for any
\* number of threads, interfaces and addresses.
THEOREM ScanFindsAll == Spec => []ScanIsComplete
<1>1. ScanInv => ScanIsComplete
  <2> SUFFICES ASSUME ScanInv, scan = "done" PROVE ScanIsComplete
    BY DEF ScanIsComplete
  <2>1. peers \in Seq(Probes) /\ targets \in Seq(Probes)
    BY ProbesTyped DEF ScanInv, ScanTypes
  <2>2. \A a \in Probes : Shares(a, Occurrences(a, peers))
    BY DEF ScanInv
  <2>3. \A a : a \notin Probes => Occurrences(a, peers) = 0 /\ Occurrences(a, targets) = 0
    BY <2>1, OccursNot
  <2>4. \A a \in Steady : Occurrences(a, peers) = Occurrences(a, targets)
    BY <2>2, <2>3 DEF Shares
  <2>5. \A a \in Range(peers) : Occurrences(a, peers) <= Occurrences(a, targets)
    <3>1. Range(peers) \subseteq Probes
      BY <2>1, RangeOfSeq
    <3> QED
      BY <2>2, <3>1 DEF Shares
  <2> QED
    BY <2>4, <2>5 DEF ScanIsComplete, ScanInv
<1> QED
  BY <1>1, ScanHolds, PTL

-----------------------------------------------------------------------------
(* Paths.                                                                   *)

\* A prefix, place by place.
LEMMA PrefixIs ==
  ASSUME NEW S, NEW a \in Seq(S), NEW b \in Seq(S)
  PROVE  IsPrefix(a, b) <=> Len(a) <= Len(b) /\ \A i \in 1..Len(a) : a[i] = b[i]
<1> SUFFICES ASSUME Len(a) <= Len(b)
             PROVE  SubSeq(a, 1, Len(a)) = SubSeq(b, 1, Len(a)) <=> \A i \in 1..Len(a) : a[i] = b[i]
  BY DEF IsPrefix
<1> DEFINE n == Len(a)
           c == SubSeq(b, 1, n)
<1>1. SubSeq(a, 1, n) = a /\ n \in Nat
  BY SubSeqFull, LenProperties
<1>2. c \in Seq(S) /\ Len(c) = n /\ \A i \in 1..n : c[i] = b[i]
  <2>1. 1 \in Int /\ n \in Int /\ Len(b) \in Nat /\ \A i \in 1..n : b[i] \in S
    BY <1>1, InSeq
  <2>2. /\ c \in Seq(S) /\ Len(c) = IF 1 <= n THEN n - 1 + 1 ELSE 0
        /\ \A i \in 1..n - 1 + 1 : c[i] = b[1 + i - 1]
    BY <2>1, SubSeqProperties
  <2>3. n - 1 + 1 = n /\ \A i \in 1..n : 1 + i - 1 = i
    BY <1>1
  <2> QED
    BY <1>1, <2>2, <2>3
<1> HIDE DEF c
<1>3. (\A i \in 1..n : a[i] = c[i]) => a = c
  BY <1>2, SeqEqual
<1> QED
  BY <1>1, <1>2, <1>3 DEF c

\* Prefixes order sequences.
LEMMA PrefixOrder ==
  ASSUME NEW S, NEW a \in Seq(S), NEW b \in Seq(S)
  PROVE  /\ IsPrefix(a, a)
         /\ \A c \in Seq(S) : IsPrefix(a, b) /\ IsPrefix(b, c) => IsPrefix(a, c)
         /\ IsPrefix(a, b) => Len(a) <= Len(b)
         /\ IsPrefix(a, b) /\ Len(a) = Len(b) => a = b
         /\ IsStrictPrefix(a, b) <=> IsPrefix(a, b) /\ Len(a) < Len(b)
         /\ Len(a) \in Nat /\ Len(b) \in Nat
<1>1. Len(a) \in Nat /\ Len(b) \in Nat
  BY LenProperties
<1>2. IsPrefix(a, a)
  BY <1>1, PrefixIs
<1>3. ASSUME NEW c \in Seq(S), IsPrefix(a, b), IsPrefix(b, c) PROVE IsPrefix(a, c)
  <2>1. Len(c) \in Nat
    BY LenProperties
  <2>2. Len(a) <= Len(b) /\ \A i \in 1..Len(a) : a[i] = b[i]
    BY <1>3, PrefixIs
  <2>3. Len(b) <= Len(c) /\ \A i \in 1..Len(b) : b[i] = c[i]
    BY <1>3, PrefixIs
  <2>4. Len(a) <= Len(c) /\ \A i \in 1..Len(a) : a[i] = c[i]
    BY <1>1, <2>1, <2>2, <2>3
  <2> QED
    BY <2>4, PrefixIs
<1>4. IsPrefix(a, b) => Len(a) <= Len(b)
  BY PrefixIs
<1>5. IsPrefix(a, b) /\ Len(a) = Len(b) => a = b
  BY PrefixIs, SeqEqual
<1>6. IsStrictPrefix(a, b) <=> IsPrefix(a, b) /\ Len(a) < Len(b)
  BY <1>1, <1>4, <1>5 DEF IsStrictPrefix
<1> QED
  BY <1>1, <1>2, <1>3, <1>4, <1>5, <1>6

\* The path of an entry.
LEMMA PathIs ==
  ASSUME NEW p \in Paths
  PROVE  /\ p \in Seq(Component) /\ Len(p) \in Nat \ {0} /\ Tree[p] \in Kinds
         /\ Last(p) \in Component /\ Last(p) \in Seq(Nat) /\ Lossy[Last(p)] \in Component
<1>1. p \in Seq(Component) /\ p # << >> /\ Tree[p] \in Kinds /\ \A k \in 1..Len(p) : Lossy[p[k]] \in Component
  BY WalkAssumption
<1>2. Len(p) \in Nat \ {0}
  BY <1>1, EmptySeq
<1>3. p[Len(p)] \in Component
  BY <1>1, <1>2, ElementOfSeq
<1> QED
  BY <1>1, <1>2, <1>3 DEF Last, Component

\* The prefix of a sequence of a length.
LEMMA PrefixOfLength ==
  ASSUME NEW S, NEW w \in Seq(S), NEW n \in 0..Len(w)
  PROVE  /\ SubSeq(w, 1, n) \in Seq(S) /\ Len(SubSeq(w, 1, n)) = n
         /\ IsPrefix(SubSeq(w, 1, n), w)
         /\ \A i \in 1..n : SubSeq(w, 1, n)[i] = w[i]
         /\ \A a \in Seq(S) : IsPrefix(a, w) /\ Len(a) = n => a = SubSeq(w, 1, n)
         /\ \A a \in Seq(S) : IsPrefix(a, w) /\ Len(a) <= n => IsPrefix(a, SubSeq(w, 1, n))
<1> DEFINE c == SubSeq(w, 1, n)
<1>1. Len(w) \in Nat /\ n \in Nat /\ n <= Len(w) /\ \A i \in 1..n : w[i] \in S
  BY InSeq
<1>2. c \in Seq(S) /\ Len(c) = n /\ \A i \in 1..n : c[i] = w[i]
  <2>1. 1 \in Int /\ n \in Int
    BY <1>1
  <2>2. /\ c \in Seq(S) /\ Len(c) = IF 1 <= n THEN n - 1 + 1 ELSE 0
        /\ \A i \in 1..n - 1 + 1 : c[i] = w[1 + i - 1]
    BY <1>1, <2>1, SubSeqProperties
  <2>3. n - 1 + 1 = n /\ \A i \in 1..n : 1 + i - 1 = i
    BY <1>1
  <2> QED
    BY <1>1, <2>2, <2>3
<1> HIDE DEF c
<1>3. IsPrefix(c, w)
  BY <1>1, <1>2, PrefixIs
<1>4. ASSUME NEW a \in Seq(S), IsPrefix(a, w), Len(a) <= n PROVE IsPrefix(a, c)
  <2>1. Len(a) \in Nat /\ \A i \in 1..Len(a) : a[i] = w[i]
    BY <1>4, PrefixIs, LenProperties
  <2>2. Len(a) <= Len(c) /\ \A i \in 1..Len(a) : a[i] = c[i]
    BY <1>1, <1>2, <1>4, <2>1
  <2> QED
    BY <1>2, <2>2, PrefixIs
<1>5. ASSUME NEW a \in Seq(S), IsPrefix(a, w), Len(a) = n PROVE a = c
  BY <1>1, <1>2, <1>4, <1>5, PrefixOrder
<1> QED
  BY <1>2, <1>3, <1>4, <1>5 DEF c

\* What is above a path is a directory of the tree.
LEMMA Ancestors ==
  ASSUME NEW p \in Paths, NEW n \in 1..Len(p)
  PROVE  /\ SubSeq(p, 1, n) \in Paths
         /\ n < Len(p) => Tree[SubSeq(p, 1, n)] \in {"dir", "locked"}
<1> DEFINE l == Len(p)
           To(m) == SubSeq(p, 1, m)
           T == {j \in 0..l - 1 : /\ To(l - j) \in Paths
                                  /\ j > 0 => Tree[To(l - j)] \in {"dir", "locked"}}
<1>1. p \in Seq(Component) /\ l \in Nat \ {0}
  BY PathIs
<1> HIDE DEF l
<1>2. 0 \in T
  <2>1. l - 0 = l /\ 0 \in 0..l - 1 /\ ~(0 > 0)
    BY <1>1
  <2>2. To(l) = p
    BY <1>1, SubSeqFull DEF l
  <2> QED
    BY <2>1, <2>2
<1>3. ASSUME NEW j \in 0..(l - 1) - 1, j \in T PROVE j + 1 \in T
  <2> DEFINE m == l - j
             q == To(m)
  <2>1. /\ m \in 0..Len(p) /\ m > 1 /\ m - 1 = l - (j + 1) /\ j + 1 \in 0..l - 1
        /\ m - 1 \in 0..Len(p) /\ m \in Nat
    BY <1>1 DEF l
  <2>2. q \in Paths
    BY <1>3
  <2> HIDE DEF T, m
  <2>3. q \in Seq(Component) /\ Len(q) = m
    BY <1>1, <2>1, PrefixOfLength
  <2>4. Front(q) \in Paths /\ Tree[Front(q)] \in {"dir", "locked"}
    BY <2>1, <2>2, <2>3, WalkAssumption
  <2>5. Front(q) = To(m - 1)
    <3> DEFINE f == SubSeq(q, 1, m - 1)
    <3>1. m - 1 \in 0..Len(q) /\ m - 1 <= m
      BY <2>1, <2>3
    <3>2. f \in Seq(Component) /\ Len(f) = m - 1 /\ IsPrefix(f, q)
      <4> HIDE DEF q
      <4> QED
        BY ONLY <2>3, <3>1, PrefixOfLength DEF f
    <3>3. IsPrefix(q, p)
      BY <1>1, <2>1, PrefixOfLength
    <3> HIDE DEF f, q
    <3>4. IsPrefix(f, p)
      BY <1>1, <2>3, <3>2, <3>3, PrefixOrder
    <3>5. f = To(m - 1)
      BY <1>1, <2>1, <3>2, <3>4, PrefixOfLength
    <3> QED
      BY <2>3, <3>5 DEF f, Front
  <2> QED
    BY <2>1, <2>4, <2>5 DEF T
<1> HIDE DEF T
<1>4. l - n \in T
  <2>1. l - 1 \in Nat /\ l - n \in 0..l - 1
    BY <1>1 DEF l
  <2>2. 0..l - 1 \subseteq T
    BY <1>2, <1>3, <2>1, UpTo
  <2> QED
    BY <2>1, <2>2
<1>5. l - (l - n) = n /\ (n < l => l - n > 0)
  BY <1>1 DEF l
<1> QED
  BY <1>4, <1>5 DEF T, l

\* What has something below it is a directory, and one entry of it leads there.
LEMMA AboveIsDir ==
  ASSUME NEW d \in Paths, NEW p \in Paths, IsStrictPrefix(d, p)
  PROVE  /\ Tree[d] \in {"dir", "locked"}
         /\ \E e \in Paths : Len(e) = Len(d) + 1 /\ IsPrefix(d, e) /\ IsPrefix(e, p)
<1>1. d \in Seq(Component) /\ p \in Seq(Component) /\ Len(d) \in Nat \ {0} /\ Len(p) \in Nat
  BY PathIs
<1>2. IsPrefix(d, p) /\ Len(d) < Len(p)
  BY <1>1, PrefixOrder
<1> DEFINE n == Len(d)
           e == SubSeq(p, 1, n + 1)
<1>3. n \in 0..Len(p) /\ n \in 1..Len(p) /\ n + 1 \in 0..Len(p) /\ n + 1 \in 1..Len(p) /\ n <= n + 1
  BY <1>1, <1>2
<1>4. d = SubSeq(p, 1, n)
  BY <1>1, <1>2, <1>3, PrefixOfLength
<1>5. Tree[d] \in {"dir", "locked"}
  BY <1>2, <1>3, <1>4, Ancestors
<1>6. e \in Paths
  BY <1>3, Ancestors
<1>7. Len(e) = n + 1 /\ IsPrefix(e, p) /\ IsPrefix(d, e)
  BY <1>1, <1>2, <1>3, PrefixOfLength
<1> HIDE DEF e
<1> QED
  BY <1>5, <1>6, <1>7

-----------------------------------------------------------------------------
(* The order of names.                                                      *)

\* k is the first place where two names, of the lengths la and lb, differ, and the first
\* name is less there; the first is the beginning of the second.
LessAt(la, a, lb, b, k) ==
  k \in 1..la /\ k \in 1..lb /\ a[k] < b[k] /\ \A j \in 1..k - 1 : a[j] = b[j]
Begins(la, a, lb, b) == la < lb /\ \A j \in 1..la : a[j] = b[j]
Less(la, a, lb, b) == Begins(la, a, lb, b) \/ \E k : LessAt(la, a, lb, b, k)

\* The order of names goes on from one to the next.
LEMMA LessGoesOn ==
  ASSUME NEW la \in Nat, NEW a \in [1..la -> Nat], NEW lb \in Nat, NEW b \in [1..lb -> Nat],
         NEW lc \in Nat, NEW c \in [1..lc -> Nat], Less(la, a, lb, b), Less(lb, b, lc, c)
  PROVE  Less(la, a, lc, c)
<1>1. CASE Begins(la, a, lb, b) /\ Begins(lb, b, lc, c)
  <2>1. Begins(la, a, lc, c)
    BY <1>1 DEF Begins
  <2> QED
    BY <2>1 DEF Less
<1>2. ASSUME Begins(la, a, lb, b), NEW k, LessAt(lb, b, lc, c, k) PROVE Less(la, a, lc, c)
  <2>1. k \in Nat
    BY <1>2 DEF LessAt
  <2>2. CASE k <= la
    <3>1. LessAt(la, a, lc, c, k)
      BY <1>2, <2>1, <2>2 DEF LessAt, Begins
    <3> QED
      BY <3>1 DEF Less
  <2>3. CASE la < k
    <3>1. Begins(la, a, lc, c)
      BY <1>2, <2>1, <2>3 DEF LessAt, Begins
    <3> QED
      BY <3>1 DEF Less
  <2> QED
    BY <2>1, <2>2, <2>3
<1>3. ASSUME NEW k, LessAt(la, a, lb, b, k), Begins(lb, b, lc, c) PROVE Less(la, a, lc, c)
  <2>1. LessAt(la, a, lc, c, k)
    BY <1>3 DEF LessAt, Begins
  <2> QED
    BY <2>1 DEF Less
<1>4. ASSUME NEW k, LessAt(la, a, lb, b, k), NEW l, LessAt(lb, b, lc, c, l) PROVE Less(la, a, lc, c)
  <2>1. k \in Nat /\ l \in Nat
    BY <1>4 DEF LessAt
  <2>2. CASE k <= l
    <3>1. LessAt(la, a, lc, c, k)
      BY <1>4, <2>1, <2>2 DEF LessAt
    <3> QED
      BY <3>1 DEF Less
  <2>3. CASE l < k
    <3>1. LessAt(la, a, lc, c, l)
      BY <1>4, <2>1, <2>3 DEF LessAt
    <3> QED
      BY <3>1 DEF Less
  <2> QED
    BY <2>1, <2>2, <2>3
<1> QED
  BY <1>1, <1>2, <1>3, <1>4 DEF Less

\* No name is less than itself.
LEMMA LessNotSelf ==
  ASSUME NEW la \in Nat, NEW a \in [1..la -> Nat]
  PROVE  ~Less(la, a, la, a)
<1>1. ~Begins(la, a, la, a)
  BY DEF Begins
<1>2. ASSUME NEW k, LessAt(la, a, la, a, k) PROVE FALSE
  BY <1>2 DEF LessAt
<1> QED
  BY <1>1, <1>2 DEF Less

\* Of two names one is less.
LEMMA LessTotal ==
  ASSUME NEW la \in Nat, NEW a \in [1..la -> Nat], NEW lb \in Nat, NEW b \in [1..lb -> Nat], a # b
  PROVE  Less(la, a, lb, b) \/ Less(lb, b, la, a)
<1> DEFINE D == {k \in 1..la : k \in 1..lb /\ a[k] # b[k]}
<1>1. CASE D = {}
  <2>1. \A k \in 1..la : k \in 1..lb => a[k] = b[k]
    BY <1>1
  <2>2. la # lb
    <3> SUFFICES ASSUME la = lb PROVE FALSE
      OBVIOUS
    <3>1. \A k \in 1..la : a[k] = b[k]
      BY <2>1
    <3> QED
      BY <3>1
  <2>3. CASE la < lb
    <3>1. Begins(la, a, lb, b)
      BY <2>1, <2>3 DEF Begins
    <3> QED
      BY <3>1 DEF Less
  <2>4. CASE lb < la
    <3>1. Begins(lb, b, la, a)
      BY <2>1, <2>4 DEF Begins
    <3> QED
      BY <3>1 DEF Less
  <2> QED
    BY <2>2, <2>3, <2>4
<1>2. CASE D # {}
  <2>1. D \in SUBSET Nat
    OBVIOUS
  <2>2. PICK k \in D : \A l \in D : k <= l
    BY <1>2, <2>1, LeastOf
  <2>3. k \in 1..la /\ k \in 1..lb /\ a[k] # b[k] /\ a[k] \in Nat /\ b[k] \in Nat /\ k \in Nat
    BY <2>2
  <2>4. ASSUME NEW j \in 1..k - 1 PROVE a[j] = b[j]
    <3>1. j \in 1..la /\ j \in 1..lb /\ ~(k <= j)
      BY <2>3
    <3> QED
      BY <2>2, <3>1
  <2>5. LessAt(la, a, lb, b, k) \/ LessAt(lb, b, la, a, k)
    <3>1. a[k] < b[k] \/ b[k] < a[k]
      BY <2>3
    <3> QED
      BY <2>3, <2>4, <3>1 DEF LessAt
  <2> QED
    BY <2>5 DEF Less
<1> QED
  BY <1>1, <1>2

\* Names are compared so.
LEMMA BeforeIs ==
  ASSUME NEW a \in Seq(Nat), NEW b \in Seq(Nat)
  PROVE  Before(a, b) <=> Less(Len(a), a, Len(b), b)
<1>1. DOMAIN a = 1..Len(a) /\ DOMAIN b = 1..Len(b) /\ Len(a) \in Nat /\ Len(b) \in Nat
  BY LenProperties
<1>2. (\E k \in DOMAIN a \cap DOMAIN b : a[k] < b[k] /\ \A j \in 1..k - 1 : a[j] = b[j])
        <=> \E k : LessAt(Len(a), a, Len(b), b, k)
  BY <1>1 DEF LessAt
<1>3. IsStrictPrefix(a, b) <=> Begins(Len(a), a, Len(b), b)
  <2>1. IsPrefix(a, b) <=> Len(a) <= Len(b) /\ \A i \in 1..Len(a) : a[i] = b[i]
    BY PrefixIs
  <2>2. Len(a) < Len(b) => Len(a) <= Len(b)
    BY <1>1
  <2> QED
    BY <2>1, <2>2, PrefixOrder DEF Begins
<1> QED
  BY <1>2, <1>3 DEF Before, Less

\* The order of names.
LEMMA BeforeOrders ==
  ASSUME NEW a \in Seq(Nat), NEW b \in Seq(Nat), NEW c \in Seq(Nat)
  PROVE  /\ ~Before(a, a)
         /\ Before(a, b) /\ Before(b, c) => Before(a, c)
         /\ a # b => Before(a, b) \/ Before(b, a)
<1> DEFINE la == Len(a)
           lb == Len(b)
           lc == Len(c)
<1>1. /\ la \in Nat /\ a \in [1..la -> Nat] /\ lb \in Nat /\ b \in [1..lb -> Nat]
      /\ lc \in Nat /\ c \in [1..lc -> Nat]
  BY LenProperties
<1>2. /\ Before(a, a) <=> Less(la, a, la, a)
      /\ Before(a, b) <=> Less(la, a, lb, b)
      /\ Before(b, a) <=> Less(lb, b, la, a)
      /\ Before(b, c) <=> Less(lb, b, lc, c)
      /\ Before(a, c) <=> Less(la, a, lc, c)
  BY BeforeIs
<1> HIDE DEF la, lb, lc
<1>3. ~Less(la, a, la, a)
  BY <1>1, LessNotSelf
<1>4. Less(la, a, lb, b) /\ Less(lb, b, lc, c) => Less(la, a, lc, c)
  BY <1>1, LessGoesOn
<1>5. a # b => Less(la, a, lb, b) \/ Less(lb, b, la, a)
  BY <1>1, LessTotal
<1> QED
  BY <1>2, <1>3, <1>4, <1>5

\* What is read of a directory is listed with each entry once (sort, src/src/walk.rs).
LEMMA ListedByName ==
  ASSUME NEW d \in Paths, NEW read \in SUBSET There(d)
  PROVE  /\ ByName(read) \in Seq(Paths)
         /\ \A k \in 1..Len(ByName(read)) : ByName(read)[k] \in read
         /\ \A k, l \in 1..Len(ByName(read)) : ByName(read)[k] = ByName(read)[l] => k = l
         /\ \A p \in read : \E k \in 1..Len(ByName(read)) : ByName(read)[k] = p
<1> DEFINE there == read
           n == Cardinality(there)
           R == {pq \in there \X there : Before(Last(pq[1]), Last(pq[2]))}
           rank(p) == Cardinality(Below(there, R, p))
           At(k) == CHOOSE p \in there : rank(p) = k - 1
<1>1. IsFiniteSet(there)
  BY WalkAssumption, FS_Subset DEF There
<1>2. \A p \in there : p \in Paths /\ Last(p) \in Seq(Nat)
  BY PathIs DEF There
<1>3. \A p, q \in there : p # q => Last(p) # Last(q)
  <2> SUFFICES ASSUME NEW p \in there, NEW q \in there, Last(p) = Last(q) PROVE p = q
    OBVIOUS
  <2> DEFINE l == Len(d) + 1
  <2>1. /\ p \in Seq(Component) /\ q \in Seq(Component) /\ d \in Seq(Component)
        /\ Len(d) \in Nat /\ Len(p) = l /\ Len(q) = l /\ IsPrefix(d, p) /\ IsPrefix(d, q)
    BY PathIs DEF There
  <2>2. p[l] = q[l]
    BY <2>1 DEF Last
  <2>3. \A i \in 1..Len(d) : p[i] = d[i] /\ q[i] = d[i]
    BY <2>1, PrefixIs
  <2>4. \A i \in 1..l : i \in 1..Len(d) \/ i = l
    BY <2>1
  <2>5. \A i \in 1..l : p[i] = q[i]
    BY <2>2, <2>3, <2>4
  <2> HIDE DEF l
  <2> QED
    BY <2>1, <2>5, SeqEqual
<1> HIDE DEF there
<1>4. \A p, q \in there : <<p, q>> \in R <=> Before(Last(p), Last(q))
  OBVIOUS
<1> HIDE DEF R
<1>5. Orders(R, there)
  <2>1. \A p \in there : <<p, p>> \notin R
    BY <1>2, <1>4, BeforeOrders
  <2>2. ASSUME NEW p \in there, NEW q \in there, NEW r \in there, <<p, q>> \in R, <<q, r>> \in R
        PROVE  <<p, r>> \in R
    BY <1>2, <1>4, <2>2, BeforeOrders
  <2>3. ASSUME NEW p \in there, NEW q \in there, p # q PROVE <<p, q>> \in R \/ <<q, p>> \in R
    BY <1>2, <1>3, <1>4, <2>3, BeforeOrders
  <2> QED
    BY <2>1, <2>2, <2>3 DEF Orders
<1>6. /\ n \in Nat
      /\ \A p \in there : rank(p) \in 0..n - 1
      /\ \A p, q \in there : <<p, q>> \in R <=> rank(p) < rank(q)
      /\ \A k \in 1..n : \E p \in there : rank(p) = k - 1
  BY <1>1, <1>5, Ranks
<1>7. ByName(read) = [k \in 1..n |-> At(k)]
  <2>1. \A p \in there : {q \in there : Before(Last(q), Last(p))} = Below(there, R, p)
    BY <1>4 DEF Below
  <2>2. ByName(read) = [k \in 1..n |-> CHOOSE p \in there :
                         Cardinality({q \in there : Before(Last(q), Last(p))}) = k - 1]
    BY DEF ByName, there
  <2>3. \A p \in there : Cardinality({q \in there : Before(Last(q), Last(p))}) = rank(p)
    BY <2>1
  <2>4. \A k \in 1..n : (CHOOSE p \in there :
                           Cardinality({q \in there : Before(Last(q), Last(p))}) = k - 1) = At(k)
    BY <2>3
  <2> HIDE DEF n, rank, At
  <2> QED
    BY <2>2, <2>4
<1> HIDE DEF n, rank
<1>8. \A k \in 1..n : At(k) \in there /\ rank(At(k)) = k - 1
  BY <1>6
<1> HIDE DEF At
<1>9. ByName(read) \in Seq(Paths) /\ Len(ByName(read)) = n /\ \A k \in 1..n : ByName(read)[k] = At(k)
  <2>1. \A k \in 1..n : At(k) \in Paths
    BY <1>2, <1>8
  <2> QED
    BY <1>6, <1>7, <2>1
<1>10. \A k, l \in 1..n : At(k) = At(l) => k = l
  <2> SUFFICES ASSUME NEW k \in 1..n, NEW l \in 1..n, At(k) = At(l) PROVE k = l
    OBVIOUS
  <2>1. k - 1 = l - 1
    BY <1>8
  <2> QED
    BY <1>6, <2>1
<1>11. ASSUME NEW p \in there PROVE \E k \in 1..n : At(k) = p
  <2> DEFINE k == rank(p) + 1
  <2>1. k \in 1..n /\ k - 1 = rank(p) /\ rank(p) \in Nat
    BY <1>6
  <2> HIDE DEF k
  <2>2. At(k) \in there /\ rank(At(k)) = rank(p)
    BY <1>8, <2>1
  <2>3. ~(rank(At(k)) < rank(p)) /\ ~(rank(p) < rank(At(k)))
    BY <2>1, <2>2
  <2>4. At(k) = p
    BY <1>5, <1>6, <2>2, <2>3 DEF Orders
  <2> QED
    BY <2>1, <2>4
<1> QED
  BY <1>8, <1>9, <1>10, <1>11 DEF there

-----------------------------------------------------------------------------
(* The calls that are open.                                                 *)

Frame == [dir : Paths, rel : Seq(Component) \ {<< >>}, depth : Nat, open : BOOLEAN, rest : Seq(Paths)]

\* What is left of a directory are entries of it, each once.
Under(f) ==
  /\ \A k \in 1..Len(f.rest) : Len(f.rest[k]) = Len(f.dir) + 1 /\ IsPrefix(f.dir, f.rest[k])
  /\ \A k, l \in 1..Len(f.rest) : f.rest[k] = f.rest[l] => k = l

\* f is the i-th call for the input root.
FrameOK(f, i, root) ==
  /\ Tree[f.dir] \in {"dir", "locked"} /\ IsPrefix(root, f.dir) /\ Under(f)
  /\ f.depth = i - 1 /\ f.depth <= MAX_DEPTH + 1 /\ (f.open => f.depth <= MAX_DEPTH)

\* The call g, made by f or by a call of f, is not on anything that f has left.
Aside(f, g) ==
  IsStrictPrefix(f.dir, g.dir) /\ \A k \in 1..Len(f.rest) : ~IsPrefix(f.rest[k], g.dir)

StackOK(s, root) ==
  /\ \A i \in 1..Len(s) : FrameOK(s[i], i, root) /\ (i < Len(s) => s[i].open)
  /\ \A i, j \in 1..Len(s) : i < j => Aside(s[i], s[j])

\* A call, or all of them, will come to p.
AheadIn(f, p) ==
  IF f.open THEN \E k \in 1..Len(f.rest) : IsPrefix(f.rest[k], p) ELSE IsStrictPrefix(f.dir, p)
AheadOf(s, p) == \E i \in 1..Len(s) : AheadIn(s[i], p)

\* The last of a sequence, and what is before it.
LEMMA LastAndFront ==
  ASSUME NEW S, NEW s \in Seq(S), s # << >>
  PROVE  /\ Len(s) \in Nat \ {0} /\ Last(s) = s[Len(s)] /\ Last(s) \in S
         /\ Front(s) \in Seq(S) /\ Len(Front(s)) = Len(s) - 1
         /\ \A i \in 1..Len(s) - 1 : Front(s)[i] = s[i]
<1> DEFINE n == Len(s)
<1>1. n \in Nat \ {0} /\ \A i \in 1..n : s[i] \in S
  BY EmptySeq, InSeq
<1>2. s[n] \in S /\ n - 1 \in 0..n
  BY <1>1
<1>3. Front(s) = SubSeq(s, 1, n - 1)
  BY DEF Front
<1>4. SubSeq(s, 1, n - 1) \in Seq(S) /\ Len(SubSeq(s, 1, n - 1)) = n - 1
      /\ \A i \in 1..n - 1 : SubSeq(s, 1, n - 1)[i] = s[i]
  BY <1>2, PrefixOfLength
<1> QED
  BY <1>1, <1>2, <1>3, <1>4 DEF Last

\* A call is made.
LEMMA StackPush ==
  ASSUME NEW s \in Seq(Frame), NEW f \in Frame, NEW root, StackOK(s, root),
         \A i \in 1..Len(s) : s[i].open /\ Aside(s[i], f),
         FrameOK(f, Len(s) + 1, root)
  PROVE  /\ Append(s, f) \in Seq(Frame) /\ StackOK(Append(s, f), root)
         /\ \A p : AheadOf(Append(s, f), p) <=> AheadOf(s, p) \/ AheadIn(f, p)
<1> DEFINE n == Len(s)
           t == Append(s, f)
<1>1. n \in Nat /\ t \in Seq(Frame) /\ Len(t) = n + 1 /\ t[n + 1] = f /\ \A i \in 1..n : t[i] = s[i]
  BY AppendProperties, LenProperties
<1>2. \A i : i \in 1..n + 1 <=> i \in 1..n \/ i = n + 1
  BY <1>1
<1> HIDE DEF t
<1>3. ASSUME NEW i \in 1..n + 1 PROVE FrameOK(t[i], i, root) /\ (i < n + 1 => t[i].open)
  <2>1. CASE i \in 1..n
    BY <1>1, <2>1 DEF StackOK
  <2>2. CASE i = n + 1
    BY <1>1, <2>2
  <2> QED
    BY <1>2, <2>1, <2>2
<1>4. ASSUME NEW i \in 1..n + 1, NEW j \in 1..n + 1, i < j PROVE Aside(t[i], t[j])
  <2>1. i \in 1..n
    BY <1>1, <1>4
  <2>2. CASE j \in 1..n
    BY <1>1, <1>4, <2>1, <2>2 DEF StackOK
  <2>3. CASE j = n + 1
    BY <1>1, <2>1, <2>3
  <2> QED
    BY <1>2, <2>2, <2>3
<1>5. \A p : AheadOf(t, p) <=> AheadOf(s, p) \/ AheadIn(f, p)
  <2> SUFFICES ASSUME NEW p PROVE AheadOf(t, p) <=> AheadOf(s, p) \/ AheadIn(f, p)
    OBVIOUS
  <2>1. AheadOf(t, p) <=> \E i \in 1..n + 1 : AheadIn(t[i], p)
    BY <1>1 DEF AheadOf
  <2>2. AheadOf(s, p) <=> \E i \in 1..n : AheadIn(s[i], p)
    BY DEF AheadOf
  <2>3. n + 1 \in 1..n + 1 /\ t[n + 1] = f /\ \A i \in 1..n : i \in 1..n + 1 /\ t[i] = s[i]
    BY <1>1, <1>2
  <2> QED
    BY <1>2, <2>1, <2>2, <2>3
<1> QED
  BY <1>1, <1>3, <1>4, <1>5 DEF StackOK, t

\* A call returns.
LEMMA StackPop ==
  ASSUME NEW s \in Seq(Frame), s # << >>, NEW root, StackOK(s, root)
  PROVE  /\ Front(s) \in Seq(Frame) /\ StackOK(Front(s), root) /\ Len(Front(s)) = Len(s) - 1
         /\ \A i \in 1..Len(Front(s)) : Front(s)[i].open /\ Aside(Front(s)[i], Last(s))
         /\ Last(s) \in Frame /\ FrameOK(Last(s), Len(s), root)
         /\ \A p : AheadOf(s, p) <=> AheadOf(Front(s), p) \/ AheadIn(Last(s), p)
<1> DEFINE n == Len(s)
           t == Front(s)
           f == Last(s)
<1>1. /\ n \in Nat \ {0} /\ f = s[n] /\ f \in Frame /\ t \in Seq(Frame) /\ Len(t) = n - 1
      /\ \A i \in 1..n - 1 : t[i] = s[i]
  BY LastAndFront
<1>2. /\ \A i : i \in 1..n <=> i \in 1..n - 1 \/ i = n
      /\ n \in 1..n /\ \A i \in 1..n - 1 : i \in 1..n /\ i < n
  BY <1>1
<1> HIDE DEF t, f
<1>3. StackOK(t, root)
  <2>1. \A i \in 1..n - 1 : FrameOK(t[i], i, root) /\ t[i].open
    BY <1>1, <1>2 DEF StackOK
  <2>2. \A i, j \in 1..n - 1 : i < j => Aside(t[i], t[j])
    BY <1>1, <1>2 DEF StackOK
  <2> QED
    BY <1>1, <2>1, <2>2 DEF StackOK
<1>4. \A i \in 1..n - 1 : t[i].open /\ Aside(t[i], f)
  BY <1>1, <1>2 DEF StackOK
<1>5. FrameOK(f, n, root)
  BY <1>1, <1>2 DEF StackOK
<1>6. \A p : AheadOf(s, p) <=> AheadOf(t, p) \/ AheadIn(f, p)
  <2> SUFFICES ASSUME NEW p PROVE AheadOf(s, p) <=> AheadOf(t, p) \/ AheadIn(f, p)
    OBVIOUS
  <2>1. AheadOf(s, p) <=> \E i \in 1..n : AheadIn(s[i], p)
    BY DEF AheadOf
  <2>2. AheadOf(t, p) <=> \E i \in 1..n - 1 : AheadIn(t[i], p)
    BY <1>1 DEF AheadOf
  <2> QED
    BY <1>1, <1>2, <2>1, <2>2
<1> QED
  BY <1>1, <1>3, <1>4, <1>5, <1>6 DEF t, f

\* The innermost call goes on.
LEMMA StackGoesOn ==
  ASSUME NEW s \in Seq(Frame), s # << >>, NEW root, StackOK(s, root),
         NEW f \in Frame, f.dir = Last(s).dir, FrameOK(f, Len(s), root)
  PROVE  /\ Append(Front(s), f) \in Seq(Frame) /\ StackOK(Append(Front(s), f), root)
         /\ Len(Append(Front(s), f)) = Len(s)
         /\ \A p : AheadOf(Append(Front(s), f), p) <=> AheadOf(Front(s), p) \/ AheadIn(f, p)
<1> DEFINE t == Front(s)
           n == Len(s)
<1>1. /\ t \in Seq(Frame) /\ StackOK(t, root) /\ Len(t) = n - 1
      /\ \A i \in 1..Len(t) : t[i].open /\ Aside(t[i], Last(s))
  BY StackPop
<1>2. n \in Nat
  BY LenProperties
<1>3. \A i \in 1..Len(t) : t[i].open /\ Aside(t[i], f)
  BY <1>1 DEF Aside
<1>4. Len(t) + 1 = n
  BY <1>1, <1>2
<1> HIDE DEF t, n
<1>5. FrameOK(f, Len(t) + 1, root)
  BY <1>4 DEF n
<1>6. Len(Append(t, f)) = n
  BY <1>1, <1>4, AppendProperties
<1> QED
  BY <1>1, <1>3, <1>5, <1>6, StackPush DEF t, n

-----------------------------------------------------------------------------
(* What the calls do to what is ahead.                                      *)

\* An entry that is gone takes all below it with it; what is there is of its kind.
KindInv ==
  /\ kind \in [Paths -> Kinds \cup {"gone"}]
  /\ \A p \in Paths : kind[p] \in {Tree[p], "gone"}
  /\ \A p, q \in Paths : kind[p] # "gone" /\ IsPrefix(q, p) => kind[q] # "gone"

\* Of two different entries of a directory a path is below one at most.
LEMMA Siblings ==
  ASSUME NEW x \in Paths, NEW e \in Paths, Len(x) = Len(e), x # e, NEW p \in Paths, IsPrefix(e, p)
  PROVE  ~IsPrefix(x, p)
<1>1. x \in Seq(Component) /\ e \in Seq(Component) /\ p \in Seq(Component)
      /\ Len(e) \in Nat /\ Len(p) \in Nat
  BY PathIs
<1>2. Len(e) <= Len(p)
  BY <1>1, PrefixOrder
<1>3. Len(e) \in 0..Len(p)
  BY <1>1, <1>2
<1>4. e = SubSeq(p, 1, Len(e))
  BY <1>1, <1>3, PrefixOfLength
<1>5. IsPrefix(x, p) => x = SubSeq(p, 1, Len(e))
  BY <1>1, <1>3, PrefixOfLength
<1> QED
  BY <1>4, <1>5

\* Nothing at or below an entry of the innermost call's directory is ahead of the calls
\* above it, and a call for it is on nothing that they have left.
LEMMA AboveIsOff ==
  ASSUME NEW s \in Seq(Frame), s # << >>, NEW root \in Paths, StackOK(s, root),
         NEW e \in Paths, Len(e) = Len(Last(s).dir) + 1, IsPrefix(Last(s).dir, e),
         NEW p \in Paths, IsPrefix(e, p)
  PROVE  /\ ~AheadOf(Front(s), p)
         /\ \A i \in 1..Len(Front(s)) :
              /\ IsStrictPrefix(Front(s)[i].dir, e)
              /\ \A k \in 1..Len(Front(s)[i].rest) : ~IsPrefix(Front(s)[i].rest[k], p)
<1> DEFINE g == Last(s)
           d == g.dir
           t == Front(s)
<1>1. /\ g \in Frame /\ t \in Seq(Frame) /\ StackOK(t, root) /\ Len(t) \in Nat
      /\ \A i \in 1..Len(t) : t[i].open /\ Aside(t[i], g)
  BY StackPop, LenProperties
<1>2. Len(e) = Len(d) + 1 /\ IsPrefix(d, e) /\ d \in Paths
  BY <1>1 DEF Frame
<1> HIDE DEF g, t
<1>3. /\ d \in Seq(Component) /\ e \in Seq(Component) /\ p \in Seq(Component)
      /\ Len(d) \in Nat /\ Len(e) \in Nat /\ Len(p) \in Nat
  BY <1>2, PathIs
<1>4. IsPrefix(d, p) /\ Len(d) \in 0..Len(p)
  <2>1. IsPrefix(d, p) /\ Len(d) <= Len(p)
    BY <1>2, <1>3, PrefixOrder
  <2> QED
    BY <1>3, <2>1
<1>5. d = SubSeq(p, 1, Len(d))
  BY <1>3, <1>4, PrefixOfLength
<1>6. ASSUME NEW i \in 1..Len(t)
      PROVE  /\ t[i].open /\ IsStrictPrefix(t[i].dir, e)
             /\ \A k \in 1..Len(t[i].rest) : ~IsPrefix(t[i].rest[k], p)
  <2> DEFINE h == t[i]
  <2>1. h \in Frame /\ h.open /\ FrameOK(h, i, root) /\ Aside(h, g)
    BY <1>1 DEF StackOK
  <2> HIDE DEF h
  <2>2. h.dir \in Paths /\ h.dir \in Seq(Component) /\ h.rest \in Seq(Paths) /\ Len(h.dir) \in Nat
    BY <2>1, PathIs DEF Frame
  <2>3. IsPrefix(h.dir, d) /\ Len(h.dir) < Len(d)
    BY <1>3, <2>1, <2>2, PrefixOrder DEF Aside
  <2>4. IsStrictPrefix(h.dir, e)
    <3>1. IsPrefix(h.dir, e)
      BY <1>2, <1>3, <2>2, <2>3, PrefixOrder
    <3>2. Len(h.dir) < Len(e)
      <4>1. \A a, b \in Nat : a < b => a < b + 1
        OBVIOUS
      <4> QED
        BY <1>2, <1>3, <2>2, <2>3, <4>1
    <3> QED
      BY <1>3, <2>2, <3>1, <3>2, PrefixOrder
  <2>5. ASSUME NEW k \in 1..Len(h.rest), IsPrefix(h.rest[k], p) PROVE FALSE
    <3> DEFINE x == h.rest[k]
    <3>1. x \in Paths /\ Len(x) = Len(h.dir) + 1 /\ ~IsPrefix(x, d)
      BY <2>1, <2>2, InSeq DEF FrameOK, Under, Aside
    <3> HIDE DEF x
    <3>2. x \in Seq(Component) /\ Len(x) <= Len(d)
      <4>1. \A a, b \in Nat : a < b => a + 1 <= b
        OBVIOUS
      <4>2. Len(x) <= Len(d)
        BY <1>3, <2>2, <2>3, <3>1, <4>1
      <4> QED
        BY <3>1, <4>2, PathIs
    <3>3. IsPrefix(x, SubSeq(p, 1, Len(d)))
      BY <1>3, <1>4, <2>5, <3>2, PrefixOfLength DEF x
    <3> QED
      BY <1>5, <3>1, <3>3
  <2> QED
    BY <2>1, <2>4, <2>5 DEF h
<1>7. ~AheadOf(t, p)
  BY <1>6 DEF AheadOf, AheadIn
<1> QED
  BY <1>6, <1>7 DEF t

\* The call g when read is read of its directory.
Opened(g, read) == [g EXCEPT !.open = TRUE, !.rest = ByName(read)]

\* The call g has become f, without the entries missed.
DirOpened(g, f, missed, n, root) ==
  /\ f \in Frame /\ f.dir = g.dir /\ FrameOK(f, n, root)
  /\ \A p \in Paths : /\ AheadIn(f, p) => AheadIn(g, p)
                      /\ kind[p] # "gone" /\ AheadIn(g, p) =>
                           AheadIn(f, p) \/ \E e \in missed : IsPrefix(e, p)
  /\ \A e \in missed : \A p \in Paths : IsPrefix(e, p) => AheadIn(g, p) /\ ~AheadIn(f, p)

\* A directory is listed: what was read of it stays ahead, and nothing else of it.
LEMMA DirListed ==
  ASSUME KindInv, NEW g \in Frame, NEW n \in Nat, NEW root, FrameOK(g, n, root),
         ~g.open, g.depth <= MAX_DEPTH, NEW read \in SUBSET There(g.dir)
  PROVE  DirOpened(g, Opened(g, read), There(g.dir) \ read, n, root)
<1> DEFINE d == g.dir
           rest == ByName(read)
           f == [g EXCEPT !.open = TRUE, !.rest = rest]
<1>1. d \in Paths /\ d \in Seq(Component)
  BY PathIs DEF Frame
<1>2. /\ rest \in Seq(Paths)
      /\ \A k \in 1..Len(rest) : rest[k] \in read
      /\ \A k, l \in 1..Len(rest) : rest[k] = rest[l] => k = l
      /\ \A p \in read : \E k \in 1..Len(rest) : rest[k] = p
      /\ read \subseteq There(d)
  BY <1>1, ListedByName
<1> HIDE DEF rest
<1>3. /\ f \in Frame /\ f.dir = d /\ f.rest = rest /\ f.open = TRUE /\ f.depth = g.depth
  BY <1>2 DEF Frame
<1> HIDE DEF f
<1>4. FrameOK(f, n, root)
  <2>1. Under(f)
    BY <1>2, <1>3 DEF Under, There
  <2> QED
    BY <1>3, <2>1 DEF FrameOK
<1>5. \A p : AheadIn(f, p) <=> \E k \in 1..Len(rest) : IsPrefix(rest[k], p)
  BY <1>3 DEF AheadIn
<1>6. \A p : AheadIn(g, p) <=> IsStrictPrefix(d, p)
  BY DEF AheadIn
<1>7. ASSUME NEW e \in There(d), NEW p \in Paths, IsPrefix(e, p) PROVE AheadIn(g, p)
  <2>1. e \in Paths /\ Len(e) = Len(d) + 1 /\ IsPrefix(d, e)
    BY DEF There
  <2>2. e \in Seq(Component) /\ p \in Seq(Component)
    BY <2>1, PathIs
  <2>3. IsPrefix(d, p) /\ Len(e) <= Len(p) /\ Len(d) \in Nat /\ Len(p) \in Nat
    BY <1>1, <1>7, <2>1, <2>2, PrefixOrder
  <2>4. Len(d) < Len(p)
    BY <2>1, <2>3
  <2> QED
    BY <1>1, <1>6, <2>2, <2>3, <2>4, PrefixOrder
<1>8. ASSUME NEW p \in Paths, AheadIn(f, p) PROVE AheadIn(g, p)
  <2>1. PICK k \in 1..Len(rest) : IsPrefix(rest[k], p)
    BY <1>5, <1>8
  <2>2. rest[k] \in There(d)
    BY <1>2
  <2> QED
    BY <1>7, <2>1, <2>2
<1>9. ASSUME NEW p \in Paths, kind[p] # "gone", AheadIn(g, p)
      PROVE  AheadIn(f, p) \/ \E e \in There(d) \ read : IsPrefix(e, p)
  <2>1. PICK e \in Paths : Len(e) = Len(d) + 1 /\ IsPrefix(d, e) /\ IsPrefix(e, p)
    BY <1>1, <1>6, <1>9, AboveIsDir
  <2>2. kind[e] # "gone"
    BY <1>9, <2>1 DEF KindInv
  <2>3. e \in There(d)
    BY <2>1, <2>2 DEF There
  <2> QED
    BY <1>2, <1>5, <2>1, <2>3
<1>10. ASSUME NEW e \in There(d) \ read, NEW p \in Paths, IsPrefix(e, p) PROVE ~AheadIn(f, p)
  <2> SUFFICES ASSUME NEW k \in 1..Len(rest), IsPrefix(rest[k], p) PROVE FALSE
    BY <1>5
  <2>1. rest[k] \in There(d) /\ rest[k] # e /\ e \in There(d)
    BY <1>2, <1>10
  <2> QED
    BY <1>10, <2>1, Siblings DEF There
<1> DEFINE missed == There(d) \ read
<1>11. DirOpened(g, f, missed, n, root)
  BY <1>3, <1>4, <1>7, <1>8, <1>9, <1>10 DEF DirOpened
<1> QED
  BY <1>11 DEF f, rest, Opened

\* An entry is taken: it is off everything that is left, and all else stays ahead.
LEMMA EntryTaken ==
  ASSUME NEW s \in Seq(Frame), s # << >>, NEW root \in Paths, StackOK(s, root),
         Last(s).open, Last(s).rest # << >>
  PROVE  LET e == Head(Last(s).rest)
             f == [Last(s) EXCEPT !.rest = Tail(@)]
         IN /\ e \in Paths /\ IsPrefix(root, e)
            /\ f \in Frame /\ f.dir = Last(s).dir /\ f.open /\ FrameOK(f, Len(s), root)
            /\ \A p \in Paths : IsPrefix(e, p) => /\ AheadOf(s, p) /\ ~AheadIn(f, p)
                                                  /\ ~AheadOf(Front(s), p)
            /\ \A p : AheadIn(Last(s), p) <=> AheadIn(f, p) \/ IsPrefix(e, p)
            /\ \A c \in Frame : c.dir = e =>
                 Aside(f, c) /\ \A i \in 1..Len(Front(s)) : Aside(Front(s)[i], c)
<1> DEFINE g == Last(s)
           d == g.dir
           r == g.rest
           e == Head(r)
           f == [g EXCEPT !.rest = Tail(r)]
           t == Front(s)
           m == Len(r) - 1
<1>1. /\ g \in Frame /\ FrameOK(g, Len(s), root) /\ t \in Seq(Frame)
      /\ \A i \in 1..Len(t) : t[i].open /\ Aside(t[i], g)
      /\ \A p : AheadOf(s, p) <=> AheadOf(t, p) \/ AheadIn(g, p)
  BY StackPop
<1>14. StackOK(t, root) /\ Len(t) \in Nat
  BY StackPop, LenProperties
<1>2. g.open /\ r # << >> /\ r \in Seq(Paths) /\ d \in Paths
  BY <1>1 DEF Frame
<1>3. /\ Under(g) /\ IsPrefix(root, d)
      /\ \A k \in 1..Len(r) : r[k] \in Paths /\ Len(r[k]) = Len(d) + 1 /\ IsPrefix(d, r[k])
      /\ \A k, l \in 1..Len(r) : r[k] = r[l] => k = l
  BY <1>1, <1>2, InSeq DEF FrameOK, Under
<1>4. /\ e = r[1] /\ Tail(r) \in Seq(Paths) /\ Len(r) \in Nat \ {0} /\ Len(Tail(r)) = m
      /\ \A k \in 1..m : Tail(r)[k] = r[k + 1]
  BY <1>2, HeadTailProperties, EmptySeq
<1>5. /\ f \in Frame /\ f.dir = d /\ f.rest = Tail(r) /\ f.open = TRUE /\ f.depth = g.depth
  BY <1>1, <1>2, <1>4 DEF Frame
<1> HIDE DEF g, e, f, t, m
<1>6. /\ \A k \in 1..m : k + 1 \in 1..Len(r) /\ k + 1 # 1
      /\ \A k \in 1..Len(r) : k = 1 \/ (k - 1 \in 1..m /\ (k - 1) + 1 = k)
      /\ 1 \in 1..Len(r)
  BY <1>4 DEF m
<1>7. e \in Paths /\ Len(e) = Len(d) + 1 /\ IsPrefix(d, e)
  BY <1>3, <1>4, <1>6
<1>8. /\ root \in Seq(Component) /\ d \in Seq(Component) /\ e \in Seq(Component)
      /\ Len(d) \in Nat /\ Len(e) \in Nat
  BY <1>2, <1>7, PathIs
<1>9. IsPrefix(root, e)
  BY <1>3, <1>7, <1>8, PrefixOrder
<1>10. FrameOK(f, Len(s), root)
  <2>1. \A k \in 1..m : Len(Tail(r)[k]) = Len(d) + 1 /\ IsPrefix(d, Tail(r)[k])
    BY <1>3, <1>4, <1>6
  <2>2. \A k, l \in 1..m : Tail(r)[k] = Tail(r)[l] => k = l
    <3> SUFFICES ASSUME NEW k \in 1..m, NEW l \in 1..m, Tail(r)[k] = Tail(r)[l] PROVE k = l
      OBVIOUS
    <3>1. k + 1 = l + 1
      BY <1>3, <1>4, <1>6
    <3> QED
      BY <1>4, <3>1 DEF m
  <2>3. Under(f)
    BY <1>4, <1>5, <2>1, <2>2 DEF Under
  <2> QED
    BY <1>1, <1>2, <1>5, <2>3 DEF FrameOK
<1>11. ASSUME NEW k \in 1..m, NEW p \in Paths, IsPrefix(e, p) PROVE ~IsPrefix(Tail(r)[k], p)
  <2> DEFINE x == Tail(r)[k]
  <2>1. x \in Paths /\ Len(x) = Len(e) /\ x # e
    BY <1>3, <1>4, <1>6, <1>7
  <2> HIDE DEF x
  <2>2. ~IsPrefix(x, p)
    BY <1>7, <1>11, <2>1, Siblings
  <2> QED
    BY <2>2 DEF x
<1>12. ASSUME NEW p \in Paths, IsPrefix(e, p)
       PROVE  /\ ~AheadOf(t, p)
              /\ \A i \in 1..Len(t) : /\ IsStrictPrefix(t[i].dir, e)
                                      /\ \A k \in 1..Len(t[i].rest) : ~IsPrefix(t[i].rest[k], p)
  <2>1. Len(e) = Len(Last(s).dir) + 1 /\ IsPrefix(Last(s).dir, e)
    BY <1>7 DEF g
  <2> QED
    BY <1>7, <1>12, <2>1, AboveIsOff DEF t
<1>13. \A p : AheadIn(g, p) <=> AheadIn(f, p) \/ IsPrefix(e, p)
  <2> SUFFICES ASSUME NEW p PROVE AheadIn(g, p) <=> AheadIn(f, p) \/ IsPrefix(e, p)
    OBVIOUS
  <2>1. AheadIn(g, p) <=> \E k \in 1..Len(r) : IsPrefix(r[k], p)
    BY <1>2 DEF AheadIn
  <2>2. AheadIn(f, p) <=> \E k \in 1..m : IsPrefix(Tail(r)[k], p)
    BY <1>4, <1>5 DEF AheadIn
  <2>3. (\E k \in 1..m : IsPrefix(Tail(r)[k], p)) => \E k \in 1..Len(r) : IsPrefix(r[k], p)
    BY <1>4, <1>6
  <2>4. ASSUME NEW k \in 1..Len(r), IsPrefix(r[k], p)
        PROVE  IsPrefix(e, p) \/ \E l \in 1..m : IsPrefix(Tail(r)[l], p)
    <3>1. CASE k = 1
      BY <1>4, <2>4, <3>1
    <3>2. CASE k # 1
      <4>1. k - 1 \in 1..m /\ Tail(r)[k - 1] = r[k]
        BY <1>4, <1>6, <3>2
      <4> QED
        BY <2>4, <4>1
    <3> QED
      BY <3>1, <3>2
  <2> QED
    BY <1>4, <1>6, <2>1, <2>2, <2>3, <2>4
<1>15. ASSUME NEW p \in Paths, IsPrefix(e, p)
       PROVE  AheadOf(s, p) /\ ~AheadIn(f, p) /\ ~AheadOf(t, p)
  <2>1. AheadOf(s, p)
    BY <1>1, <1>13, <1>15
  <2>2. ~AheadIn(f, p)
    BY <1>4, <1>5, <1>11, <1>15 DEF AheadIn
  <2> QED
    BY <1>12, <1>15, <2>1, <2>2
<1>16. IsPrefix(e, e)
  BY <1>8, PrefixOrder
<1>17. ASSUME NEW c \in Frame, c.dir = e
       PROVE  Aside(f, c) /\ \A i \in 1..Len(t) : Aside(t[i], c)
  <2>1. IsStrictPrefix(d, e)
    <3>1. Len(d) < Len(e)
      BY <1>7, <1>8
    <3> QED
      BY <1>7, <1>8, <3>1, PrefixOrder
  <2>2. Aside(f, c)
    BY <1>4, <1>5, <1>7, <1>11, <1>16, <1>17, <2>1 DEF Aside
  <2>3. \A i \in 1..Len(t) : Aside(t[i], c)
    BY <1>7, <1>12, <1>16, <1>17 DEF Aside
  <2> QED
    BY <2>2, <2>3
<1> QED
  BY <1>5, <1>7, <1>9, <1>10, <1>13, <1>15, <1>17 DEF e, f, g, t

-----------------------------------------------------------------------------
(* The list and what has been seen.                                         *)

Name == Seq(Component) \ {<< >>}
Named == [path : Paths, name : Component \cup {NoName}]
Skipped == [symlinks : Nat, specials : Nat, unreadable : Nat]

WalkTypes ==
  /\ inputs \in Seq(Named)
  /\ \A k \in 1..Len(inputs) : inputs[k].name # NoName => Lossy[inputs[k].name] \in Component
  /\ walk \in {"off", "run", "ok", "err"} /\ next \in 1..Len(inputs) + 1
  /\ stack \in Seq(Frame) /\ out \in Seq([path : Paths, name : Name])
  /\ \A k \in 1..Len(out) : Tree[out[k].path] = "file"
  /\ skip \in Skipped /\ mishaps \in 0..MaxMishaps
  /\ hidden \in SUBSET ((1..Len(inputs)) \X Paths) /\ unread \in SUBSET ((1..Len(inputs)) \X Paths)

\* The inputs for which the walk is past p, and those for which it has come to it, if it
\* was there.
Passed(p) == {k \in Covering(p) : k < next /\ (k = next - 1 => ~AheadOf(stack, p))}
Seen(p) == Passed(p) \ Lost(p)
SeenOf(what) == {kp \in (1..Len(inputs)) \X Paths : kind[kp[2]] = what /\ kp[1] \in Seen(kp[2])}

\* The list so far is right for the inputs for which an entry has been come to.
ListInv ==
  /\ \A p \in Paths :
       /\ Cardinality(Listings(p)) <= Cardinality(Seen(p))
       /\ kind[p] = "file" => Cardinality(Listings(p)) = Cardinality(Seen(p))
  /\ skip.symlinks >= Cardinality(SeenOf("link"))
  /\ skip.specials >= Cardinality(SeenOf("special"))
  /\ skip.unreadable = Cardinality(unread)

\* The walk does not come back to what an error has cost it.
MissInv == \A p \in Paths : Lost(p) \subseteq Passed(p)

WalkInv ==
  /\ WalkTypes /\ KindInv /\ ListInv /\ MissInv
  /\ stack # << >> => next > 1 /\ StackOK(stack, inputs[next - 1].path)
  /\ walk = "ok" => stack = << >> /\ next = Len(inputs) + 1
  /\ walk = "off" => stack = << >> /\ next = 1 /\ out = << >> /\ hidden = {} /\ unread = {}

\* The sets that are counted are finite.
LEMMA CountsFinite ==
  ASSUME NEW n \in Nat
  PROVE  /\ \A A \in SUBSET (1..n) : IsFiniteSet(A) /\ Cardinality(A) \in Nat
         /\ \A B \in SUBSET ((1..n) \X Paths) : IsFiniteSet(B) /\ Cardinality(B) \in Nat
<1>1. IsFiniteSet(1..n)
  <2>1. n \in Int /\ 1 \in Int
    OBVIOUS
  <2> QED
    BY <2>1, FS_Interval
<1>2. IsFiniteSet((1..n) \X Paths)
  BY <1>1, WalkAssumption, FS_Product
<1> QED
  BY <1>1, <1>2, FS_Subset, FS_CardinalityType

\* What they are taken from.
LEMMA CountsOf ==
  WalkTypes =>
    /\ Len(inputs) \in Nat /\ Len(out) \in Nat
    /\ \A p : Seen(p) \in SUBSET (1..Len(inputs)) /\ Listings(p) \in SUBSET (1..Len(out))
    /\ \A what : SeenOf(what) \in SUBSET ((1..Len(inputs)) \X Paths)
BY LenProperties DEF WalkTypes, Seen, Passed, Covering, Listings, SeenOf

\* No entry is come to.
LEMMA ListKept ==
  ASSUME WalkTypes, WalkTypes', ListInv, inputs' = inputs, out' = out,
         skip'.symlinks = skip.symlinks, skip'.specials = skip.specials,
         skip'.unreadable = Cardinality(unread'),
         \A p \in Paths : /\ Seen(p) \subseteq Seen(p)'
                          /\ kind'[p] # "gone" => kind'[p] = kind[p] /\ Seen(p)' = Seen(p)
  PROVE  ListInv'
<1>1. \A p : Listings(p)' = Listings(p)
  BY DEF Listings
<1>2. /\ \A p : IsFiniteSet(Seen(p)') /\ Cardinality(Seen(p)') \in Nat /\ IsFiniteSet(Seen(p))
                /\ Cardinality(Seen(p)) \in Nat /\ Cardinality(Listings(p)) \in Nat
      /\ \A what : IsFiniteSet(SeenOf(what)) /\ Cardinality(SeenOf(what)) \in Nat
                   /\ Cardinality(SeenOf(what)') \in Nat
  <2>1. \A p : Seen(p)' \in SUBSET (1..Len(inputs))
    BY DEF Seen, Passed, Covering
  <2>2. \A what : SeenOf(what)' \in SUBSET ((1..Len(inputs)) \X Paths)
    BY DEF SeenOf
  <2> QED
    BY <2>1, <2>2, CountsOf, CountsFinite
<1>3. ASSUME NEW p \in Paths
      PROVE  /\ Cardinality(Listings(p)') <= Cardinality(Seen(p)')
             /\ kind'[p] = "file" => Cardinality(Listings(p)') = Cardinality(Seen(p)')
  <2>1. Cardinality(Seen(p)) <= Cardinality(Seen(p)')
    BY <1>2, FS_Subset
  <2>2. Cardinality(Listings(p)) <= Cardinality(Seen(p))
    BY DEF ListInv
  <2>3. Cardinality(Listings(p)') <= Cardinality(Seen(p)')
    BY <1>1, <1>2, <2>1, <2>2
  <2>4. kind'[p] = "file" => Cardinality(Listings(p)') = Cardinality(Seen(p)')
    BY <1>1 DEF ListInv
  <2> QED
    BY <2>3, <2>4
<1>4. \A what : what # "gone" => Cardinality(SeenOf(what)') <= Cardinality(SeenOf(what))
  <2> SUFFICES ASSUME NEW what, what # "gone"
               PROVE  Cardinality(SeenOf(what)') <= Cardinality(SeenOf(what))
    OBVIOUS
  <2>1. SeenOf(what)' \in SUBSET SeenOf(what)
    BY DEF SeenOf
  <2> QED
    BY <1>2, <2>1, FS_Subset
<1>5. skip'.symlinks >= Cardinality(SeenOf("link")') /\ skip'.specials >= Cardinality(SeenOf("special")')
  <2>1. skip.symlinks \in Nat /\ skip.specials \in Nat
    BY DEF WalkTypes, Skipped
  <2>2. skip.symlinks >= Cardinality(SeenOf("link")) /\ skip.specials >= Cardinality(SeenOf("special"))
    BY DEF ListInv
  <2>3. /\ Cardinality(SeenOf("link")') <= Cardinality(SeenOf("link"))
        /\ Cardinality(SeenOf("special")') <= Cardinality(SeenOf("special"))
    BY <1>4
  <2> QED
    BY <1>2, <2>1, <2>2, <2>3
<1> QED
  BY <1>3, <1>5 DEF ListInv

\* The entry e is come to for the input k.
LEMMA ListGrows ==
  ASSUME WalkTypes, WalkTypes', ListInv, inputs' = inputs, kind' = kind,
         NEW e \in Paths, NEW k \in 1..Len(inputs), NEW name, k \notin Seen(e),
         Seen(e)' = Seen(e) \cup {k},
         \A p \in Paths : /\ Seen(p) \subseteq Seen(p)'
                          /\ p # e /\ kind[p] # "gone" => Seen(p)' = Seen(p),
         out' = IF kind[e] = "file" THEN Append(out, [path |-> e, name |-> name]) ELSE out,
         skip'.symlinks = IF kind[e] = "link" THEN skip.symlinks + 1 ELSE skip.symlinks,
         skip'.specials = IF kind[e] = "special" THEN skip.specials + 1 ELSE skip.specials,
         skip'.unreadable = skip.unreadable, unread' = unread
  PROVE  ListInv'
<1>1. /\ \A p : IsFiniteSet(Seen(p)') /\ Cardinality(Seen(p)') \in Nat /\ IsFiniteSet(Seen(p))
                /\ Cardinality(Seen(p)) \in Nat /\ Cardinality(Listings(p)) \in Nat
                /\ IsFiniteSet(Listings(p))
      /\ \A what : IsFiniteSet(SeenOf(what)) /\ Cardinality(SeenOf(what)) \in Nat
                   /\ Cardinality(SeenOf(what)') \in Nat
  <2>1. \A p : Seen(p)' \in SUBSET (1..Len(inputs))
    BY DEF Seen, Passed, Covering
  <2>2. \A what : SeenOf(what)' \in SUBSET ((1..Len(inputs)) \X Paths)
    BY DEF SeenOf
  <2> QED
    BY <2>1, <2>2, CountsOf, CountsFinite
<1>2. /\ \A p : p # e => Listings(p)' = Listings(p)
      /\ Cardinality(Listings(e)') = IF kind[e] = "file" THEN Cardinality(Listings(e)) + 1
                                     ELSE Cardinality(Listings(e))
  <2>1. CASE kind[e] = "file"
    <3> DEFINE n == Len(out)
               x == [path |-> e, name |-> name]
    <3>1. out' = Append(out, x) /\ out \in Seq([path : Paths, name : Name])
      BY <2>1 DEF WalkTypes
    <3>2. n \in Nat /\ Len(out') = n + 1 /\ out'[n + 1].path = e /\ \A i \in 1..n : out'[i] = out[i]
      BY <3>1
    <3>3. \A i : i \in 1..n + 1 <=> i \in 1..n \/ i = n + 1
      BY <3>2
    <3> HIDE DEF n
    <3>4. \A p : p # e => Listings(p)' = Listings(p)
      BY <3>2, <3>3 DEF Listings, n
    <3>5. Listings(e)' = Listings(e) \cup {n + 1} /\ n + 1 \notin Listings(e)
      <4>1. n + 1 \notin 1..n
        BY <3>2
      <4> QED
        BY <3>2, <3>3, <4>1 DEF Listings, n
    <3>6. Cardinality(Listings(e)') = Cardinality(Listings(e)) + 1
      <4> DEFINE A == Listings(e)
      <4>1. IsFiniteSet(A) /\ Listings(e)' = A \cup {n + 1} /\ n + 1 \notin A
        BY <1>1, <3>5
      <4> HIDE DEF A
      <4>2. Cardinality(A \cup {n + 1}) = Cardinality(A) + 1
        BY <4>1, FS_AddElement
      <4> QED
        BY <4>1, <4>2 DEF A
    <3> QED
      BY <2>1, <3>4, <3>6
  <2>2. CASE kind[e] # "file"
    <3>1. \A p : Listings(p)' = Listings(p)
      BY <2>2 DEF Listings
    <3> QED
      BY <2>2, <3>1
  <2> QED
    BY <2>1, <2>2
<1>3. ASSUME NEW p \in Paths
      PROVE  /\ Cardinality(Listings(p)') <= Cardinality(Seen(p)')
             /\ kind'[p] = "file" => Cardinality(Listings(p)') = Cardinality(Seen(p)')
  <2>1. /\ Cardinality(Listings(p)) <= Cardinality(Seen(p))
        /\ kind[p] = "file" => Cardinality(Listings(p)) = Cardinality(Seen(p))
    BY DEF ListInv
  <2>2. CASE p = e
    <3>1. Cardinality(Seen(p)') = Cardinality(Seen(p)) + 1
      BY <1>1, <2>2, FS_AddElement
    <3> QED
      BY <1>1, <1>2, <2>1, <2>2, <3>1
  <2>3. CASE p # e
    <3>1. Cardinality(Seen(p)) <= Cardinality(Seen(p)')
      BY <1>1, FS_Subset
    <3>2. kind[p] = "file" => Seen(p)' = Seen(p)
      BY <2>3
    <3>3. Listings(p)' = Listings(p)
      BY <1>2, <2>3
    <3>4. Cardinality(Listings(p)') <= Cardinality(Seen(p)')
      BY <1>1, <2>1, <3>1, <3>3
    <3> QED
      BY <2>1, <3>2, <3>3, <3>4
  <2> QED
    BY <2>2, <2>3
<1>4. ASSUME NEW what, what # "gone"
      PROVE  Cardinality(SeenOf(what)') <= IF kind[e] = what THEN Cardinality(SeenOf(what)) + 1
                                           ELSE Cardinality(SeenOf(what))
  <2> DEFINE A == SeenOf(what)
             B == SeenOf(what)'
             x == <<k, e>>
  <2>1. B \in SUBSET (IF kind[e] = what THEN A \cup {x} ELSE A)
    <3> SUFFICES ASSUME NEW kp \in B, kp \notin A PROVE kind[e] = what /\ kp = x
      OBVIOUS
    <3>1. /\ kp \in (1..Len(inputs)) \X Paths /\ kind[kp[2]] = what
          /\ kp[1] \in Seen(kp[2])' /\ kp[1] \notin Seen(kp[2])
      BY DEF SeenOf
    <3>2. kp[2] \in Paths /\ kp = <<kp[1], kp[2]>>
      BY <3>1
    <3>3. kp[2] = e
      <4> SUFFICES ASSUME kp[2] # e PROVE FALSE
        OBVIOUS
      <4>1. Seen(kp[2])' = Seen(kp[2])
        BY <1>4, <3>1, <3>2
      <4> QED
        BY <3>1, <4>1
    <3>4. kp[1] = k
      BY <3>1, <3>3
    <3> QED
      BY <3>1, <3>2, <3>3, <3>4
  <2>2. IsFiniteSet(A) /\ Cardinality(A) \in Nat /\ Cardinality(B) \in Nat
    BY <1>1
  <2> HIDE DEF A, B, x
  <2>3. IsFiniteSet(A \cup {x}) /\ Cardinality(A \cup {x}) <= Cardinality(A) + 1
    <3>1. IsFiniteSet(A \cup {x})
          /\ (Cardinality(A \cup {x}) = Cardinality(A) \/ Cardinality(A \cup {x}) = Cardinality(A) + 1)
      BY <2>2, FS_AddElement
    <3> QED
      BY <2>2, <3>1
  <2>4. CASE kind[e] = what
    <3>1. Cardinality(B) <= Cardinality(A \cup {x}) /\ Cardinality(A \cup {x}) \in Nat
      BY <2>1, <2>3, <2>4, FS_Subset, FS_CardinalityType
    <3>2. Cardinality(B) <= Cardinality(A) + 1
      BY <2>2, <2>3, <3>1
    <3> QED
      BY <2>4, <3>2 DEF A, B
  <2>5. CASE kind[e] # what
    <3>1. Cardinality(B) <= Cardinality(A)
      BY <2>1, <2>2, <2>5, FS_Subset
    <3> QED
      BY <2>5, <3>1 DEF A, B
  <2> QED
    BY <2>4, <2>5
<1>5. skip'.symlinks >= Cardinality(SeenOf("link")') /\ skip'.specials >= Cardinality(SeenOf("special")')
  <2>1. skip.symlinks \in Nat /\ skip.specials \in Nat
    BY DEF WalkTypes, Skipped
  <2>2. skip.symlinks >= Cardinality(SeenOf("link")) /\ skip.specials >= Cardinality(SeenOf("special"))
    BY DEF ListInv
  <2>3. /\ Cardinality(SeenOf("link")') <= IF kind[e] = "link" THEN Cardinality(SeenOf("link")) + 1
                                           ELSE Cardinality(SeenOf("link"))
        /\ Cardinality(SeenOf("special")') <= IF kind[e] = "special" THEN Cardinality(SeenOf("special")) + 1
                                              ELSE Cardinality(SeenOf("special"))
    BY <1>4
  <2>6. \A a, b, c, d \in Nat : a >= b /\ ((c = a /\ d <= b) \/ (c = a + 1 /\ d <= b + 1)) => c >= d
    OBVIOUS
  <2>4. skip'.symlinks >= Cardinality(SeenOf("link")')
    <3> DEFINE a == skip.symlinks
               b == Cardinality(SeenOf("link"))
               c == skip'.symlinks
               d == Cardinality(SeenOf("link")')
    <3>4. b \in Nat /\ d \in Nat
      BY <1>1
    <3>1. a \in Nat /\ c \in Nat /\ a >= b
      BY <2>1, <2>2
    <3>2. (c = a /\ d <= b) \/ (c = a + 1 /\ d <= b + 1)
      <4>1. CASE kind[e] = "link"
        BY <2>3, <4>1
      <4>2. CASE kind[e] # "link"
        BY <2>3, <4>2
      <4> QED
        BY <4>1, <4>2
    <3> HIDE DEF a, b, c, d
    <3>3. c >= d
      BY <2>6, <3>1, <3>2, <3>4
    <3> QED
      BY <3>3 DEF c, d
  <2>5. skip'.specials >= Cardinality(SeenOf("special")')
    <3> DEFINE a == skip.specials
               b == Cardinality(SeenOf("special"))
               c == skip'.specials
               d == Cardinality(SeenOf("special")')
    <3>4. b \in Nat /\ d \in Nat
      BY <1>1
    <3>1. a \in Nat /\ c \in Nat /\ a >= b
      BY <2>1, <2>2
    <3>2. (c = a /\ d <= b) \/ (c = a + 1 /\ d <= b + 1)
      <4>1. CASE kind[e] = "special"
        BY <2>3, <4>1
      <4>2. CASE kind[e] # "special"
        BY <2>3, <4>2
      <4> QED
        BY <4>1, <4>2
    <3> HIDE DEF a, b, c, d
    <3>3. c >= d
      BY <2>6, <3>1, <3>2, <3>4
    <3> QED
      BY <3>3 DEF c, d
  <2> QED
    BY <2>4, <2>5
<1>6. skip'.unreadable = Cardinality(unread')
  BY DEF ListInv
<1> QED
  BY <1>3, <1>5, <1>6 DEF ListInv

\* What has changed when the entry e, said to be md, has been taken.
EntryDone(e, md, name, d, calls) ==
  /\ inputs' = inputs /\ kind' = kind /\ walk' = walk /\ hidden' = hidden
  /\ stack' = IF md \in {"dir", "locked"} THEN Append(calls, Call(e, name, d)) ELSE calls
  /\ stack' \in Seq(Frame)
  /\ out' = IF md = "file" THEN Append(out, [path |-> e, name |-> name]) ELSE out
  /\ out' \in Seq([path : Paths, name : Name])
  /\ \A k \in 1..Len(out') : Tree[out'[k].path] = "file"
  /\ skip' \in Skipped
  /\ skip'.symlinks = IF md = "link" THEN skip.symlinks + 1 ELSE skip.symlinks
  /\ skip'.specials = IF md = "special" THEN skip.specials + 1 ELSE skip.specials
  /\ skip'.unreadable = IF md = "gone" THEN skip.unreadable + 1 ELSE skip.unreadable

\* What an entry does to the list, the calls and the counts.
LEMMA EntryDoes ==
  ASSUME WalkTypes, KindInv, NEW e \in Paths, NEW name \in Name, NEW d \in Nat,
         NEW calls \in Seq(Frame), NEW md \in {kind[e], "gone"}, Entry(e, md, name, d, calls)
  PROVE  EntryDone(e, md, name, d, calls)
<1>1. /\ inputs' = inputs /\ kind' = kind /\ walk' = walk /\ hidden' = hidden
      /\ stack' = IF md \in {"dir", "locked"} THEN Append(calls, Call(e, name, d)) ELSE calls
      /\ out' = IF md = "file" THEN Append(out, [path |-> e, name |-> name]) ELSE out
  BY DEF Entry
<1>2. stack' \in Seq(Frame)
  <2>1. << >> \in Seq(Paths)
    OBVIOUS
  <2>2. Call(e, name, d) \in Frame
    BY <2>1 DEF Call, Frame, Name
  <2> QED
    BY <1>1, <2>2, AppendProperties
<1>3. out' \in Seq([path : Paths, name : Name]) /\ \A k \in 1..Len(out') : Tree[out'[k].path] = "file"
  <2>1. CASE md = "file"
    <3> DEFINE x == [path |-> e, name |-> name]
               n == Len(out)
    <3>1. x \in [path : Paths, name : Name] /\ x.path = e /\ Tree[e] = "file"
      BY <2>1 DEF KindInv
    <3>2. out \in Seq([path : Paths, name : Name]) /\ \A k \in 1..n : Tree[out[k].path] = "file"
      BY DEF WalkTypes
    <3> HIDE DEF x
    <3>3. /\ out' = Append(out, x) /\ out' \in Seq([path : Paths, name : Name]) /\ n \in Nat
          /\ Len(out') = n + 1 /\ out'[n + 1] = x /\ \A k \in 1..n : out'[k] = out[k]
      BY <1>1, <2>1, <3>1, <3>2, AppendProperties, LenProperties DEF x
    <3>4. \A k \in 1..n + 1 : k \in 1..n \/ k = n + 1
      BY <3>3
    <3> QED
      BY <3>1, <3>2, <3>3, <3>4
  <2>2. CASE md # "file"
    BY <1>1, <2>2 DEF WalkTypes
  <2> QED
    BY <2>1, <2>2
<1>4. /\ skip' \in Skipped
      /\ skip'.symlinks = IF md = "link" THEN skip.symlinks + 1 ELSE skip.symlinks
      /\ skip'.specials = IF md = "special" THEN skip.specials + 1 ELSE skip.specials
      /\ skip'.unreadable = IF md = "gone" THEN skip.unreadable + 1 ELSE skip.unreadable
  <2>1. skip \in Skipped /\ md \in Kinds \cup {"gone"}
    BY DEF WalkTypes, KindInv
  <2>2. CASE md = "link"
    BY <2>1, <2>2 DEF Entry, Skipped
  <2>3. CASE md = "special"
    BY <2>1, <2>3 DEF Entry, Skipped
  <2>4. CASE md = "gone"
    BY <2>1, <2>4 DEF Entry, Skipped
  <2>5. CASE md \notin {"link", "special", "gone"}
    <3>1. skip' = skip
      BY <2>5 DEF Entry
    <3> QED
      BY <2>1, <2>5, <3>1
  <2> QED
    BY <2>2, <2>3, <2>4, <2>5
<1> QED
  BY <1>1, <1>2, <1>3, <1>4 DEF EntryDone

\* The call for a directory comes to what is below it, and nothing is below anything else.
LEMMA CallIs ==
  ASSUME KindInv, NEW e \in Paths, NEW name \in Name, NEW d \in Nat, d <= MAX_DEPTH + 1,
         NEW root, IsPrefix(root, e)
  PROVE  /\ Call(e, name, d) \in Frame /\ Call(e, name, d).dir = e
         /\ kind[e] \in {"dir", "locked"} => FrameOK(Call(e, name, d), d + 1, root)
         /\ \A p : AheadIn(Call(e, name, d), p) <=> IsStrictPrefix(e, p)
         /\ \A p \in Paths : kind[p] # "gone" /\ IsStrictPrefix(e, p) => kind[e] \in {"dir", "locked"}
         /\ ~IsStrictPrefix(e, e)
<1> DEFINE c == Call(e, name, d)
<1>1. << >> \in Seq(Paths)
  OBVIOUS
<1>2. /\ c \in Frame /\ c.dir = e /\ c.depth = d /\ c.open = FALSE /\ c.rest = << >>
  BY <1>1 DEF Call, Frame, Name
<1> HIDE DEF c
<1>3. ASSUME kind[e] \in {"dir", "locked"} PROVE FrameOK(c, d + 1, root)
  <2>1. Tree[e] \in {"dir", "locked"}
    BY <1>3 DEF KindInv
  <2>2. Under(c)
    <3>1. Len(c.rest) = 0
      BY <1>2
    <3> QED
      BY <3>1 DEF Under
  <2>3. (d + 1) - 1 = d
    OBVIOUS
  <2> QED
    BY <1>2, <2>1, <2>2, <2>3 DEF FrameOK
<1>4. \A p : AheadIn(c, p) <=> IsStrictPrefix(e, p)
  BY <1>2 DEF AheadIn
<1>5. ASSUME NEW p \in Paths, kind[p] # "gone", IsStrictPrefix(e, p) PROVE kind[e] \in {"dir", "locked"}
  <2>1. Tree[e] \in {"dir", "locked"}
    BY <1>5, AboveIsDir
  <2>2. kind[e] # "gone"
    BY <1>5 DEF KindInv, IsStrictPrefix
  <2> QED
    BY <2>1, <2>2 DEF KindInv
<1>6. ~IsStrictPrefix(e, e)
  BY PathIs, PrefixOrder
<1> QED
  BY <1>2, <1>3, <1>4, <1>5, <1>6 DEF c

\* A name is taken from an input, and from a directory and an entry of it.
LEMMA NamesAre ==
  /\ DIR \in Component
  /\ \A c \in Component : <<c>> \in Name
  /\ \A rel \in Name, c \in Component : Append(rel, c) \in Name
<1>1. DIR \in Component
  BY DEF DIR, Component, Dot, Up, Empty
<1>2. ASSUME NEW c \in Component PROVE <<c>> \in Name
  BY DEF Name
<1>3. ASSUME NEW rel \in Name, NEW c \in Component PROVE Append(rel, c) \in Name
  <2>1. Append(rel, c) \in Seq(Component) /\ Len(Append(rel, c)) = Len(rel) + 1 /\ Len(rel) \in Nat
    BY AppendProperties, LenProperties DEF Name
  <2>2. Append(rel, c) # << >>
    BY <2>1
  <2> QED
    BY <2>1, <2>2 DEF Name
<1> QED
  BY <1>1, <1>2, <1>3

\* What does not change the list, the calls and the entries.
LEMMA ListStays ==
  ASSUME ListInv, MissInv, UNCHANGED <<inputs, kind, next, stack, out, skip, hidden, unread>>
  PROVE  ListInv' /\ MissInv'
<1>1. \A p : Passed(p)' = Passed(p) /\ Lost(p)' = Lost(p)
  BY DEF Passed, Lost, Covering, AheadOf
<1>2. \A what : SeenOf(what)' = SeenOf(what)
  BY <1>1 DEF Seen, SeenOf
<1>3. \A p : Listings(p)' = Listings(p) /\ Seen(p)' = Seen(p)
  BY <1>1 DEF Listings, Seen
<1>4. ListInv'
  BY <1>2, <1>3 DEF ListInv
<1>5. MissInv'
  BY <1>1 DEF MissInv
<1> QED
  BY <1>4, <1>5

\* The walk fails.
LEMMA FailsKeeps ==
  ASSUME WalkInv, Fails, walk = "run"
  PROVE  WalkInv'
<1>1. walk' = "err" /\ UNCHANGED <<inputs, kind, next, stack, out, skip, mishaps, hidden, unread>>
  BY DEF Fails, errVars
<1>2. WalkTypes' /\ KindInv'
  BY <1>1 DEF WalkInv, WalkTypes, KindInv
<1>3. ListInv' /\ MissInv'
  BY <1>1, ListStays DEF WalkInv
<1> QED
  BY <1>1, <1>2, <1>3 DEF WalkInv

\* An input is taken.
LEMMA InputTakes ==
  ASSUME WalkInv, walk = "run", stack = << >>, NEW m \in 1..Len(inputs), m = next, next' = m + 1,
         NEW e \in Paths, e = inputs[m].path, kind[e] # "gone",
         NEW n \in Name, Entry(e, kind[e], n, 0, << >>), UNCHANGED <<mishaps, unread>>
  PROVE  WalkInv'
<1> DEFINE c == Call(e, n, 0)
           dir == kind[e] \in {"dir", "locked"}
<1>1. << >> \in Seq(Frame) /\ 0 \in Nat /\ 0 <= MAX_DEPTH + 1
  BY WalkAssumption
<1>2. WalkTypes /\ KindInv /\ ListInv /\ MissInv
  BY DEF WalkInv
<1>3. /\ Len(inputs) \in Nat /\ m \in Nat /\ m + 1 \in 1..Len(inputs) + 1 /\ m + 1 > 1
      /\ (m + 1) - 1 = m
      /\ \A k \in Nat : /\ k < m + 1 <=> k < m \/ k = m
                        /\ k < m => k # m
                        /\ k = (m + 1) - 1 <=> k = m
  <2>1. Len(inputs) \in Nat
    BY <1>2, LenProperties DEF WalkTypes
  <2> QED
    BY <2>1
<1>4. /\ inputs' = inputs /\ kind' = kind /\ walk' = walk /\ hidden' = hidden
      /\ stack' = IF dir THEN Append(<< >>, c) ELSE << >>
      /\ stack' \in Seq(Frame)
      /\ out' = IF kind[e] = "file" THEN Append(out, [path |-> e, name |-> n]) ELSE out
      /\ out' \in Seq([path : Paths, name : Name])
      /\ \A k \in 1..Len(out') : Tree[out'[k].path] = "file"
      /\ skip' \in Skipped
      /\ skip'.symlinks = IF kind[e] = "link" THEN skip.symlinks + 1 ELSE skip.symlinks
      /\ skip'.specials = IF kind[e] = "special" THEN skip.specials + 1 ELSE skip.specials
      /\ skip'.unreadable = skip.unreadable
  BY <1>1, <1>2, EntryDoes DEF EntryDone
<1>5. WalkTypes' /\ KindInv'
  BY <1>2, <1>3, <1>4 DEF WalkTypes, KindInv
<1>6. IsPrefix(e, e)
  BY PathIs, PrefixOrder
<1>7. /\ c \in Frame /\ c.dir = e /\ (dir => FrameOK(c, 0 + 1, e))
      /\ \A p : AheadIn(c, p) <=> IsStrictPrefix(e, p)
      /\ \A p \in Paths : kind[p] # "gone" /\ IsStrictPrefix(e, p) => dir
      /\ ~IsStrictPrefix(e, e)
  BY <1>1, <1>2, <1>6, CallIs
<1> HIDE DEF c
<1>8. /\ stack' # << >> => StackOK(stack', e)
      /\ \A p : AheadOf(stack', p) <=> dir /\ IsStrictPrefix(e, p)
      /\ \A p : ~AheadOf(stack, p)
  <2>1. StackOK(<< >>, e) /\ \A p : ~AheadOf(<< >>, p)
    BY DEF StackOK, AheadOf
  <2>2. CASE dir
    <3>1. FrameOK(c, Len(<< >>) + 1, e) /\ \A i \in 1..Len(<< >>) : <<>>[i].open /\ Aside(<<>>[i], c)
      BY <1>7, <2>2
    <3>2. StackOK(Append(<< >>, c), e)
          /\ \A p : AheadOf(Append(<< >>, c), p) <=> AheadOf(<< >>, p) \/ AheadIn(c, p)
      BY <1>1, <1>7, <2>1, <3>1, StackPush
    <3> HIDE DEF dir
    <3> QED
      BY <1>4, <1>7, <2>1, <2>2, <3>2
  <2>3. CASE ~dir
    <3> HIDE DEF dir
    <3> QED
      BY <1>4, <2>1, <2>3
  <2> QED
    BY <2>2, <2>3
<1> HIDE DEF dir
<1>9. \A p : /\ m \in Covering(p) <=> IsPrefix(e, p)
             /\ Covering(p) \subseteq Nat /\ Covering(p)' = Covering(p)
  BY <1>4 DEF Covering
<1>10. \A p : \A k : /\ k \in Passed(p) <=> k \in Covering(p) /\ k < m
                     /\ k \in Passed(p)' <=> k \in Covering(p) /\ k < m + 1
                                             /\ (k = m => ~AheadOf(stack', p))
  <2>1. \A p : \A k : k \in Passed(p) <=> k \in Covering(p) /\ k < m
    BY <1>8 DEF Passed
  <2>2. \A p : \A k : k \in Passed(p)' <=> k \in Covering(p) /\ k < m + 1
                                           /\ (k = (m + 1) - 1 => ~AheadOf(stack', p))
    BY <1>9 DEF Passed
  <2> QED
    BY <1>3, <2>1, <2>2
<1>11. m \notin Passed(e) /\ Passed(e)' = Passed(e) \cup {m}
  <2>1. m \in Covering(e) /\ ~AheadOf(stack', e)
    BY <1>6, <1>7, <1>8, <1>9
  <2>2. \A k \in Covering(e) : k < m + 1 <=> k < m \/ k = m
    BY <1>3, <1>9
  <2>3. \A k : k \in Passed(e)' <=> k \in Passed(e) \/ k = m
    BY <1>10, <2>1, <2>2
  <2>4. m \notin Passed(e)
    BY <1>3, <1>10
  <2> QED
    BY <2>3, <2>4
<1>12. ASSUME NEW p \in Paths
       PROVE  /\ Passed(p) \subseteq Passed(p)'
              /\ p # e /\ kind[p] # "gone" => Passed(p)' = Passed(p)
  <2>1. Passed(p) \subseteq Passed(p)'
    BY <1>3, <1>9, <1>10
  <2>2. ASSUME p # e, kind[p] # "gone" PROVE m \notin Passed(p)'
    <3>1. IsPrefix(e, p) => IsStrictPrefix(e, p)
      BY <2>2 DEF IsStrictPrefix
    <3> QED
      BY <1>7, <1>8, <1>9, <1>10, <2>2, <3>1
  <2>3. \A k : k \in Passed(p)' => k \in Passed(p) \/ k = m
    BY <1>3, <1>9, <1>10
  <2> QED
    BY <2>1, <2>2, <2>3
<1>13. ListInv' /\ MissInv'
  <2>1. \A p \in Paths : Lost(p)' = Lost(p) /\ Lost(p) \subseteq Passed(p)
    BY <1>2, <1>4 DEF Lost, MissInv
  <2>2. \A p \in Paths : /\ Seen(p) \subseteq Seen(p)'
                         /\ p # e /\ kind[p] # "gone" => Seen(p)' = Seen(p)
    BY <1>12, <2>1 DEF Seen
  <2>3. m \notin Seen(e) /\ Seen(e)' = Seen(e) \cup {m}
    BY <1>11, <2>1 DEF Seen
  <2>4. MissInv'
    BY <1>12, <2>1 DEF MissInv
  <2> QED
    BY <1>2, <1>4, <1>5, <2>2, <2>3, <2>4, ListGrows
<1>14. stack' # << >> => next' > 1 /\ StackOK(stack', inputs'[next' - 1].path)
  BY <1>3, <1>4, <1>8
<1>15. walk' = "run"
  BY <1>4
<1> QED
  BY <1>5, <1>13, <1>14, <1>15 DEF WalkInv

\* An input is taken, or it is not there.
LEMMA InputKeeps ==
  ASSUME WalkInv, Input
  PROVE  WalkInv'
<1> PICK m : m = next
  OBVIOUS
<1> PICK e : e = inputs[m].path
  OBVIOUS
<1> PICK given : given = inputs[m].name
  OBVIOUS
<1> PICK name : name = IF given = NoName THEN DIR ELSE Lossy[given]
  OBVIOUS
<1>1. /\ walk = "run" /\ stack = << >> /\ m = next /\ next <= Len(inputs)
      /\ \/ Fails
         \/ /\ kind[e] # "gone" /\ Entry(e, kind[e], <<name>>, 0, << >>) /\ next' = m + 1
            /\ UNCHANGED <<mishaps, unread>>
  BY DEF Input
<1>2. inputs \in Seq(Named) /\ m \in 1..Len(inputs)
  <2>1. inputs \in Seq(Named) /\ Len(inputs) \in Nat /\ next \in 1..Len(inputs) + 1
    BY LenProperties DEF WalkInv, WalkTypes
  <2> QED
    BY <1>1, <2>1
<1>3. e \in Paths /\ <<name>> \in Name
  <2>1. inputs[m] \in Named
    BY <1>2, InSeq
  <2>2. e \in Paths /\ name \in Component
    BY <1>2, <2>1, NamesAre DEF WalkInv, WalkTypes, Named
  <2> QED
    BY <2>2, NamesAre
<1>4. CASE Fails
  BY <1>1, <1>4, FailsKeeps
<1>5. CASE ~Fails
  <2> DEFINE n == <<name>>
  <2>1. /\ n \in Name /\ kind[e] # "gone" /\ Entry(e, kind[e], n, 0, << >>) /\ next' = m + 1
        /\ UNCHANGED <<mishaps, unread>>
    BY <1>1, <1>3, <1>5
  <2> HIDE DEF n
  <2> QED
    BY <1>1, <1>2, <1>3, <1>5, <2>1, InputTakes
<1> QED
  BY <1>4, <1>5

\* In the walk of the m-th input the calls have changed, and what is at or below missed is
\* not ahead any more.
Changed(m, missed) ==
  /\ missed \in SUBSET Paths /\ UNCHANGED <<inputs, kind, walk, next, out>>
  /\ stack' \in Seq(Frame) /\ mishaps' \in 0..MaxMishaps
  /\ skip' \in Skipped /\ skip'.symlinks = skip.symlinks /\ skip'.specials = skip.specials
  /\ skip'.unreadable = Cardinality(unread')
  /\ hidden' \in SUBSET ((1..Len(inputs)) \X Paths)
  /\ unread' \in SUBSET ((1..Len(inputs)) \X Paths)
  /\ hidden' \cup unread' = hidden \cup unread \cup {<<m, e>> : e \in missed}
  /\ stack' # << >> => StackOK(stack', inputs[m].path)
  /\ \A e \in missed : /\ IsPrefix(inputs[m].path, e)
                       /\ \A p \in Paths : IsPrefix(e, p) =>
                            AheadOf(stack, p) /\ ~AheadOf(stack', p)
  /\ \A p \in Paths : /\ AheadOf(stack', p) => AheadOf(stack, p)
                      /\ kind[p] # "gone" /\ AheadOf(stack, p) =>
                           AheadOf(stack', p) \/ \E e \in missed : IsPrefix(e, p)

\* The list stays right when nothing is come to but what is missed.
LEMMA CallsChange ==
  ASSUME WalkInv, walk = "run", stack # << >>, NEW missed, Changed(next - 1, missed)
  PROVE  WalkInv'
<1>m. PICK m : m = next - 1
  OBVIOUS
<1>c. Changed(m, missed)
  BY <1>m, Zenon
<1> USE <1>m, <1>c DEF Changed
<1>1. WalkTypes' /\ KindInv'
  BY DEF WalkInv, WalkTypes, KindInv
<1>2. WalkTypes /\ ListInv /\ MissInv /\ next > 1
  BY DEF WalkInv
<1>3. m \in 1..Len(inputs) /\ m < next /\ inputs[m].path \in Paths
  <2>1. next \in 1..Len(inputs) + 1 /\ Len(inputs) \in Nat
    BY <1>2, LenProperties DEF WalkTypes
  <2>2. m \in 1..Len(inputs) /\ m < next
    BY <1>2, <2>1
  <2>3. inputs[m] \in Named
    BY <1>2, <2>2, InSeq DEF WalkTypes
  <2> QED
    BY <2>2, <2>3 DEF Named
<1>4. ASSUME NEW p \in Paths
      PROVE  Lost(p)' = IF \E e \in missed : IsPrefix(e, p) THEN Lost(p) \cup {m} ELSE Lost(p)
  <2>1. \A k \in 1..Len(inputs) : \A e \in Paths :
          <<k, e>> \in hidden' \cup unread' <=>
            <<k, e>> \in hidden \cup unread \/ (k = m /\ e \in missed)
    OBVIOUS
  <2>2. Lost(p)' = {k \in 1..Len(inputs) :
                     \E e \in Paths : IsPrefix(e, p) /\ <<k, e>> \in hidden' \cup unread'}
    BY DEF Lost
  <2>3. \A k \in 1..Len(inputs) :
          k \in Lost(p)' <=> k \in Lost(p) \/ (k = m /\ \E e \in missed : IsPrefix(e, p))
    BY <2>1, <2>2 DEF Lost
  <2>4. Lost(p)' \subseteq 1..Len(inputs) /\ Lost(p) \subseteq 1..Len(inputs)
    BY <2>2 DEF Lost
  <2> QED
    BY <1>3, <2>3, <2>4
<1>5. ASSUME NEW p \in Paths
      PROVE  /\ Passed(p) \subseteq Passed(p)'
             /\ Passed(p)' \subseteq Passed(p) \cup {m}
             /\ kind[p] # "gone" /\ ~(\E e \in missed : IsPrefix(e, p)) => Passed(p)' = Passed(p)
             /\ (\E e \in missed : IsPrefix(e, p)) => m \notin Passed(p) /\ m \in Passed(p)'
  <2>1. Passed(p) = {k \in Covering(p) : k < next /\ (k = m => ~AheadOf(stack, p))}
    BY DEF Passed
  <2>2. Passed(p)' = {k \in Covering(p) : k < next /\ (k = m => ~AheadOf(stack', p))}
    BY DEF Passed, Covering
  <2>3. ASSUME NEW e \in missed, IsPrefix(e, p) PROVE m \in Covering(p)
    <3>1. IsPrefix(inputs[m].path, e)
      OBVIOUS
    <3>2. IsPrefix(inputs[m].path, p)
      BY <1>3, <2>3, <3>1, PathIs, PrefixOrder
    <3> QED
      BY <1>3, <3>2 DEF Covering
  <2> QED
    BY <1>3, <2>1, <2>2, <2>3
<1>6. ASSUME NEW p \in Paths
      PROVE  /\ Seen(p) \subseteq Seen(p)' /\ Lost(p)' \subseteq Passed(p)'
             /\ kind[p] # "gone" => Seen(p)' = Seen(p)
  <2>1. Lost(p) \subseteq Passed(p)
    BY <1>2 DEF MissInv
  <2>2. CASE \E e \in missed : IsPrefix(e, p)
    BY <1>4, <1>5, <2>1, <2>2 DEF Seen
  <2>3. CASE ~(\E e \in missed : IsPrefix(e, p))
    BY <1>4, <1>5, <2>1, <2>3 DEF Seen
  <2> QED
    BY <2>2, <2>3
<1>7. ListInv'
  <2>1. \A p \in Paths : /\ Seen(p) \subseteq Seen(p)'
                         /\ kind'[p] # "gone" => kind'[p] = kind[p] /\ Seen(p)' = Seen(p)
    BY <1>6
  <2> QED
    BY <1>1, <1>2, <2>1, ListKept
<1>8. MissInv'
  BY <1>6 DEF MissInv
<1>9. stack' # << >> => next' > 1 /\ StackOK(stack', inputs'[next' - 1].path)
  BY <1>2
<1> QED
  BY <1>1, <1>7, <1>8, <1>9 DEF WalkInv

\* What holds of the counts where nothing is missed.
LEMMA NothingMissed ==
  ASSUME WalkInv
  PROVE  /\ mishaps \in 0..MaxMishaps /\ skip \in Skipped /\ skip.unreadable = Cardinality(unread)
         /\ hidden \in SUBSET ((1..Len(inputs)) \X Paths)
         /\ unread \in SUBSET ((1..Len(inputs)) \X Paths)
BY DEF WalkInv, WalkTypes, ListInv

\* A directory is opened, or it is too deep or cannot be opened.
LEMMA OpenDirKeeps ==
  ASSUME WalkInv, OpenDir
  PROVE  WalkInv'
<1>s. PICK s : s = stack
  OBVIOUS
<1>m. PICK m : m = next - 1
  OBVIOUS
<1>root. PICK root : root = inputs[m].path
  OBVIOUS
<1>g. PICK g : g = Last(s)
  OBVIOUS
<1>1. /\ walk = "run" /\ s # << >> /\ ~g.open /\ s = stack
      /\ Fails \/ (g.depth <= MAX_DEPTH /\ Listing)
  BY <1>s, <1>g DEF OpenDir, Top
<1>2. s \in Seq(Frame) /\ StackOK(s, root) /\ KindInv
  BY <1>1, <1>s, <1>m, <1>root DEF WalkInv, WalkTypes
<1>3. CASE Fails
  BY <1>1, <1>3, FailsKeeps
<1>4. CASE g.depth <= MAX_DEPTH /\ Listing
  <2>1. /\ g \in Frame /\ FrameOK(g, Len(s), root) /\ Len(s) \in Nat
        /\ \A p : AheadOf(s, p) <=> AheadOf(Front(s), p) \/ AheadIn(g, p)
    BY <1>1, <1>2, <1>g, StackPop, LenProperties
  <2>2. PICK read \in SUBSET There(Top.dir) :
          /\ stack' = Append(Front(stack), [Top EXCEPT !.open = TRUE, !.rest = ByName(read)])
          /\ hidden' = hidden \cup {<<next - 1, e>> : e \in There(Top.dir) \ read}
          /\ (IF read = There(Top.dir) THEN UNCHANGED mishaps
              ELSE mishaps < MaxMishaps /\ mishaps' = mishaps + 1)
          /\ UNCHANGED <<inputs, kind, walk, next, out, skip, unread>>
    BY <1>4, Zenon DEF Listing
  <2>3. Top = g /\ read \in SUBSET There(g.dir)
    BY <1>1, <1>g, <2>2 DEF Top
  <2>f. PICK f : f = Opened(g, read)
    OBVIOUS
  <2>missed. PICK missed : missed = There(g.dir) \ read
    OBVIOUS
  <2>4. g.dir \in Paths /\ IsPrefix(root, g.dir)
    BY <2>1 DEF Frame, FrameOK
  <2>5. missed \in SUBSET Paths /\ \A e \in missed : Len(e) = Len(g.dir) + 1 /\ IsPrefix(g.dir, e)
    BY <2>missed DEF There
  <2>16. read \in SUBSET There(g.dir)
    BY <2>3
  <2>17. DirOpened(g, Opened(g, read), There(g.dir) \ read, Len(s), root)
    BY <1>1, <1>2, <1>4, <2>1, <2>16, DirListed
  <2>18. DirOpened(g, f, missed, Len(s), root)
    BY <2>17, <2>f, <2>missed, Zenon
  <2>6. /\ f \in Frame /\ f.dir = g.dir /\ FrameOK(f, Len(s), root)
        /\ \A p \in Paths : /\ AheadIn(f, p) => AheadIn(g, p)
                            /\ kind[p] # "gone" /\ AheadIn(g, p) =>
                                 AheadIn(f, p) \/ \E e \in missed : IsPrefix(e, p)
        /\ \A e \in missed : \A p \in Paths : IsPrefix(e, p) => AheadIn(g, p) /\ ~AheadIn(f, p)
    BY <2>18 DEF DirOpened
  <2>7. /\ Append(Front(s), f) \in Seq(Frame) /\ StackOK(Append(Front(s), f), root)
        /\ \A p : AheadOf(Append(Front(s), f), p) <=> AheadOf(Front(s), p) \/ AheadIn(f, p)
    BY <1>1, <1>2, <1>g, <2>6, StackGoesOn
  <2>8. /\ stack' = Append(Front(s), f) /\ hidden' = hidden \cup {<<m, e>> : e \in missed}
        /\ UNCHANGED <<inputs, kind, walk, next, out, skip, unread>>
    BY <1>1, <1>m, <2>2, <2>3, <2>f, <2>missed DEF Opened
  <2>9. /\ m \in 1..Len(inputs) /\ root \in Paths /\ mishaps' \in 0..MaxMishaps
        /\ skip \in Skipped /\ skip.unreadable = Cardinality(unread)
        /\ hidden \in SUBSET ((1..Len(inputs)) \X Paths)
        /\ unread \in SUBSET ((1..Len(inputs)) \X Paths)
    <3>1. /\ next \in 1..Len(inputs) + 1 /\ Len(inputs) \in Nat /\ next > 1 /\ inputs \in Seq(Named)
      BY <1>1, <1>s, LenProperties DEF WalkInv, WalkTypes
    <3>2. m \in 1..Len(inputs)
      BY <1>m, <3>1
    <3>3. inputs[m] \in Named
      BY <3>1, <3>2, InSeq
    <3>4. mishaps' \in 0..MaxMishaps
      BY <2>2, NothingMissed, WalkAssumption
    <3> QED
      BY <1>root, <3>2, <3>3, <3>4, NothingMissed DEF Named
  <2>10. ASSUME NEW e \in missed
        PROVE  /\ IsPrefix(root, e) /\ <<m, e>> \in (1..Len(inputs)) \X Paths
               /\ \A p \in Paths : IsPrefix(e, p) => AheadOf(s, p) /\ ~AheadOf(Append(Front(s), f), p)
    <3>1. e \in Paths /\ Len(e) = Len(g.dir) + 1 /\ IsPrefix(g.dir, e)
      BY <2>5
    <3>2. IsPrefix(root, e)
      BY <2>4, <2>9, <3>1, PathIs, PrefixOrder
    <3>3. ASSUME NEW p \in Paths, IsPrefix(e, p) PROVE ~AheadOf(Front(s), p)
      BY <1>1, <1>2, <1>g, <2>9, <3>1, <3>3, AboveIsOff
    <3>4. ASSUME NEW p \in Paths, IsPrefix(e, p)
          PROVE  AheadOf(s, p) /\ ~AheadOf(Append(Front(s), f), p)
      BY <2>1, <2>6, <2>7, <3>3, <3>4
    <3> QED
      BY <2>9, <3>1, <3>2, <3>4
  <2>11. hidden' \in SUBSET ((1..Len(inputs)) \X Paths)
    BY <2>8, <2>9, <2>10
  <2>12. hidden' \cup unread' = hidden \cup unread \cup {<<m, e>> : e \in missed}
    BY <2>8
  <2>13. \A p \in Paths : /\ AheadOf(stack', p) => AheadOf(stack, p)
                          /\ kind[p] # "gone" /\ AheadOf(stack, p) =>
                               AheadOf(stack', p) \/ \E e \in missed : IsPrefix(e, p)
    BY <1>1, <2>1, <2>6, <2>7, <2>8
  <2>14. \A e \in missed : /\ IsPrefix(inputs[m].path, e)
                           /\ \A p \in Paths : IsPrefix(e, p) =>
                                AheadOf(stack, p) /\ ~AheadOf(stack', p)
    BY <1>1, <1>root, <2>8, <2>10
  <2>15. missed \in SUBSET Paths
    BY <2>5
  <2>19. m = next - 1 /\ stack # << >>
    BY <1>1, <1>m
  <2>20. Changed(m, missed)
    BY <1>1, <1>root, <2>7, <2>8, <2>9, <2>11, <2>12, <2>13, <2>14, <2>15 DEF Changed
  <2> QED
    BY <1>1, <2>19, <2>20, CallsChange
<1> QED
  BY <1>1, <1>3, <1>4

\* A call returns.
LEMMA ReturnKeeps ==
  ASSUME WalkInv, Return
  PROVE  WalkInv'
<1> PICK s : s = stack
  OBVIOUS
<1> PICK m : m = next - 1
  OBVIOUS
<1> PICK root : root = inputs[m].path
  OBVIOUS
<1> DEFINE g == Last(s)
<1>1. /\ walk = "run" /\ s # << >> /\ g.open /\ g.rest = << >> /\ s = stack
      /\ stack' = Front(s)
      /\ UNCHANGED <<inputs, kind, walk, next, out, skip, mishaps, hidden, unread>>
  BY DEF Return, Top, errVars
<1>2. s \in Seq(Frame) /\ StackOK(s, root)
  BY <1>1 DEF WalkInv, WalkTypes
<1>3. /\ Front(s) \in Seq(Frame) /\ StackOK(Front(s), root)
      /\ \A p : AheadOf(s, p) <=> AheadOf(Front(s), p) \/ AheadIn(g, p)
  BY <1>1, <1>2, StackPop
<1>4. \A p : ~AheadIn(g, p)
  <2>1. Len(g.rest) = 0
    BY <1>1
  <2> QED
    BY <1>1, <2>1 DEF AheadIn
<1> DEFINE missed == {}
<1>5. missed \in SUBSET Paths /\ hidden' \cup unread' = hidden \cup unread \cup {<<m, e>> : e \in missed}
  BY <1>1
<1>6. \A p \in Paths : /\ AheadOf(stack', p) => AheadOf(stack, p)
                       /\ kind[p] # "gone" /\ AheadOf(stack, p) =>
                            AheadOf(stack', p) \/ \E e \in missed : IsPrefix(e, p)
  BY <1>1, <1>3, <1>4
<1>7. \A e \in missed : /\ IsPrefix(inputs[m].path, e)
                        /\ \A p \in Paths : IsPrefix(e, p) =>
                             AheadOf(stack, p) /\ ~AheadOf(stack', p)
  OBVIOUS
<1> HIDE DEF missed
<1> QED
  <2>1. Changed(m, missed)
    BY <1>1, <1>3, <1>5, <1>6, <1>7, NothingMissed DEF Changed
  <2>2. m = next - 1 /\ stack # << >>
    BY <1>1
  <2> QED
    BY <1>1, <2>1, <2>2, CallsChange

\* The calls s, l of them, of the walk of the k-th input, and the calls that stay open when
\* the innermost of s has come to the entry e.
GoesOn(s, l, k, root, e, calls) ==
  /\ s \in Seq(Frame) /\ l \in Nat \ {0} /\ Len(inputs) \in Nat
  /\ k \in 1..Len(inputs) /\ next = k + 1 /\ next \in 1..Len(inputs) + 1
  /\ root \in Paths /\ e \in Paths /\ IsPrefix(root, e)
  /\ calls \in Seq(Frame) /\ StackOK(calls, root) /\ Len(calls) = l
  /\ Last(s).depth + 1 = l /\ l <= MAX_DEPTH + 1
  /\ \A p : AheadOf(s, p) <=> AheadOf(calls, p) \/ IsPrefix(e, p)
  /\ \A p \in Paths : IsPrefix(e, p) => AheadOf(s, p) /\ ~AheadOf(calls, p)
  /\ \A d \in Frame : d.dir = e => \A i \in 1..Len(calls) : calls[i].open /\ Aside(calls[i], d)

\* The innermost call goes on with what is left after the entry.
LEMMA CallsAfter ==
  ASSUME WalkInv, stack # << >>, Last(stack).open, Last(stack).rest # << >>
  PROVE  GoesOn(stack, Len(stack), next - 1, inputs[next - 1].path, Head(Last(stack).rest),
                Append(Front(stack), [Last(stack) EXCEPT !.rest = Tail(@)]))
<1>s. PICK s : s = stack
  OBVIOUS
<1>m. PICK m : m = next
  OBVIOUS
<1>e. PICK e : e = Head(Last(s).rest)
  OBVIOUS
<1>root. PICK root : root = inputs[m - 1].path
  OBVIOUS
<1>l. PICK l : l = Len(s)
  OBVIOUS
<1>f. PICK f : f = [Last(s) EXCEPT !.rest = Tail(@)]
  OBVIOUS
<1>calls. PICK calls : calls = Append(Front(s), f)
  OBVIOUS
<1>k. PICK k : k = m - 1
  OBVIOUS
<1>1. WalkTypes
  BY DEF WalkInv
<1>2. /\ s \in Seq(Frame) /\ StackOK(s, root) /\ l \in Nat \ {0}
      /\ Len(inputs) \in Nat /\ m \in 1..Len(inputs) + 1 /\ m > 1
  BY <1>1, <1>s, <1>m, <1>root, <1>l, LenProperties, EmptySeq DEF WalkInv, WalkTypes
<1>3. m - 1 \in 1..Len(inputs) /\ m - 1 < m /\ root \in Paths
  <2>1. m - 1 \in 1..Len(inputs) /\ m - 1 < m
    BY <1>2
  <2>2. inputs[m - 1] \in Named
    BY <1>1, <2>1, InSeq DEF WalkTypes
  <2> QED
    BY <1>root, <2>1, <2>2 DEF Named
<1>4. /\ e \in Paths /\ IsPrefix(root, e)
      /\ f \in Frame /\ f.dir = Last(s).dir /\ f.open /\ FrameOK(f, Len(s), root)
      /\ \A p \in Paths : IsPrefix(e, p) => /\ AheadOf(s, p) /\ ~AheadIn(f, p)
                                            /\ ~AheadOf(Front(s), p)
      /\ \A p : AheadIn(Last(s), p) <=> AheadIn(f, p) \/ IsPrefix(e, p)
      /\ \A d \in Frame : d.dir = e =>
           Aside(f, d) /\ \A i \in 1..Len(Front(s)) : Aside(Front(s)[i], d)
  <2>1. Last(s).open /\ Last(s).rest # << >> /\ s # << >>
    BY <1>s
  <2> QED
    BY <1>2, <1>3, <1>e, <1>f, <2>1, EntryTaken
<1>5. /\ Front(s) \in Seq(Frame) /\ Len(Front(s)) = l - 1 /\ Last(s) \in Frame
      /\ \A i \in 1..Len(Front(s)) : Front(s)[i].open
      /\ \A p : AheadOf(s, p) <=> AheadOf(Front(s), p) \/ AheadIn(Last(s), p)
  <2>1. s # << >>
    BY <1>s
  <2> QED
    BY <1>2, <1>l, <2>1, StackPop
<1>6. /\ calls \in Seq(Frame) /\ StackOK(calls, root) /\ Len(calls) = l
      /\ \A p : AheadOf(calls, p) <=> AheadOf(Front(s), p) \/ AheadIn(f, p)
  <2>1. s # << >>
    BY <1>s
  <2>2. /\ Append(Front(s), f) \in Seq(Frame) /\ StackOK(Append(Front(s), f), root)
        /\ Len(Append(Front(s), f)) = Len(s)
        /\ \A p : AheadOf(Append(Front(s), f), p) <=> AheadOf(Front(s), p) \/ AheadIn(f, p)
    BY <1>2, <1>4, <2>1, StackGoesOn
  <2> QED
    BY <2>2, <1>calls, <1>l
<1>7. Last(s).depth + 1 = l /\ l <= MAX_DEPTH + 1
  <2>1. FrameOK(Last(s), l, root) /\ Last(s).depth \in Nat
    <3>1. s # << >>
      BY <1>s
    <3> QED
      BY <1>2, <1>5, <1>l, <3>1, StackPop DEF Frame
  <2>2. Last(s).depth = l - 1 /\ Last(s).depth <= MAX_DEPTH
    BY <1>s, <2>1 DEF FrameOK
  <2> QED
    BY <1>2, <2>1, <2>2, WalkAssumption
<1>8. ASSUME NEW d \in Frame, d.dir = e
      PROVE  \A i \in 1..Len(calls) : calls[i].open /\ Aside(calls[i], d)
  <2>1. /\ \A i \in 1..l - 1 : calls[i] = Front(s)[i]
        /\ calls[(l - 1) + 1] = f
    BY <1>4, <1>5, <1>calls, AppendProperties
  <2>2. (l - 1) + 1 = l /\ \A i \in 1..l : i \in 1..l - 1 \/ i = l
    BY <1>2
  <2>3. f.open /\ Aside(f, d) /\ \A i \in 1..l - 1 : Front(s)[i].open /\ Aside(Front(s)[i], d)
    BY <1>4, <1>5, <1>8
  <2>4. \A i \in 1..l : calls[i].open /\ Aside(calls[i], d)
    BY <2>1, <2>2, <2>3
  <2> QED
    BY <1>6, <2>4
<1>9. /\ \A p : AheadOf(s, p) <=> AheadOf(calls, p) \/ IsPrefix(e, p)
      /\ \A p \in Paths : IsPrefix(e, p) => AheadOf(s, p) /\ ~AheadOf(calls, p)
  BY <1>4, <1>5, <1>6
<1>10. \A d \in Frame : d.dir = e => \A i \in 1..Len(calls) : calls[i].open /\ Aside(calls[i], d)
  BY <1>8
<1>11. k \in 1..Len(inputs) /\ next = k + 1 /\ next \in 1..Len(inputs) + 1
  BY <1>2, <1>3, <1>k, <1>m
<1>12. GoesOn(s, l, k, root, e, calls)
  BY <1>2, <1>3, <1>4, <1>6, <1>7, <1>9, <1>10, <1>11 DEF GoesOn
<1> QED
  <2>1. s = stack /\ l = Len(stack) /\ k = next - 1 /\ root = inputs[next - 1].path
    BY <1>s, <1>l, <1>k, <1>m, <1>root, Zenon
  <2>2. e = Head(Last(stack).rest)
    BY <1>s, <1>e, Zenon
  <2>3. calls = Append(Front(stack), [Last(stack) EXCEPT !.rest = Tail(@)])
    BY <1>s, <1>f, <1>calls, Zenon
  <2> QED
    BY <1>12, <2>1, <2>2, <2>3, Zenon

\* An entry of a directory is taken.
LEMMA EntryTakes ==
  ASSUME WalkInv, walk = "run", NEW s, s = stack, s # << >>, Last(s).open, Last(s).rest # << >>,
         NEW m, m = next, next' = m, NEW e, e = Head(Last(s).rest), NEW n \in Name,
         kind[e] # "gone", UNCHANGED <<mishaps, unread>>,
         Entry(e, kind[e], n, Last(s).depth + 1, Append(Front(s), [Last(s) EXCEPT !.rest = Tail(@)]))
  PROVE  WalkInv'
<1>root. PICK root : root = inputs[m - 1].path
  OBVIOUS
<1>calls. PICK calls : calls = Append(Front(s), [Last(s) EXCEPT !.rest = Tail(@)])
  OBVIOUS
<1>l. PICK l : l = Len(s)
  OBVIOUS
<1>md. PICK md : md = kind[e]
  OBVIOUS
<1> DEFINE c == Call(e, n, l)
           dir == kind[e] \in {"dir", "locked"}
<1>1. WalkTypes /\ KindInv /\ ListInv /\ MissInv
  BY DEF WalkInv
<1>4. GoesOn(s, l, m - 1, root, e, calls)
  <2>1. GoesOn(stack, Len(stack), next - 1, inputs[next - 1].path, Head(Last(stack).rest),
               Append(Front(stack), [Last(stack) EXCEPT !.rest = Tail(@)]))
    BY CallsAfter
  <2> QED
    BY <2>1, <1>root, <1>calls, <1>l, Zenon
<1>2. /\ s \in Seq(Frame) /\ l \in Nat \ {0} /\ m \in 1..Len(inputs) + 1 /\ m > 1
      /\ m - 1 \in 1..Len(inputs) /\ m - 1 < m /\ Len(inputs) \in Nat /\ root \in Paths
      /\ e \in Paths /\ IsPrefix(root, e)
      /\ calls \in Seq(Frame) /\ StackOK(calls, root) /\ Len(calls) = l
      /\ Last(s).depth + 1 = l /\ l <= MAX_DEPTH + 1
      /\ \A p : AheadOf(s, p) <=> AheadOf(calls, p) \/ IsPrefix(e, p)
      /\ \A p \in Paths : IsPrefix(e, p) => AheadOf(s, p) /\ ~AheadOf(calls, p)
      /\ \A d \in Frame : d.dir = e =>
           \A i \in 1..Len(calls) : calls[i].open /\ Aside(calls[i], d)
  BY <1>4 DEF GoesOn
<1>3. IsPrefix(e, e)
  BY <1>2, PathIs, PrefixOrder
<1>9. Entry(e, md, n, l, calls) /\ md \in {kind[e], "gone"} /\ md # "gone"
  BY <1>2, <1>l, <1>md, <1>calls
<1>10. l \in Nat /\ Len(calls) + 1 = l + 1
  BY <1>2
<1>11. /\ inputs' = inputs /\ kind' = kind /\ walk' = walk /\ hidden' = hidden
       /\ stack' = IF dir THEN Append(calls, c) ELSE calls
       /\ stack' \in Seq(Frame)
       /\ out' = IF kind[e] = "file" THEN Append(out, [path |-> e, name |-> n]) ELSE out
       /\ out' \in Seq([path : Paths, name : Name])
       /\ \A k \in 1..Len(out') : Tree[out'[k].path] = "file"
       /\ skip' \in Skipped
       /\ skip'.symlinks = IF kind[e] = "link" THEN skip.symlinks + 1 ELSE skip.symlinks
       /\ skip'.specials = IF kind[e] = "special" THEN skip.specials + 1 ELSE skip.specials
       /\ skip'.unreadable = skip.unreadable
  <2>1. /\ inputs' = inputs /\ kind' = kind /\ walk' = walk /\ hidden' = hidden
        /\ stack' = IF md \in {"dir", "locked"} THEN Append(calls, Call(e, n, l)) ELSE calls
        /\ stack' \in Seq(Frame)
        /\ out' = IF md = "file" THEN Append(out, [path |-> e, name |-> n]) ELSE out
        /\ out' \in Seq([path : Paths, name : Name])
        /\ \A k \in 1..Len(out') : Tree[out'[k].path] = "file"
        /\ skip' \in Skipped
        /\ skip'.symlinks = IF md = "link" THEN skip.symlinks + 1 ELSE skip.symlinks
        /\ skip'.specials = IF md = "special" THEN skip.specials + 1 ELSE skip.specials
        /\ skip'.unreadable = IF md = "gone" THEN skip.unreadable + 1 ELSE skip.unreadable
    <3>1. EntryDone(e, md, n, l, calls)
      BY <1>1, <1>2, <1>9, <1>10, EntryDoes
    <3> QED
      BY <3>1 DEF EntryDone
  <2> QED
    BY <1>9, <1>md, <2>1, Zenon
<1>12. WalkTypes' /\ KindInv'
  BY <1>1, <1>2, <1>11 DEF WalkTypes, KindInv
<1>13. /\ c \in Frame /\ c.dir = e /\ (dir => FrameOK(c, l + 1, root))
       /\ \A p : AheadIn(c, p) <=> IsStrictPrefix(e, p)
       /\ \A p \in Paths : kind[p] # "gone" /\ IsStrictPrefix(e, p) => dir
       /\ ~IsStrictPrefix(e, e)
  BY <1>1, <1>2, <1>10, CallIs
<1> HIDE DEF c
<1>14. /\ StackOK(stack', root)
       /\ \A p : AheadOf(stack', p) <=> AheadOf(calls, p) \/ (dir /\ IsStrictPrefix(e, p))
  <2>1. CASE dir
    <3>1. FrameOK(c, Len(calls) + 1, root)
      BY <1>10, <1>13, <2>1
    <3>3. \A i \in 1..Len(calls) : calls[i].open /\ Aside(calls[i], c)
      BY <1>2, <1>13
    <3>2. /\ StackOK(Append(calls, c), root)
          /\ \A p : AheadOf(Append(calls, c), p) <=> AheadOf(calls, p) \/ AheadIn(c, p)
      BY <1>2, <1>13, <3>1, <3>3, StackPush
    <3> HIDE DEF dir
    <3> QED
      BY <1>11, <1>13, <2>1, <3>2
  <2>2. CASE ~dir
    <3> HIDE DEF dir
    <3> QED
      BY <1>2, <1>11, <2>2
  <2> QED
    BY <2>1, <2>2
<1> HIDE DEF dir
<1>16. \A p : AheadOf(stack', p) => AheadOf(s, p)
  BY <1>2, <1>14 DEF IsStrictPrefix
<1>17. ASSUME NEW p \in Paths, p # e, kind[p] # "gone", AheadOf(s, p) PROVE AheadOf(stack', p)
  <2>1. IsPrefix(e, p) => IsStrictPrefix(e, p)
    BY <1>17 DEF IsStrictPrefix
  <2> QED
    BY <1>2, <1>13, <1>14, <1>17, <2>1
<1>18. AheadOf(s, e) /\ ~AheadOf(stack', e)
  BY <1>2, <1>3, <1>13, <1>14
<1>19. \A p : \A k : /\ k \in Passed(p) <=> k \in Covering(p) /\ k < m
                                          /\ (k = m - 1 => ~AheadOf(s, p))
                     /\ k \in Passed(p)' <=> k \in Covering(p) /\ k < m
                                           /\ (k = m - 1 => ~AheadOf(stack', p))
  <2>1. \A p : Covering(p)' = Covering(p)
    BY <1>11 DEF Covering
  <2> QED
    BY <2>1 DEF Passed
<1>20. m - 1 \notin Passed(e) /\ Passed(e)' = Passed(e) \cup {m - 1}
  <2>1. m - 1 \in Covering(e)
    BY <1>2, <1>root DEF Covering
  <2> QED
    BY <1>2, <1>18, <1>19, <2>1
<1>21. \A p \in Paths : /\ Passed(p) \subseteq Passed(p)'
                        /\ p # e /\ kind[p] # "gone" => Passed(p)' = Passed(p)
  <2>1. \A p : Passed(p) \subseteq Passed(p)'
    BY <1>16, <1>19
  <2>2. ASSUME NEW p \in Paths, p # e, kind[p] # "gone" PROVE Passed(p)' = Passed(p)
    <3>1. AheadOf(s, p) <=> AheadOf(stack', p)
      BY <1>16, <1>17, <2>2
    <3>2. \A k : k \in Passed(p)' <=> k \in Passed(p)
      BY <1>19, <3>1
    <3> QED
      BY <3>2
  <2> QED
    BY <2>1, <2>2
<1>22. ListInv' /\ MissInv'
  <2> DEFINE k == m - 1
  <2>1. \A p \in Paths : Lost(p)' = Lost(p) /\ Lost(p) \subseteq Passed(p)
    BY <1>1, <1>11 DEF Lost, MissInv
  <2>2. \A p \in Paths : /\ Seen(p) \subseteq Seen(p)'
                         /\ p # e /\ kind[p] # "gone" => Seen(p)' = Seen(p)
    BY <1>21, <2>1 DEF Seen
  <2>3. k \in 1..Len(inputs) /\ k \notin Seen(e) /\ Seen(e)' = Seen(e) \cup {k}
    BY <1>2, <1>20, <2>1 DEF Seen
  <2>4. MissInv'
    BY <1>21, <2>1 DEF MissInv
  <2> HIDE DEF k
  <2> QED
    BY <1>1, <1>2, <1>11, <1>12, <2>2, <2>3, <2>4, ListGrows
<1>23. next' > 1 /\ StackOK(stack', inputs'[next' - 1].path)
  BY <1>2, <1>11, <1>14, <1>root
<1> QED
  BY <1>11, <1>12, <1>22, <1>23 DEF WalkInv

\* An entry cannot be looked at.
LEMMA EntryErrs ==
  ASSUME WalkInv, walk = "run", NEW s, s = stack, s # << >>, Last(s).open, Last(s).rest # << >>,
         next' = next, NEW e, e = Head(Last(s).rest), NEW n \in Name,
         NEW md, md = "gone",
         unread' = unread \cup {<<next - 1, e>>}, mishaps' \in 0..MaxMishaps,
         Entry(e, md, n, Last(s).depth + 1, Append(Front(s), [Last(s) EXCEPT !.rest = Tail(@)]))
  PROVE  WalkInv'
<1>root. PICK root : root = inputs[next - 1].path
  OBVIOUS
<1>calls. PICK calls : calls = Append(Front(s), [Last(s) EXCEPT !.rest = Tail(@)])
  OBVIOUS
<1>l. PICK l : l = Len(s)
  OBVIOUS
<1>k. PICK k : k = next - 1
  OBVIOUS
<1> DEFINE missed == {e}
<1>1. WalkTypes /\ KindInv /\ ListInv /\ MissInv
  BY DEF WalkInv
<1>10. GoesOn(s, l, k, root, e, calls)
  <2>1. GoesOn(stack, Len(stack), next - 1, inputs[next - 1].path, Head(Last(stack).rest),
               Append(Front(stack), [Last(stack) EXCEPT !.rest = Tail(@)]))
    BY CallsAfter
  <2> QED
    BY <2>1, <1>root, <1>calls, <1>l, <1>k, Zenon
<1>2. /\ s \in Seq(Frame) /\ l \in Nat /\ next > 1
      /\ k \in 1..Len(inputs) /\ root \in Paths
      /\ e \in Paths /\ IsPrefix(root, e)
      /\ calls \in Seq(Frame) /\ StackOK(calls, root)
      /\ Last(s).depth + 1 = l
      /\ \A p : AheadOf(s, p) <=> AheadOf(calls, p) \/ IsPrefix(e, p)
      /\ \A p \in Paths : IsPrefix(e, p) => AheadOf(s, p) /\ ~AheadOf(calls, p)
  BY <1>10 DEF GoesOn
<1>3. Entry(e, md, n, l, calls) /\ md \in {kind[e], "gone"}
  BY <1>2, <1>l, <1>calls
<1>4. /\ inputs' = inputs /\ kind' = kind /\ walk' = walk /\ hidden' = hidden
      /\ stack' = calls /\ stack' \in Seq(Frame) /\ out' = out
      /\ skip' \in Skipped /\ skip'.symlinks = skip.symlinks /\ skip'.specials = skip.specials
      /\ skip'.unreadable = skip.unreadable + 1
  <2>1. /\ inputs' = inputs /\ kind' = kind /\ walk' = walk /\ hidden' = hidden
        /\ stack' = IF md \in {"dir", "locked"} THEN Append(calls, Call(e, n, l)) ELSE calls
        /\ stack' \in Seq(Frame)
        /\ out' = IF md = "file" THEN Append(out, [path |-> e, name |-> n]) ELSE out
        /\ skip' \in Skipped
        /\ skip'.symlinks = IF md = "link" THEN skip.symlinks + 1 ELSE skip.symlinks
        /\ skip'.specials = IF md = "special" THEN skip.specials + 1 ELSE skip.specials
        /\ skip'.unreadable = IF md = "gone" THEN skip.unreadable + 1 ELSE skip.unreadable
    <3>1. EntryDone(e, md, n, l, calls)
      BY <1>1, <1>2, <1>3, EntryDoes
    <3> QED
      BY <3>1 DEF EntryDone
  <2> QED
    BY <2>1
<1>5. <<k, e>> \notin unread
  <2> SUFFICES ASSUME <<k, e>> \in unread PROVE FALSE
    OBVIOUS
  <2>1. IsPrefix(e, e)
    BY <1>2, PathIs, PrefixOrder
  <2>2. k \in Lost(e)
    BY <1>2, <2>1 DEF Lost
  <2>3. k \in Passed(e)
    BY <1>1, <1>2, <2>2 DEF MissInv
  <2> QED
    BY <1>2, <1>k, <2>1, <2>3 DEF Passed
<1>6. /\ unread' \in SUBSET ((1..Len(inputs)) \X Paths) /\ hidden' \in SUBSET ((1..Len(inputs)) \X Paths)
      /\ hidden' \cup unread' = hidden \cup unread \cup {<<k, x>> : x \in missed}
      /\ missed \in SUBSET Paths
  BY <1>1, <1>2, <1>4, <1>k DEF WalkTypes
<1>7. skip'.unreadable = Cardinality(unread')
  <2>1. IsFiniteSet(unread)
    BY <1>1, CountsOf, CountsFinite DEF WalkTypes
  <2>2. Cardinality(unread') = Cardinality(unread) + 1
    BY <1>5, <1>k, <2>1, FS_AddElement
  <2> QED
    BY <1>1, <1>4, <2>2 DEF ListInv
<1>8. /\ \A x \in missed : /\ IsPrefix(inputs[k].path, x)
                           /\ \A p \in Paths : IsPrefix(x, p) => AheadOf(stack, p) /\ ~AheadOf(stack', p)
      /\ \A p \in Paths : /\ AheadOf(stack', p) => AheadOf(stack, p)
                          /\ kind[p] # "gone" /\ AheadOf(stack, p) =>
                               AheadOf(stack', p) \/ \E x \in missed : IsPrefix(x, p)
  BY <1>2, <1>4, <1>root, <1>k
<1>9. /\ k = next - 1 /\ stack # << >> /\ UNCHANGED <<inputs, kind, walk, next, out>>
      /\ StackOK(stack', inputs[k].path)
  BY <1>2, <1>4, <1>root, <1>k
<1> HIDE DEF missed
<1> QED
  <2>1. Changed(k, missed)
    BY <1>4, <1>6, <1>7, <1>8, <1>9 DEF Changed
  <2> QED
    BY <1>9, <2>1, CallsChange

\* An entry is taken, or there are too many files.
LEMMA NextEntryKeeps ==
  ASSUME WalkInv, NextEntry
  PROVE  WalkInv'
<1> PICK s : s = stack
  OBVIOUS
<1> PICK m : m = next
  OBVIOUS
<1> DEFINE g == Last(s)
<1> PICK e : e = Head(g.rest)
  OBVIOUS
<1> DEFINE n == Append(g.rel, Lossy[Last(e)])
<1>1. /\ walk = "run" /\ s # << >> /\ s = stack /\ g.open /\ g.rest # << >>
      /\ IF Len(out) >= MAX_FILES THEN Fails
         ELSE \E md \in Metadata(e) :
                /\ Entry(e, md, n, g.depth + 1, Append(Front(s), [g EXCEPT !.rest = Tail(@)]))
                /\ unread' = (IF md = "gone" THEN unread \cup {<<m - 1, e>>} ELSE unread)
                /\ mishaps' = (IF md = kind[e] THEN mishaps ELSE mishaps + 1)
                /\ next' = m
  BY DEF NextEntry, LookAt, Top
<1>2. CASE Len(out) >= MAX_FILES
  BY <1>1, <1>2, FailsKeeps
<1>3. CASE ~(Len(out) >= MAX_FILES)
  <2>1. s \in Seq(Frame)
    BY DEF WalkInv, WalkTypes
  <2>2. g \in Frame
    BY <1>1, <2>1, LastAndFront
  <2>3. g.rest \in Seq(Paths) /\ g.rel \in Name
    BY <2>2 DEF Frame, Name
  <2>4. e \in Paths
    BY <1>1, <2>3, HeadTailProperties
  <2>5. n \in Name
    BY <2>3, <2>4, PathIs, NamesAre
  <2>6. PICK md \in Metadata(e) :
          /\ Entry(e, md, n, g.depth + 1, Append(Front(s), [g EXCEPT !.rest = Tail(@)]))
          /\ unread' = (IF md = "gone" THEN unread \cup {<<m - 1, e>>} ELSE unread)
          /\ mishaps' = (IF md = kind[e] THEN mishaps ELSE mishaps + 1)
          /\ next' = m
    BY <1>1, <1>3
  <2>7. md \in {kind[e], "gone"} /\ (md # kind[e] => mishaps < MaxMishaps)
    BY DEF Metadata
  <2>8. mishaps' \in 0..MaxMishaps
    BY <2>6, <2>7, NothingMissed, WalkAssumption
  <2> HIDE DEF n
  <2>9. CASE md = "gone"
    <3>1. /\ unread' = unread \cup {<<next - 1, e>>} /\ next' = next
          /\ Entry(e, md, n, g.depth + 1, Append(Front(s), [g EXCEPT !.rest = Tail(@)]))
      BY <2>6, <2>9
    <3> QED
      BY <1>1, <2>5, <2>8, <2>9, <3>1, EntryErrs
  <2>10. CASE md # "gone"
    <3>1. /\ kind[e] # "gone" /\ UNCHANGED <<mishaps, unread>> /\ next' = m
          /\ Entry(e, kind[e], n, g.depth + 1, Append(Front(s), [g EXCEPT !.rest = Tail(@)]))
      BY <2>6, <2>7, <2>10
    <3> QED
      BY <1>1, <2>5, <3>1, EntryTakes
  <2> QED
    BY <2>9, <2>10
<1> QED
  BY <1>2, <1>3

\* An entry vanishes with all that is below it.
LEMMA VanishKeeps ==
  ASSUME WalkInv, NEW v \in Paths, Vanish(v)
  PROVE  WalkInv'
<1>1. /\ mishaps < MaxMishaps /\ walk = "run" /\ mishaps' = mishaps + 1
      /\ kind' = [q \in Paths |-> IF IsPrefix(v, q) THEN "gone" ELSE kind[q]]
      /\ UNCHANGED <<inputs, walk, next, stack, out, skip, hidden, unread>>
  BY DEF Vanish, errVars
<1>2. WalkTypes /\ KindInv /\ ListInv /\ MissInv
  BY DEF WalkInv
<1>3. WalkTypes'
  <2>1. mishaps' \in 0..MaxMishaps
    BY <1>1, <1>2, WalkAssumption DEF WalkTypes
  <2> QED
    BY <1>1, <1>2, <2>1 DEF WalkTypes
<1>4. KindInv'
  <2>1. kind' \in [Paths -> Kinds \cup {"gone"}] /\ \A p \in Paths : kind'[p] \in {Tree[p], "gone"}
    BY <1>1, <1>2 DEF KindInv
  <2>2. ASSUME NEW p \in Paths, NEW q \in Paths, kind'[p] # "gone", IsPrefix(q, p)
        PROVE  kind'[q] # "gone"
    <3>1. ~IsPrefix(v, p) /\ kind[p] # "gone"
      BY <1>1, <2>2
    <3>2. ~IsPrefix(v, q)
      BY <2>2, <3>1, PathIs, PrefixOrder
    <3>3. kind[q] # "gone"
      BY <1>2, <2>2, <3>1 DEF KindInv
    <3> QED
      BY <1>1, <3>2, <3>3
  <2> QED
    BY <2>1, <2>2 DEF KindInv
<1>5. ListInv' /\ MissInv'
  <2>1. \A p : Passed(p)' = Passed(p) /\ Lost(p)' = Lost(p)
    BY <1>1 DEF Passed, Lost, Covering, AheadOf
  <2>2. \A p : Seen(p)' = Seen(p)
    BY <2>1 DEF Seen
  <2>3. \A p \in Paths : kind'[p] # "gone" => kind'[p] = kind[p]
    BY <1>1
  <2>4. MissInv'
    BY <1>2, <2>1 DEF MissInv
  <2>5. skip'.unreadable = Cardinality(unread')
    BY <1>1, <1>2 DEF ListInv
  <2> QED
    BY <1>1, <1>2, <1>3, <2>2, <2>3, <2>4, <2>5, ListKept
<1> QED
  BY <1>1, <1>3, <1>4, <1>5 DEF WalkInv

\* The list is accepted.
LEMMA ExpandedKeeps ==
  ASSUME WalkInv, Expanded
  PROVE  WalkInv'
<1>1. /\ walk = "run" /\ stack = << >> /\ next > Len(inputs) /\ walk' = "ok"
      /\ UNCHANGED <<inputs, kind, next, stack, out, skip, mishaps, hidden, unread>>
  BY DEF Expanded, errVars
<1>2. WalkTypes' /\ KindInv'
  BY <1>1 DEF WalkInv, WalkTypes, KindInv
<1>3. ListInv' /\ MissInv'
  BY <1>1, ListStays DEF WalkInv
<1>4. next' = Len(inputs') + 1
  <2>1. next \in 1..Len(inputs) + 1 /\ Len(inputs) \in Nat
    BY LenProperties DEF WalkInv, WalkTypes
  <2> QED
    BY <1>1, <2>1
<1> QED
  BY <1>1, <1>2, <1>3, <1>4 DEF WalkInv

\* expand is called.
LEMMA StartKeeps ==
  ASSUME WalkInv, walk = "off", WalkStart,
         UNCHANGED <<kind, next, stack, out, skip, mishaps, hidden, unread>>
  PROVE  WalkInv'
<1>1. walk' = "run" /\ inputs' \in InputLists
  BY DEF WalkStart
<1>2. /\ WalkTypes /\ KindInv /\ ListInv /\ stack = << >> /\ next = 1 /\ out = << >>
      /\ hidden = {} /\ unread = {}
  BY DEF WalkInv
<1>3. inputs' \in Seq(Named) /\ Len(inputs') \in Nat
  <2>1. inputs' \in Seq(Named)
    BY <1>1, WalkAssumption DEF Named
  <2> QED
    BY <2>1, LenProperties
<1>4. WalkTypes'
  <2>1. \A k \in 1..Len(inputs') : inputs'[k].name # NoName => Lossy[inputs'[k].name] \in Component
    BY <1>1, WalkAssumption
  <2>2. next' \in 1..Len(inputs') + 1
    BY <1>2, <1>3
  <2> QED
    BY <1>1, <1>2, <1>3, <2>1, <2>2 DEF WalkTypes
<1>5. KindInv'
  BY <1>2 DEF KindInv
<1>6. ListInv' /\ MissInv'
  <2>1. \A p : Seen(p)' = {} /\ Listings(p)' = {} /\ Lost(p)' = {}
    <3>1. \A k \in 1..Len(inputs') : ~(k < 1)
      BY <1>3
    <3> QED
      BY <1>2, <3>1 DEF Seen, Passed, Lost, Covering, Listings
  <2>2. \A what : SeenOf(what)' = {}
    BY <2>1 DEF SeenOf
  <2>3. Cardinality({}) = 0
    BY FS_EmptySet
  <2>4. skip'.symlinks \in Nat /\ skip'.specials \in Nat
    BY <1>4 DEF WalkTypes, Skipped
  <2>5. skip'.unreadable = Cardinality(unread')
    BY <1>2 DEF ListInv
  <2>6. MissInv'
    BY <2>1 DEF MissInv
  <2>7. \A p \in Paths : Cardinality(Seen(p)') = 0 /\ Cardinality(Listings(p)') = 0
    BY <2>1, <2>3
  <2>8. Cardinality(SeenOf("link")') = 0 /\ Cardinality(SeenOf("special")') = 0
    BY <2>2, <2>3
  <2>9. ListInv'
    BY <2>4, <2>5, <2>7, <2>8 DEF ListInv
  <2> QED
    BY <2>6, <2>9
<1> QED
  BY <1>1, <1>2, <1>4, <1>5, <1>6 DEF WalkInv

\* Before anything is done.
LEMMA WalkBegins ==
  ASSUME WalkInit
  PROVE  WalkInv
<1>1. WalkTypes
  BY WalkAssumption DEF WalkInit, WalkTypes, Skipped
<1>2. KindInv
  <2>1. Tree \in [Paths -> Kinds] /\ \A p \in Paths : Tree[p] \in Kinds /\ Tree[p] # "gone"
    BY PathIs, WalkAssumption DEF Kinds
  <2>2. kind = Tree
    BY DEF WalkInit
  <2> QED
    BY <2>1, <2>2 DEF KindInv
<1>3. ListInv
  <2>1. \A p : Seen(p) = {} /\ Listings(p) = {}
    BY DEF WalkInit, Seen, Passed, Covering, Listings
  <2>2. \A what : SeenOf(what) = {}
    BY <2>1 DEF SeenOf
  <2>3. Cardinality({}) = 0
    BY FS_EmptySet
  <2>4. skip.symlinks = 0 /\ skip.specials = 0 /\ skip.unreadable = 0 /\ unread = {}
    BY DEF WalkInit
  <2>5. \A p \in Paths : Cardinality(Seen(p)) = 0 /\ Cardinality(Listings(p)) = 0
    BY <2>1, <2>3
  <2>6. Cardinality(SeenOf("link")) = 0 /\ Cardinality(SeenOf("special")) = 0
    BY <2>2, <2>3
  <2> QED
    BY <2>3, <2>4, <2>5, <2>6 DEF ListInv
<1>4. MissInv
  BY DEF MissInv, Lost, WalkInit
<1> QED
  BY <1>1, <1>2, <1>3, <1>4 DEF WalkInit, WalkInv

-----------------------------------------------------------------------------
(* The walk as a part of the commands.                                      *)

\* Nothing is walked before expand is called.
ExpandInv ==
  /\ WalkInv
  /\ cmd \in {"args", "lookup", "expand", "send", "done", "failed"}
  /\ cmd \in {"args", "lookup"} => walk = "off"

\* What leaves the walk alone.
LEMMA WalkStays ==
  ASSUME WalkInv, UNCHANGED walkVars
  PROVE  WalkInv'
<1>1. UNCHANGED <<inputs, kind, walk, next, stack, out, skip, mishaps, hidden, unread>>
  BY DEF walkVars, errVars
<1>2. WalkTypes' /\ KindInv'
  BY <1>1 DEF WalkInv, WalkTypes, KindInv
<1>3. ListInv' /\ MissInv'
  BY <1>1, ListStays DEF WalkInv
<1> QED
  BY <1>1, <1>2, <1>3 DEF WalkInv

\* Each step of a command keeps the walk's invariant.
LEMMA ExpandStep == ExpandInv /\ [Next]_vars => ExpandInv'
<1> SUFFICES ASSUME ExpandInv, [Next]_vars PROVE ExpandInv'
  OBVIOUS
<1>1. WalkInv
  BY DEF ExpandInv
<1>2. CASE ParseArgs
  <2>1. walk = "off" /\ UNCHANGED <<kind, next, stack, out, skip, mishaps, hidden, unread>>
    BY <1>2 DEF ParseArgs, ExpandInv, errVars
  <2>2. CASE task.does = "send" /\ ByAddress(task)
    <3>1. WalkStart /\ cmd' = "expand"
      BY <1>2, <2>2 DEF ParseArgs
    <3>2. WalkInv'
      BY <1>1, <2>1, <3>1, StartKeeps
    <3> QED
      BY <3>1, <3>2 DEF ExpandInv
  <2>3. CASE ~(task.does = "send" /\ ByAddress(task))
    <3>1. UNCHANGED walkVars /\ cmd' = "lookup"
      BY <1>2, <2>1, <2>3 DEF ParseArgs, walkVars, errVars
    <3>2. WalkInv' /\ walk' = "off"
      BY <1>1, <2>1, <3>1, WalkStays DEF walkVars
    <3> QED
      BY <3>1, <3>2 DEF ExpandInv
  <2> QED
    BY <2>2, <2>3
<1>3. CASE LookedUp
  <2>1. walk = "off" /\ UNCHANGED <<kind, next, stack, out, skip, mishaps, hidden, unread>>
    BY <1>3 DEF LookedUp, ExpandInv, errVars
  <2>2. CASE Bearers = {}
    <3>1. UNCHANGED walkVars /\ cmd' = "failed"
      BY <1>3, <2>1, <2>2 DEF LookedUp, walkVars, errVars
    <3>2. WalkInv'
      BY <1>1, <3>1, WalkStays
    <3> QED
      BY <3>1, <3>2 DEF ExpandInv
  <2>3. CASE Bearers # {}
    <3>1. WalkStart /\ cmd' = "expand"
      BY <1>3, <2>3 DEF LookedUp
    <3>2. WalkInv'
      BY <1>1, <2>1, <3>1, StartKeeps
    <3> QED
      BY <3>1, <3>2 DEF ExpandInv
  <2> QED
    BY <2>2, <2>3
<1>4. CASE Expanding
  <2>1. cmd = "expand" /\ cmd' = cmd
        /\ (Input \/ OpenDir \/ NextEntry \/ Return \/ Expanded \/ \E p \in Paths : Vanish(p))
    BY <1>4 DEF Expanding, WalkStep, cmdVars
  <2>2. WalkInv'
    BY <1>1, <2>1, InputKeeps, OpenDirKeeps, NextEntryKeeps, ReturnKeeps, ExpandedKeeps, VanishKeeps
  <2> QED
    BY <2>1, <2>2 DEF ExpandInv
<1>5. CASE Scanning \/ Sending \/ UNCHANGED vars
  <2>1. UNCHANGED walkVars /\ cmd' = cmd
    BY <1>5 DEF Scanning, Sending, vars, cmdVars
  <2>2. WalkInv' /\ walk' = walk
    BY <1>1, <2>1, WalkStays DEF walkVars
  <2> QED
    BY <2>1, <2>2 DEF ExpandInv
<1>6. CASE Listed \/ NothingToSend \/ Manifested \/ Sent
  <2>1. UNCHANGED walkVars /\ cmd' \in {"done", "failed", "send"}
    BY <1>6 DEF Listed, NothingToSend, Manifested, Sent
  <2>2. WalkInv'
    BY <1>1, <2>1, WalkStays
  <2> QED
    BY <2>1, <2>2 DEF ExpandInv
<1> QED
  BY <1>2, <1>3, <1>4, <1>5, <1>6 DEF Next

\* The invariant of the walk.
LEMMA ExpandHolds == Spec => []ExpandInv
<1>1. Init => ExpandInv
  <2> SUFFICES ASSUME Init PROVE ExpandInv
    OBVIOUS
  <2>1. WalkInv
    BY WalkBegins DEF Init
  <2> QED
    BY <2>1 DEF Init, WalkInit, ExpandInv
<1> QED
  BY <1>1, ExpandStep, PTL DEF Spec

\* A list that is accepted has every file that stayed where it was once for each input
\* above it, but for what errors of readdir and symlink_metadata cost, which is the entry
\* they are about and what is below it; no file more often; and each error of the latter
\* is counted (src/src/walk.rs), for every tree, whatever vanishes, whatever errs and when.
THEOREM WalkListsExactly == Spec => []ListIsExact
<1>1. ExpandInv => ListIsExact
  <2> SUFFICES ASSUME ExpandInv, walk = "ok" PROVE ListIsExact
    BY DEF ListIsExact
  <2>1. WalkTypes /\ ListInv /\ stack = << >> /\ next = Len(inputs) + 1 /\ Len(inputs) \in Nat
    BY LenProperties DEF ExpandInv, WalkInv, WalkTypes
  <2>2. \A p : Seen(p) = Reached(p)
    <3>1. \A k \in 1..Len(inputs) : k < Len(inputs) + 1
      BY <2>1
    <3>2. \A p : ~AheadOf(stack, p)
      BY <2>1 DEF AheadOf
    <3>3. \A p : Passed(p) = Covering(p)
      BY <2>1, <3>1, <3>2 DEF Passed, Covering
    <3> QED
      BY <3>3 DEF Seen, Reached
  <2>3. \A what : SeenOf(what) = Steadily(what)
    BY <2>2 DEF SeenOf, Steadily
  <2> QED
    BY <2>1, <2>2, <2>3 DEF ListIsExact, ListInv
<1> QED
  BY <1>1, ExpandHolds, PTL

-----------------------------------------------------------------------------
(* Where names land.                                                        *)

\* The receiver keeps a name as it is, and the other file beside it is its own.
LEMMA NameLands ==
  ASSUME NEW name \in Name, NEW idx
  PROVE  /\ FinalPath(name, idx) = name /\ Plain(name)
         /\ PartPath(name, idx) = Append(Front(name), Append(Last(name), PART))
<1> DEFINE n == Len(name)
           keep == {k \in DOMAIN name : name[k] # Empty /\ (k = 1 \/ name[k] # Dot)}
           At(j) == CHOOSE k \in keep : Cardinality({i \in keep : i < k}) = j - 1
<1>1. /\ name \in Seq(Component) /\ n \in Nat \ {0} /\ DOMAIN name = 1..n /\ name # << >>
      /\ \A k \in 1..n : name[k] \notin {Dot, Up, Empty}
  BY LenProperties, EmptySeq, InSeq DEF Name, Component
<1>2. keep = 1..n
  BY <1>1
<1>3. \A k \in 0..n : Cardinality(1..k) = k
  <2> SUFFICES ASSUME NEW k \in 0..n PROVE Cardinality(1..k) = k
    OBVIOUS
  <2>1. k \in Nat /\ 1 \in Int
    BY <1>1
  <2> QED
    BY <2>1, FS_Interval
<1> HIDE DEF keep
<1>4. ASSUME NEW j \in 1..n PROVE At(j) = j
  <2>1. \A k \in 1..n : Cardinality({i \in 1..n : i < k}) = k - 1
    <3> SUFFICES ASSUME NEW k \in 1..n PROVE Cardinality({i \in 1..n : i < k}) = k - 1
      OBVIOUS
    <3>1. {i \in 1..n : i < k} = 1..k - 1 /\ k - 1 \in 0..n
      BY <1>1
    <3> QED
      BY <1>3, <3>1
  <2>2. \A k \in 1..n : k - 1 = j - 1 => k = j
    BY <1>1
  <2> QED
    BY <1>2, <2>1, <2>2
<1>5. Components(name) = name
  <2>1. Components(name) = [j \in 1..Cardinality(keep) |-> name[At(j)]]
    BY DEF Components, keep
  <2>2. Cardinality(keep) = n
    <3>1. n \in 0..n
      BY <1>1
    <3> QED
      BY <1>2, <1>3, <3>1
  <2> HIDE DEF At, n
  <2>3. Components(name) = [j \in 1..n |-> name[j]]
    BY <1>4, <2>1, <2>2
  <2> QED
    BY <1>1, <2>3
<1>6. ~Absolute(name)
  <2>1. n > 1 => name[1] # Empty
    BY <1>1
  <2> QED
    BY <2>1 DEF Absolute
<1>7. safe_relpath(name) = name /\ name # NoPath
  BY <1>1, <1>5, <1>6 DEF safe_relpath, NoPath
<1>8. FinalPath(name, idx) = name
  BY <1>7 DEF FinalPath
<1> QED
  BY <1>1, <1>8 DEF Plain, PartPath

\* Different names have different other files.
LEMMA PartsDiffer ==
  ASSUME NEW a \in Name, NEW b \in Name,
         Append(Front(a), Append(Last(a), PART)) = Append(Front(b), Append(Last(b), PART))
  PROVE  a = b
<1>1. a \in Seq(Component) /\ a # << >> /\ b \in Seq(Component) /\ b # << >>
  BY DEF Name
<1>2. /\ Front(a) \in Seq(Component) /\ Front(b) \in Seq(Component)
      /\ Last(a) \in Seq(Nat) /\ Last(b) \in Seq(Nat)
      /\ Len(Front(a)) = Len(a) - 1 /\ Len(Front(b)) = Len(b) - 1
      /\ Len(a) \in Nat \ {0} /\ Len(b) \in Nat \ {0} /\ Last(a) = a[Len(a)] /\ Last(b) = b[Len(b)]
      /\ \A i \in 1..Len(a) - 1 : Front(a)[i] = a[i]
      /\ \A i \in 1..Len(b) - 1 : Front(b)[i] = b[i]
  <2>1. \A c \in {a, b} :
          /\ Front(c) \in Seq(Component) /\ Last(c) \in Component
          /\ Len(Front(c)) = Len(c) - 1 /\ Len(c) \in Nat \ {0} /\ Last(c) = c[Len(c)]
          /\ \A i \in 1..Len(c) - 1 : Front(c)[i] = c[i]
    BY <1>1, LastAndFront
  <2>2. \A c \in Component : c \in Seq(Nat)
    BY DEF Component
  <2> QED
    BY <2>1, <2>2
<1>3. PART \in Nat
  BY DEF PART
<1> DEFINE x == Append(Last(a), PART)
           y == Append(Last(b), PART)
<1>4. /\ x \in Seq(Nat) /\ y \in Seq(Nat)
      /\ Front(a) \in Seq(Seq(Nat)) /\ Front(b) \in Seq(Seq(Nat))
  <2>1. x \in Seq(Nat) /\ y \in Seq(Nat)
    BY <1>2, <1>3, AppendProperties
  <2>2. Component \subseteq Seq(Nat)
    BY DEF Component
  <2> HIDE DEF x, y
  <2> QED
    BY <1>2, <2>1, <2>2
<1> HIDE DEF x, y
<1>5. Front(a) = Front(b) /\ x = y
  <2>1. Append(Front(a), x) = Append(Front(b), y)
    BY DEF x, y
  <2> QED
    BY <1>4, <2>1, AppendInjective
<1>6. Last(a) = Last(b)
  <2> DEFINE c == Last(a)
             d == Last(b)
  <2>1. c \in Seq(Nat) /\ d \in Seq(Nat) /\ Append(c, PART) = Append(d, PART)
    BY <1>2, <1>5 DEF x, y
  <2> HIDE DEF c, d
  <2>2. c = d
    BY ONLY <1>3, <2>1, AppendInjective
  <2> QED
    BY <2>2 DEF c, d
<1>7. Len(a) = Len(b)
  BY <1>2, <1>5
<1>8. \A i \in 1..Len(a) : a[i] = b[i]
  <2>1. \A i \in 1..Len(a) : i \in 1..Len(a) - 1 \/ i = Len(a)
    <3>1. Len(a) \in Nat
      BY <1>2
    <3>2. \A n \in Nat : \A i \in 1..n : i \in 1..n - 1 \/ i = n
      BY ONLY TRUE
    <3> QED
      BY ONLY <3>1, <3>2
  <2> QED
    BY <1>2, <1>5, <1>6, <1>7, <2>1
<1> QED
  BY <1>1, <1>7, <1>8, SeqEqual

\* The receiver names the files of the list, and the list stays as it is from then on.
LandedInv ==
  /\ ExpandInv
  /\ cmd \in {"args", "lookup", "expand"} => landed = << >>
  /\ \A k \in DOMAIN landed : /\ k \in DOMAIN out
                              /\ landed[k].fin = FinalPath(out[k].name, k - 1)
                              /\ landed[k].part = PartPath(out[k].name, k - 1)

\* Each step keeps what has landed.
LEMMA LandedStep == LandedInv /\ [Next]_vars => LandedInv'
<1> SUFFICES ASSUME LandedInv, [Next]_vars PROVE LandedInv'
  OBVIOUS
<1>1. ExpandInv'
  BY ExpandStep DEF LandedInv
<1>2. CASE ParseArgs \/ LookedUp \/ Expanding
  <2>1. landed = << >> /\ landed' = landed
    BY <1>2 DEF ParseArgs, LookedUp, Expanding, cmdVars, LandedInv
  <2>2. DOMAIN landed' = {}
    BY <2>1
  <2> QED
    BY <1>1, <2>1, <2>2 DEF LandedInv
<1>3. CASE Manifested
  <2>1. /\ cmd' = "send" /\ out' = out
        /\ landed' = [k \in DOMAIN out |-> [fin |-> FinalPath(out[k].name, k - 1),
                                            part |-> PartPath(out[k].name, k - 1)]]
    BY <1>3 DEF Manifested, walkVars
  <2> QED
    BY <1>1, <2>1 DEF LandedInv
<1>4. CASE Scanning \/ Sending \/ UNCHANGED vars
  <2>1. cmd' = cmd /\ landed' = landed /\ out' = out
    BY <1>4 DEF Scanning, Sending, vars, cmdVars, walkVars
  <2> QED
    BY <1>1, <2>1 DEF LandedInv
<1>5. CASE Listed \/ NothingToSend \/ Sent
  <2>1. cmd' \in {"done", "failed"} /\ landed' = landed /\ out' = out
    BY <1>5 DEF Listed, NothingToSend, Sent, walkVars
  <2> QED
    BY <1>1, <2>1 DEF LandedInv
<1> QED
  BY <1>2, <1>3, <1>4, <1>5 DEF Next

\* The invariant of the names.
LEMMA LandedHolds == Spec => []LandedInv
<1>1. Init => LandedInv
  <2> SUFFICES ASSUME Init PROVE LandedInv
    OBVIOUS
  <2>1. WalkInv
    BY WalkBegins DEF Init
  <2>2. landed = << >> /\ DOMAIN << >> = {}
    BY DEF Init
  <2> QED
    BY <2>1, <2>2 DEF Init, WalkInit, ExpandInv, LandedInv
<1> QED
  BY <1>1, LandedStep, PTL DEF Spec

\* The receiver keeps every name that a sender's walk makes, and two names meet on its
\* disk only where one is the other with ".part" after it (dest, src/src/recv.rs).
THEOREM ListedNamesLandApart == Spec => []NamesLandApart
<1>1. LandedInv => NamesLandApart
  <2> SUFFICES ASSUME LandedInv, NEW i \in DOMAIN landed, NEW j \in DOMAIN landed
               PROVE  /\ landed[i].fin = out[i].name /\ Plain(landed[i].fin)
                      /\ out[i].name # out[j].name =>
                           /\ landed[i].fin # landed[j].fin /\ landed[i].part # landed[j].part
                           /\ landed[i].fin = landed[j].part =>
                                out[i].name = Append(Front(out[j].name), Append(Last(out[j].name), PART))
    BY DEF NamesLandApart
  <2>1. \A k \in DOMAIN out : out[k].name \in Name
    <3>1. out \in Seq([path : Paths, name : Name])
      BY DEF LandedInv, ExpandInv, WalkInv, WalkTypes
    <3>2. \A k \in DOMAIN out : out[k] \in [path : Paths, name : Name]
      BY <3>1, LenProperties, InSeq
    <3> QED
      BY <3>2
  <2>2. \A k \in {i, j} : /\ landed[k].fin = FinalPath(out[k].name, k - 1) /\ out[k].name \in Name
                          /\ landed[k].part = PartPath(out[k].name, k - 1)
    BY <2>1 DEF LandedInv
  <2> DEFINE a == out[i].name
             b == out[j].name
  <2>3. a \in Name /\ b \in Name
    BY <2>2
  <2>4. /\ landed[i].fin = a /\ landed[j].fin = b /\ Plain(a)
        /\ landed[i].part = Append(Front(a), Append(Last(a), PART))
        /\ landed[j].part = Append(Front(b), Append(Last(b), PART))
    BY <2>2, <2>3, NameLands
  <2> HIDE DEF a, b
  <2>5. landed[i].part = landed[j].part => a = b
    BY <2>3, <2>4, PartsDiffer
  <2> QED
    BY <2>4, <2>5 DEF a, b
<1> QED
  BY <1>1, LandedHolds, PTL

-----------------------------------------------------------------------------
(* The running checksum.                                                    *)

\* No bytes leave the register as it is.
LEMMA LoopOfNone ==
  ASSUME NEW c \in Register
  PROVE  Loop8(c, << >>) = c
<1>1. << >> \in Seq(0..255) /\ Len(<< >>) = 0
  OBVIOUS
<1>2. PICK r : Run(r, c, << >>)
  BY <1>1, LoopRuns
<1>3. Loop8(c, << >>) = r[0]
  BY <1>1, <1>2, LoopRuns
<1> QED
  BY <1>2, <1>3 DEF Run

\* The register is that of a machine that saw the bytes at once.
SumInv ==
  /\ bytes \in Seq(0..255) /\ hw \in BOOLEAN /\ at \in 0..Len(bytes)
  /\ crc = Loop8(Ones, SubSeq(bytes, 1, at))

\* Each step keeps the register: a piece goes on where the last one ended.
LEMMA SumStep == SumInv /\ [Next]_vars => SumInv'
<1> SUFFICES ASSUME SumInv, [Next]_vars PROVE SumInv'
  OBVIOUS
<1>1. CASE Manifested
  <2>1. bytes' \in Contents /\ hw' \in BOOLEAN /\ at' = 0 /\ crc' = Ones
    BY <1>1 DEF Manifested, CrcStart, new
  <2>2. bytes' \in Seq(0..255) /\ Len(bytes') \in Nat
    BY <2>1, CrcAssumption, LenProperties
  <2>3. SubSeq(bytes', 1, 0) = << >> /\ << >> \in Seq(0..255)
    BY <2>2
  <2>4. Loop8(Ones, << >>) = Ones
    BY Constants, LoopOfNone
  <2>5. at' \in 0..Len(bytes') /\ crc' = Loop8(Ones, SubSeq(bytes', 1, at'))
    <3>1. at' \in 0..Len(bytes')
      BY <2>1, <2>2
    <3>2. SubSeq(bytes', 1, at') = << >>
      BY <2>1, <2>3, Zenon
    <3> QED
      BY <2>1, <2>4, <3>1, <3>2, Zenon
  <2> QED
    BY <2>1, <2>2, <2>5 DEF SumInv
<1>2. CASE Sending
  <2>1. PICK n \in 1..Len(bytes) - at :
          /\ crc' = update(hw, crc, SubSeq(bytes, at + 1, at + n)) /\ at' = at + n
          /\ bytes' = bytes /\ hw' = hw
    BY <1>2 DEF Sending, Update
  <2> DEFINE i == at
             k == at + n
             w == bytes
             a == SubSeq(w, 1, i)
             b == SubSeq(w, i + 1, k)
  <2>2. w \in Seq(0..255) /\ Len(w) \in Nat /\ i \in 0..Len(w) /\ hw \in BOOLEAN /\ crc = Loop8(Ones, a)
    BY LenProperties DEF SumInv
  <2>3. k \in i..Len(w) /\ k \in 0..Len(w)
    BY <2>2
  <2>4. a \in Seq(0..255) /\ b \in Seq(0..255) /\ SubSeq(w, 1, k) = a \o b
    BY <2>2, <2>3, CutBytes
  <2>5. crc \in Register
    BY <2>2, <2>4, Constants, LoopRuns
  <2>6. crc' = update(hw, crc, b)
    BY <2>1
  <2> HIDE DEF a, b, w
  <2>7. crc' = Loop8(crc, b)
    BY <2>2, <2>4, <2>5, <2>6, MachinesAgree
  <2>8. Loop8(Loop8(Ones, a), b) = Loop8(Ones, a \o b)
    BY <2>4, Constants, LoopGoesOn
  <2>9. crc' = Loop8(Ones, SubSeq(w, 1, k))
    BY <2>2, <2>4, <2>7, <2>8
  <2> QED
    BY <2>1, <2>2, <2>3, <2>9 DEF SumInv, w
<1>3. CASE ParseArgs \/ Scanning \/ Listed \/ LookedUp \/ Expanding \/ NothingToSend \/ Sent
           \/ UNCHANGED vars
  <2>1. UNCHANGED crcVars
    BY <1>3 DEF ParseArgs, Scanning, Listed, LookedUp, Expanding, NothingToSend, Sent, vars
  <2> QED
    BY <2>1 DEF SumInv, crcVars
<1> QED
  BY <1>1, <1>2, <1>3 DEF Next

\* The invariant of the checksum.
LEMMA SumHolds == Spec => []SumInv
<1>1. Init => SumInv
  <2> SUFFICES ASSUME Init PROVE SumInv
    OBVIOUS
  <2>1. bytes = << >> /\ hw = FALSE /\ at = 0 /\ crc = Ones
    BY DEF Init, CrcRest, new
  <2>2. SubSeq(<< >>, 1, 0) = << >> /\ << >> \in Seq(0..255) /\ Len(<< >>) = 0
    OBVIOUS
  <2>3. Loop8(Ones, << >>) = Ones
    BY Constants, LoopOfNone
  <2>4. bytes \in Seq(0..255) /\ at \in 0..Len(bytes) /\ crc = Loop8(Ones, SubSeq(bytes, 1, at))
    <3>1. bytes \in Seq(0..255) /\ at \in 0..Len(bytes)
      BY <2>1, <2>2
    <3>2. SubSeq(bytes, 1, at) = << >>
      BY <2>1, <2>2, Zenon
    <3> QED
      BY <2>1, <2>3, <3>1, <3>2, Zenon
  <2> QED
    BY <2>1, <2>4 DEF SumInv
<1> QED
  BY <1>1, SumStep, PTL DEF Spec

\* Wherever the bytes are cut and whether the machine has the instruction or not, the
\* register stands for the CRC32C of what it has seen (src/src/crc.rs).
THEOREM RunningChecksumIsRight == Spec => []ChecksumIsRight
<1>1. SumInv => ChecksumIsRight
  <2> SUFFICES ASSUME SumInv PROVE finish(crc) = Checksum(SubSeq(bytes, 1, at))
    BY DEF ChecksumIsRight
  <2> DEFINE w == SubSeq(bytes, 1, at)
  <2>1. w \in Seq(0..255)
    BY PrefixOfLength DEF SumInv
  <2>2. crc = Loop8(Ones, w)
    BY DEF SumInv
  <2> HIDE DEF w
  <2>3. PICK h \in BOOLEAN : h = FALSE
    OBVIOUS
  <2>4. update(h, Ones, w) = crc
    BY <2>1, <2>2, Constants, MachinesAgree
  <2>5. crc32c(h, w) = Checksum(w)
    BY <2>1, LoopIsChecksum
  <2> QED
    BY <2>4, <2>5 DEF w, finish, crc32c
<1> QED
  BY <1>1, SumHolds, PTL

-----------------------------------------------------------------------------
(* The types.                                                               *)

\* The command and the peer.
PeerInv == task \in Tasks /\ to \in {NoAddress} \cup (0..AddrMod - 1)

\* Each step keeps the peer an address.
LEMMA PeerStep == ScanInv /\ PeerInv /\ [Next]_vars => PeerInv'
<1> SUFFICES ASSUME ScanInv, PeerInv, [Next]_vars PROVE PeerInv'
  OBVIOUS
<1>1. CASE ParseArgs
  <2>1. task' = task /\ (to' = to \/ (ByAddress(task) /\ to' = task.peer))
    BY <1>1 DEF ParseArgs
  <2> QED
    BY <2>1 DEF PeerInv, ByAddress
<1>2. CASE LookedUp
  <2>1. task' = task /\ (to' = to \/ (Bearers # {} /\ to' = peers[Min(Bearers)]))
    BY <1>2 DEF LookedUp
  <2>2. ASSUME Bearers # {} PROVE peers[Min(Bearers)] \in 0..AddrMod - 1
    <3>1. peers \in Seq(Probes) /\ DOMAIN peers = 1..Len(peers) /\ Probes \subseteq Addr
      BY LenProperties, ProbesTyped DEF ScanInv, ScanTypes
    <3>2. Bearers \in SUBSET Nat
      BY <3>1 DEF Bearers
    <3>3. PICK l \in Bearers : \A m \in Bearers : l <= m
      BY <2>2, <3>2, LeastOf
    <3>4. Min(Bearers) \in Bearers
      BY <3>3 DEF Min
    <3>5. peers[Min(Bearers)] \in Probes
      BY <3>1, <3>4, InSeq DEF Bearers
    <3> QED
      BY <3>1, <3>5 DEF Addr
  <2> QED
    BY <2>1, <2>2 DEF PeerInv
<1>3. CASE Scanning \/ Listed \/ Expanding \/ NothingToSend \/ Manifested \/ Sending \/ Sent
           \/ UNCHANGED vars
  <2>1. task' = task /\ to' = to
    BY <1>3 DEF Scanning, Listed, Expanding, NothingToSend, Manifested, Sending, Sent, vars, cmdVars
  <2> QED
    BY <2>1 DEF PeerInv
<1> QED
  BY <1>1, <1>2, <1>3 DEF Next

\* The types and ranges of the state hold, for all values of the constants.
THEOREM CommandTypes == Spec => []TypeOK
<1>1. Init => PeerInv
  BY DEF Init, PeerInv
<1>2. Spec => []PeerInv
  <2>1. Spec => []ScanInv
    BY ScanHolds
  <2> QED
    BY <1>1, <2>1, PeerStep, PTL DEF Spec
<1>3. ScanInv /\ PeerInv /\ ExpandInv /\ SumInv => TypeOK
  <2> SUFFICES ASSUME ScanInv, PeerInv, ExpandInv, SumInv PROVE TypeOK
    OBVIOUS
  <2>1. /\ scan \in {"off", "run", "done"} /\ Range(todo) \subseteq Range(targets)
        /\ \A t \in Threads : thread[t] \in {Off, Idle, Ended} \cup Range(targets)
    BY RangeOfSeq DEF ScanInv, ScanTypes, Probes
  <2>2. WalkTypes /\ KindInv
    BY DEF ExpandInv, WalkInv
  <2>3. /\ \A k \in DOMAIN stack : stack[k].dir \in Paths /\ stack[k].depth = k - 1
        /\ Len(stack) <= MAX_DEPTH + 2
    <3>1. stack \in Seq(Frame) /\ Len(stack) \in Nat /\ DOMAIN stack = 1..Len(stack)
      BY <2>2, LenProperties DEF WalkTypes
    <3>2. ASSUME stack # << >>
          PROVE  \A k \in 1..Len(stack) : FrameOK(stack[k], k, inputs[next - 1].path)
      BY <3>2 DEF ExpandInv, WalkInv, StackOK
    <3>3. CASE stack = << >>
      BY <3>1, <3>3, WalkAssumption
    <3>4. CASE stack # << >>
      <4>1. \A k \in 1..Len(stack) : stack[k] \in Frame /\ stack[k].depth = k - 1
                                     /\ stack[k].depth <= MAX_DEPTH + 1
        BY <3>1, <3>2, <3>4, InSeq DEF FrameOK
      <4>2. Len(stack) \in 1..Len(stack)
        BY <3>1, <3>4, EmptySeq
      <4>3. Len(stack) - 1 <= MAX_DEPTH + 1
        BY <4>1, <4>2
      <4>4. Len(stack) <= MAX_DEPTH + 2
        BY <3>1, <4>3, WalkAssumption
      <4> QED
        BY <3>1, <4>1, <4>4 DEF Frame
    <3> QED
      BY <3>3, <3>4
  <2>4. \A k \in DOMAIN out : Tree[out[k].path] = "file"
    BY <2>2, LenProperties DEF WalkTypes
  <2>5. crc \in Register
    <3>1. SubSeq(bytes, 1, at) \in Seq(0..255)
      BY PrefixOfLength DEF SumInv
    <3> QED
      BY <3>1, Constants, LoopRuns DEF SumInv
  <2> QED
    BY <2>1, <2>2, <2>3, <2>4, <2>5
    DEF TypeOK, PeerInv, ExpandInv, WalkTypes, KindInv, SumInv
<1> QED
  BY <1>2, <1>3, ScanHolds, ExpandHolds, SumHolds, PTL

=============================================================================
