---------------------------- MODULE Carve_proofs ----------------------------
(* The layout that tune::carve decides, for every pool, transfer and slab.  *)
EXTENDS Carve, TLAPS

\* Division by the slab size rounds down.
LEMMA QuotientFits ==
  ASSUME NEW p \in Nat, NEW d \in Nat \ {0}
  PROVE  p \div d \in Nat /\ d * (p \div d) <= p
<1>1. p \div d \in Int /\ p % d \in 0..(d - 1) /\ p = d * (p \div d) + (p % d)
  OBVIOUS
<1>2. p \div d >= 0
  <2>1. SUFFICES ASSUME p \div d <= -1 PROVE FALSE
    BY <1>1
  <2> DEFINE q == p \div d
  <2>2. q \in Int /\ q <= -1 /\ p = d * q + (p % d)
    BY <1>1, <2>1
  <2> HIDE DEF q
  <2>3. d * q <= -d
    BY <2>2
  <2> QED
    BY <1>1, <2>2, <2>3
<1> QED
  BY <1>1, <1>2

\* Fewer slabs take no more room.
LEMMA ProductGrows ==
  ASSUME NEW d \in Nat, NEW m \in Nat, NEW n \in Nat, m <= n
  PROVE  d * m <= d * n
OBVIOUS

\* A larger slab gives a smaller quotient.
LEMMA QuotientShrinks ==
  ASSUME NEW p \in Nat, NEW c \in Nat \ {0}, NEW d \in Nat \ {0}, c <= d
  PROVE  p \div d <= p \div c
<1> DEFINE qc == p \div c
           qd == p \div d
<1>1. qd \in Nat /\ d * qd <= p
  BY QuotientFits
<1>2. qc \in Nat /\ p < c * (qc + 1)
  <2>1. qc \in Nat
    BY QuotientFits
  <2>2. p % c \in 0..(c - 1) /\ p = c * qc + (p % c)
    OBVIOUS
  <2> HIDE DEF qc
  <2>3. c * (qc + 1) = c * qc + c
    BY <2>1
  <2> QED
    BY <2>1, <2>2, <2>3
<1> HIDE DEF qc, qd
<1>3. SUFFICES ASSUME qd >= qc + 1 PROVE FALSE
  BY <1>1, <1>2 DEF qc, qd
<1>4. c * (qc + 1) <= c * qd
  BY <1>1, <1>2, <1>3, ProductGrows
<1>5. c * qd <= d * qd
  BY <1>1
<1> QED
  BY <1>1, <1>2, <1>4, <1>5

\* The count of slabs stays between 1 and MAX_SLABS, and within q.
LEMMA CountBounds ==
  ASSUME NEW a \in Int, NEW q \in Nat, q >= 1
  PROVE  LET n == AtLeast(AtMost(Clamp(a, MIN_SLABS, MAX_SLABS), q), 1)
         IN  n \in 1..MAX_SLABS /\ n <= q
BY DEF Clamp, AtMost, AtLeast, MIN_SLABS, MAX_SLABS

\* The slabs of a layout fit into the pool and into the sequence arithmetic of
\* both ends (tune.rs:195-198), if one slab does.
THEOREM CarvedSlabsFit ==
  ASSUME NEW pool \in Nat, NEW useful \in Nat, NEW slab \in Nat \ {0}, slab <= pool
  PROVE  /\ SlabCount(pool, useful, slab) \in 1..MAX_SLABS
         /\ slab * SlabCount(pool, useful, slab) <= pool
<1> DEFINE q == pool \div slab
           n == SlabCount(pool, useful, slab)
<1>1. q \in Nat /\ slab * q <= pool
  BY QuotientFits
<1>2. q >= 1
  <2>1. pool % slab \in 0..(slab - 1) /\ pool = slab * q + (pool % slab)
    OBVIOUS
  <2> HIDE DEF q
  <2>2. SUFFICES ASSUME q = 0 PROVE FALSE
    BY <1>1
  <2> QED
    BY <2>1, <2>2
<1>3. CeilDiv(useful, slab) \in Int
  BY DEF CeilDiv
<1>4. n \in 1..MAX_SLABS /\ n <= q
  BY <1>1, <1>2, <1>3, CountBounds DEF SlabCount
<1> HIDE DEF q, n
<1>5. slab * n <= slab * q
  BY <1>1, <1>4, ProductGrows
<1> QED
  BY <1>1, <1>4, <1>5 DEF n

\* ibx_recv_arm accepts such a layout (ibx.c:572-580) when its slab is a multiple
\* of a page and no smaller than MIN_SLAB: the rounding of the stride adds
\* nothing, and the receive slots suffice.
THEOREM ArmAcceptsCarved ==
  ASSUME NEW pool \in Nat, NEW useful \in Nat, NEW pages \in Nat,
         pages * Page >= MIN_SLAB, pages * Page <= pool
  PROVE  CanArm(pool, [slab   |-> pages * Page,
                       nslabs |-> SlabCount(pool, useful, pages * Page)])
<1> DEFINE slab == pages * Page
           n == SlabCount(pool, useful, slab)
<1>1. slab \in Nat \ {0} /\ slab >= MB /\ slab <= pool
  BY DEF Page, MIN_SLAB, MB
<1>2. Stride(slab) = slab
  BY DEF Stride, CeilDiv, Page
<1>3. n \in 1..MAX_SLABS /\ slab * n <= pool
  BY <1>1, CarvedSlabsFit
<1>4. n <= MaxNslabs(pool)
  <2>1. pool \div slab <= pool \div MB /\ pool \div MB \in Nat
    BY <1>1, QuotientShrinks, QuotientFits DEF MB
  <2>2. pool \div slab \in Nat /\ CeilDiv(useful, slab) \in Int
    BY <1>1, QuotientFits DEF CeilDiv
  <2>3. n <= pool \div slab \/ n = 1
    BY <2>2 DEF SlabCount, Clamp, AtMost, AtLeast, MIN_SLABS, MAX_SLABS
  <2> HIDE DEF n, slab
  <2> QED
    BY <1>3, <2>1, <2>2, <2>3 DEF MaxNslabs, Clamp, AtMost, AtLeast, MAX_SLABS
<1> QED
  BY <1>2, <1>3, <1>4 DEF CanArm

\* The powers of two that floor_pow2 knows.
Powers == {1, 2, 4, 8, 16, 32, 64, 128, 256, 512, 1024, 2048, 4096, 8192, 16384, 32768,
           65536, 131072, 262144, 524288, 1048576, 2097152, 4194304, 8388608, 16777216,
           33554432, 67108864, 134217728, 268435456, 536870912, 1073741824}

LEMMA PowersOfTwo == {2^k : k \in 0..30} = Powers
<1> DEFINE f == [k \in 0..30 |-> 2^k]
<1>1. /\ f[0] = 1 /\ f[1] = 2 /\ f[2] = 4 /\ f[3] = 8 /\ f[4] = 16
      /\ f[5] = 32 /\ f[6] = 64 /\ f[7] = 128 /\ f[8] = 256 /\ f[9] = 512
      /\ f[10] = 1024 /\ f[11] = 2048 /\ f[12] = 4096 /\ f[13] = 8192 /\ f[14] = 16384
      /\ f[15] = 32768 /\ f[16] = 65536 /\ f[17] = 131072 /\ f[18] = 262144 /\ f[19] = 524288
      /\ f[20] = 1048576 /\ f[21] = 2097152 /\ f[22] = 4194304 /\ f[23] = 8388608 /\ f[24] = 16777216
      /\ f[25] = 33554432 /\ f[26] = 67108864 /\ f[27] = 134217728 /\ f[28] = 268435456 /\ f[29] = 536870912
      /\ f[30] = 1073741824
  OBVIOUS
<1>2. {2^k : k \in 0..30} = {f[k] : k \in 0..30}
  OBVIOUS
<1> HIDE DEF f
<1>3. 0..30 = {0, 1, 2, 3, 4, 5, 6, 7, 8, 9, 10, 11, 12, 13, 14, 15, 16, 17, 18, 19, 20,
               21, 22, 23, 24, 25, 26, 27, 28, 29, 30}
  OBVIOUS
<1>4. \A k \in 0..30 : f[k] \in Powers
  BY <1>1, <1>3 DEF Powers
<1>5. \A p \in Powers : \E k \in 0..30 : p = f[k]
  BY <1>1, <1>3 DEF Powers
<1> QED
  BY <1>2, <1>4, <1>5

\* Every number from 1 on has a largest power of two, as far as they are known.
LEMMA FloorPow2 ==
  ASSUME NEW x \in Nat, x >= 1
  PROVE  /\ floor_pow2(x) \in Powers /\ floor_pow2(x) <= x
         /\ x - floor_pow2(x) < floor_pow2(x) \/ floor_pow2(x) = 1073741824
<1>1. \E q \in Powers : q <= x /\ (x - q < q \/ q = 1073741824)
  BY DEF Powers
<1>2. floor_pow2(x) = CHOOSE q \in Powers : q <= x /\ (x - q < q \/ q = 1073741824)
  BY PowersOfTwo DEF floor_pow2
<1> QED
  BY <1>1, <1>2

\* The largest power of two in a number of megabytes up to MAX_SLAB.
LEMMA FloorPow2Bounds == ASSUME NEW x \in Nat, x >= 1 PROVE floor_pow2(x) \in 1..x
<1>1. floor_pow2(x) \in Powers /\ floor_pow2(x) <= x
  BY FloorPow2
<1>2. \A q \in Powers : q \in Nat /\ q >= 1
  BY DEF Powers
<1> QED
  BY <1>1, <1>2

\* From a megabyte on it is a number of whole megabytes.
LEMMA FloorPow2Megabytes ==
  ASSUME NEW x \in Nat, x >= MB
  PROVE  \E m \in Nat \ {0} : floor_pow2(x) = m * MB
<1>1. PICK q \in Powers : floor_pow2(x) = q /\ (x - q < q \/ q = 1073741824)
  BY FloorPow2 DEF MB
<1>2. q >= MB
  BY <1>1 DEF Powers, MB
<1>3. \A r \in Powers : r >= MB =>
        r \in {1 * MB, 2 * MB, 4 * MB, 8 * MB, 16 * MB, 32 * MB, 64 * MB, 128 * MB, 256 * MB,
               512 * MB, 1024 * MB}
  BY DEF Powers, MB
<1> QED
  BY <1>1, <1>2, <1>3

\* Without --slab and for a sender without a limit, a slab is 1 to 16 whole
\* megabytes, and the pool holds it (tune.rs, carve).
THEOREM DefaultSlab ==
  ASSUME NEW pool \in Nat, pool >= HUGE, NEW total \in Nat
  PROVE  \E k \in 1..16 : /\ SlabSize(pool, total, NoOverride, Unlimited) = k * MIN_SLAB
                          /\ k * MIN_SLAB <= pool
<1> DEFINE u == Useful(pool, total)
           want == Clamp(u \div 64, MIN_SLAB, MAX_SLAB)
           x == AtLeast(want \div MIN_SLAB, 1)
           k == AtMost(floor_pow2(x), 16)
<1>1. u \in Nat /\ u <= pool
  BY DEF Useful, AtMost, AtLeast, MIN_SLAB, MIN_SLABS, MB
<1>2. u \div 64 \in Nat /\ u \div 64 <= pool
  <2> HIDE DEF u
  <2> QED
    BY <1>1
<1>3. want \in Nat /\ want >= MIN_SLAB /\ want <= MAX_SLAB /\ want <= pool
  <2> HIDE DEF u
  <2> QED
    BY <1>2 DEF Clamp, AtMost, AtLeast, MIN_SLAB, MAX_SLAB, MB, HUGE
<1>4. x \in 1..16 /\ x * MIN_SLAB <= want
  <2> HIDE DEF want
  <2> QED
    BY <1>3 DEF AtLeast, MIN_SLAB, MAX_SLAB, MB
<1>5. floor_pow2(x) \in 1..x
  <2> HIDE DEF x
  <2> QED
    BY <1>4, FloorPow2Bounds
<1>6. SlabSize(pool, total, NoOverride, Unlimited) = MIN_SLAB * k
  BY DEF SlabSize, WantedSlab, NoOverride, Unlimited
<1>7. k \in 1..16 /\ k <= x
  <2> HIDE DEF x
  <2> QED
    BY <1>4, <1>5 DEF AtMost
<1> HIDE DEF x, k, want
<1>8. k * MIN_SLAB <= pool
  BY <1>3, <1>4, <1>7 DEF MIN_SLAB, MB
<1> QED
  BY <1>6, <1>7, <1>8 DEF MIN_SLAB, MB

-----------------------------------------------------------------------------
(* The slabs of a sender that can pin no more than its budget.              *)

\* Without --slab whole megabytes are wanted, for every pool and transfer.
LEMMA WantedIsMegabytes ==
  ASSUME NEW pool \in Nat, NEW total \in Nat
  PROVE  \E k \in Nat \ {0} : WantedSlab(pool, total, NoOverride) = k * MB
<1> DEFINE u == Useful(pool, total)
           want == Clamp(u \div 64, MIN_SLAB, MAX_SLAB)
           x == AtLeast(want \div MIN_SLAB, 1)
           k == AtMost(floor_pow2(x), 16)
<1>1. u \in Nat
  BY DEF Useful, AtMost, AtLeast, MIN_SLAB, MIN_SLABS, MB
<1>2. want \in Nat
  <2>1. u \div 64 \in Int
    <3> HIDE DEF u
    <3> QED
      BY <1>1
  <2> HIDE DEF u
  <2> QED
    BY <2>1 DEF Clamp, AtMost, AtLeast, MIN_SLAB, MAX_SLAB, MB
<1>3. x \in Nat /\ x >= 1
  <2> HIDE DEF want
  <2> QED
    BY <1>2 DEF AtLeast, MIN_SLAB, MB
<1>4. floor_pow2(x) \in 1..x
  <2> HIDE DEF x
  <2> QED
    BY <1>3, FloorPow2Bounds
<1>5. k \in Nat \ {0}
  <2> HIDE DEF x
  <2> QED
    BY <1>3, <1>4 DEF AtMost
<1>6. WantedSlab(pool, total, NoOverride) = MIN_SLAB * k
  BY DEF WantedSlab, NoOverride
<1> HIDE DEF x, k, want
<1> QED
  BY <1>5, <1>6 DEF MIN_SLAB, MB

\* The slab is a size, whatever the sender's budget.
LEMMA SlabIsSize ==
  ASSUME NEW pool \in Nat, NEW total \in Nat, NEW budget \in Nat
  PROVE  SlabSize(pool, total, NoOverride, budget) \in Nat
<1> DEFINE w == WantedSlab(pool, total, NoOverride)
           half == AtLeast(budget \div 2, Page)
<1>1. w \in Nat
  BY WantedIsMegabytes DEF MB
<1>2. half \in Nat /\ half >= 1
  BY DEF AtLeast, Page
<1>3. floor_pow2(half) \in Nat
  <2> HIDE DEF half
  <2> QED
    BY <1>2, FloorPow2Bounds
<1>4. SlabSize(pool, total, NoOverride, budget) = w
        \/ SlabSize(pool, total, NoOverride, budget) = AtLeast(AtMost(w, floor_pow2(half)), Page)
  BY DEF SlabSize
<1> HIDE DEF w, half
<1> QED
  BY <1>1, <1>3, <1>4 DEF AtLeast, AtMost, Page

\* From a budget of 2 MB on a slab is a number of whole megabytes, and two of them
\* are within the budget: rounding them up to huge pages adds nothing (tune.rs:186).
THEOREM TwoSlabsFitBudget ==
  ASSUME NEW pool \in Nat, NEW total \in Nat, NEW budget \in Nat, budget >= HUGE
  PROVE  LET slab == SlabSize(pool, total, NoOverride, budget)
         IN  slab \in Nat /\ slab >= MB /\ pool_alloc_size(2 * slab) <= budget
<1> DEFINE w == WantedSlab(pool, total, NoOverride)
           half == budget \div 2
           f == floor_pow2(half)
           slab == SlabSize(pool, total, NoOverride, budget)
<1>1. half \in Nat /\ half >= MB /\ 2 * half <= budget /\ AtLeast(half, Page) = half
  BY DEF HUGE, MB, Page, AtLeast
<1>2. PICK a \in Nat \ {0} : w = a * MB
  BY WantedIsMegabytes
<1>3. PICK b \in Nat \ {0} : f = b * MB
  <2> HIDE DEF half
  <2> QED
    BY <1>1, FloorPow2Megabytes
<1>4. f <= half
  <2> HIDE DEF half
  <2>1. half >= 1
    BY <1>1 DEF MB
  <2>2. floor_pow2(half) <= half
    BY <1>1, <2>1, FloorPow2
  <2> QED
    BY <2>2
<1>5. slab = AtLeast(AtMost(w, f), Page)
  BY <1>1 DEF SlabSize, Unlimited, HUGE, MB
<1> HIDE DEF w, half, f, slab
<1>6. PICK m \in Nat \ {0} : slab = m * MB /\ slab <= f
  BY <1>2, <1>3, <1>5 DEF AtLeast, AtMost, Page, MB
<1>7. pool_alloc_size(2 * slab) = 2 * slab
  BY <1>6 DEF pool_alloc_size, CeilDiv, HUGE, MB
<1>8. slab \in Nat /\ slab >= MB
  BY <1>6 DEF MB
<1>9. 2 * slab <= budget
  BY <1>1, <1>3, <1>4, <1>6, <1>8 DEF MB
<1> QED
  BY <1>7, <1>8, <1>9 DEF slab

=============================================================================
