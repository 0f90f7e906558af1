------------------------------- MODULE Carve --------------------------------
(***************************************************************************)
(* How one transfer's layout is decided (src/src/tune.rs, ibx_recv_arm and  *)
(* ibx_listen_accept in src/csrc/ibx.c, the arming part of send_files):     *)
(* the receiver carves its pool into slabs, checks the layout against its   *)
(* queue pair, and the sender fits a local pool of such slabs into what it  *)
(* may still pin.  All sizes are in bytes.                                  *)
(***************************************************************************)
EXTENDS Integers

Page == 4096
MB == 1048576
MIN_SLAB == MB
MAX_SLAB == 16 * MB
MIN_SLABS == 8
MAX_SLABS == 8192
HUGE == 2 * MB

NoOverride == 0                              \* no --slab given
Unlimited == 0                               \* a budget of 0: no limit

AtMost(x, hi) == IF x <= hi THEN x ELSE hi
AtLeast(x, lo) == IF x >= lo THEN x ELSE lo
Clamp(x, lo, hi) == AtMost(AtLeast(x, lo), hi)
CeilDiv(x, d) == (x + d - 1) \div d

\* The powers up to 2^30, which is more than any slab, stand for all of them.
floor_pow2(x) ==
  IF x = 0 THEN 0
  ELSE CHOOSE p \in {2^k : k \in 0..30} : p <= x /\ (x - p < p \/ p = 2^30)

\* What alloc_pool really takes for a pool.
pool_alloc_size(bytes) == CeilDiv(bytes, HUGE) * HUGE

Useful(pool, total) == AtMost(AtLeast(total, MIN_SLAB * MIN_SLABS), pool)

\* The slab wanted: --slab, or about 64 slabs of 1 to 16 MB.
WantedSlab(pool, total, override) ==
  IF override # NoOverride THEN Clamp(override, Page, MAX_SLAB)
  ELSE LET want == Clamp(Useful(pool, total) \div 64, MIN_SLAB, MAX_SLAB) IN
         MIN_SLAB * AtMost(floor_pow2(AtLeast(want \div MIN_SLAB, 1)), 16)

\* ... made small enough that the sender can pin two of them.
SlabSize(pool, total, override, budget) ==
  LET slab == WantedSlab(pool, total, override) IN
    IF budget = Unlimited THEN slab
    ELSE AtLeast(AtMost(slab, floor_pow2(AtLeast(budget \div 2, Page))), Page)

SlabCount(pool, useful, slab) ==
  AtLeast(AtMost(Clamp(CeilDiv(useful, slab), MIN_SLABS, MAX_SLABS),
                 pool \div slab), 1)

carve(pool, total, override, budget) ==
  LET slab == SlabSize(pool, total, override, budget) IN
    [slab |-> slab, nslabs |-> SlabCount(pool, Useful(pool, total), slab)]

-----------------------------------------------------------------------------
(* The receiver's side of the arming.                                       *)

\* The receive slots made when the connection was accepted.
MaxNslabs(pool) == Clamp(pool \div MB, 16, MAX_SLABS)

\* ibx_recv_arm rounds the slab up to a page and uses that as its stride.
Stride(slab) == CeilDiv(slab, Page) * Page

CanArm(pool, l) == /\ l.nslabs <= MaxNslabs(pool)
                   /\ Stride(l.slab) * l.nslabs <= pool

-----------------------------------------------------------------------------
(* The sender's side: as many local slabs as its budget holds, at least two.*)

SenderSlab(l) == AtLeast(l.slab, Page)

Fits(n, l, budget) ==
  budget = Unlimited \/ pool_alloc_size(n * SenderSlab(l)) <= budget

SenderArms(l, budget) == Fits(2, l, budget)

=============================================================================
