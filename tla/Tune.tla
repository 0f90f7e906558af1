-------------------------------- MODULE Tune ---------------------------------
(***************************************************************************)
(* How much memory may be pinned (src/src/tune.rs, send_files): the memlock *)
(* limit of the process, what it has pinned already, the size of the pool   *)
(* and the budget a sender announces.  All sizes are in bytes.              *)
(***************************************************************************)
EXTENDS Carve

CONSTANTS
  MAX_POOL,       \* the largest pool wanted (16 GB in the code)
  DEFAULT_AVAIL   \* MemAvailable when it cannot be read (2 GB)

MIN_POOL == 256 * MB
ADEQUATE_POOL == 256 * MB

ASSUME TuneAssumption == MAX_POOL \in Nat /\ MAX_POOL >= MIN_POOL /\ DEFAULT_AVAIL \in Nat

NoLimit == -1       \* memlock_limit is None
NoUser == 0         \* no --pool given
Unknown == -1       \* /proc/meminfo cannot be read

\* CapEff is a set of capability numbers.
CAP_IPC_LOCK == 14
has_ipc_lock(caps) == CAP_IPC_LOCK \in caps

memlock_limit(caps, soft) == IF has_ipc_lock(caps) THEN NoLimit ELSE soft

locked_now(vmLck, vmPin) == vmLck + vmPin

memlock_headroom(limit, locked) ==
  IF limit = NoLimit THEN NoLimit ELSE AtLeast(limit - locked, 0)

pool_want(user, avail) ==
  IF user # NoUser THEN AtLeast(user, 4 * MB)
  ELSE Clamp((IF avail = Unknown THEN DEFAULT_AVAIL ELSE avail) \div 3, MIN_POOL, MAX_POOL)

\* Mutant: the pool takes all that can be pinned.
pool_ceiling_all(user, avail, head) ==
  IF head = NoLimit THEN pool_want(user, avail)
  ELSE AtLeast(AtMost(pool_want(user, avail), head), MB)

\* Half of what can be pinned is left to the sender of the same process.
pool_ceiling(user, avail, head) ==
  IF head = NoLimit THEN pool_want(user, avail)
  ELSE AtLeast(AtMost(pool_want(user, avail), head \div 2), MB)

pool_is_adequate(user, avail, head) == pool_ceiling(user, avail, head) >= ADEQUATE_POOL

\* pool_explain has something to say.
pool_explains(user, avail, limit, head) ==
  /\ pool_ceiling(user, avail, head) < pool_want(user, avail)
  /\ ~pool_is_adequate(user, avail, head)
  /\ limit # NoLimit

\* What send_files tells the receiver it can pin; an eighth is kept for the rest.
SenderBudget(head) == IF head = NoLimit THEN Unlimited ELSE head - head \div 8

\* The local slabs of a sender: --slabs, at least 2, as many as its budget holds.
LocalSlabs(slabs, l, budget) ==
  LET wanted == AtLeast(slabs, 2) IN
    CHOOSE n \in 2..wanted :
      /\ n = 2 \/ Fits(n, l, budget)
      /\ \A m \in n + 1..wanted : ~Fits(m, l, budget)

LocalPool(slabs, l, budget) == pool_alloc_size(LocalSlabs(slabs, l, budget) * SenderSlab(l))

=============================================================================
