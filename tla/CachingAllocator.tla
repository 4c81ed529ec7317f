-------------------------- MODULE CachingAllocator --------------------------
(***************************************************************************)
(* Allocator (src/nbla/memory/allocator.cpp) and its caching realisation   *)
(* CachingAllocatorWithBuckets                                             *)
(* (src/nbla/memory/caching_allocator_with_buckets.cpp).                   *)
(*                                                                         *)
(* A request is rounded, served from the pool of cached blocks of its size *)
(* class or from a new device allocation, and the block found is divided   *)
(* when it is too large.  A freed block is merged with the neighbours that *)
(* are not in use and goes back to the pool.  Allocator::alloc and         *)
(* Allocator::free hold mutex_ from their first statement to their last,   *)
(* so each is one action.                                                  *)
(***************************************************************************)
EXTENDS MemoryBlocks, FiniteSets, FiniteSetsExt

CONSTANTS
    Request,        \* the sizes programs ask for, in bytes
    round_small,    \* granularity of the small pool
    round_large,    \* granularity of the large pool
    small_alloc     \* largest block of the small pool, and what it mallocs

ASSUME SizeAssumption ==
    /\ Request \subseteq Nat
    /\ round_small \in Nat \ {0}
    /\ round_large \in Nat \ {0}
    /\ small_alloc \in Nat \ {0}
    /\ round_small <= small_alloc

VARIABLES
    mem,        \* every Memory object
    cache,      \* small_cache_map_ and large_cache_map_: keys <<bytes, block>>
    counter,    \* small_memory_counter_ and large_memory_counter_
    used,       \* device_memory_used_in_bytes_
    size,       \* the device's own view: bytes of each segment, 0 if not mapped
    asked       \* history: what the holder of a block asked for

vars == <<mem, cache, counter, used, size, asked>>

Pool == {"small", "large"}

PoolOf(bytes) == IF bytes <= small_alloc THEN "small" ELSE "large"

(***************************************************************************)
(* Sizes.                                                                  *)
(***************************************************************************)
Max1(n) == IF n < 1 THEN 1 ELSE n

\* Faulty: the size is rounded down.
RoundDown(n, r) == (n \div r) * r

RoundUp(n, r) == ((n + r - 1) \div r) * r

RoundSize(n) ==
    IF n < round_small THEN round_small
    ELSE IF n < small_alloc THEN RoundUp(n, round_small)
    ELSE RoundUp(n, round_large)

\* The bytes a request takes, after Allocator::alloc and round_size.
Need(n) == RoundSize(Max1(n))

\* A block with at least this much left over is divided.
SplitAt(pool) == IF pool = "small" THEN round_small ELSE small_alloc + 1

\* What make_memory is asked for when the pool has no block large enough.
NewBytes(bytes) == IF PoolOf(bytes) = "small" THEN small_alloc ELSE bytes

(***************************************************************************)
(* The pools.                                                              *)
(***************************************************************************)
Key(m, b) == <<m[b].bytes, b>>

\* Blocks cached for device d.
CachedOn(c, d) == {b \in Block : \E p \in Pool : \E k \in c[d][p] : k[2] = b}

Cached(c) == UNION {CachedOn(c, d) : d \in Device}

\* std::map::lower_bound: the smallest sufficient size, addresses breaking ties.
LowerBound(keys, bytes) ==
    {k \in keys : /\ k[1] >= bytes
                  /\ \A j \in keys : j[1] >= bytes => k[1] <= j[1]}

Insert(c, d, p, key) == [c EXCEPT ![d][p] = @ \cup {key}]
Erase(c, d, p, key) == [c EXCEPT ![d][p] = @ \ {key}]

\* Faulty: the entry of a swallowed block stays.
KeepSwallowed(c, m, d, p, b) == c

\* try_erase_cache: drop the entry of a block another block has swallowed.
TryEraseCache(c, m, d, p, b) ==
    IF b = NULL \/ ~Disabled(m, b) THEN c ELSE Erase(c, d, p, Key(m, b))

\* Disabled objects die with their last shared_ptr, which is the cache's.
Collect(m, c) ==
    [b \in Block |-> IF Disabled(m, b) /\ b \notin Cached(c) THEN Unborn ELSE m[b]]

(***************************************************************************)
(* free_unused_device_caches for every device of D: entries whose block is *)
(* a whole allocation are erased, and the Memory destructor gives the      *)
(* segment back.                                                           *)
(***************************************************************************)
\* Faulty: the large pool is not trimmed.
WholeSmall(m, c, d) ==
    {b \in CachedOn(c, d) : BytesActive(m, b) > 0 /\ PoolOf(m[b].bytes) = "small"}

Whole(m, c, d) == {b \in CachedOn(c, d) : BytesActive(m, b) > 0}

WholeIn(m, c, D) == UNION {Whole(m, c, d) : d \in D}

TrimMem(D) == [b \in Block |-> IF b \in WholeIn(mem, cache, D) THEN Unborn ELSE mem[b]]

TrimCache(D) ==
    [d \in Device |-> [p \in Pool |->
        {k \in cache[d][p] : k[2] \notin WholeIn(mem, cache, D)}]]

TrimSize(D) ==
    [s \in Segment |->
        IF \E b \in WholeIn(mem, cache, D) : mem[b].seg = s THEN 0 ELSE size[s]]

FreedBytes(d) == MapThenSumSet(LAMBDA b : BytesActive(mem, b), Whole(mem, cache, d))

\* Faulty: what is given back is not deducted.
TrimUsedNothing(D) == used

TrimUsed(D) == [d \in Device |-> IF d \in D THEN used[d] - FreedBytes(d) ELSE used[d]]

(***************************************************************************)
(* The tail of alloc_impl and alloc, from the split on: m and c are the    *)
(* objects and pools once block b has been found or created.               *)
(***************************************************************************)
Hand(m, b, n) ==
    /\ mem' = SetLock(m, b, TRUE)
    /\ counter' = [counter EXCEPT ![PoolOf(m[b].bytes)][m[b].device_id] = @ + 1]
    /\ asked' = [asked EXCEPT ![b] = n]

KeepWhole(m, c, d, b, n) ==
    LET bytes == Need(n) IN
    /\ m[b].bytes - bytes < SplitAt(PoolOf(bytes))
    /\ Hand(m, b, n)
    /\ cache' = c

Split(m, c, d, b, n) ==
    LET bytes == Need(n)
        pool  == PoolOf(bytes) IN
    /\ m[b].bytes - bytes >= SplitAt(pool)
    /\ \E r \in Fresh(m) :
          LET cut == Divide(m, b, r, bytes) IN
          /\ Hand(cut, b, n)
          /\ cache' = Insert(c, d, pool, Key(cut, r))

Carve(m, c, d, b, n) == KeepWhole(m, c, d, b, n) \/ Split(m, c, d, b, n)

(***************************************************************************)
(* Allocator::alloc: a cached block fits, a new one is allocated, the      *)
(* second attempt of alloc_retry succeeds after the device's caches were   *)
(* dropped, or it fails too and the exception leaves them dropped.         *)
(***************************************************************************)
Candidates(d, n) == LowerBound(cache[d][PoolOf(Need(n))], Need(n))

AllocCached(d, n) ==
    \E k \in Candidates(d, n) :
        /\ Carve(mem, Erase(cache, d, PoolOf(Need(n)), k), d, k[2], n)
        /\ UNCHANGED <<size, used>>

AllocNew(d, n) ==
    /\ Candidates(d, n) = {}
    /\ \E b \in Fresh(mem), s \in Segment :
          /\ size[s] = 0
          /\ size' = [size EXCEPT ![s] = NewBytes(Need(n))]
          /\ used' = [used EXCEPT ![d] = @ + NewBytes(Need(n))]
          /\ Carve(Construct(mem, b, s, NewBytes(Need(n)), d), cache, d, b, n)

AllocRetried(d, n) ==
    /\ Candidates(d, n) = {}
    /\ \E b \in Fresh(mem), s \in Segment :
          /\ TrimSize({d})[s] = 0
          /\ size' = [t \in Segment |-> IF t = s THEN NewBytes(Need(n)) ELSE TrimSize({d})[t]]
          /\ used' = [used EXCEPT ![d] = TrimUsed({d})[d] + NewBytes(Need(n))]
          /\ Carve(Construct(TrimMem({d}), b, s, NewBytes(Need(n)), d),
                   TrimCache({d}), d, b, n)

AllocFailed(d, n) ==
    /\ Candidates(d, n) = {}
    /\ mem' = TrimMem({d})
    /\ cache' = TrimCache({d})
    /\ size' = TrimSize({d})
    /\ used' = TrimUsed({d})
    /\ UNCHANGED <<counter, asked>>

(***************************************************************************)
(* Allocator::free, called once by the AllocatorMemory that holds b.       *)
(***************************************************************************)
Free(b) ==
    LET d    == mem[b].device_id
        pool == PoolOf(mem[b].bytes)
        open == SetLock(mem, b, FALSE)
        n    == open[b].next
        m1   == TryMerge(open, b, n)
        p    == m1[b].prev
        m2   == TryMerge(m1, b, p)
        c1   == TryEraseCache(TryEraseCache(cache, m2, d, pool, n), m2, d, pool, p)
    IN
    /\ mem[b].locked
    /\ cache' = Insert(c1, d, pool, Key(m2, b))
    /\ mem' = Collect(m2, cache')
    /\ counter' = [counter EXCEPT ![pool][d] = @ - 1]
    /\ asked' = [asked EXCEPT ![b] = 0]
    /\ UNCHANGED <<size, used>>

\* free_unused_caches (D is every device) and free_unused_device_caches (one).
FreeUnusedCaches(D) ==
    /\ mem' = TrimMem(D)
    /\ cache' = TrimCache(D)
    /\ size' = TrimSize(D)
    /\ used' = TrimUsed(D)
    /\ UNCHANGED <<counter, asked>>

(***************************************************************************)
(* The specification.                                                      *)
(***************************************************************************)
Init ==
    /\ mem = [b \in Block |-> Unborn]
    /\ cache = [d \in Device |-> [p \in Pool |-> {}]]
    /\ counter = [p \in Pool |-> [d \in Device |-> 0]]
    /\ used = [d \in Device |-> 0]
    /\ size = [s \in Segment |-> 0]
    /\ asked = [b \in Block |-> 0]

Alloc(d, n) ==
    AllocCached(d, n) \/ AllocNew(d, n) \/ AllocRetried(d, n) \/ AllocFailed(d, n)

Next ==
    \/ \E d \in Device, n \in Request : Alloc(d, n)
    \/ \E b \in Block : Free(b)
    \/ \E d \in Device : FreeUnusedCaches({d})
    \/ FreeUnusedCaches(Device)

Spec == Init /\ [][Next]_vars

(***************************************************************************)
(* What makes it correct.  device_memory_used_in_bytes_ is typed by        *)
(* UsedIsExact, which gives its value.                                     *)
(***************************************************************************)
TypeOK ==
    /\ mem \in [Block -> Memory]
    /\ cache \in [Device -> [Pool -> SUBSET (Nat \X Block)]]
    /\ counter \in [Pool -> [Device -> Int]]
    /\ size \in [Segment -> Nat]
    /\ asked \in [Block -> Nat]

End(m, b) == m[b].off + m[b].bytes

InUse(b) == mem[b].locked

\* Block b lies in the segment it points into, and ends where the next begins.
LinkedAt(m, sz, b) ==
    /\ m[b].bytes > 0
    /\ End(m, b) <= sz[m[b].seg]
    /\ m[b].next = NULL => End(m, b) = sz[m[b].seg]
    /\ m[b].prev = NULL => m[b].off = 0
    /\ m[b].next # NULL =>
          /\ m[b].next \in Alive(m)
          /\ m[m[b].next].prev = b
          /\ m[m[b].next].seg = m[b].seg
          /\ m[m[b].next].off = End(m, b)
          /\ m[m[b].next].device_id = m[b].device_id
    /\ m[b].prev # NULL =>
          /\ m[b].prev \in Alive(m)
          /\ m[m[b].prev].next = b

Linked(m, sz) == \A b \in Alive(m) : LinkedAt(m, sz, b)

Apart(m, b, c) == m[b].seg = m[c].seg => End(m, b) <= m[c].off \/ End(m, c) <= m[b].off

NoOverlap(m) == \A b, c \in Alive(m) : b # c => Apart(m, b, c)

\* The blocks of a segment tile it: no sequence of splits, partial frees and merges
\* loses a byte of a segment or gives one byte to two Memory objects.
Tiling == Linked(mem, size) /\ NoOverlap(mem)

\* Every key of the pools is the current key of a block nobody uses, filed under the
\* block's device and size class.
Entries(m, c) ==
    \A d \in Device, p \in Pool : \A k \in c[d][p] :
        /\ k[2] \in Alive(m)
        /\ ~m[k[2]].locked
        /\ k = Key(m, k[2])
        /\ m[k[2]].device_id = d
        /\ PoolOf(k[1]) = p

\* Block b is in the pool if nobody uses it.
Filed(m, c, b) ==
    /\ m[b].device_id \in Device
    /\ ~m[b].locked => Key(m, b) \in c[m[b].device_id][PoolOf(m[b].bytes)]

\* The pools hold exactly the blocks nobody uses.  A key left behind by a merge, or a
\* block filed in the other pool, would be handed out twice or never again.
CacheIsExact ==
    /\ Entries(mem, cache)
    /\ \A b \in Alive(mem) : Filed(mem, cache, b)

\* A block has the size class of the segment it was cut from, so that its neighbours are
\* in the one pool free_impl looks at.
OnePool(m, sz) == \A b \in Alive(m) : PoolOf(m[b].bytes) = PoolOf(sz[m[b].seg])

NoFreeNeighbours(m) ==
    \A b \in Alive(m) : m[b].next # NULL => m[b].locked \/ m[m[b].next].locked

\* Freed neighbours never stay apart, whatever the order blocks are freed in, and are
\* always of one size class: one missed merge and the segment can never be reused whole
\* or given back.
Coalesced == NoFreeNeighbours(mem) /\ OnePool(mem, size)

\* device_memory_used_in_bytes_ is the memory of the live blocks and the counters the
\* number of blocks in use, across trims, retries and failures.
UsedIsExact ==
    /\ used = [d \in Device |->
                 MapThenSumSet(LAMBDA b : mem[b].bytes,
                               {b \in Alive(mem) : mem[b].device_id = d})]
    /\ counter = [p \in Pool |-> [d \in Device |->
                    Cardinality({b \in Alive(mem) :
                        InUse(b) /\ mem[b].device_id = d /\ PoolOf(mem[b].bytes) = p})]]

\* A device nobody holds memory of has only whole segments cached, so one
\* free_unused_device_caches returns all of it, after any history.
IdleDeviceIsReclaimable ==
    \A d \in Device :
        LET blocks == {b \in Alive(mem) : mem[b].device_id = d} IN
        (\A b \in blocks : ~InUse(b)) =>
            \A b \in blocks : BytesActive(mem, b) = size[mem[b].seg]

\* alloc reports exhaustion only when no segment of the device is entirely unused: what
\* alloc_retry leaves behind is pinned by a block in use.
ExhaustionIsReal ==
    [][\A d \in Device, n \in Request :
          AllocFailed(d, n) =>
              \A b \in Alive(mem') : mem'[b].device_id = d =>
                  \E c \in Alive(mem') : mem'[c].seg = mem'[b].seg /\ mem'[c].locked]_vars

(***************************************************************************)
(* The allocator implements DeviceHeap: a block in use is its holder's     *)
(* region.  No step another thread takes - a split, a merge with a         *)
(* neighbour of the block, a trim under memory pressure - can move, resize *)
(* or unmap it, and no two holders share a byte.                           *)
(***************************************************************************)
Region == [seg : Segment, off : Nat, bytes : Nat, asked : Nat]

ASSUME RegionAssumption == NULL \notin Region

Held == [b \in Block |->
            IF InUse(b)
            THEN [seg |-> mem[b].seg, off |-> mem[b].off,
                  bytes |-> mem[b].bytes, asked |-> asked[b]]
            ELSE NULL]

Heap == INSTANCE DeviceHeap WITH Holder <- Block, mapped <- size, held <- Held

ImplementsDeviceHeap == Heap!Spec

=============================================================================
