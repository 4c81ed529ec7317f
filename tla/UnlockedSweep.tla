---------------------------- MODULE UnlockedSweep ----------------------------
(***************************************************************************)
(* Allocator (src/nbla/memory/allocator.cpp) seen by two threads of one    *)
(* process.  alloc and free run under mutex_; free_unused_caches, which    *)
(* Python's clear_memory_cache calls, takes no lock, so it may run beside  *)
(* a forward or backward, for which the interpreter lock is released.      *)
(*                                                                         *)
(* The device is one, a block is a whole allocation of one unit, and the   *)
(* pool is a set: what is kept in full is the order in which the two       *)
(* threads read and write device_memory_used_in_bytes_, whose += and -=    *)
(* are a load and a store.  The accesses to the pool itself are taken to   *)
(* be atomic, which is the most favourable outcome of their race.          *)
(***************************************************************************)
EXTENDS Integers, FiniteSets

CONSTANTS Block     \* Memory objects, each one unit of device memory

VARIABLES
    inuse,      \* blocks held by an AllocatorMemory
    pooled,     \* blocks in the pool
    used,       \* device_memory_used_in_bytes_
    worker,     \* the thread that runs alloc and free
    sweeper     \* the thread that runs free_unused_caches

vars == <<inuse, pooled, used, worker, sweeper>>

\* What a thread has in hand: where it is, the counter it has loaded, and what it adds.
Idle == [at |-> "idle", loaded |-> 0, delta |-> 0]

Live == inuse \cup pooled

Init ==
    /\ inuse = {}
    /\ pooled = {}
    /\ used = 0
    /\ worker = Idle
    /\ sweeper = Idle

\* alloc served by the pool: no counter is touched.
AllocPooled(b) ==
    /\ worker.at = "idle"
    /\ b \in pooled
    /\ pooled' = pooled \ {b}
    /\ inuse' = inuse \cup {b}
    /\ UNCHANGED <<used, worker, sweeper>>

\* alloc that calls mem->alloc(): the block is counted afterwards, in two steps.
AllocNew(b) ==
    /\ worker.at = "idle"
    /\ pooled = {}
    /\ b \notin Live
    /\ inuse' = inuse \cup {b}
    /\ worker' = [at |-> "load", loaded |-> 0, delta |-> 1]
    /\ UNCHANGED <<pooled, used, sweeper>>

WorkerLoad ==
    /\ worker.at = "load"
    /\ worker' = [worker EXCEPT !.at = "store", !.loaded = used]
    /\ UNCHANGED <<inuse, pooled, used, sweeper>>

WorkerStore ==
    /\ worker.at = "store"
    /\ used' = worker.loaded + worker.delta
    /\ worker' = Idle
    /\ UNCHANGED <<inuse, pooled, sweeper>>

Free(b) ==
    /\ worker.at = "idle"
    /\ b \in inuse
    /\ inuse' = inuse \ {b}
    /\ pooled' = pooled \cup {b}
    /\ UNCHANGED <<used, worker, sweeper>>

\* free_unused_device_caches: drop the pool, then deduct what was dropped.
Sweep ==
    /\ sweeper.at = "idle"
    /\ pooled' = {}
    /\ sweeper' = [at |-> "load", loaded |-> 0, delta |-> -Cardinality(pooled)]
    /\ UNCHANGED <<inuse, used, worker>>

SweeperLoad ==
    /\ sweeper.at = "load"
    /\ sweeper' = [sweeper EXCEPT !.at = "store", !.loaded = used]
    /\ UNCHANGED <<inuse, pooled, used, worker>>

SweeperStore ==
    /\ sweeper.at = "store"
    /\ used' = sweeper.loaded + sweeper.delta
    /\ sweeper' = Idle
    /\ UNCHANGED <<inuse, pooled, worker>>

Next ==
    \/ \E b \in Block : AllocPooled(b) \/ AllocNew(b) \/ Free(b)
    \/ WorkerLoad \/ WorkerStore
    \/ Sweep \/ SweeperLoad \/ SweeperStore

Spec == Init /\ [][Next]_vars

\* include/nbla/memory/allocator.hpp:190 promises the "Total size of memory currently
\* allocated by this allocator in bytes": between two calls, when no thread is inside the
\* allocator, the counter is the memory of the live blocks.
UsedIsLive ==
    worker.at = "idle" /\ sweeper.at = "idle" => used = Cardinality(Live)

=============================================================================
