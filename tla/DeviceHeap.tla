----------------------------- MODULE DeviceHeap -----------------------------
(***************************************************************************)
(* What arrays rely on from any nnabla allocator, whatever its caching     *)
(* policy (the contract of Allocator::alloc and Allocator::free in         *)
(* include/nbla/memory/allocator.hpp): a holder owns a region of mapped    *)
(* device memory, as large as it asked for, that nobody else owns and that *)
(* neither moves, shrinks nor is unmapped until the holder returns it.     *)
(***************************************************************************)
EXTENDS Integers

CONSTANTS
    Holder,     \* AllocatorMemory objects
    Segment,    \* address ranges the device can map
    Request,    \* sizes asked for
    NULL

VARIABLES
    mapped,     \* bytes mapped of each segment, 0 if none
    held        \* the region each holder owns, or NULL

vars == <<mapped, held>>

Owners == {h \in Holder : held[h] # NULL}

Overlap(r, s) ==
    r.seg = s.seg /\ r.off < s.off + s.bytes /\ s.off < r.off + r.bytes

\* Segments come and go as the allocator likes, except under somebody's region.
Remap == \A h \in Owners : mapped'[held[h].seg] = mapped[held[h].seg]

Init ==
    /\ mapped = [s \in Segment |-> 0]
    /\ held = [h \in Holder |-> NULL]

Grant(h, n) ==
    LET r == held'[h] IN
    /\ h \notin Owners
    /\ held' = [held EXCEPT ![h] = r]
    /\ r # NULL
    /\ r.asked = n
    /\ r.bytes >= n
    /\ r.bytes > 0
    /\ r.seg \in Segment
    /\ r.off >= 0
    /\ r.off + r.bytes <= mapped'[r.seg]
    /\ \A o \in Owners : ~Overlap(r, held[o])
    /\ Remap

Return(h) ==
    /\ h \in Owners
    /\ held' = [held EXCEPT ![h] = NULL]
    /\ UNCHANGED mapped

Reclaim ==
    /\ UNCHANGED held
    /\ Remap

Next ==
    \/ \E h \in Holder, n \in Request : Grant(h, n)
    \/ \E h \in Holder : Return(h)
    \/ Reclaim

Spec == Init /\ [][Next]_vars

=============================================================================
