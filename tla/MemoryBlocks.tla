---------------------------- MODULE MemoryBlocks ----------------------------
(***************************************************************************)
(* The Memory objects of nnabla (include/nbla/memory/memory.hpp and        *)
(* src/nbla/memory/memory.cpp): a piece of a device allocation that can be *)
(* divided in two and merged back with its neighbours.                     *)
(*                                                                         *)
(* The module has no state of its own.  A "heap" m maps the identity of    *)
(* every Memory object to its fields, and each operator is one method of   *)
(* the class: it takes a heap and returns the heap the method leaves.      *)
(* A pointer is a pair (seg, off): the segment one call of the device's    *)
(* malloc returned, and an offset into it.                                 *)
(***************************************************************************)
EXTENDS Integers

CONSTANTS
    Block,      \* identities of Memory objects
    Segment,    \* what malloc can return: address ranges that never overlap
    Device,     \* device ids
    NULL        \* nullptr

ASSUME NullAssumption ==
    /\ NULL \notin Block
    /\ NULL \notin Segment
    /\ NULL \notin Device

(***************************************************************************)
(* The fields of a Memory object.  ptr_ is (seg, off) and is null when seg *)
(* is NULL.  Unborn is an object that does not exist.                      *)
(***************************************************************************)
Memory == [bytes: Nat, seg: Segment \cup {NULL}, off: Nat,
           next: Block \cup {NULL}, prev: Block \cup {NULL},
           locked: BOOLEAN, device_id: Device \cup {NULL}]

Unborn == [bytes |-> 0, seg |-> NULL, off |-> 0, next |-> NULL, prev |-> NULL,
           locked |-> FALSE, device_id |-> NULL]

Disabled(m, b) == m[b].seg = NULL

\* An object that owns memory: it was allocated or divided off, and not merged away.
Alive(m) == {b \in Block : ~Disabled(m, b)}

\* Identities no object has.
Fresh(m) == {b \in Block : m[b] = Unborn}

\* The object's size if it is a whole allocation, 0 if it is a part of one.
BytesActive(m, b) ==
    IF Disabled(m, b) \/ m[b].next # NULL \/ m[b].prev # NULL
    THEN 0 ELSE m[b].bytes

\* The heap after object b changes to r.
Put(m, b, r) == [x \in Block |-> IF x = b THEN r ELSE m[x]]

\* A new object, not yet linked to any other.
Piece(bytes, seg, off, d) ==
    [bytes |-> bytes, seg |-> seg, off |-> off, next |-> NULL, prev |-> NULL,
     locked |-> FALSE, device_id |-> d]

\* make_shared<MemoryType>(bytes, device_id) followed by a successful alloc().
Construct(m, b, seg, bytes, d) ==
    Put(m, b, Piece(bytes, seg, 0, d))

AssociateConsecutive(m, left, right) ==
    [b \in Block |-> [m[b] EXCEPT !.next = IF b = left THEN right ELSE @,
                                  !.prev = IF b = right THEN left ELSE @]]

\* Faulty variants, defined next to what they replace, are the mutants that show a
\* property can fail.  Here the operands of the remaining size are swapped.
DivideBackwards(m, b, r, start) ==
    LET rest == Piece(start - m[b].bytes, m[b].seg, m[b].off + start, m[b].device_id)
        cut  == Put(Put(m, r, rest), b, [m[b] EXCEPT !.bytes = start])
    IN  AssociateConsecutive(AssociateConsecutive(cut, r, m[b].next), b, r)

\* Faulty: the new object is not linked to the block that followed b.
DivideUnlinked(m, b, r, start) ==
    LET rest == Piece(m[b].bytes - start, m[b].seg, m[b].off + start, m[b].device_id)
        cut  == Put(Put(m, r, rest), b, [m[b] EXCEPT !.bytes = start])
    IN  AssociateConsecutive(cut, b, r)

\* b keeps its first `start` bytes and the new object `r` gets the rest.
Divide(m, b, r, start) ==
    LET rest == Piece(m[b].bytes - start, m[b].seg, m[b].off + start, m[b].device_id)
        cut  == Put(Put(m, r, rest), b, [m[b] EXCEPT !.bytes = start])
    IN  AssociateConsecutive(AssociateConsecutive(cut, r, m[b].next), b, r)

\* The links b gets when it takes over `from`, a neighbour of it.
Relink(m, b, from) ==
    IF m[b].next = from
    THEN AssociateConsecutive(m, b, m[from].next)
    ELSE IF m[b].prev = from
    THEN AssociateConsecutive(
             Put(m, b, [m[b] EXCEPT !.seg = m[from].seg, !.off = m[from].off]),
             m[from].prev, b)
    ELSE m

\* Faulty: only a next block is ever taken over.
TryMergeNextOnly(m, b, from) ==
    IF from = NULL \/ m[from].locked \/ m[b].next # from
    THEN m
    ELSE LET near == Relink(m, b, from) IN
         Put(Put(near, b, [near[b] EXCEPT !.bytes = @ + m[from].bytes]),
             from, [near[from] EXCEPT !.seg = NULL])

\* Nothing happens when there is no such neighbour or it is in use.  Otherwise b
\* grows by its size, whichever side it is on, and `from` is disabled.
TryMerge(m, b, from) ==
    IF from = NULL \/ m[from].locked
    THEN m
    ELSE LET near == Relink(m, b, from) IN
         Put(Put(near, b, [near[b] EXCEPT !.bytes = @ + m[from].bytes]),
             from, [near[from] EXCEPT !.seg = NULL])

SetLock(m, b, v) == Put(m, b, [m[b] EXCEPT !.locked = v])

=============================================================================
