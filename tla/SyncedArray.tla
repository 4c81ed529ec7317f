----------------------------- MODULE SyncedArray -----------------------------
(***************************************************************************)
(* nbla::SyncedArray: the content of a Variable or an NdArray, of which    *)
(* there is an array per dtype and device that asked for it, the head      *)
(* array being the one written last.  An array can be narrowed; views of   *)
(* views form a tree whose arrays all lie in the memory of the root's head *)
(* array, and that tree is what this module is about.  Reading in another  *)
(* dtype makes a copy beside the head; zero and fill only leave a note,    *)
(* which the first access of the array or of a relative carries out.       *)
(*                                                                         *)
(* A key, the dtype and device of an array, is <<k>> for an array on its   *)
(* own; that of a view appends the view's name for its offset and size to  *)
(* the parent's key.  Memory is a set of buffers.  The modification count, *)
(* clear_called and asynchronous transfers are left out.                   *)
(***************************************************************************)
EXTENDS Integers, Sequences, FiniteSets, FiniteSetsExt, SequencesExt, Functions, SharedMemory

CONSTANTS
    Lineage,    \* [Arrays -> an array and those it descends from]
    Keys,       \* dtype and device
    Values,     \* what is written and filled in, besides zero
    MaxViews,   \* views at a time (a bound)
    MaxBufs     \* buffers at a time (a bound)

VARIABLES
    tree,       \* [Arrays -> the state of the SyncedArray]
    mem         \* what is in the buffers, [buffer -> [CellsOf(Root) -> value]]

vars == <<tree, mem, cell>>

\* Where an array begins in its parent, and where a view lies for the code, which adds to its
\* offset that of its parent, and of nobody above.
OffsetOf(a) == IF a = Root THEN 0 ELSE At[a] - At[Parent[a]]
BaseOf(a) == OffsetOf(a) + OffsetOf(Parent[a])

\* That is its place unless it is a view of a view of a view that begins behind the root.
WellPlaced(a) == a = Root \/ Parent[a] = Root \/ At[Parent[Parent[a]]] = 0

\* The arrays are a tree, and a view is a range of its parent.
ASSUME TreeAssumption ==
    /\ IsFiniteSet(Arrays) /\ Root \in Arrays /\ At[Root] = 0
    /\ \A a \in Arrays : /\ At[a] \in Nat /\ Size[a] \in Nat
                         /\ Lineage[a] \in SUBSET Arrays
                         /\ Lineage[a] = IF a = Root THEN {a} ELSE {a} \union Lineage[Parent[a]]
    /\ \A a \in Arrays \ {Root} :
          /\ Parent[a] \in Arrays /\ a \notin Lineage[Parent[a]]
          /\ At[Parent[a]] <= At[a]
          /\ At[a] + Size[a] <= At[Parent[a]] + Size[Parent[a]]

Nothing == -1   \* no zero or fill to be carried out

ASSUME ValuesAssumption == Nothing \notin Values

NoArrays == [k \in {} |-> 0]
NoHead == << >>

Absent == [live |-> FALSE, children |-> << >>, head |-> NoHead, arrays |-> NoArrays,
           lazy |-> Nothing, zeroing |-> FALSE]
New == [Absent EXCEPT !.live = TRUE]

\* An array in a buffer, or with one of its own; one array alone, one more or another in its stead; a change of some
\* nodes of a tree.
ArrayIn(buf, base) == [buf |-> buf, base |-> base, atHead |-> FALSE]
OwnArray(buf) == ArrayIn(buf, 0)
Only(x, y) == [z \in {x} |-> y]
With(f, x, y) == [z \in DOMAIN f \union {x} |-> IF z = x THEN y ELSE f[z]]
Each(t, S, F(_)) == [d \in Arrays |-> IF d \in S THEN F(t[d]) ELSE t[d]]

------------------------------------------------------------------------------
\* The tree.

Children(t, a) == ToSet(t[a].children)
Live(t, a) == t[a].live
Descendants(t, a) == {d \in Arrays \ {a} : a \in Lineage[d] /\ Live(t, d)}
Family(t, a) == {a} \union Descendants(t, a)
HasFamily(t, a) == a # Root \/ t[a].children # << >>
HasHead(t, a) == t[a].head # NoHead /\ DOMAIN t[a].arrays # {}
HeadArray(t, a) == t[a].arrays[t[a].head]
Pending(t, a) == t[a].lazy # Nothing

------------------------------------------------------------------------------
\* Operations on the tree.

\* create_array_from_parent: the child's array is a range of the parent's head array.
FromParent(parent, node, c) ==
    LET from == parent.arrays[parent.head]
        key == Append(parent.head, c)
    IN [node EXCEPT !.head = key,
                    !.arrays = With(@, key, ArrayIn(from.buf, BaseOf(c)))]

\* create_array_descendants: every child without a head array gets one, and then its own
\* children.
CreateDescendants(t, a) ==
    LET bare == {d \in Descendants(t, a) :
                    \A e \in Lineage[d] \ Lineage[a] : ~HasHead(t, e)}
        node[d \in bare] ==
            FromParent(IF Parent[d] = a THEN t[a] ELSE node[Parent[d]], t[d], d)
    IN [d \in Arrays |-> IF d \in bare THEN node[d] ELSE t[d]]

\* Where a child stands among the children.
PlaceOf(s, d) == CHOOSE j \in DOMAIN s : s[j] = d

\* The descendants clear_all_array_descendants reaches: it returns at the first child
\* without a head array.
Reached(t, a) ==
    LET Elder(d) == LET s == t[Parent[d]].children IN {s[i] : i \in 1 .. PlaceOf(s, d)}
    IN {d \in Descendants(t, a) :
           \A e \in Lineage[d] \ Lineage[a] : \A b \in Elder(e) : HasHead(t, b)}

\* clear_all_array_descendants(true), which leaves the head arrays, and (false).
OnlyHead(node) == [node EXCEPT !.arrays = Only(node.head, @[node.head])]
NoArray(node) == [node EXCEPT !.arrays = NoArrays, !.lazy = Nothing]

KeepHeads(t, a) == Each(t, Reached(t, a), OnlyHead)
DropArrays(t, a) == Each(t, Reached(t, a), NoArray)

\* clear_flags and clear_flags_descendants.
NoNote(node) == [node EXCEPT !.lazy = Nothing]
ClearFlags(t, S) == Each(t, S, NoNote)

\* propagate_zeroing_flag.
Flagged(t, S, flag) == Each(t, S, LAMBDA node : [node EXCEPT !.zeroing = flag])
ZeroingBelow(t, a, flag) == Flagged(t, Family(t, a), flag)
Zeroing(t, a, flag) == Flagged(t, Family(t, a) \union Lineage[a], flag)

------------------------------------------------------------------------------
\* Operations on the tree and the memory; s is [tree, mem].

Indices(a) == 0 .. Size[a] - 1

Place(s, array, i) == s.mem[array.buf][array.base + i]
Cells(array, a) == array.base .. array.base + Size[a] - 1

\* An assignment of the values of the function v to the cells of an array.
Put(m, array, a, v) ==
    [m EXCEPT ![array.buf] =
        [c \in DOMAIN @ |-> IF c \in Cells(array, a) THEN v[c - array.base] ELSE @[c]]]

UsedBufs(t) == UNION {{array.buf : array \in Range(t[a].arrays)} : a \in Arrays}

Fresh == [c \in CellsOf(Root) |-> Unknown]

\* The missing array of a key is created, with anything in it, and is the head if it is the
\* only one. A buffer is named for the first array in it.
NewBuf(s, a, key) ==
    <<a, key, Min({n \in 1 .. Cardinality(DOMAIN s.mem) + 1 : <<a, key, n>> \notin DOMAIN s.mem})>>

WithArray(node, key, buf) ==
    [node EXCEPT !.head = IF DOMAIN node.arrays = {} THEN key ELSE @,
                 !.arrays = With(@, key, OwnArray(buf))]

WithViews(t, a) == IF a = Root THEN CreateDescendants(t, a) ELSE t

Allocated(s, a, key) ==
    [tree |-> WithViews([s.tree EXCEPT ![a] = WithArray(@, key, NewBuf(s, a, key))], a),
     mem |-> With(s.mem, NewBuf(s, a, key), Fresh)]

\* traverse_zero_fill: parents before their children, so that a cell of several arrays that
\* have a note is as the last of them in the line of descent says.
Lowest(S) == CHOOSE d \in S : \A e \in S : d \in Lineage[e] => e = d

Noted(s, S, b, c) ==
    {d \in S : /\ Pending(s.tree, d)
               /\ HeadArray(s.tree, d).buf = b /\ c \in Cells(HeadArray(s.tree, d), d)}

CarriedBy(s, S) ==
    [tree |-> ClearFlags(s.tree, S),
     mem |-> [b \in DOMAIN s.mem |-> [c \in DOMAIN s.mem[b] |->
                 IF Noted(s, S, b, c) = {} THEN s.mem[b][c]
                 ELSE s.tree[Lowest(Noted(s, S, b, c))].lazy]]]

\* check_zeroing_filling, and the ancestor from which the notes are carried out.
AnyPending(t, a) == \E d \in Family(t, a) \union Lineage[a] : Pending(t, d)

Above(t, a) == {p \in Lineage[a] \ {a} : Pending(t, p)}
Topmost(S) == CHOOSE p \in S : S \cap Lineage[p] = {p}
ZeroFillRoot(t, a) == IF Above(t, a) = {} THEN a ELSE Topmost(Above(t, a))

Carried(s, a) ==
    IF HasFamily(s.tree, a) /\ AnyPending(s.tree, a)
    THEN CarriedBy(s, {d \in Family(s.tree, ZeroFillRoot(s.tree, a)) : HasHead(s.tree, d)})
    ELSE s

\* The end of sync: an array not at head is filled as noted, or with the head array, which
\* is a copy of itself to itself when there is no other.
Filled(s, a, key, writeOnly) ==
    IF writeOnly \/ s.tree[a].arrays[key].atHead THEN s
    ELSE IF ~HasFamily(s.tree, a) /\ Pending(s.tree, a)
    THEN [tree |-> ClearFlags(s.tree, {a}),
          mem |-> Put(s.mem, s.tree[a].arrays[key], a, [i \in Indices(a) |-> s.tree[a].lazy])]
    ELSE [s EXCEPT !.mem = Put(@, s.tree[a].arrays[key], a,
                               [i \in Indices(a) |-> Place(s, HeadArray(s.tree, a), i)])]

KeyOf(t, a, k) ==
    IF a # Root /\ t[Root].head = <<k>> THEN Append(t[Parent[a]].head, a) ELSE <<k>>

SyncedAt(s, a, key, writeOnly) ==
    Filled(Carried(IF key \in DOMAIN s.tree[a].arrays THEN s ELSE Allocated(s, a, key), a),
           a, key, writeOnly)

\* sync: the root goes first when the view has no array yet.
Prepared(s, a, k, writeOnly) ==
    IF a # Root /\ ~HasHead(s.tree, a) THEN SyncedAt(s, Root, <<k>>, writeOnly) ELSE s

SyncedOne(s, a, k, writeOnly) == SyncedAt(s, a, KeyOf(s.tree, a, k), writeOnly)

Synced(s, a, k, writeOnly) == SyncedOne(Prepared(s, a, k, writeOnly), a, k, writeOnly)

\* get_sp: the array is now as good as the head.
AtHead(s, a, k) == [s EXCEPT !.tree[a].arrays[KeyOf(s.tree, a, k)].atHead = TRUE]

\* cast_sp: the array becomes the head and all others of the family go.
RecastKeepingViews(t, a, changed) ==
    IF HasFamily(t, a) THEN KeepHeads([t EXCEPT ![Root] = OnlyHead(@)], Root) ELSE t

Recast(t, a, changed) ==
    IF ~HasFamily(t, a) THEN t
    ELSE IF changed /\ a = Root THEN CreateDescendants(DropArrays(t, a), a)
    ELSE KeepHeads([t EXCEPT ![Root] = OnlyHead(@)], Root)

NewHead(t, a) ==
    [t EXCEPT ![a].arrays = Only(t[a].head, [HeadArray(t, a) EXCEPT !.atHead = TRUE]),
              ![a].lazy = Nothing]

CastTo(s, a, key, changed) ==
    [s EXCEPT !.tree =
        Zeroing(NewHead(Recast([s.tree EXCEPT ![a].head = key], a, changed), a), a, FALSE)]

CastAt(s, a, k, head) == CastTo(s, a, KeyOf(s.tree, a, k), KeyOf(s.tree, a, k) # head)

Casted(s, a, k, writeOnly) == CastAt(Synced(s, a, k, writeOnly), a, k, s.tree[a].head)

\* The common part of zero and fill: no copy survives, no note of a descendant either.
OnlyHeads(t, S) == Each(t, S, OnlyHead)

BaredBelow(t, a) ==
    IF a = Root THEN DropArrays([t EXCEPT ![a] = NoArray(@)], a) ELSE KeepHeads(t, a)

Bared(t, a) ==
    IF a = Root THEN DropArrays([t EXCEPT ![a] = NoArray(@)], a)
    ELSE KeepHeads(IF HasHead(t, a) THEN OnlyHeads(t, Lineage[a]) ELSE t, a)

Emptied(t, a) == ClearFlags(Bared(t, a), Family(t, a))

------------------------------------------------------------------------------
Now == [tree |-> tree, mem |-> mem]

\* Memory nobody holds is given back.
Become(s) == \E used \in {UsedBufs(s.tree)} :
    /\ Cardinality(used) <= MaxBufs
    /\ tree' = s.tree
    /\ mem' = Restrict(s.mem, used)

SAInit == /\ Init
          /\ tree = [a \in Arrays |-> IF a = Root THEN [New EXCEPT !.lazy = 0] ELSE Absent]
          /\ mem = << >>

\* cast for reading and writing is refused to a view in another dtype than the root's.
MayCast(a, k) == a # Root /\ HasHead(tree, Root) => tree[Root].head = <<k>>

Get(a, k) ==
    /\ Live(tree, a)
    /\ \E s \in {AtHead(Synced(Now, a, k, FALSE), a, k)} : Become(s)
    /\ UNCHANGED cell

\* cast, after which the caller writes to every cell of the array, or to one of them.
CastWriteOnly(a, k) == \E v \in Values :
    /\ Live(tree, a) /\ MayCast(a, k)
    /\ \E s \in {Casted(Now, a, k, TRUE)} :
          Become([s EXCEPT !.mem = Put(@, HeadArray(s.tree, a), a, [i \in Indices(a) |-> v])])
    /\ Write(a, v)

Cast(a, k) == \E v \in Values, i \in Indices(a) :
    /\ Live(tree, a) /\ MayCast(a, k)
    /\ \E s \in {Casted(Now, a, k, FALSE)} : \E h \in {HeadArray(s.tree, a)} :
          Become([s EXCEPT !.mem[h.buf][h.base + i] = v])
    /\ Change(a, i, v)

Zero(a) ==
    /\ Live(tree, a)
    /\ LET t == Emptied(tree, a)
       IN Become([Now EXCEPT !.tree =
              [Flagged(t, Family(t, a), TRUE) EXCEPT ![a].lazy = 0]])
    /\ Write(a, 0)

Fill(a) == \E v \in Values :
    /\ Live(tree, a)
    /\ Become([Now EXCEPT !.tree = [Zeroing(Emptied(tree, a), a, FALSE) EXCEPT ![a].lazy = v]])
    /\ Write(a, v)

\* clear, which is refused to a view. What becomes of the views of a cleared array is not
\* modelled: they keep the memory the root has lost.
Clear ==
    /\ ~HasFamily(tree, Root)
    /\ Become([Now EXCEPT !.tree[Root] = NoArray(@)])
    /\ Forget(Root)

Overlap(a, b) ==
    /\ OffsetOf(a) < OffsetOf(b) + Size[b]
    /\ OffsetOf(b) < OffsetOf(a) + Size[a]

Narrow(a) ==
    /\ a # Root /\ ~Live(tree, a) /\ Live(tree, Parent[a])
    /\ Cardinality(Descendants(tree, Root)) < MaxViews
    /\ \A b \in Children(tree, Parent[a]) : ~Overlap(a, b)
    /\ LET p == tree[Parent[a]]
       IN Become([Now EXCEPT
              !.tree[Parent[a]].children = Append(@, a),
              !.tree[a] = IF HasHead(tree, Parent[a]) THEN FromParent(p, New, a) ELSE New])
    /\ UNCHANGED cell

\* The last reference to a view goes; its own views hold it. A note it still carries is
\* carried out by nobody.
Release(a) ==
    /\ a # Root /\ Live(tree, a) /\ tree[a].children = << >>
    /\ Become([Now EXCEPT !.tree[Parent[a]].children = RemoveAt(@, PlaceOf(@, a)),
                          !.tree[a] = Absent])
    /\ IF Pending(tree, a) THEN Forget(a) ELSE UNCHANGED cell

Next ==
    \/ \E a \in Arrays, k \in Keys : Get(a, k) \/ CastWriteOnly(a, k) \/ Cast(a, k)
    \/ \E a \in Arrays : Zero(a) \/ Fill(a) \/ Narrow(a) \/ Release(a)
    \/ Clear

Spec == SAInit /\ [][Next]_vars

------------------------------------------------------------------------------
ReadIn(s, a, k) ==
    [c \in CellsOf(a) |-> Place(s, s.tree[a].arrays[KeyOf(s.tree, a, k)], c - At[a])]

WouldRead(a, k) == ReadIn(Synced(Now, a, k, FALSE), a, k)

\* Whatever array of the tree is read, in whatever dtype, there is what was written last, by
\* whomever: no stale copy beside the head, no note lost or carried out twice or too late, no
\* view beside its place.
ReadsLastWrite ==
    \A a \in Arrays, k \in Keys : Live(tree, a) =>
        \E r \in {WouldRead(a, k)} : \A c \in CellsOf(a) : cell[c] \in {r[c], Unknown}

\* The views have head arrays when the root has one, and they lie in its memory ("share the
\* same underlying allocated memory", nd_array.hpp:178); in their place there, too, but for
\* views of the third generation and later, of which the code loses offsets.
SharesMemory ==
    \A a \in Arrays : Live(tree, a) =>
        /\ HasHead(tree, a) <=> HasHead(tree, Root)
        /\ HasHead(tree, a) =>
              /\ HeadArray(tree, a).buf = HeadArray(tree, Root).buf
              /\ WellPlaced(a) => HeadArray(tree, a).base = At[a]
              /\ tree[a].head[1] = tree[Root].head[1]

\* An array said to be zero is zero: the solver skips the parameters whose gradient is, and
\* the engine lets a function overwrite instead of accumulate.
ZeroingIsZero ==
    \A a \in Arrays : Live(tree, a) /\ tree[a].zeroing =>
        \A c \in CellsOf(a) : cell[c] \in {0, Unknown}
=============================================================================
