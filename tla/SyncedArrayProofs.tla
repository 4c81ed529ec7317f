------------------------- MODULE SyncedArrayProofs --------------------------
(***************************************************************************)
(* SyncedArray for any tree of arrays, dtypes, values and bounds: what is  *)
(* read is what was written last, the head arrays of the views lie in the  *)
(* memory of the root's, and an array said to be zero is.  The code has a  *)
(* view of the third generation beside its place (synced_array.cpp, line   *)
(* 117) if the first begins behind the root: the first result is for trees *)
(* without such views (Placed), the other two are for all.                 *)
(***************************************************************************)
EXTENDS SyncedArray, FoldProofs, SequenceTheorems

NodeFields == {"live", "children", "head", "arrays", "lazy", "zeroing"}
ArrayFields == {"buf", "base", "atHead"}

Views == Arrays \ {Root}

\* Where the code has an array, and when that is where it belongs, for all of them.
Base(a) == IF a = Root THEN 0 ELSE BaseOf(a)
Placed == \A a \in Arrays : WellPlaced(a)

Related(a, b) == a \in Lineage[b] \/ b \in Lineage[a]

\* The live arrays are a tree; siblings have no cell in common.
Shaped(t) ==
    /\ DOMAIN t = Arrays
    /\ t[Root].live
    /\ \A a \in Arrays :
          /\ DOMAIN t[a] = NodeFields
          /\ t[a].live \in BOOLEAN
          /\ ~t[a].live => t[a] = Absent
          /\ t[a].children \in Seq(Arrays)
          /\ \A i, j \in DOMAIN t[a].children : t[a].children[i] = t[a].children[j] => i = j
    /\ \A a \in Views : t[a].live => t[Parent[a]].live
    /\ \A a \in Arrays : Children(t, a) = {c \in Views : t[c].live /\ Parent[c] = a}
    /\ \A a, b \in Views : t[a].live /\ t[b].live /\ a # b /\ Parent[a] = Parent[b] => ~Overlap(a, b)

\* The keys of arrays on their own.
Plain(key) == \E k \in Keys : key = <<k>>

\* The arrays of a node are its head array and copies on their own.
Stored(node) ==
    /\ \A k \in DOMAIN node.arrays : DOMAIN node.arrays[k] = ArrayFields
    /\ DOMAIN node.arrays # {} => node.head # NoHead /\ node.head \in DOMAIN node.arrays
    /\ \A k \in DOMAIN node.arrays : k = node.head \/ Plain(k)
    /\ \A k \in DOMAIN node.arrays : k # node.head => node.arrays[k].base = 0
    /\ IsFiniteSet(DOMAIN node.arrays)

\* Of the live arrays all have a head array, or none has.
Uniform(t) == \A a \in Arrays : t[a].live => (HasHead(t, a) <=> HasHead(t, Root))

\* The head array of a view is a range of the root's, and has a key that says so.
InPlace(t, a) ==
    /\ t[a].head = Append(t[Parent[a]].head, a)
    /\ HeadArray(t, a).buf = HeadArray(t, Root).buf
    /\ HeadArray(t, a).base = Base(a)

\* The head array of the root is on its own.
RootHead(t) == Plain(t[Root].head) /\ HeadArray(t, Root).base = 0

Headed(t) ==
    /\ \A a \in Arrays : Stored(t[a])
    /\ Uniform(t)
    /\ HasHead(t, Root) => /\ RootHead(t)
                           /\ \A a \in Views : t[a].live => InPlace(t, a)

-----------------------------------------------------------------------------
(* The tree of arrays. *)

\* The line of descent of an array, one step of it.
LEMMA LineageStep ==
    ASSUME NEW a \in Arrays
    PROVE  /\ Lineage[a] \in SUBSET Arrays /\ a \in Lineage[a]
           /\ a = Root => Lineage[a] = {Root}
           /\ a # Root => /\ Parent[a] \in Arrays /\ Lineage[a] = {a} \cup Lineage[Parent[a]]
                          /\ a \notin Lineage[Parent[a]]
           /\ IsFiniteSet(Lineage[a])
BY TreeAssumption, FS_Subset

Depth(a) == Cardinality(Lineage[a])

\* A view is one deeper than its parent.
LEMMA DepthStep ==
    ASSUME NEW a \in Arrays
    PROVE  Depth(a) \in Nat /\ (a # Root => Depth(a) = Depth(Parent[a]) + 1)
<1>1. Depth(a) \in Nat
  BY LineageStep, FS_CardinalityType DEF Depth
<1>2. ASSUME a # Root
      PROVE  Depth(a) = Depth(Parent[a]) + 1
  <2>1. IsFiniteSet(Lineage[Parent[a]]) /\ a \notin Lineage[Parent[a]]
        /\ Lineage[a] = Lineage[Parent[a]] \cup {a}
    BY <1>2, LineageStep
  <2>2. Cardinality(Lineage[Parent[a]] \cup {a}) = Cardinality(Lineage[Parent[a]]) + 1
    BY <2>1, FS_AddElement
  <2> QED
    BY <2>1, <2>2 DEF Depth
<1> QED
  BY <1>1, <1>2

\* What the root has, and every view whose parent has it, all arrays have.
LEMMA DownTheTree ==
    ASSUME NEW P, Root \in P, \A a \in Views : Parent[a] \in P => a \in P
    PROVE  Arrays \subseteq P
<1> SUFFICES ASSUME NEW x \in Arrays, x \notin P
             PROVE  FALSE
  OBVIOUS
<1> DEFINE B == {n \in Nat : \E a \in Arrays : a \notin P /\ Depth(a) = n}
<1>1. B \in SUBSET Nat /\ B # {}
  BY DepthStep
<1>2. PICK n \in B : \A k \in B : n <= k
  <2> HIDE DEF B
  <2> QED
    BY <1>1, LeastNatural
<1>3. PICK a \in Arrays : a \notin P /\ Depth(a) = n
  BY <1>2
<1>4. a # Root /\ a \in Views /\ Parent[a] \in Arrays
  BY <1>3, LineageStep DEF Views
<1>5. Parent[a] \notin P
  BY <1>3, <1>4
<1>6. Depth(Parent[a]) \in Nat /\ Depth(a) = Depth(Parent[a]) + 1
  BY <1>4, DepthStep
<1>7. Depth(Parent[a]) \in B
  BY <1>4, <1>5, <1>6
<1> QED
  BY <1>2, <1>3, <1>6, <1>7

\* All descend from the root.
LEMMA RootAbove ==
    ASSUME NEW a \in Arrays
    PROVE  Root \in Lineage[a]
<1> DEFINE P == {b \in Arrays : Root \in Lineage[b]}
<1>1. Root \in P
  BY LineageStep, TreeAssumption
<1>2. \A b \in Views : Parent[b] \in P => b \in P
  BY LineageStep DEF Views
<1> HIDE DEF P
<1>3. Arrays \subseteq P
  BY <1>1, <1>2, DownTheTree
<1> QED
  BY <1>3 DEF P

\* An ancestor's ancestors are one's own.
LEMMA LineageOfAncestor ==
    ASSUME NEW a \in Arrays, NEW b \in Lineage[a]
    PROVE  b \in Arrays /\ Lineage[b] \subseteq Lineage[a]
<1> DEFINE P == {x \in Arrays : \A y \in Lineage[x] : Lineage[y] \subseteq Lineage[x]}
<1>1. Root \in P
  BY LineageStep, TreeAssumption
<1>2. \A x \in Views : Parent[x] \in P => x \in P
  BY LineageStep DEF Views
<1> HIDE DEF P
<1>3. Arrays \subseteq P
  BY <1>1, <1>2, DownTheTree
<1> QED
  BY <1>3, LineageStep DEF P

\* Nobody descends from a descendant.
LEMMA NoCycle ==
    ASSUME NEW a \in Arrays, NEW b \in Lineage[a], a \in Lineage[b]
    PROVE  a = b
<1>1. SUFFICES ASSUME a # b PROVE FALSE
  OBVIOUS
<1>2. b \in Arrays /\ a # Root
  BY <1>1, LineageStep, LineageOfAncestor
<1>3. b \in Lineage[Parent[a]] /\ Parent[a] \in Arrays
  BY <1>1, <1>2, LineageStep
<1>4. Lineage[b] \subseteq Lineage[Parent[a]]
  BY <1>3, LineageOfAncestor
<1> QED
  BY <1>2, <1>4, LineageStep

\* Of two ancestors one descends from the other.
LEMMA AncestorsRelated ==
    ASSUME NEW a \in Arrays, NEW b \in Lineage[a], NEW c \in Lineage[a]
    PROVE  Related(b, c)
<1> DEFINE P == {x \in Arrays : \A y, z \in Lineage[x] : Related(y, z)}
<1>1. Root \in P
  BY LineageStep, TreeAssumption DEF Related
<1>2. ASSUME NEW x \in Views, Parent[x] \in P
      PROVE  x \in P
  BY <1>2, LineageStep DEF Related, Views
<1> HIDE DEF P
<1>3. Arrays \subseteq P
  BY <1>1, <1>2, DownTheTree
<1> QED
  BY <1>3 DEF P

\* An array lies within those it descends from.
LEMMA CellsInside ==
    ASSUME NEW a \in Arrays, NEW b \in Lineage[a]
    PROVE  /\ At[b] \in Nat /\ Size[b] \in Nat /\ At[a] \in Nat /\ Size[a] \in Nat
           /\ At[b] <= At[a] /\ At[a] + Size[a] <= At[b] + Size[b]
           /\ CellsOf(a) \subseteq CellsOf(b)
<1> DEFINE P == {x \in Arrays : \A y \in Lineage[x] : At[y] <= At[x] /\ At[x] + Size[x] <= At[y] + Size[y]}
<1>1. Root \in P
  <2>1. Root \in Arrays /\ Lineage[Root] = {Root}
    BY LineageStep, TreeAssumption
  <2>2. At[Root] \in Nat /\ Size[Root] \in Nat
    BY <2>1, TreeAssumption
  <2> QED
    BY <2>1, <2>2
<1>2. ASSUME NEW x \in Views, Parent[x] \in P
      PROVE  x \in P
  <2>1. x \in Arrays /\ Parent[x] \in Arrays /\ Lineage[x] = {x} \cup Lineage[Parent[x]]
        /\ Lineage[x] \in SUBSET Arrays
    BY LineageStep DEF Views
  <2>2. /\ At[x] \in Nat /\ Size[x] \in Nat /\ At[Parent[x]] \in Nat /\ Size[Parent[x]] \in Nat
        /\ At[Parent[x]] <= At[x] /\ At[x] + Size[x] <= At[Parent[x]] + Size[Parent[x]]
    BY <2>1, TreeAssumption DEF Views
  <2>3. ASSUME NEW y \in Lineage[x]
        PROVE  At[y] <= At[x] /\ At[x] + Size[x] <= At[y] + Size[y]
    <3>1. At[y] \in Nat /\ Size[y] \in Nat
      BY <2>1, TreeAssumption
    <3>2. y = x \/ (At[y] <= At[Parent[x]] /\ At[Parent[x]] + Size[Parent[x]] <= At[y] + Size[y])
      BY <1>2, <2>1
    <3> QED
      BY <2>2, <3>1, <3>2
  <2> QED
    BY <2>1, <2>3
<1> HIDE DEF P
<1>3. Arrays \subseteq P
  BY <1>1, <1>2, DownTheTree
<1>4. At[b] <= At[a] /\ At[a] + Size[a] <= At[b] + Size[b]
  BY <1>3 DEF P
<1>5. At[b] \in Nat /\ Size[b] \in Nat /\ At[a] \in Nat /\ Size[a] \in Nat
  BY LineageOfAncestor, TreeAssumption
<1> QED
  BY <1>4, <1>5 DEF CellsOf

\* Between an ancestor and a descendant there is a child of the one that the other descends
\* from.
LEMMA ChildBetween ==
    ASSUME NEW b \in Arrays, NEW p \in Lineage[b], p # b
    PROVE  \E q \in Views : q \in Lineage[b] /\ Parent[q] = p
<1> DEFINE P == {x \in Arrays : p \in Lineage[x] /\ p # x =>
                                    \E q \in Views : q \in Lineage[x] /\ Parent[q] = p}
<1>1. Root \in P
  BY LineageStep, TreeAssumption
<1>2. ASSUME NEW x \in Views, Parent[x] \in P
      PROVE  x \in P
  <2>1. x \in Arrays /\ Parent[x] \in Arrays /\ Lineage[x] = {x} \cup Lineage[Parent[x]]
    BY LineageStep DEF Views
  <2>2. CASE p = Parent[x]
    BY <2>1, <2>2
  <2>3. CASE p # Parent[x]
    BY <1>2, <2>1, <2>3
  <2> QED
    BY <2>2, <2>3
<1> HIDE DEF P
<1>3. Arrays \subseteq P
  BY <1>1, <1>2, DownTheTree
<1> QED
  BY <1>3 DEF P

\* A descendant is deeper.
LEMMA DeeperBelow ==
    ASSUME NEW a \in Arrays, NEW b \in Lineage[a], a # b
    PROVE  Depth(b) < Depth(a)
<1>1. b \in Arrays /\ Lineage[b] \subseteq Lineage[a] /\ a \notin Lineage[b]
  BY LineageOfAncestor, NoCycle
<1>2. IsFiniteSet(Lineage[a]) /\ a \in Lineage[a] /\ Lineage[b] # Lineage[a]
  BY <1>1, LineageStep
<1>3. Cardinality(Lineage[b]) <= Cardinality(Lineage[a])
      /\ (Cardinality(Lineage[b]) = Cardinality(Lineage[a]) => Lineage[b] = Lineage[a])
  BY <1>1, <1>2, FS_Subset
<1>4. Depth(a) \in Nat /\ Depth(b) \in Nat
  BY <1>1, DepthStep
<1> QED
  BY <1>2, <1>3, <1>4 DEF Depth

\* Of some arrays one is deepest and one is highest.
LEMMA Deepest ==
    ASSUME NEW S \in SUBSET Arrays, S # {}
    PROVE  /\ Lowest(S) \in S /\ \A e \in S : Lowest(S) \in Lineage[e] => e = Lowest(S)
           /\ Topmost(S) \in S /\ S \cap Lineage[Topmost(S)] = {Topmost(S)}
<1> DEFINE B == {Depth(a) : a \in S}
           top == Cardinality(Arrays)
<1>1. B \in SUBSET Nat /\ B # {}
  BY DepthStep
<1>2. top \in Nat /\ \A k \in B : k <= top
  BY TreeAssumption, FS_CardinalityType, FS_Subset, LineageStep DEF Depth
<1>3. \E n \in B : \A k \in B : k <= n
  <2> HIDE DEF B, top
  <2>1. Max(B) \in B /\ \A k \in B : Max(B) >= k
    BY <1>1, <1>2, MaxIs
  <2> QED
    BY <1>1, <2>1
<1>4. \E n \in B : \A k \in B : n <= k
  <2> HIDE DEF B, top
  <2> QED
    BY <1>1, LeastNatural
<1>5. \E d \in S : \A e \in S : d \in Lineage[e] => e = d
  <2>1. PICK d \in S : \A e \in S : Depth(e) <= Depth(d)
    BY <1>3
  <2> QED
    BY <2>1, DeeperBelow, DepthStep
<1>6. \E p \in S : S \cap Lineage[p] = {p}
  <2>1. PICK p \in S : \A e \in S : Depth(p) <= Depth(e)
    BY <1>4
  <2>2. \A e \in S : e \in Lineage[p] => e = p
    BY <2>1, DeeperBelow, DepthStep
  <2> QED
    BY <2>2, LineageStep
<1>7. Lowest(S) \in S /\ \A e \in S : Lowest(S) \in Lineage[e] => e = Lowest(S)
  BY <1>5 DEF Lowest
<1>8. Topmost(S) \in S /\ S \cap Lineage[Topmost(S)] = {Topmost(S)}
  BY <1>6 DEF Topmost
<1> QED
  BY <1>7, <1>8


-----------------------------------------------------------------------------
(* What the operations leave of the tree. *)

\* A node of the right fields.
Node(n) == DOMAIN n = NodeFields

\* u is t but for the head arrays, the copies and the notes.
Alike(t, u) ==
    /\ DOMAIN u = Arrays
    /\ \A a \in Arrays : /\ DOMAIN u[a] = NodeFields
                         /\ u[a].live = t[a].live /\ u[a].children = t[a].children
                         /\ ~u[a].live => u[a] = Absent

\* The live of a tree have live ancestors.
LEMMA AncestorsLive ==
    ASSUME NEW t, Shaped(t), NEW a \in Arrays, t[a].live, NEW b \in Lineage[a]
    PROVE  b \in Arrays /\ t[b].live
<1> DEFINE P == {x \in Arrays : t[x].live => \A y \in Lineage[x] : t[y].live}
<1>1. Root \in P
  BY LineageStep, TreeAssumption
<1>2. \A x \in Views : Parent[x] \in P => x \in P
  BY LineageStep DEF Views, Shaped
<1> HIDE DEF P
<1>3. Arrays \subseteq P
  BY <1>1, <1>2, DownTheTree
<1> QED
  BY <1>3, LineageOfAncestor DEF P

\* Live arrays that have a cell in common descend one from the other.
LEMMA SharedCell ==
    ASSUME NEW t, Shaped(t), NEW a \in Arrays, NEW b \in Arrays, t[a].live, t[b].live,
           NEW c \in CellsOf(a), c \in CellsOf(b)
    PROVE  Related(a, b)
<1> DEFINE P == {x \in Arrays : t[x].live /\ c \in CellsOf(x) => Related(x, b)}
<1>1. Root \in P
  BY RootAbove, TreeAssumption DEF Related
<1>2. ASSUME NEW x \in Views, Parent[x] \in P, t[x].live, c \in CellsOf(x)
      PROVE  Related(x, b)
  <2> DEFINE p == Parent[x]
  <2>1. /\ x \in Arrays /\ p \in Arrays /\ Lineage[x] = {x} \cup Lineage[p] /\ p \in Lineage[p]
        /\ p \in Lineage[x]
    BY LineageStep DEF Views
  <2>2. t[p].live /\ c \in CellsOf(p)
    BY <1>2, <2>1, AncestorsLive, CellsInside
  <2>3. Related(p, b)
    BY <1>2, <2>2
  <2>4. CASE b \in Lineage[p]
    BY <2>1, <2>4 DEF Related
  <2>5. CASE p \in Lineage[b] /\ p # b
    <3>1. PICK q \in Views : q \in Lineage[b] /\ Parent[q] = p
      BY <2>5, ChildBetween
    <3>2. q \in Arrays /\ t[q].live /\ c \in CellsOf(q)
      BY <3>1, AncestorsLive, CellsInside
    <3>3. q # x => ~Overlap(x, q)
      BY <1>2, <3>1, <3>2 DEF Shaped
    <3>4. Overlap(x, q)
      <4>1. At[x] \in Nat /\ At[q] \in Nat /\ At[p] \in Nat /\ Size[x] \in Nat /\ Size[q] \in Nat
        BY <2>1, <3>2, TreeAssumption
      <4>2. At[x] < At[q] + Size[q] /\ At[q] < At[x] + Size[x]
        BY <1>2, <3>2, <4>1 DEF CellsOf
      <4> HIDE DEF p
      <4>3. Parent[x] = p /\ Parent[q] = p /\ x # Root /\ q # Root
        BY <3>1 DEF p, Views
      <4> QED
        BY <4>1, <4>2, <4>3 DEF Overlap, OffsetOf
    <3> QED
      BY <3>1, <3>3, <3>4 DEF Related
  <2>6. CASE p = b
    BY <2>1, <2>6 DEF Related
  <2> QED
    BY <2>3, <2>4, <2>5, <2>6 DEF Related
<1>3. \A x \in Views : Parent[x] \in P => x \in P
  BY <1>2 DEF Views
<1> HIDE DEF P
<1>4. Arrays \subseteq P
  BY <1>1, <1>3, DownTheTree
<1> QED
  BY <1>4 DEF P

\* The shape of a tree is that of its live arrays and their children.
LEMMA ShapeStays ==
    ASSUME NEW t, NEW u, Shaped(t), Alike(t, u)
    PROVE  Shaped(u)
<1>1. Root \in Arrays /\ \A a \in Views : a \in Arrays /\ Parent[a] \in Arrays
  BY TreeAssumption DEF Views
<1>2. \A a \in Arrays : u[a].live = t[a].live /\ u[a].children = t[a].children
  BY DEF Alike
<1>3. DOMAIN u = Arrays /\ u[Root].live
  BY <1>1, <1>2 DEF Alike, Shaped
<1>4. ASSUME NEW a \in Arrays
      PROVE  /\ DOMAIN u[a] = NodeFields /\ u[a].live \in BOOLEAN
             /\ ~u[a].live => u[a] = Absent
             /\ u[a].children \in Seq(Arrays)
             /\ \A i, j \in DOMAIN u[a].children : u[a].children[i] = u[a].children[j] => i = j
  BY <1>2 DEF Alike, Shaped
<1>5. \A a \in Views : u[a].live => u[Parent[a]].live
  BY <1>1, <1>2 DEF Shaped
<1>6. \A a \in Arrays : Children(u, a) = {c \in Views : u[c].live /\ Parent[c] = a}
  <2>1. \A a \in Arrays : Children(u, a) = Children(t, a)
    BY <1>2 DEF Children
  <2>2. \A c \in Views : u[c].live = t[c].live
    BY <1>1, <1>2
  <2> QED
    BY <2>1, <2>2 DEF Shaped
<1>7. \A a, b \in Views : u[a].live /\ u[b].live /\ a # b /\ Parent[a] = Parent[b] => ~Overlap(a, b)
  BY <1>1, <1>2 DEF Shaped
<1> QED
  BY <1>3, <1>4, <1>5, <1>6, <1>7 DEF Shaped

\* Two such changes are one.
LEMMA AlikeTwice ==
    ASSUME NEW t, NEW u, NEW v, Alike(t, u), Alike(u, v)
    PROVE  Alike(t, v)
BY DEF Alike

\* A change of some nodes.
LEMMA EachIs ==
    ASSUME NEW t, DOMAIN t = Arrays
    PROVE  /\ \A a : /\ DOMAIN KeepHeads(t, a) = Arrays /\ DOMAIN DropArrays(t, a) = Arrays
                     /\ \A d \in Arrays :
                           /\ KeepHeads(t, a)[d] = IF d \in Reached(t, a) THEN OnlyHead(t[d]) ELSE t[d]
                           /\ DropArrays(t, a)[d] = IF d \in Reached(t, a) THEN NoArray(t[d]) ELSE t[d]
           /\ \A S : /\ DOMAIN ClearFlags(t, S) = Arrays /\ DOMAIN OnlyHeads(t, S) = Arrays
                     /\ \A d \in Arrays :
                           /\ ClearFlags(t, S)[d] = IF d \in S THEN NoNote(t[d]) ELSE t[d]
                           /\ OnlyHeads(t, S)[d] = IF d \in S THEN OnlyHead(t[d]) ELSE t[d]
           /\ \A S, flag : /\ DOMAIN Flagged(t, S, flag) = Arrays
                           /\ \A d \in Arrays : Flagged(t, S, flag)[d] =
                                 IF d \in S THEN [t[d] EXCEPT !.zeroing = flag] ELSE t[d]
BY DEF KeepHeads, DropArrays, ClearFlags, OnlyHeads, Flagged, Each

\* What becomes of a node.
LEMMA NodeIs ==
    ASSUME NEW n, Node(n)
    PROVE  /\ Node(OnlyHead(n)) /\ Node(NoArray(n)) /\ Node(NoNote(n))
           /\ OnlyHead(n).live = n.live /\ OnlyHead(n).children = n.children
           /\ OnlyHead(n).head = n.head /\ OnlyHead(n).lazy = n.lazy
           /\ OnlyHead(n).arrays = Only(n.head, n.arrays[n.head])
           /\ OnlyHead(n).zeroing = n.zeroing
           /\ NoArray(n).live = n.live /\ NoArray(n).children = n.children
           /\ NoArray(n).head = n.head /\ NoArray(n).lazy = Nothing
           /\ NoArray(n).arrays = NoArrays /\ NoArray(n).zeroing = n.zeroing
           /\ NoNote(n).live = n.live /\ NoNote(n).children = n.children
           /\ NoNote(n).head = n.head /\ NoNote(n).lazy = Nothing
           /\ NoNote(n).arrays = n.arrays /\ NoNote(n).zeroing = n.zeroing
BY DEF Node, NodeFields, OnlyHead, NoArray, NoNote


-----------------------------------------------------------------------------
(* Which views are reached, and the head arrays they get. *)

\* An array's descendants.
LEMMA DescendantsIs ==
    ASSUME NEW t, Shaped(t), NEW a \in Arrays
    PROVE  /\ Descendants(t, a) = {d \in Views : d # a /\ a \in Lineage[d] /\ t[d].live}
           /\ \A d \in Descendants(t, a) : d \notin Lineage[a]
           /\ a = Root => Descendants(t, a) = {d \in Views : t[d].live}
<1>1. \A d \in Descendants(t, a) : d # Root
  BY RootAbove, LineageStep, TreeAssumption DEF Descendants
<1>2. Descendants(t, a) = {d \in Views : d # a /\ a \in Lineage[d] /\ t[d].live}
  BY <1>1 DEF Descendants, Live, Views
<1>3. \A d \in Descendants(t, a) : d \notin Lineage[a]
  BY <1>2, NoCycle DEF Views
<1>4. a = Root => Descendants(t, a) = {d \in Views : t[d].live}
  BY <1>2, RootAbove DEF Views
<1> QED
  BY <1>2, <1>3, <1>4

\* A live view stands among the children of its parent, who are all live.
LEMMA EldersLive ==
    ASSUME NEW t, Shaped(t), NEW d \in Views, t[d].live
    PROVE  LET s == t[Parent[d]].children
           IN  /\ d \in {s[i] : i \in 1 .. PlaceOf(s, d)}
               /\ \A b \in {s[i] : i \in 1 .. PlaceOf(s, d)} : b \in Views /\ t[b].live
<1> DEFINE p == Parent[d]
           s == t[p].children
           j == PlaceOf(s, d)
<1>1. p \in Arrays
  BY LineageStep DEF Views
<1>2. ToSet(s) = {c \in Views : t[c].live /\ Parent[c] = p} /\ s \in Seq(Arrays)
  BY <1>1 DEF Shaped, Children
<1>3. d \in ToSet(s)
  BY <1>2
<1>4. j \in DOMAIN s /\ s[j] = d
  BY <1>3 DEF PlaceOf, ToSet
<1>5. j \in 1 .. Len(s) /\ DOMAIN s = 1 .. Len(s) /\ Len(s) \in Nat
  BY <1>2, <1>4
<1>6. \A i \in 1 .. j : i \in DOMAIN s
  BY <1>5
<1>7. \A i \in 1 .. j : s[i] \in ToSet(s)
  BY <1>6 DEF ToSet
<1>8. j \in 1 .. j
  BY <1>5
<1> HIDE DEF j
<1> QED
  BY <1>2, <1>4, <1>7, <1>8 DEF j

\* clear_all_array_descendants goes through all of them when all have their head arrays.
LEMMA ReachedAll ==
    ASSUME NEW t, Shaped(t), NEW a \in Arrays, \A d \in Views : t[d].live => HasHead(t, d)
    PROVE  Reached(t, a) = Descendants(t, a)
<1>1. ASSUME NEW d \in Descendants(t, a), NEW e \in Lineage[d] \ Lineage[a],
             NEW b \in LET s == t[Parent[e]].children IN {s[i] : i \in 1 .. PlaceOf(s, e)}
      PROVE  HasHead(t, b)
  <2>1. d \in Arrays /\ t[d].live /\ Root \in Lineage[a]
    BY DescendantsIs, RootAbove DEF Views
  <2>2. e \in Views /\ t[e].live
    BY <2>1, AncestorsLive DEF Views
  <2>3. b \in Views /\ t[b].live
    BY <2>2, EldersLive
  <2> QED
    BY <2>3
<1> QED
  BY <1>1 DEF Reached

\* Through none when none has.
LEMMA ReachedNone ==
    ASSUME NEW t, Shaped(t), NEW a \in Arrays, \A d \in Views : t[d].live => ~HasHead(t, d)
    PROVE  Reached(t, a) = {}
<1>1. ASSUME NEW d \in Descendants(t, a)
      PROVE  \E e \in Lineage[d] \ Lineage[a] :
                \E b \in LET s == t[Parent[e]].children IN {s[i] : i \in 1 .. PlaceOf(s, e)} :
                    ~HasHead(t, b)
  <2>1. d \in Views /\ d \in Arrays /\ t[d].live /\ d \in Lineage[d] \ Lineage[a]
    BY DescendantsIs, LineageStep DEF Views
  <2> QED
    BY <2>1, EldersLive
<1>2. Reached(t, a) \subseteq Descendants(t, a)
  BY DEF Reached
<1>3. \A d \in Descendants(t, a) : d \notin Reached(t, a)
  BY <1>1 DEF Reached
<1> QED
  BY <1>2, <1>3

\* One or the other.
LEMMA ReachedIs ==
    ASSUME NEW t, Shaped(t), Uniform(t), NEW a \in Arrays
    PROVE  Reached(t, a) = IF HasHead(t, Root) THEN Descendants(t, a) ELSE {}
<1>1. \A d \in Views : t[d].live => (HasHead(t, d) <=> HasHead(t, Root))
  BY DEF Uniform, Views
<1> QED
  BY <1>1, ReachedAll, ReachedNone

\* The node of a view made from its parent's.
LEMMA FromParentIs ==
    ASSUME NEW p, NEW n, Node(n), NEW c
    PROVE  /\ Node(FromParent(p, n, c))
           /\ FromParent(p, n, c).live = n.live /\ FromParent(p, n, c).children = n.children
           /\ FromParent(p, n, c).lazy = n.lazy /\ FromParent(p, n, c).zeroing = n.zeroing
           /\ FromParent(p, n, c).head = Append(p.head, c)
           /\ FromParent(p, n, c).arrays =
                 With(n.arrays, Append(p.head, c), ArrayIn(p.arrays[p.head].buf, BaseOf(c)))
BY DEF Node, NodeFields, FromParent

\* The recursion of create_array_descendants comes to an end.
LEMMA NodesExist ==
    ASSUME NEW t, NEW bare \in SUBSET Views, \A d \in bare : Parent[d] = Root \/ Parent[d] \in bare
    PROVE  \E f : f = [d \in bare |->
                        FromParent(IF Parent[d] = Root THEN t[Root] ELSE f[Parent[d]], t[d], d)]
<1> DEFINE From(f, d) == FromParent(IF Parent[d] = Root THEN t[Root] ELSE f[Parent[d]], t[d], d)
           Upto(f, n) == DOMAIN f = bare /\ \A d \in bare : Depth(d) <= n => f[d] = From(f, d)
           G == {n \in Nat : \E f : Upto(f, n)}
<1>1. \A d \in bare : d \in Arrays /\ Depth(d) \in Nat /\ Parent[d] \in Arrays
                      /\ Depth(Parent[d]) \in Nat /\ Depth(d) = Depth(Parent[d]) + 1
  BY DepthStep, LineageStep DEF Views
<1>2. \A f, g, d : (Parent[d] # Root => f[Parent[d]] = g[Parent[d]]) => From(f, d) = From(g, d)
  OBVIOUS
<1> HIDE DEF From
<1>3. 0 \in G
  <2>1. \A d \in bare : ~(Depth(d) <= 0)
    <3>1. ASSUME NEW d \in bare
          PROVE  Depth(d) > 0
      BY <1>1
    <3> QED
      BY <1>1, <3>1
  <2>2. DOMAIN [d \in bare |-> 0] = bare
    OBVIOUS
  <2> QED
    BY <2>1, <2>2
<1>4. ASSUME NEW n \in G, n \in Nat
      PROVE  n + 1 \in G
  <2>1. PICK f : Upto(f, n)
    BY <1>4
  <2> DEFINE g == [d \in bare |-> From(f, d)]
  <2>2. ASSUME NEW d \in bare, Depth(d) <= n + 1
        PROVE  g[d] = From(g, d)
    <3>1. Parent[d] # Root => f[Parent[d]] = g[Parent[d]]
      <4>1. ASSUME Parent[d] # Root
            PROVE  f[Parent[d]] = g[Parent[d]]
        <5>1. Parent[d] \in bare /\ Depth(Parent[d]) <= n
          BY <1>1, <1>4, <2>2, <4>1
        <5> QED
          BY <2>1, <5>1
      <4> QED
        BY <4>1
    <3>2. From(f, d) = From(g, d)
      BY <1>2, <3>1
    <3> QED
      BY <3>2
  <2>3. DOMAIN g = bare
    OBVIOUS
  <2> HIDE DEF g
  <2>4. Upto(g, n + 1)
    BY <2>2, <2>3
  <2> HIDE DEF Upto
  <2> QED
    BY <1>4, <2>4
<1>5. Nat \subseteq G
  <2> HIDE DEF G
  <2> QED
    BY <1>3, <1>4, SetByNumbers
<1> DEFINE top == Cardinality(Arrays)
<1>6. top \in Nat /\ \A d \in bare : Depth(d) <= top
  BY <1>1, TreeAssumption, FS_CardinalityType, FS_Subset, LineageStep DEF Depth
<1>7. PICK f : Upto(f, top)
  BY <1>5, <1>6
<1>8. DOMAIN f = bare /\ \A d \in bare : f[d] = From(f, d)
  BY <1>6, <1>7
<1> DEFINE g == [d \in bare |-> f[d]]
<1>9. \A d \in bare : g[d] = From(g, d)
  <2>1. \A d \in bare : Parent[d] # Root => f[Parent[d]] = g[Parent[d]]
    OBVIOUS
  <2>2. \A d \in bare : From(f, d) = From(g, d)
    BY <1>2, <2>1
  <2> QED
    BY <1>8, <2>2
<1>10. g = [d \in bare |-> From(g, d)]
  <2>1. g = [d \in bare |-> g[d]]
    OBVIOUS
  <2> HIDE DEF g
  <2> QED
    BY <1>9, <2>1
<1> QED
  BY <1>10 DEF From


\* Where a view's array lies, according to the code.
LEMMA BaseIs ==
    ASSUME NEW a \in Views
    PROVE  BaseOf(a) = Base(a)
BY DEF Base, Views

\* That is in its place, if the parent is the root, or the parent's parent begins where the
\* root does: the two offsets that are added are all there are.
LEMMA BasePlaced ==
    ASSUME NEW a \in Arrays, WellPlaced(a)
    PROVE  Base(a) = At[a]
<1>1. CASE a = Root
  BY <1>1, TreeAssumption DEF Base
<1>2. CASE a # Root
  <2>1. Parent[a] \in Arrays /\ At[a] \in Nat /\ At[Parent[a]] \in Nat
    BY <1>2, LineageStep, TreeAssumption
  <2>2. Base(a) = (At[a] - At[Parent[a]]) + OffsetOf(Parent[a])
    BY <1>2 DEF Base, BaseOf, OffsetOf
  <2>3. CASE Parent[a] = Root
    BY <2>1, <2>2, <2>3, TreeAssumption DEF OffsetOf
  <2>4. CASE Parent[a] # Root
    <3>1. At[Parent[Parent[a]]] = 0
      BY <1>2, <2>4 DEF WellPlaced
    <3>2. OffsetOf(Parent[a]) = At[Parent[a]] - 0
      BY <2>4, <3>1 DEF OffsetOf
    <3> QED
      BY <2>1, <2>2, <3>2
  <2> QED
    BY <2>3, <2>4
<1> QED
  BY <1>1, <1>2

\* A view's new head array, when h is the key of the head array of its parent.
Ranged(t, n, h, d) ==
    /\ n.head = Append(h, d)
    /\ n.arrays = Only(n.head, ArrayIn(HeadArray(t, Root).buf, Base(d)))

\* What a view has of its own, beside its arrays, stays.
Kept(n, m) ==
    /\ Node(m) /\ m.live = n.live /\ m.children = n.children
    /\ m.lazy = n.lazy /\ m.zeroing = n.zeroing

\* create_array_descendants of the root, whose views have no array.
LEMMA CreatedIs ==
    ASSUME NEW t, Shaped(t), \A a \in Arrays : Stored(t[a]), HasHead(t, Root),
           \A d \in Views : t[d].live => ~HasHead(t, d)
    PROVE  LET u == CreateDescendants(t, Root)
           IN  /\ DOMAIN u = Arrays
               /\ u[Root] = t[Root]
               /\ \A d \in Views : IF t[d].live THEN Kept(t[d], u[d]) /\ Ranged(t, u[d], u[Parent[d]].head, d)
                                                ELSE u[d] = t[d]
<1> DEFINE bare == {d \in Descendants(t, Root) :
                        \A e \in Lineage[d] \ Lineage[Root] : ~HasHead(t, e)}
           E(f) == [d \in bare |->
                        FromParent(IF Parent[d] = Root THEN t[Root] ELSE f[Parent[d]], t[d], d)]
           node == CHOOSE f : f = E(f)
           u == CreateDescendants(t, Root)
<1>1. bare = {d \in Views : t[d].live}
  <2>1. ASSUME NEW d \in Descendants(t, Root), NEW e \in Lineage[d] \ Lineage[Root]
        PROVE  ~HasHead(t, e)
    <3>1. d \in Arrays /\ t[d].live /\ Lineage[Root] = {Root}
      BY DescendantsIs, LineageStep, TreeAssumption DEF Views
    <3>2. e \in Views /\ t[e].live
      BY <3>1, AncestorsLive DEF Views
    <3> QED
      BY <3>2
  <2> QED
    BY <2>1, DescendantsIs, TreeAssumption
<1>2. \A d \in bare : Parent[d] = Root \/ Parent[d] \in bare
  BY <1>1, LineageStep DEF Views, Shaped
<1>3. node = E(node)
  <2>1. bare \in SUBSET Views
    BY <1>1
  <2> HIDE DEF bare
  <2>2. \E f : f = E(f)
    BY <1>2, <2>1, NodesExist
  <2> HIDE DEF E
  <2> QED
    BY <2>2
<1>4. u = [d \in Arrays |-> IF d \in bare THEN node[d] ELSE t[d]]
  BY DEF CreateDescendants
<1> HIDE DEF node, bare, u
<1>5. DOMAIN node = bare
      /\ \A d \in bare : node[d] =
            FromParent(IF Parent[d] = Root THEN t[Root] ELSE node[Parent[d]], t[d], d)
  BY <1>3
<1>6. DOMAIN u = Arrays /\ (\A d \in bare : u[d] = node[d]) /\ \A d \in Arrays \ bare : u[d] = t[d]
  BY <1>1, <1>4 DEF Views
<1>7. u[Root] = t[Root] /\ Root \in Arrays
  BY <1>1, <1>6, TreeAssumption DEF Views
<1>8. \A d \in bare : u[d] = FromParent(u[Parent[d]], t[d], d)
  <2>1. ASSUME NEW d \in bare
        PROVE  u[d] = FromParent(u[Parent[d]], t[d], d)
    <3>1. CASE Parent[d] = Root
      BY <1>5, <1>6, <1>7, <3>1
    <3>2. CASE Parent[d] # Root
      BY <1>2, <1>5, <1>6, <3>2
    <3> QED
      BY <3>1, <3>2
  <2> QED
    BY <2>1
<1>9. ASSUME NEW d \in bare
      PROVE  Kept(t[d], u[d]) /\ u[d].head = Append(u[Parent[d]].head, d)
             /\ u[d].arrays = Only(u[d].head, ArrayIn(u[Parent[d]].arrays[u[Parent[d]].head].buf, Base(d)))
  <2>1. d \in Views /\ d \in Arrays /\ Node(t[d]) /\ ~HasHead(t, d)
    BY <1>1 DEF Views, Shaped, Node
  <2>2. DOMAIN t[d].arrays = {}
    BY <2>1 DEF Stored, HasHead
  <2>3. BaseOf(d) = Base(d)
    BY <2>1, BaseIs
  <2> DEFINE p == u[Parent[d]]
             n == t[d]
             v == FromParent(p, n, d)
             base == BaseOf(d)
  <2>4. /\ Node(v) /\ v.live = n.live /\ v.children = n.children
        /\ v.lazy = n.lazy /\ v.zeroing = n.zeroing
        /\ v.head = Append(p.head, d)
        /\ v.arrays = With(n.arrays, Append(p.head, d), ArrayIn(p.arrays[p.head].buf, BaseOf(d)))
    <3>1. Node(n)
      BY <2>1
    <3> HIDE DEF p, n
    <3> QED
      BY <3>1, FromParentIs
  <2>5. u[d] = v
    BY <1>8
  <2>6. \A k, y : With(n.arrays, k, y) = Only(k, y)
    BY <2>2 DEF With, Only
  <2>7. v.arrays = Only(v.head, ArrayIn(p.arrays[p.head].buf, Base(d)))
    <3> HIDE DEF p, n, v
    <3> QED
      BY <2>3, <2>4, <2>6
  <2>8. Kept(n, v)
    <3> HIDE DEF p, n, v
    <3> QED
      BY <2>4 DEF Kept
  <2> HIDE DEF v
  <2> QED
    BY <2>4, <2>5, <2>7, <2>8
<1> DEFINE P == {d \in Arrays : d \in bare => HeadArray(u, d).buf = HeadArray(t, Root).buf}
<1>10. Arrays \subseteq P
  <2>1. Root \in P
    BY <1>1, <1>7 DEF Views
  <2>2. ASSUME NEW d \in Views, Parent[d] \in P, d \in bare
        PROVE  HeadArray(u, d).buf = HeadArray(t, Root).buf
    <3>1. HeadArray(u, d).buf = u[Parent[d]].arrays[u[Parent[d]].head].buf
      <4> DEFINE x == u[Parent[d]].arrays[u[Parent[d]].head].buf
      <4>1. u[d].arrays = Only(u[d].head, ArrayIn(x, Base(d)))
        BY <1>9, <2>2
      <4> HIDE DEF x
      <4>2. u[d].arrays[u[d].head].buf = x
        BY <4>1 DEF Only, ArrayIn
      <4> QED
        BY <4>2 DEF HeadArray, x
    <3>2. Parent[d] = Root \/ Parent[d] \in bare
      BY <1>2, <2>2
    <3>3. HeadArray(u, Parent[d]).buf = HeadArray(t, Root).buf
      BY <1>7, <2>2, <3>2 DEF HeadArray
    <3> QED
      BY <3>1, <3>3 DEF HeadArray
  <2>3. \A d \in Views : Parent[d] \in P => d \in P
    BY <2>2 DEF Views
  <2> HIDE DEF P
  <2> QED
    BY <2>1, <2>3, DownTheTree
<1>11. ASSUME NEW d \in bare
       PROVE  u[Parent[d]].arrays[u[Parent[d]].head].buf = HeadArray(t, Root).buf
  <2>1. Parent[d] = Root \/ (Parent[d] \in bare /\ Parent[d] \in Arrays)
    BY <1>1, <1>2 DEF Views
  <2> QED
    BY <1>7, <1>10, <2>1 DEF HeadArray
<1>12. \A d \in Views : IF t[d].live THEN Kept(t[d], u[d]) /\ Ranged(t, u[d], u[Parent[d]].head, d)
                                     ELSE u[d] = t[d]
  BY <1>1, <1>6, <1>9, <1>11 DEF Ranged, Views
<1> QED
  BY <1>6, <1>7, <1>12 DEF u

\* It leaves alone views that have their arrays.
LEMMA CreatedNone ==
    ASSUME NEW t, Shaped(t), Uniform(t), HasHead(t, Root)
    PROVE  LET u == CreateDescendants(t, Root)
           IN  DOMAIN u = Arrays /\ \A d \in Arrays : u[d] = t[d]
<1> DEFINE bare == {d \in Descendants(t, Root) :
                        \A e \in Lineage[d] \ Lineage[Root] : ~HasHead(t, e)}
<1>1. bare = {}
  <2>1. ASSUME NEW d \in Descendants(t, Root)
        PROVE  d \in Lineage[d] \ Lineage[Root] /\ HasHead(t, d)
    BY DescendantsIs, LineageStep, TreeAssumption DEF Uniform, Views
  <2> QED
    BY <2>1
<1> QED
  BY <1>1 DEF CreateDescendants


-----------------------------------------------------------------------------
(* Keys and head arrays. *)

TreeInv(t) == Shaped(t) /\ Headed(t)

\* The key of a view's head array is longer than that of a copy.
LEMMA PathIs ==
    ASSUME NEW t, TreeInv(t), HasHead(t, Root), NEW a \in Arrays, t[a].live
    PROVE  /\ t[a].head \in Seq(Keys \cup Arrays) /\ Len(t[a].head) >= 1
           /\ t[a].head[1] = t[Root].head[1]
           /\ a # Root => Len(t[a].head) >= 2
<1> DEFINE P == {x \in Arrays : t[x].live =>
                    /\ t[x].head \in Seq(Keys \cup Arrays) /\ Len(t[x].head) >= 1
                    /\ t[x].head[1] = t[Root].head[1]
                    /\ x # Root => Len(t[x].head) >= 2}
<1>1. Root \in P
  <2>1. PICK k \in Keys : t[Root].head = <<k>>
    BY DEF TreeInv, Headed, RootHead, Plain
  <2>2. <<k>> \in Seq(Keys \cup Arrays) /\ Len(<<k>>) = 1
    OBVIOUS
  <2>3. t[Root].head \in Seq(Keys \cup Arrays) /\ Len(t[Root].head) >= 1
    BY <2>1, <2>2
  <2> QED
    BY <2>3, TreeAssumption
<1>2. ASSUME NEW x \in Views, Parent[x] \in P, t[x].live
      PROVE  /\ t[x].head \in Seq(Keys \cup Arrays) /\ Len(t[x].head) >= 2
             /\ t[x].head[1] = t[Root].head[1]
  <2> DEFINE h == t[Parent[x]].head
  <2>1. x \in Arrays /\ t[Parent[x]].live
    BY <1>2 DEF TreeInv, Shaped, Views
  <2>2. h \in Seq(Keys \cup Arrays) /\ Len(h) >= 1 /\ h[1] = t[Root].head[1]
    BY <1>2, <2>1
  <2>3. t[x].head = Append(h, x)
    BY <1>2 DEF TreeInv, Headed, InPlace
  <2> HIDE DEF h
  <2>4. /\ Append(h, x) \in Seq(Keys \cup Arrays) /\ Len(Append(h, x)) = Len(h) + 1
        /\ Append(h, x)[1] = h[1] /\ Len(h) \in Nat
    BY <2>1, <2>2
  <2> QED
    BY <2>2, <2>3, <2>4
<1>3. \A x \in Views : Parent[x] \in P => x \in P
  BY <1>2 DEF Views
<1> HIDE DEF P
<1>4. Arrays \subseteq P
  BY <1>1, <1>3, DownTheTree
<1> QED
  BY <1>4 DEF P

\* The array that is asked for is the head array, or a copy.
LEMMA KeyIs ==
    ASSUME NEW t, TreeInv(t), HasHead(t, Root), NEW a \in Arrays, t[a].live, NEW k \in Keys
    PROVE  IF t[Root].head = <<k>> THEN KeyOf(t, a, k) = t[a].head
                                   ELSE KeyOf(t, a, k) = <<k>> /\ t[a].head # <<k>>
<1>1. CASE a = Root
  BY <1>1 DEF KeyOf
<1>2. CASE a # Root
  <2>1. a \in Views /\ t[a].head = Append(t[Parent[a]].head, a)
    BY <1>2 DEF TreeInv, Headed, InPlace, Views
  <2>2. Len(t[a].head) >= 2 /\ Len(<<k>>) = 1
    BY <1>2, PathIs
  <2>3. ASSUME t[a].head = <<k>>
        PROVE  FALSE
    <3>1. Len(t[a].head) = Len(<<k>>)
      BY ONLY <2>3
    <3> QED
      BY <2>2, <3>1
  <2> QED
    BY <1>2, <2>1, <2>3 DEF KeyOf
<1> QED
  BY <1>1, <1>2

\* A live array that has a head array has it among its arrays.
LEMMA HeadIs ==
    ASSUME NEW t, TreeInv(t), NEW a \in Arrays, t[a].live
    PROVE  /\ HasHead(t, a) <=> DOMAIN t[a].arrays # {}
           /\ HasHead(t, Root) => HasHead(t, a) /\ t[a].head \in DOMAIN t[a].arrays
           /\ ~HasHead(t, Root) => DOMAIN t[a].arrays = {}
BY DEF TreeInv, Headed, Stored, HasHead, Uniform

\* What is not live has no arrays.
LEMMA DeadIs ==
    ASSUME NEW t, Shaped(t), NEW a \in Arrays, ~t[a].live
    PROVE  DOMAIN t[a].arrays = {} /\ ~Pending(t, a) /\ ~t[a].zeroing
<1>1. t[a] = Absent
  BY DEF Shaped
<1>2. Absent.arrays = NoArrays /\ Absent.lazy = Nothing /\ Absent.zeroing = FALSE
  BY DEF Absent
<1> QED
  BY <1>1, <1>2 DEF NoArrays, Pending

\* u has the arrays of t: what differs are notes and flags.
SameArrays(t, u) ==
    /\ DOMAIN u = Arrays
    /\ \A a \in Arrays : /\ Node(u[a]) /\ u[a].live = t[a].live /\ u[a].children = t[a].children
                         /\ u[a].head = t[a].head /\ u[a].arrays = t[a].arrays
                         /\ ~u[a].live => u[a] = Absent

\* Notes and flags have no part in the shape of the tree.
LEMMA SameTree ==
    ASSUME NEW t, NEW u, TreeInv(t), SameArrays(t, u)
    PROVE  /\ TreeInv(u)
           /\ \A a \in Arrays : /\ HasHead(u, a) <=> HasHead(t, a)
                                /\ HeadArray(u, a) = HeadArray(t, a)
<1>1. Alike(t, u)
  BY DEF SameArrays, Alike, Node
<1>2. Shaped(u)
  BY <1>1, ShapeStays DEF TreeInv
<1>3. \A a \in Arrays : /\ u[a].head = t[a].head /\ u[a].arrays = t[a].arrays /\ u[a].live = t[a].live
  BY DEF SameArrays
<1>4. \A a \in Arrays : /\ HasHead(u, a) <=> HasHead(t, a)
                        /\ HeadArray(u, a) = HeadArray(t, a)
  BY <1>3 DEF HasHead, HeadArray
<1>5. \A a \in Arrays : Stored(u[a])
  BY <1>3 DEF TreeInv, Headed, Stored
<1>6. Uniform(u)
  BY <1>3, <1>4, TreeAssumption DEF Uniform, TreeInv, Headed
<1>7. \A a \in Views : a \in Arrays /\ Parent[a] \in Arrays
  BY LineageStep DEF Views
<1>8. ASSUME HasHead(u, Root)
      PROVE  /\ RootHead(u)
             /\ \A a \in Views : u[a].live => InPlace(u, a)
  <2>1. Root \in Arrays /\ HasHead(t, Root)
    BY <1>4, <1>8, TreeAssumption
  <2>2. RootHead(u)
    BY <1>3, <1>4, <2>1 DEF TreeInv, Headed, RootHead
  <2>3. ASSUME NEW a \in Views, u[a].live
        PROVE  InPlace(u, a)
    <3>1. InPlace(t, a)
      BY <1>3, <1>7, <2>1, <2>3 DEF TreeInv, Headed
    <3> QED
      BY <1>3, <1>4, <1>7, <2>1, <3>1 DEF InPlace
  <2> QED
    BY <2>2, <2>3
<1> QED
  BY <1>2, <1>4, <1>5, <1>6, <1>8 DEF TreeInv, Headed


-----------------------------------------------------------------------------
(* A missing array is created. *)

\* A node with one more array.
LEMMA WithArrayIs ==
    ASSUME NEW n, Node(n), NEW key, NEW buf
    PROVE  /\ Kept(n, WithArray(n, key, buf))
           /\ WithArray(n, key, buf).head = IF DOMAIN n.arrays = {} THEN key ELSE n.head
           /\ WithArray(n, key, buf).arrays = With(n.arrays, key, OwnArray(buf))
BY DEF Node, NodeFields, WithArray, Kept

\* An array in one of its own.
LEMMA OwnIs ==
    ASSUME NEW b
    PROVE  /\ DOMAIN OwnArray(b) = ArrayFields /\ OwnArray(b).buf = b /\ OwnArray(b).base = 0
           /\ OwnArray(b).atHead = FALSE
BY DEF ArrayIn, OwnArray, ArrayFields

\* A function with one more argument, and with one alone.
LEMMA WithIs ==
    ASSUME NEW f, NEW x, NEW y
    PROVE  /\ \A z : z \in DOMAIN With(f, x, y) <=> z = x \/ z \in DOMAIN f
           /\ With(f, x, y)[x] = y
           /\ \A z \in DOMAIN f : z # x => With(f, x, y)[z] = f[z]
BY DEF With

\* A function of one argument.
LEMMA OnlyIs ==
    ASSUME NEW x, NEW y
    PROVE  DOMAIN Only(x, y) = {x} /\ Only(x, y)[x] = y
BY DEF Only

\* The arrays a node may have.
LEMMA StoredOnly ==
    ASSUME NEW n, NEW array, n.head # NoHead, DOMAIN array = ArrayFields, n.arrays = Only(n.head, array)
    PROVE  Stored(n)
<1>1. DOMAIN n.arrays = {n.head} /\ n.arrays[n.head] = array
  BY OnlyIs
<1>2. IsFiniteSet({n.head})
  BY FS_Singleton
<1> QED
  BY <1>1, <1>2 DEF Stored

\* A key is not the lack of one.
LEMMA PlainIs ==
    ASSUME NEW key, Plain(key)
    PROVE  key # NoHead
BY DEF Plain, NoHead

\* Another copy.
LEMMA StoredWith ==
    ASSUME NEW n, NEW m, NEW key, Plain(key), NEW b, Stored(n), DOMAIN n.arrays # {},
           key \notin DOMAIN n.arrays, m.head = n.head, m.arrays = With(n.arrays, key, OwnArray(b))
    PROVE  Stored(m)
<1> DEFINE f == n.arrays
           g == m.arrays
<1>1. DOMAIN g = DOMAIN f \cup {key} /\ g[key] = OwnArray(b) /\ \A z \in DOMAIN f : g[z] = f[z]
  <2>1. g = With(f, key, OwnArray(b)) /\ key \notin DOMAIN f
    OBVIOUS
  <2> HIDE DEF f, g
  <2>2. (\A z : z \in DOMAIN g <=> z = key \/ z \in DOMAIN f) /\ g[key] = OwnArray(b)
        /\ \A z \in DOMAIN f : z # key => g[z] = f[z]
    BY <2>1, WithIs
  <2> QED
    BY <2>1, <2>2
<1>2. DOMAIN OwnArray(b) = ArrayFields /\ OwnArray(b).base = 0
  BY OwnIs
<1>3. IsFiniteSet(DOMAIN g)
  BY <1>1, FS_AddElement DEF Stored
<1>4. n.head \in DOMAIN f /\ n.head # NoHead
  BY DEF Stored
<1>5. \A z \in DOMAIN g : DOMAIN g[z] = ArrayFields
  BY <1>1, <1>2 DEF Stored
<1>6. \A z \in DOMAIN g : z = m.head \/ Plain(z)
  BY <1>1 DEF Stored
<1>7. \A z \in DOMAIN g : z # m.head => g[z].base = 0
  BY <1>1, <1>2 DEF Stored
<1> QED
  BY <1>1, <1>3, <1>4, <1>5, <1>6, <1>7 DEF Stored

\* u is t after an array of a was created, in a new buffer.
Grown(t, u, a, key, buf) ==
    /\ DOMAIN u = Arrays
    /\ \A d \in Arrays : Kept(t[d], u[d])
    /\ HasHead(t, Root) =>
          \A d \in Arrays : /\ u[d].head = t[d].head
                            /\ u[d].arrays = IF d = a THEN With(t[a].arrays, key, OwnArray(buf))
                                                      ELSE t[d].arrays
    /\ ~HasHead(t, Root) =>
          /\ u[Root].head = key
          /\ \A d \in Arrays : IF t[d].live THEN u[d].arrays = Only(u[d].head, ArrayIn(buf, Base(d)))
                                            ELSE u[d].arrays = t[d].arrays

\* A copy beside the head array.
LEMMA AllocatedCopy ==
    ASSUME NEW t, TreeInv(t), HasHead(t, Root), NEW a \in Arrays, t[a].live, NEW key, Plain(key),
           key \notin DOMAIN t[a].arrays, NEW buf
    PROVE  LET u == WithViews([t EXCEPT ![a] = WithArray(@, key, buf)], a)
           IN  TreeInv(u) /\ HasHead(u, Root) /\ Grown(t, u, a, key, buf)
               /\ \A d \in Arrays : HeadArray(u, d) = HeadArray(t, d)
                                    \/ ~t[d].live
<1> DEFINE n == WithArray(t[a], key, buf)
           w == [t EXCEPT ![a] = n]
           u == WithViews(w, a)
<1>1. Node(t[a]) /\ DOMAIN t = Arrays
  BY DEF TreeInv, Shaped, Node
<1>2. DOMAIN t[a].arrays # {} /\ t[a].head \in DOMAIN t[a].arrays
  BY HeadIs
<1>3. Kept(t[a], n) /\ n.head = t[a].head /\ n.arrays = With(t[a].arrays, key, OwnArray(buf))
  <2> DEFINE m == t[a]
  <2>1. Node(m) /\ DOMAIN m.arrays # {}
    BY <1>1, <1>2
  <2> HIDE DEF m
  <2>2. Kept(m, WithArray(m, key, buf))
        /\ WithArray(m, key, buf).head = m.head
        /\ WithArray(m, key, buf).arrays = With(m.arrays, key, OwnArray(buf))
    BY <2>1, WithArrayIs
  <2> QED
    BY <2>2 DEF m
<1> HIDE DEF n
<1>4. DOMAIN w = Arrays /\ w[a] = n /\ \A d \in Arrays : d # a => w[d] = t[d]
  BY <1>1
<1> HIDE DEF w
<1>5. \A d \in Arrays : Kept(t[d], w[d]) /\ w[d].head = t[d].head
  <2>1. \A d \in Arrays : Kept(t[d], t[d])
    BY DEF TreeInv, Shaped, Kept, Node
  <2> QED
    BY <1>3, <1>4, <2>1
<1>6. Shaped(w)
  <2>1. Alike(t, w)
    <3>1. \A d \in Arrays : ~w[d].live => w[d] = Absent
      BY <1>3, <1>4 DEF Kept, TreeInv, Shaped
    <3> QED
      BY <1>4, <1>5, <3>1 DEF Alike, Kept, Node
  <2> QED
    BY <2>1, ShapeStays DEF TreeInv
<1>7. \A d \in Arrays : t[d].live => HasHead(w, d) /\ HeadArray(w, d) = HeadArray(t, d)
  <2>1. ASSUME NEW d \in Arrays, t[d].live
        PROVE  HasHead(w, d) /\ HeadArray(w, d) = HeadArray(t, d)
    <3>1. CASE d = a
      <4>1. DOMAIN n.arrays = DOMAIN t[a].arrays \cup {key} /\ n.arrays[t[a].head] = t[a].arrays[t[a].head]
        <5> DEFINE f == t[a].arrays
                   x == t[a].head
        <5>1. x \in DOMAIN f /\ x # key /\ n.arrays = With(f, key, OwnArray(buf))
          BY <1>2, <1>3
        <5> HIDE DEF f, x
        <5>2. (\A z : z \in DOMAIN n.arrays <=> z = key \/ z \in DOMAIN f) /\ n.arrays[x] = f[x]
          BY <5>1, WithIs
        <5> QED
          BY <5>2 DEF f, x
      <4>2. t[a].head # NoHead
        BY HeadIs DEF HasHead
      <4> QED
        BY <1>2, <1>3, <1>4, <3>1, <4>1, <4>2 DEF HasHead, HeadArray
    <3>2. CASE d # a
      BY <1>4, <2>1, <3>2, HeadIs DEF HasHead, HeadArray
    <3> QED
      BY <3>1, <3>2
  <2> QED
    BY <2>1
<1>8. \A d \in Arrays : Stored(w[d])
  <2>1. Stored(t[a]) /\ Stored(w[a])
    <3>1. Stored(t[a])
      BY DEF TreeInv, Headed
    <3>2. Stored(n)
      <4> DEFINE m == t[a]
      <4>1. Stored(m) /\ DOMAIN m.arrays # {} /\ key \notin DOMAIN m.arrays
            /\ n.head = m.head /\ n.arrays = With(m.arrays, key, OwnArray(buf))
        BY <1>2, <1>3, <3>1
      <4> HIDE DEF m
      <4> QED
        BY <4>1, StoredWith
    <3> QED
      BY <1>4, <3>1, <3>2
  <2>2. \A d \in Arrays : d # a => Stored(w[d])
    BY <1>4 DEF TreeInv, Headed
  <2> QED
    BY <2>1, <2>2
<1>9. Headed(w) /\ HasHead(w, Root)
  <2>1. t[Root].live /\ Root \in Arrays
    BY TreeAssumption DEF TreeInv, Shaped
  <2>2. HasHead(w, Root) /\ HeadArray(w, Root) = HeadArray(t, Root)
    BY <1>7, <2>1
  <2>3. Uniform(w)
    BY <1>5, <1>7, <2>2 DEF Uniform, Kept
  <2>4. RootHead(w)
    BY <1>5, <2>1, <2>2 DEF TreeInv, Headed, RootHead
  <2>5. ASSUME NEW d \in Views, w[d].live
        PROVE  InPlace(w, d)
    <3>1. d \in Arrays /\ Parent[d] \in Arrays /\ t[d].live
      BY <1>5, <2>5, LineageStep DEF Views, Kept
    <3>2. InPlace(t, d)
      BY <2>5, <3>1 DEF TreeInv, Headed
    <3>3. HeadArray(w, d) = HeadArray(t, d)
      BY <1>7, <3>1
    <3> QED
      BY <1>5, <2>2, <3>1, <3>2, <3>3 DEF InPlace
  <2> QED
    BY <1>8, <2>2, <2>3, <2>4, <2>5 DEF Headed
<1>10. DOMAIN u = Arrays /\ \A d \in Arrays : u[d] = w[d]
  <2>1. CASE a = Root
    <3>1. DOMAIN CreateDescendants(w, Root) = Arrays
          /\ \A d \in Arrays : CreateDescendants(w, Root)[d] = w[d]
      BY <1>6, <1>9, CreatedNone DEF Headed
    <3> QED
      BY <2>1, <3>1 DEF WithViews
  <2>2. CASE a # Root
    BY <1>4, <2>2 DEF WithViews
  <2> QED
    BY <2>1, <2>2
<1> HIDE DEF u
<1>11. SameArrays(w, u)
  BY <1>5, <1>6, <1>10 DEF SameArrays, Kept, Shaped
<1>12. TreeInv(u) /\ HasHead(u, Root) /\ \A d \in Arrays : HeadArray(u, d) = HeadArray(w, d)
  BY <1>6, <1>9, <1>11, SameTree, TreeAssumption DEF TreeInv
<1>13. \A d \in Arrays : u[d].arrays = IF d = a THEN With(t[a].arrays, key, OwnArray(buf)) ELSE t[d].arrays
  BY <1>3, <1>4, <1>10
<1>14. Grown(t, u, a, key, buf)
  BY <1>5, <1>10, <1>13 DEF Grown
<1> QED
  BY <1>7, <1>12, <1>14 DEF u, w, n


\* The views of a root get their head arrays.
LEMMA CreatedTree ==
    ASSUME NEW t, Shaped(t), \A a \in Arrays : Stored(t[a]), HasHead(t, Root),
           \A d \in Views : t[d].live => ~HasHead(t, d),
           RootHead(t)
    PROVE  LET u == CreateDescendants(t, Root)
           IN  /\ TreeInv(u) /\ HasHead(u, Root) /\ DOMAIN u = Arrays
               /\ u[Root] = t[Root]
               /\ \A d \in Arrays : Kept(t[d], u[d])
               /\ \A d \in Views :
                     IF t[d].live THEN u[d].arrays = Only(u[d].head, ArrayIn(HeadArray(t, Root).buf, Base(d)))
                                  ELSE u[d] = t[d]
<1> DEFINE u == CreateDescendants(t, Root)
           b == HeadArray(t, Root).buf
<1>1. /\ DOMAIN u = Arrays
      /\ u[Root] = t[Root]
      /\ \A d \in Views : IF t[d].live THEN Kept(t[d], u[d]) /\ Ranged(t, u[d], u[Parent[d]].head, d)
                                       ELSE u[d] = t[d]
  BY CreatedIs
<1> HIDE DEF u
<1>2. Root \in Arrays /\ t[Root].live /\ \A d \in Views : d \in Arrays /\ Parent[d] \in Arrays
  BY LineageStep, TreeAssumption DEF Views, Shaped
<1>3. \A d \in Arrays : Kept(t[d], t[d])
  BY DEF Shaped, Kept, Node
<1>4. \A d \in Arrays : Kept(t[d], u[d])
  <2>1. \A d \in Views : Kept(t[d], u[d])
    BY <1>1, <1>2, <1>3
  <2>2. Kept(t[Root], u[Root])
    BY <1>1, <1>2, <1>3
  <2> QED
    BY <2>1, <2>2 DEF Views
<1>5. Alike(t, u)
  <2>1. \A d \in Arrays : ~u[d].live => u[d] = Absent
    <3>1. \A d \in Arrays : ~t[d].live => t[d] = Absent /\ d \in Views
      BY <1>2 DEF Shaped, Views
    <3> QED
      BY <1>1, <1>4, <3>1 DEF Kept
  <2> QED
    BY <1>1, <1>4, <2>1 DEF Alike, Kept, Node
<1>6. Shaped(u)
  BY <1>5, ShapeStays
<1>7. HasHead(u, Root) /\ HeadArray(u, Root) = HeadArray(t, Root)
  BY <1>1 DEF HasHead, HeadArray
<1> DEFINE P == {d \in Arrays : t[d].live => u[d].head \in Seq(Keys \cup Arrays) /\ u[d].head # NoHead}
<1>8. Arrays \subseteq P
  <2>1. Root \in P
    <3>1. PICK k \in Keys : t[Root].head = <<k>>
      BY DEF RootHead, Plain
    <3>2. <<k>> \in Seq(Keys \cup Arrays) /\ <<k>> # << >>
      OBVIOUS
    <3> QED
      BY <1>1, <1>2, <3>1, <3>2 DEF NoHead
  <2>2. ASSUME NEW d \in Views, Parent[d] \in P, t[d].live
        PROVE  u[d].head \in Seq(Keys \cup Arrays) /\ u[d].head # NoHead
    <3> DEFINE h == u[Parent[d]].head
    <3>1. t[Parent[d]].live
      BY <2>2 DEF Shaped
    <3>2. h \in Seq(Keys \cup Arrays) /\ u[d].head = Append(h, d) /\ d \in Arrays
      BY <1>1, <1>2, <2>2, <3>1 DEF Ranged
    <3> HIDE DEF h
    <3>3. Append(h, d) \in Seq(Keys \cup Arrays) /\ Append(h, d) # << >>
      BY <3>2
    <3> QED
      BY <3>2, <3>3 DEF NoHead
  <2>3. \A d \in Views : Parent[d] \in P => d \in P
    BY <1>2, <2>2
  <2> HIDE DEF P
  <2> QED
    BY <2>1, <2>3, DownTheTree
<1>9. ASSUME NEW d \in Views, t[d].live
      PROVE  /\ u[d].arrays = Only(u[d].head, ArrayIn(b, Base(d))) /\ u[d].head # NoHead
             /\ Stored(u[d]) /\ HasHead(u, d) /\ HeadArray(u, d) = ArrayIn(b, Base(d)) /\ InPlace(u, d)
  <2> DEFINE x == ArrayIn(b, Base(d))
  <2>1. u[d].arrays = Only(u[d].head, x) /\ u[d].head = Append(u[Parent[d]].head, d)
    BY <1>1, <1>9 DEF Ranged
  <2>2. u[d].head # NoHead
    BY <1>2, <1>8, <1>9
  <2>3. DOMAIN x = ArrayFields /\ x.buf = b /\ x.base = Base(d)
    <3> HIDE DEF b
    <3> QED
      BY DEF ArrayIn, ArrayFields
  <2> HIDE DEF x
  <2>4. Stored(u[d])
    BY <2>1, <2>2, <2>3, StoredOnly
  <2>5. DOMAIN u[d].arrays = {u[d].head} /\ u[d].arrays[u[d].head] = x
    BY <2>1, OnlyIs
  <2>6. HasHead(u, d) /\ HeadArray(u, d) = x
    BY <2>2, <2>5 DEF HasHead, HeadArray
  <2>7. InPlace(u, d)
    BY <1>7, <2>1, <2>3, <2>6 DEF InPlace
  <2> QED
    BY <2>1, <2>2, <2>4, <2>6, <2>7 DEF x
<1>10. Headed(u)
  <2>1. \A d \in Arrays : Stored(u[d])
    <3>1. \A d \in Views : ~t[d].live => Stored(u[d])
      BY <1>1, <1>2
    <3>2. Stored(u[Root])
      BY <1>1, <1>2
    <3> QED
      BY <1>9, <3>1, <3>2 DEF Views
  <2>2. \A d \in Arrays : u[d].live = t[d].live
    BY <1>4 DEF Kept
  <2>3. Uniform(u)
    BY <1>7, <1>9, <2>2 DEF Uniform, Views
  <2>4. RootHead(u)
    BY <1>1, <1>7 DEF RootHead
  <2>5. \A d \in Views : u[d].live => InPlace(u, d)
    BY <1>2, <1>9, <2>2
  <2> QED
    BY <2>1, <2>3, <2>4, <2>5 DEF Headed
<1> QED
  BY <1>1, <1>2, <1>4, <1>6, <1>7, <1>9, <1>10 DEF u, TreeInv

\* The first array of all.
LEMMA AllocatedFirst ==
    ASSUME NEW t, TreeInv(t), ~HasHead(t, Root), NEW key, Plain(key), NEW buf
    PROVE  LET u == WithViews([t EXCEPT ![Root] = WithArray(@, key, buf)], Root)
           IN  TreeInv(u) /\ HasHead(u, Root) /\ Grown(t, u, Root, key, buf)
<1> DEFINE n == WithArray(t[Root], key, buf)
           w == [t EXCEPT ![Root] = n]
           u == WithViews(w, Root)
<1>1. Root \in Arrays /\ t[Root].live /\ Node(t[Root]) /\ DOMAIN t = Arrays
  BY TreeAssumption DEF TreeInv, Shaped, Node
<1>2. DOMAIN t[Root].arrays = {}
  BY <1>1, HeadIs
<1>3. Kept(t[Root], n) /\ n.head = key /\ n.arrays = Only(key, OwnArray(buf))
  <2> DEFINE m == t[Root]
  <2>1. Node(m) /\ DOMAIN m.arrays = {}
    BY <1>1, <1>2
  <2> HIDE DEF m
  <2>2. Kept(m, WithArray(m, key, buf))
        /\ WithArray(m, key, buf).head = key
        /\ WithArray(m, key, buf).arrays = With(m.arrays, key, OwnArray(buf))
    BY <2>1, WithArrayIs
  <2>3. With(m.arrays, key, OwnArray(buf)) = Only(key, OwnArray(buf))
    BY <2>1 DEF With, Only
  <2> QED
    BY <2>2, <2>3 DEF m
<1> HIDE DEF n
<1>4. DOMAIN w = Arrays /\ w[Root] = n /\ \A d \in Arrays : d # Root => w[d] = t[d]
  BY <1>1
<1> HIDE DEF w
<1>5. \A d \in Arrays : Kept(t[d], w[d])
  <2>1. \A d \in Arrays : Kept(t[d], t[d])
    BY DEF TreeInv, Shaped, Kept, Node
  <2> QED
    BY <1>3, <1>4, <2>1
<1>6. Shaped(w)
  <2>1. Alike(t, w)
    <3>1. \A d \in Arrays : ~w[d].live => w[d] = Absent
      BY <1>1, <1>3, <1>4 DEF Kept, TreeInv, Shaped
    <3> QED
      BY <1>4, <1>5, <3>1 DEF Alike, Kept, Node
  <2> QED
    BY <2>1, ShapeStays DEF TreeInv
<1>7. DOMAIN n.arrays = {n.head} /\ n.arrays[n.head] = OwnArray(buf)
  BY <1>3, OnlyIs
<1>8. key # NoHead
  BY PlainIs
<1>9. HasHead(w, Root) /\ HeadArray(w, Root) = OwnArray(buf)
  BY <1>3, <1>4, <1>7, <1>8 DEF HasHead, HeadArray
<1>10. DOMAIN OwnArray(buf) = ArrayFields /\ OwnArray(buf).base = 0 /\ OwnArray(buf).buf = buf
  BY OwnIs
<1>11. \A d \in Arrays : Stored(w[d])
  <2>1. Stored(n)
    <3> DEFINE x == OwnArray(buf)
    <3>1. n.head # NoHead /\ DOMAIN x = ArrayFields /\ n.arrays = Only(n.head, x)
      BY <1>3, <1>8, <1>10
    <3> HIDE DEF x
    <3> QED
      BY <3>1, StoredOnly
  <2> QED
    BY <1>4, <2>1 DEF TreeInv, Headed
<1>12. \A d \in Views : w[d].live => ~HasHead(w, d)
  <2>1. \A d \in Views : w[d] = t[d] /\ d \in Arrays
    BY <1>4 DEF Views
  <2> QED
    BY <2>1, HeadIs DEF HasHead
<1>13. RootHead(w) /\ HeadArray(w, Root).buf = buf
  BY <1>3, <1>4, <1>9, <1>10 DEF RootHead
<1>14. /\ TreeInv(u) /\ HasHead(u, Root) /\ DOMAIN u = Arrays
       /\ u[Root] = w[Root]
       /\ \A d \in Arrays : Kept(w[d], u[d])
       /\ \A d \in Views :
             IF w[d].live THEN u[d].arrays = Only(u[d].head, ArrayIn(buf, Base(d)))
                          ELSE u[d] = w[d]
  <2> DEFINE c == CreateDescendants(w, Root)
  <2>1. /\ TreeInv(c) /\ HasHead(c, Root) /\ DOMAIN c = Arrays
        /\ c[Root] = w[Root]
        /\ \A d \in Arrays : Kept(w[d], c[d])
        /\ \A d \in Views :
             IF w[d].live THEN c[d].arrays = Only(c[d].head, ArrayIn(HeadArray(w, Root).buf, Base(d)))
                          ELSE c[d] = w[d]
    BY <1>6, <1>9, <1>11, <1>12, <1>13, CreatedTree
  <2>2. u = c
    BY DEF WithViews
  <2> HIDE DEF c, u
  <2> QED
    BY <1>13, <2>1, <2>2
<1> HIDE DEF u
<1>15. \A d \in Arrays : Kept(t[d], u[d])
  BY <1>5, <1>14 DEF Kept
<1>16. u[Root].arrays = Only(u[Root].head, ArrayIn(buf, Base(Root))) /\ u[Root].head = key
  <2>1. Base(Root) = 0
    BY DEF Base
  <2>2. OwnArray(buf) = ArrayIn(buf, Base(Root))
    BY <2>1 DEF OwnArray
  <2> QED
    BY <1>3, <1>4, <1>14, <2>2
<1>17. \A d \in Arrays : IF t[d].live THEN u[d].arrays = Only(u[d].head, ArrayIn(buf, Base(d)))
                                      ELSE u[d].arrays = t[d].arrays
  <2>1. \A d \in Views : d \in Arrays /\ w[d] = t[d]
    BY <1>4 DEF Views
  <2>2. ASSUME NEW d \in Arrays
        PROVE  IF t[d].live THEN u[d].arrays = Only(u[d].head, ArrayIn(buf, Base(d)))
                            ELSE u[d].arrays = t[d].arrays
    <3>1. CASE d = Root
      BY <1>1, <1>16, <3>1
    <3>2. CASE d # Root
      BY <1>14, <2>1, <3>2 DEF Views
    <3> QED
      BY <3>1, <3>2
  <2> QED
    BY <2>2
<1>18. Grown(t, u, Root, key, buf)
  BY <1>14, <1>15, <1>16, <1>17 DEF Grown
<1> QED
  BY <1>14, <1>18 DEF u, w, n


-----------------------------------------------------------------------------
(* sync and the tree. *)

\* u has the nodes of t, as far as they are said to be zero.
Standing(t, u) == \A a \in Arrays : /\ u[a].live = t[a].live /\ u[a].children = t[a].children
                                    /\ u[a].zeroing = t[a].zeroing

\* Notes are struck out.
LEMMA ClearTree ==
    ASSUME NEW t, TreeInv(t), NEW S \in SUBSET Arrays, \A d \in S : t[d].live
    PROVE  LET u == ClearFlags(t, S)
           IN  /\ SameArrays(t, u) /\ Standing(t, u)
               /\ \A d \in Arrays : u[d].lazy = IF d \in S THEN Nothing ELSE t[d].lazy
<1> DEFINE u == ClearFlags(t, S)
<1>1. DOMAIN t = Arrays /\ \A d \in Arrays : Node(t[d])
  BY DEF TreeInv, Shaped, Node
<1>2. DOMAIN u = Arrays /\ \A d \in Arrays : u[d] = IF d \in S THEN NoNote(t[d]) ELSE t[d]
  BY <1>1, EachIs
<1> HIDE DEF u
<1>3. ASSUME NEW d \in Arrays
      PROVE  /\ Node(u[d]) /\ u[d].live = t[d].live /\ u[d].children = t[d].children
             /\ u[d].head = t[d].head /\ u[d].arrays = t[d].arrays
             /\ ~u[d].live => u[d] = Absent
             /\ u[d].zeroing = t[d].zeroing
             /\ u[d].lazy = IF d \in S THEN Nothing ELSE t[d].lazy
  <2>1. CASE d \in S
    BY <1>1, <1>2, <2>1, NodeIs
  <2>2. CASE d \notin S
    BY <1>1, <1>2, <2>2 DEF TreeInv, Shaped
  <2> QED
    BY <2>1, <2>2
<1>4. SameArrays(t, u)
  BY <1>2, <1>3 DEF SameArrays
<1>5. Standing(t, u)
  BY <1>3 DEF Standing
<1> QED
  BY <1>3, <1>4, <1>5 DEF u

\* The live arrays of a family.
LEMMA FamilyIs ==
    ASSUME NEW t, Shaped(t), NEW a \in Arrays, t[a].live
    PROVE  /\ Family(t, a) = {d \in Arrays : a \in Lineage[d] /\ t[d].live}
           /\ a = Root => Family(t, a) = {d \in Arrays : t[d].live}
           /\ Lineage[a] \subseteq {d \in Arrays : t[d].live}
<1>1. Family(t, a) = {d \in Arrays : a \in Lineage[d] /\ t[d].live}
  BY LineageStep DEF Family, Descendants, Live
<1>2. a = Root => Family(t, a) = {d \in Arrays : t[d].live}
  BY <1>1, RootAbove
<1>3. Lineage[a] \subseteq {d \in Arrays : t[d].live}
  BY AncestorsLive
<1> QED
  BY <1>1, <1>2, <1>3

\* The array from which the notes are carried out is an array or one it descends from.
LEMMA ZeroFillRootIs ==
    ASSUME NEW t, Shaped(t), NEW a \in Arrays, t[a].live
    PROVE  LET z == ZeroFillRoot(t, a)
           IN  /\ z \in Lineage[a] /\ z \in Arrays /\ t[z].live
               /\ \A p \in Lineage[z] : p # z => ~Pending(t, p)
<1> DEFINE z == ZeroFillRoot(t, a)
           A == Above(t, a)
<1>1. A \subseteq Lineage[a] /\ A \in SUBSET Arrays
  BY LineageStep DEF Above
<1>2. z \in Lineage[a] /\ \A p \in Lineage[z] : p # z => ~Pending(t, p)
  <2>1. CASE A = {}
    <3>1. z = a
      BY <2>1 DEF ZeroFillRoot
    <3>2. \A p \in Lineage[a] : p # a => ~Pending(t, p)
      BY <2>1 DEF Above
    <3> QED
      BY <3>1, <3>2, LineageStep
  <2>2. CASE A # {}
    <3>1. z = Topmost(A)
      BY <2>2 DEF ZeroFillRoot
    <3> HIDE DEF A, z
    <3>2. z \in A /\ A \cap Lineage[z] = {z}
      BY <1>1, <2>2, <3>1, Deepest
    <3>3. z \in Lineage[a] /\ z # a
      BY <3>2 DEF A, Above
    <3>4. Lineage[z] \subseteq Lineage[a] /\ a \notin Lineage[z]
      BY <3>3, LineageOfAncestor, NoCycle
    <3>5. ASSUME NEW p \in Lineage[z], p # z
          PROVE  ~Pending(t, p)
      BY <3>2, <3>4, <3>5 DEF A, Above
    <3> QED
      BY <3>3, <3>5
  <2> QED
    BY <2>1, <2>2
<1>3. z \in Arrays /\ t[z].live
  BY <1>2, AncestorsLive
<1> QED
  BY <1>2, <1>3

\* check_zeroing_filling and traverse_zero_fill: what they do to the tree.
LEMMA CarriedTree ==
    ASSUME NEW s, TreeInv(s.tree), NEW a \in Arrays, s.tree[a].live, HasHead(s.tree, Root)
    PROVE  LET u == Carried(s, a).tree
               t == s.tree
           IN  /\ SameArrays(t, u) /\ Standing(t, u) /\ TreeInv(u)
               /\ \/ /\ HasFamily(t, a) /\ AnyPending(t, a)
                     /\ Carried(s, a) = CarriedBy(s, Family(t, ZeroFillRoot(t, a)))
                     /\ \A d \in Arrays : u[d].lazy = IF d \in Family(t, ZeroFillRoot(t, a))
                                                     THEN Nothing ELSE t[d].lazy
                  \/ ~(HasFamily(t, a) /\ AnyPending(t, a)) /\ Carried(s, a) = s
<1> DEFINE t == s.tree
           z == ZeroFillRoot(t, a)
           F == Family(t, z)
<1>1. CASE HasFamily(t, a) /\ AnyPending(t, a)
  <2>1. z \in Arrays /\ t[z].live
    BY ZeroFillRootIs DEF TreeInv
  <2>2. F \in SUBSET Arrays /\ \A d \in F : t[d].live
    <3> HIDE DEF z
    <3> QED
      BY <2>1, FamilyIs DEF TreeInv
  <2>3. {d \in F : HasHead(t, d)} = F
    <3> HIDE DEF F
    <3> QED
      BY <2>2 DEF TreeInv, Headed, Uniform
  <2>4. Carried(s, a) = CarriedBy(s, F)
    BY <1>1, <2>3 DEF Carried
  <2>5. Carried(s, a).tree = ClearFlags(t, F)
    BY <2>4 DEF CarriedBy
  <2> HIDE DEF F
  <2>6. /\ SameArrays(t, ClearFlags(t, F)) /\ Standing(t, ClearFlags(t, F))
        /\ \A d \in Arrays : ClearFlags(t, F)[d].lazy = IF d \in F THEN Nothing ELSE t[d].lazy
    BY <2>2, ClearTree
  <2>7. TreeInv(ClearFlags(t, F))
    BY <2>6, SameTree
  <2> QED
    BY <1>1, <2>4, <2>5, <2>6, <2>7 DEF F
<1>2. CASE ~(HasFamily(t, a) /\ AnyPending(t, a))
  <2>1. Carried(s, a) = s
    BY <1>2 DEF Carried
  <2>2. SameArrays(t, t) /\ Standing(t, t)
    BY DEF SameArrays, Standing, TreeInv, Shaped, Node
  <2> QED
    BY <1>2, <2>1, <2>2
<1> QED
  BY <1>1, <1>2

\* The end of sync: what it does to the tree.
LEMMA FilledTree ==
    ASSUME NEW s, TreeInv(s.tree), NEW a \in Arrays, s.tree[a].live, NEW key, NEW writeOnly
    PROVE  LET u == Filled(s, a, key, writeOnly).tree
               t == s.tree
           IN  /\ SameArrays(t, u) /\ Standing(t, u) /\ TreeInv(u)
               /\ \A d \in Arrays : u[d].lazy = t[d].lazy \/ (d = a /\ ~HasFamily(t, a) /\ u[d].lazy = Nothing)
<1> DEFINE t == s.tree
           u == Filled(s, a, key, writeOnly).tree
<1>1. SameArrays(t, t) /\ Standing(t, t)
  BY DEF SameArrays, Standing, TreeInv, Shaped, Node
<1>2. u = t \/ (~HasFamily(t, a) /\ u = ClearFlags(t, {a}))
  BY DEF Filled
<1>3. CASE u = t
  BY <1>1, <1>3
<1>4. CASE ~HasFamily(t, a) /\ u = ClearFlags(t, {a})
  <2> DEFINE c == ClearFlags(t, {a})
  <2>1. /\ SameArrays(t, c) /\ Standing(t, c)
        /\ \A d \in Arrays : c[d].lazy = IF d \in {a} THEN Nothing ELSE t[d].lazy
    BY ClearTree
  <2> HIDE DEF c
  <2>2. TreeInv(c)
    BY <2>1, SameTree
  <2> QED
    BY <1>4, <2>1, <2>2 DEF c
<1> QED
  BY <1>2, <1>3, <1>4


\* A state has a tree and a memory.
State(s) == DOMAIN s = {"tree", "mem"}

\* What sync returns is a state.
LEMMA PhaseStates ==
    ASSUME NEW s, State(s), NEW a, NEW key, NEW writeOnly
    PROVE  /\ State(Allocated(s, a, key)) /\ State(Carried(s, a))
           /\ State(Filled(s, a, key, writeOnly))
<1>1. State(Allocated(s, a, key))
  BY DEF Allocated, State
<1>2. \A S : State(CarriedBy(s, S))
  BY DEF CarriedBy, State
<1>3. State(Carried(s, a))
  BY <1>2 DEF Carried
<1>4. State(Filled(s, a, key, writeOnly))
  BY DEF Filled, State
<1> QED
  BY <1>1, <1>3, <1>4

\* The array that sync is to bring up to date is made first, if it is missing.
Made(s, a, key) == IF key \in DOMAIN s.tree[a].arrays THEN s ELSE Allocated(s, a, key)

\* What making it does to the tree.
LEMMA MadeTree ==
    ASSUME NEW s, TreeInv(s.tree), NEW a \in Arrays, s.tree[a].live, NEW key,
           key \in DOMAIN s.tree[a].arrays \/ Plain(key),
           a = Root \/ HasHead(s.tree, Root)
    PROVE  LET u == Made(s, a, key).tree
               t == s.tree
           IN  /\ TreeInv(u) /\ HasHead(u, Root) /\ Standing(t, u) /\ key \in DOMAIN u[a].arrays
               /\ HasHead(t, Root) => \A d \in Arrays : u[d].head = t[d].head
               /\ ~HasHead(t, Root) => u[Root].head = key
               /\ \A d \in Arrays : u[d].lazy = t[d].lazy
               /\ IF key \in DOMAIN t[a].arrays THEN Made(s, a, key) = s
                  ELSE Made(s, a, key) = Allocated(s, a, key) /\ Grown(t, u, a, key, NewBuf(s, a, key))
<1> DEFINE t == s.tree
           buf == NewBuf(s, a, key)
           w == WithViews([t EXCEPT ![a] = WithArray(@, key, buf)], a)
<1>1. CASE key \in DOMAIN t[a].arrays
  <2>1. HasHead(t, Root)
    BY <1>1, HeadIs
  <2>2. Standing(t, t)
    BY DEF Standing
  <2> QED
    BY <1>1, <2>1, <2>2 DEF Made
<1>2. CASE key \notin DOMAIN t[a].arrays
  <2>1. Made(s, a, key) = Allocated(s, a, key) /\ Allocated(s, a, key).tree = w
    BY <1>2 DEF Made, Allocated
  <2>2. Plain(key)
    BY <1>2
  <2> HIDE DEF buf, t
  <2>3. TreeInv(w) /\ HasHead(w, Root) /\ Grown(t, w, a, key, buf)
    <3>1. CASE HasHead(t, Root)
      <4>1. TreeInv(t) /\ t[a].live
        BY DEF t
      <4> QED
        BY <1>2, <2>2, <3>1, <4>1, AllocatedCopy
    <3>2. CASE ~HasHead(t, Root)
      <4>1. TreeInv(t) /\ a = Root
        BY <3>2 DEF t
      <4> QED
        BY <2>2, <3>2, <4>1, AllocatedFirst
    <3> QED
      BY <3>1, <3>2
  <2> HIDE DEF w
  <2>4. Standing(t, w) /\ \A d \in Arrays : w[d].lazy = t[d].lazy
    BY <2>3 DEF Grown, Standing, Kept
  <2>5. key \in DOMAIN w[a].arrays
    <3>1. CASE HasHead(t, Root)
      <4>1. w[a].arrays = With(t[a].arrays, key, OwnArray(buf))
        BY <2>3, <3>1 DEF Grown
      <4> QED
        BY <4>1 DEF With
    <3>2. CASE ~HasHead(t, Root)
      <4>1. a = Root /\ w[Root].head = key /\ t[Root].live
        BY <2>3, <3>2 DEF Grown, t
      <4>2. w[Root].arrays = Only(key, ArrayIn(buf, Base(Root)))
        BY <2>3, <3>2, <4>1 DEF Grown
      <4> QED
        BY <4>1, <4>2 DEF Only
    <3> QED
      BY <3>1, <3>2
  <2> QED
    BY <1>2, <2>1, <2>3, <2>4, <2>5 DEF Grown, t, buf
<1> QED
  BY <1>1, <1>2

\* sync with a given key.
LEMMA SyncedAtTree ==
    ASSUME NEW s, State(s), TreeInv(s.tree), NEW a \in Arrays, s.tree[a].live, NEW key,
           key \in DOMAIN s.tree[a].arrays \/ Plain(key),
           a = Root \/ HasHead(s.tree, Root), NEW writeOnly
    PROVE  LET r == SyncedAt(s, a, key, writeOnly)
               u == r.tree
               t == s.tree
           IN  /\ State(r) /\ TreeInv(u) /\ HasHead(u, Root) /\ Standing(t, u)
               /\ key \in DOMAIN u[a].arrays
               /\ HasHead(t, Root) => \A d \in Arrays : u[d].head = t[d].head
               /\ ~HasHead(t, Root) => u[Root].head = key
<1> DEFINE t == s.tree
           s1 == Made(s, a, key)
           s2 == Carried(s1, a)
           s3 == Filled(s2, a, key, writeOnly)
<1>1. SyncedAt(s, a, key, writeOnly) = s3
  BY DEF SyncedAt, Made
<1>2. State(s1)
  BY PhaseStates DEF Made
<1>3. /\ TreeInv(s1.tree) /\ HasHead(s1.tree, Root) /\ Standing(t, s1.tree) /\ key \in DOMAIN s1.tree[a].arrays
      /\ HasHead(t, Root) => \A d \in Arrays : s1.tree[d].head = t[d].head
      /\ ~HasHead(t, Root) => s1.tree[Root].head = key
  BY MadeTree
<1> HIDE DEF s1
<1>4. s1.tree[a].live
  BY <1>3 DEF Standing
<1>5. SameArrays(s1.tree, s2.tree) /\ Standing(s1.tree, s2.tree) /\ TreeInv(s2.tree)
  BY <1>3, <1>4, CarriedTree
<1>6. State(s2)
  BY <1>2, PhaseStates
<1> HIDE DEF s2
<1>7. s2.tree[a].live
  BY <1>4, <1>5 DEF Standing
<1>8. SameArrays(s2.tree, s3.tree) /\ Standing(s2.tree, s3.tree) /\ TreeInv(s3.tree)
  BY <1>5, <1>7, FilledTree
<1>9. State(s3)
  BY <1>6, PhaseStates
<1> HIDE DEF s3, t
<1>10. HasHead(s3.tree, Root)
  BY <1>3, <1>5, <1>8, SameTree, TreeAssumption
<1>11. Standing(t, s3.tree)
  BY <1>3, <1>5, <1>8 DEF Standing
<1>12. \A d \in Arrays : s3.tree[d].head = s1.tree[d].head /\ s3.tree[d].arrays = s1.tree[d].arrays
  BY <1>5, <1>8 DEF SameArrays
<1> QED
  BY <1>1, <1>3, <1>8, <1>9, <1>10, <1>11, <1>12, TreeAssumption DEF t

\* The key of an array on its own.
Own(k) == <<k>>

\* sync.
LEMMA SyncedTree ==
    ASSUME NEW s, State(s), TreeInv(s.tree), NEW a \in Arrays, s.tree[a].live, NEW k \in Keys, NEW writeOnly
    PROVE  LET p == Prepared(s, a, k, writeOnly)
               key == KeyOf(p.tree, a, k)
               r == Synced(s, a, k, writeOnly)
               u == r.tree
               t == s.tree
           IN  /\ State(p) /\ TreeInv(p.tree) /\ Standing(t, p.tree) /\ p.tree[a].live
               /\ a = Root \/ HasHead(p.tree, Root)
               /\ key \in DOMAIN p.tree[a].arrays \/ Plain(key)
               /\ r = SyncedAt(p, a, key, writeOnly)
               /\ State(r) /\ TreeInv(u) /\ HasHead(u, Root) /\ Standing(t, u)
               /\ KeyOf(u, a, k) = key /\ key \in DOMAIN u[a].arrays
               /\ a = Root => key = Own(k)
               /\ a = Root \/ HasHead(t, a) => p = s
               /\ a # Root /\ ~HasHead(t, a) => p = SyncedAt(s, Root, Own(k), writeOnly)
               /\ HasHead(t, Root) => u[Root].head = t[Root].head
               /\ ~HasHead(t, Root) => u[Root].head = Own(k)
<1> DEFINE t == s.tree
           p == Prepared(s, a, k, writeOnly)
           key == KeyOf(p.tree, a, k)
           r == SyncedAt(p, a, key, writeOnly)
           k1 == Own(k)
<1>1. Synced(s, a, k, writeOnly) = r
  BY DEF Synced, SyncedOne
<1>2. Plain(k1) /\ Root \in Arrays /\ t[Root].live
  BY TreeAssumption DEF Plain, TreeInv, Shaped, Own
<1>3. /\ a = Root \/ HasHead(t, a) => p = s
      /\ a # Root /\ ~HasHead(t, a) => p = SyncedAt(s, Root, k1, writeOnly)
  BY DEF Prepared, Own
<1> HIDE DEF p, k1
<1>4. /\ State(p) /\ TreeInv(p.tree) /\ Standing(t, p.tree) /\ (a = Root \/ HasHead(p.tree, Root))
      /\ HasHead(t, Root) => p = s
      /\ ~HasHead(t, Root) /\ a # Root => p.tree[Root].head = k1
  <2>1. CASE a = Root \/ HasHead(t, a)
    <3>1. Standing(t, t)
      BY DEF Standing
    <3>2. HasHead(t, a) <=> HasHead(t, Root)
      BY DEF TreeInv, Headed, Uniform
    <3> QED
      BY <1>3, <2>1, <3>1, <3>2
  <2>2. CASE a # Root /\ ~HasHead(t, a)
    <3>1. p = SyncedAt(s, Root, k1, writeOnly)
      BY <1>3, <2>2
    <3>2. ~HasHead(t, Root)
      BY <2>2 DEF TreeInv, Headed, Uniform
    <3>3. State(p) /\ TreeInv(p.tree) /\ HasHead(p.tree, Root) /\ Standing(t, p.tree) /\ p.tree[Root].head = k1
      BY <1>2, <3>1, <3>2, SyncedAtTree
    <3> QED
      BY <3>2, <3>3
  <2> QED
    BY <2>1, <2>2
<1>5. p.tree[a].live
  BY <1>4 DEF Standing
<1>6. a = Root => key = k1
  BY DEF KeyOf, k1, Own
<1>7. key \in DOMAIN p.tree[a].arrays \/ Plain(key)
  <2>1. CASE a = Root
    BY <1>2, <1>6, <2>1
  <2>2. CASE a # Root
    <3>1. HasHead(p.tree, Root)
      BY <1>4, <2>2
    <3>2. key = p.tree[a].head \/ key = k1
      BY <1>4, <1>5, <3>1, KeyIs DEF k1, Own
    <3> QED
      BY <1>2, <1>4, <1>5, <3>1, <3>2, HeadIs
  <2> QED
    BY <2>1, <2>2
<1> HIDE DEF key
<1>8. /\ State(r) /\ TreeInv(r.tree) /\ HasHead(r.tree, Root) /\ Standing(p.tree, r.tree)
      /\ key \in DOMAIN r.tree[a].arrays
      /\ HasHead(p.tree, Root) => \A d \in Arrays : r.tree[d].head = p.tree[d].head
      /\ ~HasHead(p.tree, Root) => r.tree[Root].head = key
  BY <1>4, <1>5, <1>7, SyncedAtTree
<1> HIDE DEF r, t
<1>9. Standing(t, r.tree)
  BY <1>4, <1>8 DEF Standing
<1>10. KeyOf(r.tree, a, k) = key
  <2>1. CASE a = Root
    BY <2>1 DEF KeyOf, key
  <2>2. CASE a # Root
    <3>1. \A d \in Arrays : r.tree[d].head = p.tree[d].head
      BY <1>4, <1>8, <2>2
    <3>2. Parent[a] \in Arrays
      BY <2>2, LineageStep
    <3> QED
      BY <1>2, <3>1, <3>2 DEF KeyOf, key
  <2> QED
    BY <2>1, <2>2
<1>11. HasHead(t, Root) => r.tree[Root].head = t[Root].head
  BY <1>2, <1>4, <1>8 DEF t
<1>12. ~HasHead(t, Root) => r.tree[Root].head = k1
  <2>1. CASE ~HasHead(t, Root) /\ a = Root
    <3>1. p = s
      BY <1>3, <2>1
    <3> QED
      BY <1>6, <1>8, <2>1, <3>1 DEF t
  <2>2. CASE ~HasHead(t, Root) /\ a # Root
    BY <1>2, <1>4, <1>8, <2>2
  <2> QED
    BY <2>1, <2>2
<1> QED
  BY <1>1, <1>3, <1>4, <1>5, <1>6, <1>7, <1>8, <1>9, <1>10, <1>11, <1>12 DEF p, key, r, t, k1


-----------------------------------------------------------------------------
(* cast and the tree. *)

\* A root without children is alone.
LEMMA LoneRoot ==
    ASSUME NEW t, Shaped(t), ~HasFamily(t, Root)
    PROVE  \A d \in Views : ~t[d].live
<1> DEFINE P == {d \in Arrays : d = Root \/ ~t[d].live}
<1>1. Root \in P
  BY TreeAssumption
<1>2. \A d \in Views : Parent[d] \in P => d \in P
  <2>1. Children(t, Root) = {}
    BY DEF HasFamily, Children, ToSet
  <2> QED
    BY <2>1, TreeAssumption DEF Shaped, Views
<1> HIDE DEF P
<1>3. Arrays \subseteq P
  BY <1>1, <1>2, DownTheTree
<1> QED
  BY <1>3 DEF P, Views

\* Flags are set.
LEMMA FlagTree ==
    ASSUME NEW t, TreeInv(t), NEW S \in SUBSET Arrays, \A d \in S : t[d].live, NEW flag
    PROVE  LET u == Flagged(t, S, flag)
           IN  /\ SameArrays(t, u) /\ TreeInv(u)
               /\ \A d \in Arrays : /\ u[d].lazy = t[d].lazy
                                    /\ u[d].zeroing = IF d \in S THEN flag ELSE t[d].zeroing
<1> DEFINE u == Flagged(t, S, flag)
<1>1. DOMAIN t = Arrays /\ \A d \in Arrays : Node(t[d])
  BY DEF TreeInv, Shaped, Node
<1>2. DOMAIN u = Arrays /\ \A d \in Arrays : u[d] = IF d \in S THEN [t[d] EXCEPT !.zeroing = flag] ELSE t[d]
  BY <1>1, EachIs
<1> HIDE DEF u
<1>3. ASSUME NEW d \in Arrays
      PROVE  /\ Node(u[d]) /\ u[d].live = t[d].live /\ u[d].children = t[d].children
             /\ u[d].head = t[d].head /\ u[d].arrays = t[d].arrays
             /\ ~u[d].live => u[d] = Absent
             /\ u[d].lazy = t[d].lazy
             /\ u[d].zeroing = IF d \in S THEN flag ELSE t[d].zeroing
  <2>1. CASE d \in S
    BY <1>1, <1>2, <2>1 DEF Node, NodeFields
  <2>2. CASE d \notin S
    BY <1>1, <1>2, <2>2 DEF TreeInv, Shaped
  <2> QED
    BY <2>1, <2>2
<1>4. SameArrays(t, u)
  BY <1>2, <1>3 DEF SameArrays
<1>5. TreeInv(u)
  BY <1>4, SameTree
<1> QED
  BY <1>3, <1>4, <1>5 DEF u

\* The head arrays are where they were.
SameHead(t, u, d) ==
    /\ u[d].head = t[d].head /\ DOMAIN u[d].arrays # {}
    /\ HeadArray(u, d).buf = HeadArray(t, d).buf /\ HeadArray(u, d).base = HeadArray(t, d).base

\* A tree of which some copies are gone.
LEMMA TrimmedTree ==
    ASSUME NEW t, NEW u, TreeInv(t), HasHead(t, Root), Alike(t, u),
           \A d \in Arrays : Stored(u[d]) /\ (t[d].live => SameHead(t, u, d))
    PROVE  TreeInv(u) /\ HasHead(u, Root)
<1>1. Shaped(u)
  BY ShapeStays DEF TreeInv
<1>2. Root \in Arrays /\ t[Root].live /\ \A d \in Views : d \in Arrays /\ Parent[d] \in Arrays
  BY LineageStep, TreeAssumption DEF Views, TreeInv, Shaped
<1>3. \A d \in Arrays : u[d].live = t[d].live
  BY DEF Alike
<1>4. \A d \in Arrays : t[d].live => HasHead(u, d)
  BY DEF SameHead, Stored, HasHead
<1>5. HasHead(u, Root) /\ Uniform(u)
  BY <1>2, <1>3, <1>4 DEF Uniform
<1>6. RootHead(u)
  BY <1>2 DEF RootHead, SameHead, TreeInv, Headed
<1>7. ASSUME NEW d \in Views, u[d].live
      PROVE  InPlace(u, d)
  <2>1. d \in Arrays /\ t[d].live /\ t[Parent[d]].live /\ Parent[d] \in Arrays
    BY <1>2, <1>3, <1>7 DEF TreeInv, Shaped
  <2>2. InPlace(t, d)
    BY <1>7, <2>1 DEF TreeInv, Headed
  <2>3. SameHead(t, u, d) /\ SameHead(t, u, Root) /\ SameHead(t, u, Parent[d])
    BY <1>2, <2>1
  <2> QED
    BY <2>2, <2>3 DEF InPlace, SameHead
<1> QED
  BY <1>1, <1>5, <1>6, <1>7 DEF TreeInv, Headed

\* A node of which the copies are gone.
LEMMA OnlyHeadIs ==
    ASSUME NEW n, Node(n), Stored(n), DOMAIN n.arrays # {}
    PROVE  LET m == OnlyHead(n)
           IN  /\ Kept(n, m) /\ m.head = n.head /\ Stored(m)
               /\ DOMAIN m.arrays = {m.head} /\ m.arrays[m.head] = n.arrays[n.head]
<1> DEFINE m == OnlyHead(n)
           x == n.arrays[n.head]
<1>1. Kept(n, m) /\ m.head = n.head /\ m.arrays = Only(n.head, x)
  BY NodeIs DEF Kept
<1>2. n.head \in DOMAIN n.arrays /\ n.head # NoHead /\ DOMAIN x = ArrayFields
  BY DEF Stored
<1> HIDE DEF m, x
<1>3. m.arrays = Only(m.head, x)
  BY <1>1
<1>4. DOMAIN m.arrays = {m.head} /\ m.arrays[m.head] = x
  BY <1>3, OnlyIs
<1>5. Stored(m)
  BY <1>1, <1>2, <1>3, StoredOnly
<1> QED
  BY <1>1, <1>4, <1>5 DEF m, x

\* u is t without the copies of some arrays.
Bereft(t, u, S) ==
    /\ DOMAIN u = Arrays
    /\ \A d \in Arrays : u[d] = IF d \in S THEN OnlyHead(t[d]) ELSE t[d]

\* Then u is a tree as t is.
Stripped(t, u, S) ==
    /\ TreeInv(u) /\ HasHead(u, Root)
    /\ \A d \in Arrays : Kept(t[d], u[d]) /\ u[d].head = t[d].head
    /\ \A d \in S : DOMAIN u[d].arrays = {u[d].head}
    /\ \A d \in Arrays : t[d].live => HeadArray(u, d) = HeadArray(t, d)

\* Only the head arrays of some live arrays are left.
LEMMA KeepHeadsTree ==
    ASSUME NEW t, TreeInv(t), HasHead(t, Root), NEW S \in SUBSET Arrays, NEW u, Bereft(t, u, S),
           \A d \in S : t[d].live
    PROVE  Stripped(t, u, S)
<1>1. ASSUME NEW d \in Arrays
      PROVE  /\ Kept(t[d], u[d]) /\ Stored(u[d]) /\ u[d].head = t[d].head
             /\ d \in S => DOMAIN u[d].arrays = {u[d].head}
             /\ t[d].live => DOMAIN u[d].arrays # {} /\ HeadArray(u, d) = HeadArray(t, d)
  <2> USE DEF Bereft
  <2>1. Node(t[d]) /\ Stored(t[d]) /\ (t[d].live => DOMAIN t[d].arrays # {})
    BY HeadIs DEF TreeInv, Headed, Shaped, Node
  <2>2. CASE d \in S
    <3> DEFINE n == t[d]
               m == u[d]
    <3>1. Node(n) /\ Stored(n) /\ DOMAIN n.arrays # {} /\ m = OnlyHead(n)
      BY <2>1, <2>2
    <3> HIDE DEF n, m
    <3>2. /\ Kept(n, m) /\ m.head = n.head /\ Stored(m)
          /\ DOMAIN m.arrays = {m.head} /\ m.arrays[m.head] = n.arrays[n.head]
      BY <3>1, OnlyHeadIs
    <3> QED
      BY <3>2 DEF n, m, HeadArray
  <2>3. CASE d \notin S
    BY <2>1, <2>3 DEF Kept, HeadArray
  <2> QED
    BY <2>2, <2>3
<1>2. Alike(t, u)
  <2>1. \A d \in Arrays : ~t[d].live => u[d] = Absent
    BY DEF TreeInv, Shaped, Bereft
  <2> QED
    BY <1>1, <2>1 DEF Alike, Kept, Node, Bereft
<1>3. \A d \in Arrays : t[d].live => SameHead(t, u, d)
  BY <1>1 DEF SameHead
<1>4. TreeInv(u) /\ HasHead(u, Root)
  BY <1>1, <1>2, <1>3, TrimmedTree
<1> QED
  BY <1>1, <1>4 DEF Stripped


\* The array that was asked for stays alone at its node.
LEMMA NewHeadTree ==
    ASSUME NEW t, TreeInv(t), HasHead(t, Root), NEW a \in Arrays, t[a].live
    PROVE  LET u == NewHead(t, a)
           IN  /\ TreeInv(u) /\ HasHead(u, Root) /\ DOMAIN u = Arrays /\ Standing(t, u)
               /\ \A d \in Arrays : /\ u[d].head = t[d].head
                                    /\ d # a => u[d].lazy = t[d].lazy /\ u[d].arrays = t[d].arrays
                                    /\ t[d].live => HeadArray(u, d).buf = HeadArray(t, d).buf
               /\ u[a].lazy = Nothing /\ DOMAIN u[a].arrays = {u[a].head}
<1> DEFINE n == t[a]
           h == HeadArray(t, a)
           x == [h EXCEPT !.atHead = TRUE]
           m == [n EXCEPT !.arrays = Only(n.head, x), !.lazy = Nothing]
           u == NewHead(t, a)
<1>1. DOMAIN t = Arrays /\ Node(n) /\ Stored(n) /\ n.head \in DOMAIN n.arrays /\ n.head # NoHead
  BY HeadIs DEF TreeInv, Headed, Shaped, Node, Stored
<1>2. DOMAIN h = ArrayFields
  BY <1>1 DEF Stored, HeadArray
<1>3. DOMAIN x = ArrayFields /\ x.buf = h.buf /\ x.base = h.base
  <2> HIDE DEF h
  <2> QED
    BY <1>2 DEF ArrayFields
<1>4. u = [t EXCEPT ![a] = m]
  BY <1>1 DEF NewHead
<1> HIDE DEF x, u, h
<1>5. /\ Node(m) /\ m.live = n.live /\ m.children = n.children /\ m.zeroing = n.zeroing
      /\ m.head = n.head /\ m.arrays = Only(n.head, x) /\ m.lazy = Nothing
  <2> HIDE DEF n
  <2> QED
    BY <1>1 DEF Node, NodeFields
<1> HIDE DEF m
<1>6. DOMAIN u = Arrays /\ u[a] = m /\ \A d \in Arrays : d # a => u[d] = t[d]
  BY <1>1, <1>4
<1>7. DOMAIN m.arrays = {m.head} /\ m.arrays[m.head] = x
  BY <1>5 DEF Only
<1>8. Stored(m)
  <2>1. m.arrays = Only(m.head, x) /\ m.head # NoHead
    BY <1>1, <1>5
  <2> QED
    BY <1>3, <2>1, StoredOnly
<1>9. Alike(t, u)
  <2>1. ASSUME NEW d \in Arrays
        PROVE  /\ DOMAIN u[d] = NodeFields /\ u[d].live = t[d].live /\ u[d].children = t[d].children
               /\ ~u[d].live => u[d] = Absent
    <3>1. CASE d = a
      BY <1>5, <1>6, <3>1 DEF Node
    <3>2. CASE d # a
      BY <1>6, <3>2 DEF TreeInv, Shaped
    <3> QED
      BY <3>1, <3>2
  <2> QED
    BY <1>6, <2>1 DEF Alike
<1>10. SameHead(t, u, a)
  <2>1. HeadArray(u, a) = x
    BY <1>6, <1>7 DEF HeadArray
  <2> QED
    BY <1>3, <1>5, <1>6, <1>7, <2>1 DEF SameHead, h
<1>11. ASSUME NEW d \in Arrays
       PROVE  Stored(u[d]) /\ (t[d].live => SameHead(t, u, d))
  <2>1. CASE d = a
    BY <1>6, <1>8, <1>10, <2>1
  <2>2. CASE d # a
    <3>1. Stored(t[d]) /\ (t[d].live => DOMAIN t[d].arrays # {})
      BY HeadIs DEF TreeInv, Headed
    <3> QED
      BY <1>6, <2>2, <3>1 DEF SameHead, HeadArray
  <2> QED
    BY <2>1, <2>2
<1>12. TreeInv(u) /\ HasHead(u, Root)
  BY <1>9, <1>11, TrimmedTree
<1>13. Standing(t, u)
  BY <1>5, <1>6 DEF Standing
<1>14. \A d \in Arrays : t[d].live => HeadArray(u, d).buf = HeadArray(t, d).buf
  BY <1>11 DEF SameHead
<1>15. \A d \in Arrays : /\ u[d].head = t[d].head
                         /\ d # a => u[d].lazy = t[d].lazy /\ u[d].arrays = t[d].arrays
  BY <1>5, <1>6
<1>16. u[a].lazy = Nothing /\ DOMAIN u[a].arrays = {u[a].head}
  BY <1>5, <1>6, <1>7
<1> QED
  BY <1>6, <1>12, <1>13, <1>14, <1>15, <1>16 DEF u

\* What cast asks of the key.
Castable(t, a, key, changed) ==
    /\ key \in DOMAIN t[a].arrays
    /\ a # Root => key = t[a].head
    /\ a = Root => Plain(key) /\ (~changed => key = t[Root].head)

\* w is t where another array of a is the head array.
Rekeyed(t, w, a, key) == w = [t EXCEPT ![a].head = key]

\* What cast makes of the tree t before the array is alone at its node.
Recasted(t, u, a, key) ==
    /\ TreeInv(u) /\ HasHead(u, Root) /\ Standing(t, u)
    /\ u[a].head = key /\ HeadArray(u, a).buf = t[a].arrays[key].buf
    /\ a # Root => HeadArray(u, Root).buf = HeadArray(t, Root).buf
    /\ \A d \in Arrays : /\ u[d].lazy = t[d].lazy \/ (a = Root /\ u[d].lazy = Nothing)
                         /\ t[d].live /\ d # a => DOMAIN u[d].arrays = {u[d].head}

\* Another array of the root as its head array.
LEMMA RekeyedRoot ==
    ASSUME NEW t, TreeInv(t), HasHead(t, Root), NEW key, Plain(key), key \in DOMAIN t[Root].arrays,
           NEW w, Rekeyed(t, w, Root, key)
    PROVE  /\ Shaped(w) /\ Uniform(w) /\ HasHead(w, Root) /\ RootHead(w) /\ Standing(t, w)
           /\ HeadArray(w, Root) = t[Root].arrays[key] /\ w[Root].head = key
           /\ \A d \in Arrays : Stored(w[d]) /\ w[d].lazy = t[d].lazy /\ (d # Root => w[d] = t[d])
<1> DEFINE n == t[Root]
           m == [n EXCEPT !.head = key]
<1>1. Root \in Arrays /\ DOMAIN t = Arrays /\ Node(n) /\ n.live /\ Stored(n) /\ RootHead(t)
      /\ n.head \in DOMAIN n.arrays
  BY TreeAssumption, HeadIs DEF TreeInv, Headed, Shaped, Node
<1>2. /\ Node(m) /\ m.live = n.live /\ m.children = n.children /\ m.zeroing = n.zeroing
      /\ m.head = key /\ m.arrays = n.arrays /\ m.lazy = n.lazy
  <2> HIDE DEF n
  <2> QED
    BY <1>1 DEF Node, NodeFields
<1> HIDE DEF m
<1>3. DOMAIN w = Arrays /\ w[Root] = m /\ \A d \in Arrays : d # Root => w[d] = t[d]
  BY <1>1 DEF m, Rekeyed
<1>4. key \in DOMAIN n.arrays /\ Plain(key) /\ key # NoHead
  BY PlainIs
<1>5. n.arrays[key].base = 0
  BY <1>1, <1>4 DEF Stored, RootHead, HeadArray
<1>6. Stored(m)
  <2>1. \A k \in DOMAIN m.arrays : k = m.head \/ Plain(k)
    BY <1>1, <1>2 DEF Stored, RootHead
  <2>2. \A k \in DOMAIN m.arrays : k # m.head => m.arrays[k].base = 0
    BY <1>1, <1>2 DEF Stored, RootHead, HeadArray
  <2> QED
    BY <1>1, <1>2, <1>4, <2>1, <2>2 DEF Stored
<1>7. HasHead(w, Root) /\ HeadArray(w, Root) = n.arrays[key]
  BY <1>2, <1>3, <1>4 DEF HasHead, HeadArray
<1>8. Alike(t, w)
  <2>1. \A d \in Arrays : ~w[d].live => w[d] = Absent
    BY <1>1, <1>2, <1>3 DEF TreeInv, Shaped
  <2> QED
    BY <1>1, <1>2, <1>3, <2>1 DEF Alike, Node, TreeInv, Shaped
<1>9. Shaped(w)
  BY <1>8, ShapeStays DEF TreeInv
<1>10. Uniform(w)
  BY <1>3, <1>7 DEF Uniform, HasHead, TreeInv, Headed
<1>11. RootHead(w)
  BY <1>2, <1>3, <1>4, <1>5, <1>7 DEF RootHead
<1>12. Standing(t, w) /\ \A d \in Arrays : w[d].lazy = t[d].lazy
  BY <1>2, <1>3 DEF Standing
<1>13. \A d \in Arrays : Stored(w[d])
  BY <1>3, <1>6 DEF TreeInv, Headed
<1> QED
  BY <1>2, <1>3, <1>7, <1>9, <1>10, <1>11, <1>12, <1>13

\* A root alone takes another head array.
LEMMA RecastLone ==
    ASSUME NEW t, TreeInv(t), HasHead(t, Root), ~HasFamily(t, Root), NEW key, NEW changed,
           Castable(t, Root, key, changed), NEW w, Rekeyed(t, w, Root, key)
    PROVE  Recasted(t, Recast(w, Root, changed), Root, key)
<1>1. /\ Shaped(w) /\ Uniform(w) /\ HasHead(w, Root) /\ RootHead(w) /\ Standing(t, w)
      /\ HeadArray(w, Root) = t[Root].arrays[key] /\ w[Root].head = key
      /\ \A d \in Arrays : Stored(w[d]) /\ w[d].lazy = t[d].lazy /\ (d # Root => w[d] = t[d])
  BY RekeyedRoot DEF Castable
<1>2. \A d \in Views : ~t[d].live /\ ~w[d].live
  BY <1>1, LoneRoot DEF TreeInv, Standing, Views
<1>3. TreeInv(w)
  BY <1>1, <1>2 DEF TreeInv, Headed
<1>4. Recast(w, Root, changed) = w
  BY <1>1, TreeAssumption DEF Recast, HasFamily, Standing
<1>5. \A d \in Arrays : t[d].live => d = Root
  BY <1>2 DEF Views
<1> QED
  BY <1>1, <1>3, <1>4, <1>5 DEF Recasted

\* The views of the root get arrays in the new head array's memory.
LEMMA RecastChanged ==
    ASSUME NEW t, TreeInv(t), HasHead(t, Root), HasFamily(t, Root), NEW key, Plain(key),
           key \in DOMAIN t[Root].arrays, NEW w, Rekeyed(t, w, Root, key)
    PROVE  LET u == CreateDescendants(DropArrays(w, Root), Root)
           IN  /\ TreeInv(u) /\ HasHead(u, Root) /\ Standing(t, u)
               /\ u[Root].head = key /\ HeadArray(u, Root).buf = t[Root].arrays[key].buf
               /\ \A d \in Arrays : /\ u[d].lazy = t[d].lazy \/ u[d].lazy = Nothing
                                    /\ t[d].live /\ d # Root => DOMAIN u[d].arrays = {u[d].head}
<1> DEFINE v == DropArrays(w, Root)
           u == CreateDescendants(v, Root)
<1>1. /\ Shaped(w) /\ Uniform(w) /\ HasHead(w, Root) /\ RootHead(w) /\ Standing(t, w)
      /\ HeadArray(w, Root) = t[Root].arrays[key] /\ w[Root].head = key
      /\ \A d \in Arrays : Stored(w[d]) /\ w[d].lazy = t[d].lazy /\ (d # Root => w[d] = t[d])
  BY RekeyedRoot
<1>2. Root \in Arrays /\ DOMAIN w = Arrays /\ \A d \in Arrays : Node(w[d])
  BY <1>1, TreeAssumption DEF Shaped, Node
<1>3. Reached(w, Root) = {d \in Views : w[d].live}
  BY <1>1, <1>2, ReachedIs, DescendantsIs
<1>4. /\ DOMAIN v = Arrays /\ v[Root] = w[Root]
      /\ \A d \in Views : v[d] = IF w[d].live THEN NoArray(w[d]) ELSE w[d]
  BY <1>2, <1>3, EachIs DEF Views
<1> HIDE DEF v
<1>5. ASSUME NEW d \in Views
      PROVE  /\ Node(v[d]) /\ v[d].live = w[d].live /\ v[d].children = w[d].children
             /\ v[d].zeroing = w[d].zeroing /\ (v[d].lazy = w[d].lazy \/ v[d].lazy = Nothing)
             /\ (w[d].live => DOMAIN v[d].arrays = {})
             /\ (~w[d].live => v[d] = w[d])
  <2>1. d \in Arrays /\ Node(w[d])
    BY <1>2 DEF Views
  <2>2. DOMAIN NoArrays = {}
    BY DEF NoArrays
  <2> DEFINE n == w[d]
             m == v[d]
  <2>3. Node(n) /\ m = IF n.live THEN NoArray(n) ELSE n
    BY <1>4, <2>1
  <2> HIDE DEF n, m
  <2>4. /\ Node(m) /\ m.live = n.live /\ m.children = n.children
        /\ m.zeroing = n.zeroing /\ (m.lazy = n.lazy \/ m.lazy = Nothing)
        /\ (n.live => DOMAIN m.arrays = {})
        /\ (~n.live => m = n)
    BY <2>2, <2>3, NodeIs
  <2> QED
    BY <2>4 DEF n, m
<1>6. Shaped(v)
  <2>1. Alike(w, v)
    <3>1. \A d \in Views : ~v[d].live => v[d] = Absent
      BY <1>1, <1>5 DEF Shaped, Views
    <3>2. v[Root].live
      BY <1>1, <1>4 DEF Shaped
    <3> QED
      BY <1>2, <1>4, <1>5, <3>1, <3>2 DEF Alike, Views, Node
  <2> QED
    BY <1>1, <2>1, ShapeStays
<1>7. \A d \in Arrays : Stored(v[d])
  <2>1. ASSUME NEW d \in Views
        PROVE  Stored(v[d])
    <3>1. CASE w[d].live
      <4>1. DOMAIN v[d].arrays = {}
        BY <1>5, <3>1
      <4> QED
        BY <4>1, FS_EmptySet DEF Stored
    <3>2. CASE ~w[d].live
      BY <1>1, <1>5, <3>2 DEF Views
    <3> QED
      BY <3>1, <3>2
  <2> QED
    BY <1>1, <1>4, <2>1 DEF Views
<1>8. HasHead(v, Root) /\ RootHead(v) /\ HeadArray(v, Root) = HeadArray(w, Root)
  BY <1>1, <1>4 DEF HasHead, RootHead, HeadArray
<1>9. \A d \in Views : v[d].live => ~HasHead(v, d)
  BY <1>5 DEF HasHead
<1>10. /\ TreeInv(u) /\ HasHead(u, Root) /\ DOMAIN u = Arrays
       /\ u[Root] = v[Root]
       /\ \A d \in Arrays : Kept(v[d], u[d])
       /\ \A d \in Views :
             IF v[d].live THEN u[d].arrays = Only(u[d].head, ArrayIn(HeadArray(v, Root).buf, Base(d)))
                          ELSE u[d] = v[d]
  BY <1>6, <1>7, <1>8, <1>9, CreatedTree
<1> HIDE DEF u
<1>12. Standing(t, u)
  <2>1. \A d \in Views : /\ u[d].live = w[d].live /\ u[d].children = w[d].children
                         /\ u[d].zeroing = w[d].zeroing
    BY <1>5, <1>10 DEF Kept, Views
  <2>2. u[Root] = w[Root]
    BY <1>4, <1>10
  <2> QED
    BY <1>1, <2>1, <2>2 DEF Standing, Views
<1>13. \A d \in Arrays : u[d].lazy = t[d].lazy \/ u[d].lazy = Nothing
  <2>1. \A d \in Views : u[d].lazy = w[d].lazy \/ u[d].lazy = Nothing
    BY <1>5, <1>10 DEF Kept, Views
  <2>2. u[Root] = w[Root]
    BY <1>4, <1>10
  <2> QED
    BY <1>1, <2>1, <2>2 DEF Views
<1>14. ASSUME NEW d \in Arrays, t[d].live, d # Root
       PROVE  DOMAIN u[d].arrays = {u[d].head}
  <2>1. d \in Views /\ v[d].live
    BY <1>1, <1>5, <1>14 DEF Views
  <2>2. u[d].arrays = Only(u[d].head, ArrayIn(HeadArray(v, Root).buf, Base(d)))
    BY <1>10, <2>1
  <2> QED
    BY <2>2 DEF Only
<1>15. u[Root].head = key /\ HeadArray(u, Root).buf = t[Root].arrays[key].buf
  BY <1>1, <1>4, <1>10 DEF HeadArray
<1> QED
  BY <1>10, <1>12, <1>13, <1>14, <1>15 DEF u, v

\* The head array stays what it is.
LEMMA RecastSame ==
    ASSUME NEW t, TreeInv(t), HasHead(t, Root), NEW a \in Arrays, t[a].live, HasFamily(t, a),
           NEW key, key = t[a].head, NEW changed, a # Root \/ ~changed,
           NEW w, Rekeyed(t, w, a, key)
    PROVE  Recasted(t, Recast(w, a, changed), a, key)
<1> DEFINE n == t[a]
           m == [n EXCEPT !.head = key]
<1>1. Root \in Arrays /\ t[Root].live /\ DOMAIN t = Arrays /\ Node(n)
  BY TreeAssumption DEF TreeInv, Shaped, Node
<1>2. /\ Node(m) /\ m.live = n.live /\ m.children = n.children /\ m.zeroing = n.zeroing
      /\ m.head = n.head /\ m.arrays = n.arrays /\ m.lazy = n.lazy
  <2>1. key = n.head
    OBVIOUS
  <2> HIDE DEF n
  <2> QED
    BY <1>1, <2>1 DEF Node, NodeFields
<1> HIDE DEF m
<1>3. DOMAIN w = Arrays /\ w[a] = m /\ \A d \in Arrays : d # a => w[d] = t[d]
  BY <1>1 DEF m, Rekeyed
<1>4. SameArrays(t, w) /\ Standing(t, w) /\ \A d \in Arrays : w[d].lazy = t[d].lazy
  <2>1. \A d \in Arrays : Node(t[d]) /\ (~t[d].live => t[d] = Absent)
    BY DEF TreeInv, Shaped, Node
  <2> QED
    BY <1>2, <1>3, <2>1 DEF SameArrays, Standing
<1>5. TreeInv(w) /\ HasHead(w, Root) /\ \A d \in Arrays : HeadArray(w, d) = HeadArray(t, d)
  BY <1>1, <1>4, SameTree
<1> DEFINE r == [w EXCEPT ![Root] = OnlyHead(@)]
           v == KeepHeads(r, Root)
<1>6. DOMAIN r = Arrays /\ r[Root] = OnlyHead(w[Root]) /\ \A d \in Arrays : d # Root => r[d] = w[d]
  BY <1>1, <1>3
<1>7. Recast(w, a, changed) = v
  <2>1. HasFamily(w, a)
    BY <1>2, <1>3 DEF HasFamily
  <2> QED
    BY <2>1 DEF Recast
<1>8. Kept(w[Root], r[Root])
  <2> DEFINE x == w[Root]
  <2>1. Node(x)
    BY <1>1, <1>4 DEF SameArrays
  <2> HIDE DEF x
  <2>2. Kept(x, OnlyHead(x))
    BY <2>1, NodeIs DEF Kept
  <2> QED
    BY <1>6, <2>2 DEF x
<1> HIDE DEF r
<1> DEFINE R == {Root}
<1>9. Bereft(w, r, R)
  BY <1>6 DEF Bereft
<1>10. /\ TreeInv(r) /\ HasHead(r, Root)
       /\ \A d \in Arrays : Kept(w[d], r[d]) /\ r[d].head = w[d].head
       /\ \A d \in R : DOMAIN r[d].arrays = {r[d].head}
       /\ \A d \in Arrays : w[d].live => HeadArray(r, d) = HeadArray(w, d)
  <2>1. R \in SUBSET Arrays /\ \A d \in R : w[d].live
    BY <1>1, <1>4 DEF SameArrays
  <2> HIDE DEF R
  <2>2. Stripped(w, r, R)
    BY ONLY <1>5, <1>9, <2>1, KeepHeadsTree
  <2> QED
    BY ONLY <2>2 DEF Stripped
<1>11. Reached(r, Root) = Descendants(r, Root)
  BY <1>1, <1>10, ReachedIs DEF TreeInv, Headed
<1>12. Descendants(r, Root) = {d \in Views : r[d].live}
  BY <1>1, <1>10, DescendantsIs DEF TreeInv
<1> DEFINE S == {d \in Views : r[d].live}
<1>13. Bereft(r, v, S)
  BY <1>6, <1>11, <1>12, EachIs DEF Bereft
<1> HIDE DEF v
<1>14. /\ TreeInv(v) /\ HasHead(v, Root)
       /\ \A d \in Arrays : Kept(r[d], v[d]) /\ v[d].head = r[d].head
       /\ \A d \in S : DOMAIN v[d].arrays = {v[d].head}
       /\ \A d \in Arrays : r[d].live => HeadArray(v, d) = HeadArray(r, d)
  <2>1. S \in SUBSET Arrays /\ \A d \in S : r[d].live
    BY DEF Views
  <2> HIDE DEF S
  <2>2. Stripped(r, v, S)
    BY ONLY <1>10, <1>13, <2>1, KeepHeadsTree
  <2> QED
    BY ONLY <2>2 DEF Stripped
<1>15. Standing(t, v) /\ \A d \in Arrays : v[d].lazy = t[d].lazy
  BY <1>4, <1>10, <1>14 DEF Standing, Kept
<1>16. \A d \in Arrays : t[d].live => DOMAIN v[d].arrays = {v[d].head}
  <2>1. v[Root] = r[Root]
    BY <1>1, <1>13 DEF Views, Bereft
  <2>2. \A d \in Arrays : t[d].live /\ d # Root => d \in S
    BY <1>4, <1>10 DEF Views, Kept, Standing
  <2> QED
    BY <1>10, <1>14, <2>1, <2>2
<1>17. \A d \in Arrays : t[d].live => HeadArray(v, d) = HeadArray(t, d)
  BY <1>4, <1>5, <1>10, <1>14 DEF Kept, Standing
<1>18. v[a].head = key /\ HeadArray(v, a).buf = t[a].arrays[key].buf
  <2>1. v[a].head = t[a].head
    BY <1>2, <1>3, <1>10, <1>14
  <2> QED
    BY <1>17, <2>1 DEF HeadArray
<1> QED
  BY <1>1, <1>7, <1>14, <1>15, <1>16, <1>17, <1>18 DEF Recasted

\* cast, before the array is alone at its node.
LEMMA RecastTree ==
    ASSUME NEW t, TreeInv(t), HasHead(t, Root), NEW a \in Arrays, t[a].live, NEW key,
           NEW changed \in BOOLEAN, Castable(t, a, key, changed), NEW w, Rekeyed(t, w, a, key)
    PROVE  Recasted(t, Recast(w, a, changed), a, key)
<1>1. CASE ~HasFamily(t, a)
  <2>1. a = Root
    BY <1>1 DEF HasFamily
  <2> QED
    BY <1>1, <2>1, RecastLone
<1>2. CASE HasFamily(t, a) /\ (a # Root \/ ~changed)
  <2>1. key = t[a].head
    BY <1>2 DEF Castable
  <2> QED
    BY <1>2, <2>1, RecastSame
<1>3. CASE HasFamily(t, a) /\ a = Root /\ changed
  <2> DEFINE u == CreateDescendants(DropArrays(w, Root), Root)
  <2>1. /\ TreeInv(u) /\ HasHead(u, Root) /\ Standing(t, u)
        /\ u[Root].head = key /\ HeadArray(u, Root).buf = t[Root].arrays[key].buf
        /\ \A d \in Arrays : /\ u[d].lazy = t[d].lazy \/ u[d].lazy = Nothing
                             /\ t[d].live /\ d # Root => DOMAIN u[d].arrays = {u[d].head}
    BY <1>3, RecastChanged DEF Castable
  <2>3. Recast(w, a, changed) = u
    <3>1. HasFamily(w, Root)
      BY <1>3, TreeAssumption, RekeyedRoot DEF Castable, HasFamily, Standing
    <3> QED
      BY <1>3, <3>1 DEF Recast
  <2> HIDE DEF u
  <2>2. Recasted(t, u, Root, key)
    BY <2>1 DEF Recasted
  <2> QED
    BY <1>3, <2>2, <2>3
<1> QED
  BY <1>1, <1>2, <1>3

\* u is what cast makes of t: of every array the head alone is left, and that of a is the one of
\* the key.
Casting(t, u, a, key) ==
    /\ TreeInv(u) /\ HasHead(u, Root)
    /\ u[a].head = key /\ HeadArray(u, a).buf = t[a].arrays[key].buf
    /\ a # Root => HeadArray(u, Root).buf = HeadArray(t, Root).buf
    /\ \A d \in Arrays : /\ u[d].live = t[d].live /\ u[d].children = t[d].children
                         /\ u[d].zeroing = IF Related(a, d) /\ t[d].live THEN FALSE ELSE t[d].zeroing
                         /\ u[d].lazy = t[d].lazy \/ ((a = Root \/ d = a) /\ u[d].lazy = Nothing)
                         /\ t[d].live => DOMAIN u[d].arrays = {u[d].head}
    /\ u[a].lazy = Nothing

\* cast after sync.
LEMMA CastTree ==
    ASSUME NEW s, State(s), TreeInv(s.tree), HasHead(s.tree, Root), NEW a \in Arrays, s.tree[a].live,
           NEW key, NEW changed \in BOOLEAN, Castable(s.tree, a, key, changed)
    PROVE  LET r == CastTo(s, a, key, changed)
           IN  State(r) /\ r.mem = s.mem /\ Casting(s.tree, r.tree, a, key)
<1> DEFINE t == s.tree
           w == [t EXCEPT ![a].head = key]
           v == Recast(w, a, changed)
           n == NewHead(v, a)
           S == Family(n, a) \cup Lineage[a]
           flag == FALSE
           u == Flagged(n, S, flag)
           r == CastTo(s, a, key, changed)
<1>1. State(r) /\ r.mem = s.mem /\ r.tree = u
  BY DEF CastTo, Zeroing, State
<1>2. Recasted(t, v, a, key)
  <2>1. Rekeyed(t, w, a, key)
    BY DEF Rekeyed
  <2> HIDE DEF w
  <2> QED
    BY <2>1, RecastTree
<1> HIDE DEF v, t, r
<1>3. v[a].live /\ TreeInv(v) /\ HasHead(v, Root) /\ Standing(t, v)
  BY <1>2 DEF Recasted, Standing, t
<1>4. /\ TreeInv(n) /\ HasHead(n, Root) /\ DOMAIN n = Arrays /\ Standing(v, n)
      /\ \A d \in Arrays : /\ n[d].head = v[d].head
                           /\ d # a => n[d].lazy = v[d].lazy /\ n[d].arrays = v[d].arrays
                           /\ v[d].live => HeadArray(n, d).buf = HeadArray(v, d).buf
      /\ n[a].lazy = Nothing /\ DOMAIN n[a].arrays = {n[a].head}
  BY <1>3, NewHeadTree
<1> HIDE DEF n
<1>5. \A d \in Arrays : n[d].live = t[d].live /\ n[d].children = t[d].children /\ n[d].zeroing = t[d].zeroing
  BY <1>3, <1>4 DEF Standing
<1>6. \A d : d \in S <=> d \in Arrays /\ n[d].live /\ Related(a, d)
  <2>1. n[a].live /\ Shaped(n)
    BY <1>4, <1>5 DEF TreeInv, t
  <2>2. /\ Family(n, a) = {d \in Arrays : a \in Lineage[d] /\ n[d].live}
        /\ Lineage[a] \subseteq {d \in Arrays : n[d].live}
    BY <2>1, FamilyIs
  <2> QED
    BY <2>2 DEF Related
<1> HIDE DEF S
<1>7. /\ SameArrays(n, u) /\ TreeInv(u)
      /\ \A d \in Arrays : /\ u[d].lazy = n[d].lazy
                           /\ u[d].zeroing = IF d \in S THEN FALSE ELSE n[d].zeroing
  <2>1. S \in SUBSET Arrays /\ \A d \in S : n[d].live
    BY <1>6
  <2> QED
    <3> HIDE DEF flag
    <3>1. /\ SameArrays(n, u) /\ TreeInv(u)
          /\ \A d \in Arrays : /\ u[d].lazy = n[d].lazy
                               /\ u[d].zeroing = IF d \in S THEN flag ELSE n[d].zeroing
      BY <1>4, <2>1, FlagTree
    <3> QED
      BY <3>1 DEF flag
<1> HIDE DEF u
<1>8. HasHead(u, Root) /\ \A d \in Arrays : HeadArray(u, d) = HeadArray(n, d)
  BY <1>4, <1>7, SameTree, TreeAssumption
<1>9. \A d \in Arrays : u[d].head = v[d].head /\ u[d].arrays = n[d].arrays /\ u[d].live = t[d].live
                        /\ u[d].children = t[d].children
  BY <1>4, <1>5, <1>7 DEF SameArrays
<1>10. \A d \in Arrays : u[d].zeroing = IF Related(a, d) /\ t[d].live THEN FALSE ELSE t[d].zeroing
  BY <1>5, <1>6, <1>7
<1>11. \A d \in Arrays : u[d].lazy = t[d].lazy \/ ((a = Root \/ d = a) /\ u[d].lazy = Nothing)
  <2>1. \A d \in Arrays : v[d].lazy = t[d].lazy \/ (a = Root /\ v[d].lazy = Nothing)
    BY <1>2 DEF Recasted
  <2>2. \A d \in Arrays : u[d].lazy = v[d].lazy \/ (d = a /\ u[d].lazy = Nothing)
    BY <1>4, <1>7
  <2> QED
    BY <2>1, <2>2
<1>12. \A d \in Arrays : t[d].live => DOMAIN u[d].arrays = {u[d].head}
  BY <1>2, <1>4, <1>9 DEF Recasted
<1>13. u[a].head = key /\ HeadArray(u, a).buf = t[a].arrays[key].buf
       /\ (a # Root => HeadArray(u, Root).buf = HeadArray(t, Root).buf)
  <2>1. v[Root].live /\ Root \in Arrays
    BY <1>3, TreeAssumption DEF TreeInv, Shaped
  <2> QED
    BY <1>2, <1>3, <1>4, <1>8, <1>9, <2>1 DEF Recasted
<1>14. Casting(t, u, a, key)
  BY <1>4, <1>7, <1>8, <1>9, <1>10, <1>11, <1>12, <1>13 DEF Casting
<1> QED
  BY <1>1, <1>14 DEF t, r

\* cast: sync finds the head array of a view, as cast is refused otherwise.
LEMMA CastedTree ==
    ASSUME NEW s, State(s), TreeInv(s.tree), NEW a \in Arrays, s.tree[a].live, NEW k \in Keys, NEW writeOnly,
           a # Root /\ HasHead(s.tree, Root) => s.tree[Root].head = Own(k)
    PROVE  LET y == Synced(s, a, k, writeOnly)
               key == KeyOf(y.tree, a, k)
               changed == key # s.tree[a].head
               r == Casted(s, a, k, writeOnly)
           IN  /\ r = CastTo(y, a, key, changed)
               /\ Castable(y.tree, a, key, changed)
               /\ a # Root => y.tree[Root].head = Own(k)
               /\ State(r) /\ r.mem = y.mem /\ Casting(y.tree, r.tree, a, key)
<1> DEFINE t == s.tree
           y == Synced(s, a, k, writeOnly)
           key == KeyOf(y.tree, a, k)
           changed == key # t[a].head
           r == Casted(s, a, k, writeOnly)
           k1 == Own(k)
<1>1. /\ State(y) /\ TreeInv(y.tree) /\ HasHead(y.tree, Root) /\ Standing(t, y.tree)
      /\ key \in DOMAIN y.tree[a].arrays
      /\ a = Root => key = k1
      /\ HasHead(t, Root) => y.tree[Root].head = t[Root].head
      /\ ~HasHead(t, Root) => y.tree[Root].head = k1
  <2> DEFINE old == KeyOf(Prepared(s, a, k, writeOnly).tree, a, k)
  <2>1. /\ State(y) /\ TreeInv(y.tree) /\ HasHead(y.tree, Root) /\ Standing(t, y.tree)
        /\ key = old /\ old \in DOMAIN y.tree[a].arrays
        /\ a = Root => old = k1
        /\ HasHead(t, Root) => y.tree[Root].head = t[Root].head
        /\ ~HasHead(t, Root) => y.tree[Root].head = k1
    BY SyncedTree
  <2> HIDE DEF old, key, y, t, k1
  <2> QED
    BY <2>1
<1>2. r = CastTo(y, a, key, changed)
  BY DEF Casted, CastAt
<1>3. y.tree[a].live
  BY <1>1 DEF Standing
<1> HIDE DEF y
<1>4. a # Root => y.tree[Root].head = k1 /\ key = y.tree[a].head
  <2>1. a # Root => y.tree[Root].head = Own(k)
    BY <1>1
  <2> QED
    BY <1>1, <1>3, <2>1, KeyIs DEF Own
<1>5. Plain(k1)
  BY DEF Plain, Own
<1>6. ASSUME a = Root, ~changed
      PROVE  key = y.tree[Root].head
  BY <1>1, <1>6
<1> HIDE DEF key, k1
<1>7. Castable(y.tree, a, key, changed)
  BY <1>1, <1>4, <1>5, <1>6 DEF Castable
<1>8. changed \in BOOLEAN
  OBVIOUS
<1> HIDE DEF changed
<1>9. LET q == CastTo(y, a, key, changed)
      IN  State(q) /\ q.mem = y.mem /\ Casting(y.tree, q.tree, a, key)
  BY <1>1, <1>3, <1>7, <1>8, CastTree
<1> HIDE DEF r
<1> QED
  BY <1>2, <1>4, <1>7, <1>9 DEF r, key, y, changed, k1

-----------------------------------------------------------------------------
(* zero and fill, and the tree. *)

\* u is what zero and fill make of t, before they leave their note.
Emptying(t, u, a) ==
    /\ TreeInv(u) /\ Standing(t, u)
    /\ \A d \in Arrays : u[d].lazy = IF d \in Family(t, a) THEN Nothing ELSE t[d].lazy
    /\ a = Root => ~HasHead(u, Root)
    /\ a # Root /\ ~HasHead(t, Root) => ~HasHead(u, Root)
    /\ a # Root /\ HasHead(t, Root) =>
          /\ HasHead(u, Root)
          /\ \A d \in Arrays : /\ u[d].head = t[d].head
                               /\ t[d].live => HeadArray(u, d) = HeadArray(t, d)
                               /\ IF t[d].live /\ Related(a, d) THEN DOMAIN u[d].arrays = {u[d].head}
                                                                ELSE u[d].arrays = t[d].arrays

\* The root loses its arrays and its views theirs.
LEMMA BaredRoot ==
    ASSUME NEW t, TreeInv(t)
    PROVE  LET u == Bared(t, Root)
           IN  /\ TreeInv(u) /\ Standing(t, u) /\ ~HasHead(u, Root)
               /\ \A d \in Arrays : u[d].lazy = t[d].lazy \/ (t[d].live /\ u[d].lazy = Nothing)
<1> DEFINE m == NoArray(t[Root])
           w == [t EXCEPT ![Root] = m]
           u == Bared(t, Root)
           S == {d \in Views : t[d].live}
<1>1. Root \in Arrays /\ DOMAIN t = Arrays /\ t[Root].live /\ \A d \in Arrays : Node(t[d])
  BY TreeAssumption DEF TreeInv, Shaped, Node
<1>2. u = DropArrays(w, Root)
  BY DEF Bared
<1>3. DOMAIN w = Arrays /\ w[Root] = m /\ \A d \in Arrays : d # Root => w[d] = t[d]
  BY <1>1
<1> DEFINE Lost(n, x) == /\ Node(x) /\ x.live = n.live /\ x.children = n.children
                         /\ x.zeroing = n.zeroing /\ x.lazy = Nothing /\ x.arrays = NoArrays
<1>4. \A d \in Arrays : Lost(t[d], NoArray(t[d]))
  <2>1. \A n : Node(n) => Lost(n, NoArray(n))
    BY NodeIs
  <2> QED
    BY <1>1, <2>1
<1>5. Lost(t[Root], m)
  BY <1>1, <1>4
<1> HIDE DEF m, w, u
<1>6. Shaped(w)
  <2>1. Alike(t, w)
    <3>1. \A d \in Arrays : ~w[d].live => w[d] = Absent
      BY <1>1, <1>3, <1>5 DEF TreeInv, Shaped
    <3> QED
      BY <1>1, <1>3, <1>5, <3>1 DEF Alike, Node
  <2> QED
    BY <2>1, ShapeStays DEF TreeInv
<1>7. \A d \in Views : d \in Arrays /\ w[d] = t[d] /\ (HasHead(w, d) <=> HasHead(t, d))
  BY <1>3 DEF Views, HasHead
<1>8. Reached(w, Root) = IF HasHead(t, Root) THEN S ELSE {}
  <2>1. \A d \in Views : w[d].live => (HasHead(w, d) <=> HasHead(t, Root))
    BY <1>7 DEF TreeInv, Headed, Uniform
  <2>2. Descendants(w, Root) = S
    BY <1>1, <1>6, <1>7, DescendantsIs
  <2> QED
    BY <1>1, <1>6, <2>1, <2>2, ReachedAll, ReachedNone
<1>9. DOMAIN u = Arrays /\ \A d \in Arrays : u[d] = IF d \in Reached(w, Root) THEN NoArray(w[d]) ELSE w[d]
  BY <1>2, <1>3, EachIs
<1>10. ASSUME NEW d \in Arrays, t[d].live
       PROVE  /\ Node(u[d]) /\ u[d].live = t[d].live /\ u[d].children = t[d].children
              /\ u[d].zeroing = t[d].zeroing /\ (u[d].lazy = t[d].lazy \/ u[d].lazy = Nothing)
              /\ DOMAIN u[d].arrays = {}
  <2>1. DOMAIN NoArrays = {}
    BY DEF NoArrays
  <2>2. CASE d = Root
    BY <1>3, <1>5, <1>8, <1>9, <2>1, <2>2 DEF Views
  <2>3. CASE d # Root /\ HasHead(t, Root)
    <3>1. d \in S /\ w[d] = t[d]
      BY <1>3, <1>10, <2>3 DEF Views
    <3>2. u[d] = NoArray(t[d])
      BY <1>8, <1>9, <2>3, <3>1
    <3> QED
      BY <1>4, <2>1, <3>2
  <2>4. CASE d # Root /\ ~HasHead(t, Root)
    <3>1. u[d] = t[d]
      BY <1>3, <1>8, <1>9, <2>4
    <3> QED
      BY <1>1, <1>10, <2>4, <3>1, HeadIs
  <2> QED
    BY <2>2, <2>3, <2>4
<1>11. \A d \in Arrays : ~t[d].live => u[d] = t[d] /\ t[d] = Absent
  <2>1. \A d \in Arrays : ~t[d].live => d # Root /\ d \notin S
    BY <1>1
  <2> QED
    BY <1>3, <1>8, <1>9, <2>1 DEF TreeInv, Shaped
<1>12. Shaped(u)
  <2>1. Alike(t, u)
    BY <1>1, <1>9, <1>10, <1>11 DEF Alike, Node
  <2> QED
    BY <2>1, ShapeStays DEF TreeInv
<1>13. \A d \in Arrays : DOMAIN u[d].arrays = {}
  <2>1. \A d \in Arrays : ~t[d].live => DOMAIN t[d].arrays = {}
    BY DeadIs DEF TreeInv
  <2> QED
    BY <1>10, <1>11, <2>1
<1>14. Headed(u) /\ ~HasHead(u, Root)
  <2>1. \A d \in Arrays : ~HasHead(u, d)
    BY <1>13 DEF HasHead
  <2>2. \A d \in Arrays : Stored(u[d])
    BY <1>13, FS_EmptySet DEF Stored
  <2> QED
    BY <1>1, <2>1, <2>2 DEF Headed, Uniform
<1>15. Standing(t, u)
  BY <1>10, <1>11 DEF Standing
<1>16. \A d \in Arrays : u[d].lazy = t[d].lazy \/ (t[d].live /\ u[d].lazy = Nothing)
  BY <1>10, <1>11
<1> QED
  BY <1>12, <1>14, <1>15, <1>16 DEF TreeInv, u

\* A view keeps the head array, and so do its ancestors and descendants.
LEMMA BaredView ==
    ASSUME NEW t, TreeInv(t), HasHead(t, Root), NEW a \in Views, t[a].live
    PROVE  LET u == Bared(t, a)
           IN  /\ TreeInv(u) /\ Standing(t, u) /\ HasHead(u, Root)
               /\ \A d \in Arrays :
                     /\ u[d].lazy = t[d].lazy
                     /\ u[d].head = t[d].head
                     /\ t[d].live => HeadArray(u, d) = HeadArray(t, d)
                     /\ IF t[d].live /\ Related(a, d) THEN DOMAIN u[d].arrays = {u[d].head}
                                                      ELSE u[d].arrays = t[d].arrays
<1> DEFINE L == Lineage[a]
           w == OnlyHeads(t, L)
           D == Descendants(t, a)
           u == Bared(t, a)
<1>1. a \in Arrays /\ a # Root /\ DOMAIN t = Arrays
  BY DEF Views, TreeInv, Shaped
<1>2. u = KeepHeads(w, a)
  <2>1. HasHead(t, a)
    BY <1>1 DEF TreeInv, Headed, Uniform
  <2> QED
    BY <1>1, <2>1 DEF Bared
<1>3. Bereft(t, w, L)
  BY <1>1, EachIs DEF Bereft
<1>4. L \in SUBSET Arrays /\ \A d \in L : t[d].live
  BY <1>1, LineageStep, AncestorsLive DEF TreeInv
<1> HIDE DEF w, L, u, D
<1>5. /\ TreeInv(w) /\ HasHead(w, Root)
      /\ \A d \in Arrays : Kept(t[d], w[d]) /\ w[d].head = t[d].head
      /\ \A d \in L : DOMAIN w[d].arrays = {w[d].head}
      /\ \A d \in Arrays : t[d].live => HeadArray(w, d) = HeadArray(t, d)
  <2>1. Stripped(t, w, L)
    BY <1>3, <1>4, KeepHeadsTree
  <2> QED
    BY ONLY <2>1 DEF Stripped
<1>6. D \in SUBSET Arrays /\ (\A d \in D : t[d].live) /\ \A d : d \in D <=> d \in Arrays /\ t[d].live /\ d # a /\ a \in Lineage[d]
  BY DEF D, Descendants, Live
<1>7. Reached(w, a) = D
  <2>1. Reached(w, a) = Descendants(w, a)
    BY <1>1, <1>5, ReachedIs DEF TreeInv, Headed
  <2>2. Descendants(w, a) = D
    BY <1>5 DEF Descendants, Live, D, Kept
  <2> QED
    BY <2>1, <2>2
<1>8. Bereft(w, u, D)
  <2>1. DOMAIN w = Arrays
    BY <1>5 DEF TreeInv, Shaped
  <2> QED
    BY <1>2, <1>7, <2>1, EachIs DEF Bereft
<1>9. \A d \in D : w[d].live
  BY <1>5, <1>6 DEF Kept
<1>10. /\ TreeInv(u) /\ HasHead(u, Root)
       /\ \A d \in Arrays : Kept(w[d], u[d]) /\ u[d].head = w[d].head
       /\ \A d \in D : DOMAIN u[d].arrays = {u[d].head}
       /\ \A d \in Arrays : w[d].live => HeadArray(u, d) = HeadArray(w, d)
  <2>1. D \in SUBSET Arrays
    BY <1>6
  <2>2. TreeInv(w) /\ HasHead(w, Root)
    BY <1>5
  <2>3. Stripped(w, u, D)
    BY ONLY <1>8, <1>9, <2>1, <2>2, KeepHeadsTree
  <2> QED
    BY ONLY <2>3 DEF Stripped
<1>11. \A d \in Arrays : Kept(t[d], u[d]) /\ u[d].head = t[d].head
                         /\ (t[d].live => HeadArray(u, d) = HeadArray(t, d))
  BY <1>5, <1>10 DEF Kept
<1>12. ASSUME NEW d \in Arrays
       PROVE  IF t[d].live /\ Related(a, d) THEN DOMAIN u[d].arrays = {u[d].head}
                                            ELSE u[d].arrays = t[d].arrays
  <2>1. CASE d \in D
    BY <1>6, <1>10, <2>1 DEF Related
  <2>2. CASE d \in L
    <3>1. d \notin D /\ t[d].live /\ Related(a, d)
      BY <1>1, <1>4, <1>6, <2>2, NoCycle DEF Related, L
    <3>2. u[d] = w[d]
      BY <1>8, <3>1 DEF Bereft
    <3> QED
      BY <1>5, <2>2, <3>1, <3>2
  <2>3. CASE d \notin D /\ d \notin L
    <3>1. u[d] = t[d]
      BY <1>3, <1>8, <2>3 DEF Bereft
    <3>2. ~(t[d].live /\ Related(a, d))
      BY <1>1, <1>6, <2>3, LineageStep DEF Related, L
    <3> QED
      BY <3>1, <3>2
  <2> QED
    BY <2>1, <2>2, <2>3
<1>13. Standing(t, u) /\ \A d \in Arrays : u[d].lazy = t[d].lazy
  BY <1>11 DEF Standing, Kept
<1> QED
  BY <1>10, <1>11, <1>12, <1>13 DEF u

\* A view that has no array, as the root has none.
LEMMA BaredNone ==
    ASSUME NEW t, TreeInv(t), ~HasHead(t, Root), NEW a \in Views, t[a].live
    PROVE  LET u == Bared(t, a)
           IN  TreeInv(u) /\ Standing(t, u) /\ ~HasHead(u, Root) /\ \A d \in Arrays : u[d].lazy = t[d].lazy
<1> DEFINE u == Bared(t, a)
<1>1. a \in Arrays /\ a # Root /\ DOMAIN t = Arrays /\ Root \in Arrays
  BY TreeAssumption DEF Views, TreeInv, Shaped
<1>2. ~HasHead(t, a)
  BY <1>1 DEF TreeInv, Headed, Uniform
<1>3. u = KeepHeads(t, a)
  BY <1>1, <1>2 DEF Bared
<1>4. Reached(t, a) = {}
  BY <1>1, ReachedIs DEF TreeInv, Headed
<1>5. DOMAIN u = Arrays /\ \A d \in Arrays : u[d] = t[d]
  BY <1>1, <1>3, <1>4, EachIs
<1> HIDE DEF u
<1>6. SameArrays(t, u) /\ Standing(t, u)
  BY <1>5 DEF SameArrays, Standing, TreeInv, Shaped, Node
<1>7. TreeInv(u) /\ ~HasHead(u, Root)
  BY <1>1, <1>6, SameTree
<1> QED
  BY <1>5, <1>6, <1>7 DEF u

\* The common part of zero and fill.
LEMMA EmptiedTree ==
    ASSUME NEW t, TreeInv(t), NEW a \in Arrays, t[a].live
    PROVE  Emptying(t, Emptied(t, a), a)
<1> DEFINE b == Bared(t, a)
           F == Family(t, a)
           u == ClearFlags(b, F)
<1>1. /\ TreeInv(b) /\ Standing(t, b)
      /\ \A d \in Arrays : b[d].lazy = t[d].lazy \/ (a = Root /\ t[d].live /\ b[d].lazy = Nothing)
      /\ (a = Root \/ ~HasHead(t, Root)) => ~HasHead(b, Root)
      /\ a # Root /\ HasHead(t, Root) =>
          /\ HasHead(b, Root)
          /\ \A d \in Arrays : /\ b[d].head = t[d].head
                               /\ t[d].live => HeadArray(b, d) = HeadArray(t, d)
                               /\ IF t[d].live /\ Related(a, d) THEN DOMAIN b[d].arrays = {b[d].head}
                                                                ELSE b[d].arrays = t[d].arrays
  <2>1. CASE a = Root
    <3> DEFINE c == Bared(t, Root)
    <3>1. /\ TreeInv(c) /\ Standing(t, c) /\ ~HasHead(c, Root)
          /\ \A d \in Arrays : c[d].lazy = t[d].lazy \/ (t[d].live /\ c[d].lazy = Nothing)
      BY BaredRoot
    <3> HIDE DEF c
    <3>2. b = c
      BY <2>1 DEF c
    <3> HIDE DEF b
    <3> QED
      BY <2>1, <3>1, <3>2
  <2>2. CASE a # Root /\ HasHead(t, Root)
    <3>1. a \in Views
      BY <2>2 DEF Views
    <3>2. /\ TreeInv(b) /\ Standing(t, b) /\ HasHead(b, Root)
          /\ \A d \in Arrays :
               /\ b[d].lazy = t[d].lazy
               /\ b[d].head = t[d].head
               /\ t[d].live => HeadArray(b, d) = HeadArray(t, d)
               /\ IF t[d].live /\ Related(a, d) THEN DOMAIN b[d].arrays = {b[d].head}
                                                ELSE b[d].arrays = t[d].arrays
      BY <2>2, <3>1, BaredView
    <3> HIDE DEF b
    <3> QED
      BY <2>2, <3>2
  <2>3. CASE a # Root /\ ~HasHead(t, Root)
    <3>1. a \in Views
      BY <2>3 DEF Views
    <3>2. TreeInv(b) /\ Standing(t, b) /\ ~HasHead(b, Root) /\ \A d \in Arrays : b[d].lazy = t[d].lazy
      BY <2>3, <3>1, BaredNone
    <3> HIDE DEF b
    <3> QED
      BY <2>3, <3>2
  <2> QED
    BY <2>1, <2>2, <2>3
<1>2. Emptied(t, a) = u
  BY DEF Emptied
<1> HIDE DEF b
<1>3. \A d : d \in F <=> d \in Arrays /\ t[d].live /\ a \in Lineage[d]
  BY FamilyIs DEF TreeInv
<1>4. a = Root => \A d \in Arrays : t[d].live => d \in F
  BY <1>3, RootAbove
<1>5. F \in SUBSET Arrays /\ \A d \in F : b[d].live
  BY <1>1, <1>3 DEF Standing
<1> HIDE DEF F
<1>6. /\ SameArrays(b, u) /\ Standing(b, u)
      /\ \A d \in Arrays : u[d].lazy = IF d \in F THEN Nothing ELSE b[d].lazy
  BY <1>1, <1>5, ClearTree
<1> HIDE DEF u
<1>7. TreeInv(u) /\ \A d \in Arrays : /\ HasHead(u, d) <=> HasHead(b, d)
                                      /\ HeadArray(u, d) = HeadArray(b, d)
  BY <1>1, <1>6, SameTree
<1>8. \A d \in Arrays : u[d].lazy = IF d \in F THEN Nothing ELSE t[d].lazy
  BY <1>1, <1>4, <1>6
<1>9. Standing(t, u)
  BY <1>1, <1>6 DEF Standing
<1>10. \A d \in Arrays : u[d].head = b[d].head /\ u[d].arrays = b[d].arrays
  BY <1>6 DEF SameArrays
<1>11. Emptying(t, u, a)
  BY <1>1, <1>7, <1>8, <1>9, <1>10, TreeAssumption DEF Emptying, F
<1> QED
  BY <1>2, <1>11

-----------------------------------------------------------------------------
(* The other operations and the tree. *)

\* u is t with a note of a.
Leaving(t, u, a, v) == u = [t EXCEPT ![a].lazy = v]

\* An array takes a note.
LEMMA NoteTree ==
    ASSUME NEW t, TreeInv(t), NEW a \in Arrays, t[a].live, NEW v, NEW u, Leaving(t, u, a, v)
    PROVE  /\ SameArrays(t, u) /\ Standing(t, u) /\ TreeInv(u)
           /\ \A d \in Arrays : u[d].lazy = IF d = a THEN v ELSE t[d].lazy
<1> DEFINE n == t[a]
           m == [n EXCEPT !.lazy = v]
<1>1. DOMAIN t = Arrays /\ Node(n) /\ \A d \in Arrays : Node(t[d]) /\ (~t[d].live => t[d] = Absent)
  BY DEF TreeInv, Shaped, Node
<1>2. /\ Node(m) /\ m.live = n.live /\ m.children = n.children /\ m.zeroing = n.zeroing
      /\ m.head = n.head /\ m.arrays = n.arrays /\ m.lazy = v
  <2> HIDE DEF n
  <2> QED
    BY <1>1 DEF Node, NodeFields
<1> HIDE DEF m
<1>3. DOMAIN u = Arrays /\ u[a] = m /\ \A d \in Arrays : d # a => u[d] = t[d]
  BY <1>1 DEF m, Leaving
<1>4. SameArrays(t, u) /\ Standing(t, u)
  BY ONLY <1>1, <1>2, <1>3, t[a].live DEF SameArrays, Standing
<1>5. \A d \in Arrays : u[d].lazy = IF d = a THEN v ELSE t[d].lazy
  BY ONLY <1>2, <1>3
<1> QED
  BY ONLY <1>4, <1>5, TreeInv(t), SameTree

\* u has the arrays of t in their places.
SamePlaces(t, u) ==
    /\ DOMAIN u = Arrays
    /\ \A d \in Arrays :
          /\ Kept(t[d], u[d]) /\ u[d].head = t[d].head /\ DOMAIN u[d].arrays = DOMAIN t[d].arrays
          /\ ~t[d].live => u[d] = t[d]
          /\ \A k \in DOMAIN u[d].arrays :
                /\ DOMAIN u[d].arrays[k] = ArrayFields
                /\ u[d].arrays[k].buf = t[d].arrays[k].buf /\ u[d].arrays[k].base = t[d].arrays[k].base

\* The shape of the tree has no part in what is as good as the head.
LEMMA PlacesTree ==
    ASSUME NEW t, TreeInv(t), HasHead(t, Root), NEW u, SamePlaces(t, u)
    PROVE  TreeInv(u) /\ HasHead(u, Root) /\ Standing(t, u)
<1>1. Alike(t, u)
  <2>1. \A d \in Arrays : ~t[d].live => u[d] = Absent
    BY DEF SamePlaces, TreeInv, Shaped
  <2> QED
    BY <2>1 DEF Alike, SamePlaces, Kept, Node
<1>2. ASSUME NEW d \in Arrays
      PROVE  Stored(u[d]) /\ (t[d].live => SameHead(t, u, d))
  <2>1. Stored(t[d]) /\ (t[d].live => DOMAIN t[d].arrays # {} /\ t[d].head \in DOMAIN t[d].arrays)
    BY HeadIs DEF TreeInv, Headed
  <2>2. Stored(u[d])
    BY <2>1 DEF Stored, SamePlaces
  <2>3. t[d].live => SameHead(t, u, d)
    BY <2>1 DEF SamePlaces, SameHead, HeadArray
  <2> QED
    BY <2>2, <2>3
<1>3. TreeInv(u) /\ HasHead(u, Root)
  BY <1>1, <1>2, TrimmedTree
<1>4. Standing(t, u)
  BY DEF SamePlaces, Standing, Kept
<1> QED
  BY <1>3, <1>4

\* An array is as good as the head.
LEMMA AtHeadTree ==
    ASSUME NEW t, TreeInv(t), HasHead(t, Root), NEW a \in Arrays, t[a].live, NEW key \in DOMAIN t[a].arrays,
           NEW u, u = [t EXCEPT ![a].arrays[key].atHead = TRUE]
    PROVE  /\ SamePlaces(t, u) /\ TreeInv(u) /\ HasHead(u, Root) /\ Standing(t, u)
           /\ \A d \in Arrays : \A k \in DOMAIN t[d].arrays : d # a \/ k # key => u[d].arrays[k] = t[d].arrays[k]
<1> DEFINE n == t[a]
           f == n.arrays
           x == f[key]
           y == [x EXCEPT !.atHead = TRUE]
           g == [f EXCEPT ![key] = y]
           m == [n EXCEPT !.arrays = g]
<1>1. DOMAIN t = Arrays /\ Node(n) /\ Stored(n)
      /\ \A d \in Arrays : Node(t[d]) /\ (~t[d].live => t[d] = Absent) /\ Stored(t[d])
  BY DEF TreeInv, Headed, Shaped, Node
<1>2. u = [t EXCEPT ![a] = m]
  BY <1>1
<1>3. DOMAIN x = ArrayFields /\ key \in DOMAIN f
  BY <1>1 DEF Stored
<1>4. DOMAIN y = ArrayFields /\ y.buf = x.buf /\ y.base = x.base
  <2> HIDE DEF x
  <2> QED
    BY <1>3 DEF ArrayFields
<1> HIDE DEF y
<1>5. DOMAIN g = DOMAIN f /\ g[key] = y /\ \A k \in DOMAIN f : k # key => g[k] = f[k]
  <2> HIDE DEF f
  <2> QED
    BY <1>3
<1> HIDE DEF g
<1>6. Kept(n, m) /\ m.head = n.head /\ m.arrays = g
  <2> HIDE DEF n
  <2> QED
    BY <1>1 DEF Node, NodeFields, Kept
<1> HIDE DEF m
<1>7. DOMAIN u = Arrays /\ u[a] = m /\ \A d \in Arrays : d # a => u[d] = t[d]
  BY ONLY <1>1, <1>2
<1>8. ASSUME NEW k \in DOMAIN m.arrays
      PROVE  DOMAIN m.arrays[k] = ArrayFields /\ m.arrays[k].buf = f[k].buf /\ m.arrays[k].base = f[k].base
  <2>1. CASE k = key
    BY ONLY <2>1, <1>4, <1>5, <1>6 DEF x
  <2>2. CASE k # key
    BY ONLY <2>2, <1>1, <1>5, <1>6, <1>8 DEF Stored
  <2> QED
    BY <2>1, <2>2
<1>9. \A d \in Arrays : Kept(t[d], t[d])
  BY ONLY <1>1 DEF Kept
<1>10. SamePlaces(t, u)
  BY ONLY <1>1, <1>5, <1>6, <1>7, <1>8, <1>9, t[a].live DEF SamePlaces, Stored
<1>11. TreeInv(u) /\ HasHead(u, Root) /\ Standing(t, u)
  BY ONLY <1>10, TreeInv(t), HasHead(t, Root), PlacesTree
<1>12. \A d \in Arrays : \A k \in DOMAIN t[d].arrays : d # a \/ k # key => u[d].arrays[k] = t[d].arrays[k]
  BY ONLY <1>5, <1>6, <1>7
<1> QED
  BY ONLY <1>10, <1>11, <1>12

\* A sequence without one of its elements.
LEMMA WithoutIs ==
    ASSUME NEW S, NEW s \in Seq(S), NEW x, x \in ToSet(s), \A i, j \in DOMAIN s : s[i] = s[j] => i = j
    PROVE  LET r == RemoveAt(s, PlaceOf(s, x))
           IN  /\ r \in Seq(S) /\ ToSet(r) = ToSet(s) \ {x}
               /\ \A i, j \in DOMAIN r : r[i] = r[j] => i = j
<1> DEFINE p == PlaceOf(s, x)
           n == Len(s)
           r == RemoveAt(s, p)
<1>1. p \in DOMAIN s /\ s[p] = x
  BY DEF PlaceOf, ToSet
<1>2. n \in Nat /\ DOMAIN s = 1 .. n /\ p \in 1 .. n
  BY <1>1
<1> HIDE DEF p
<1>3. r = SubSeq(s, 1, p - 1) \o SubSeq(s, p + 1, n)
  BY DEF RemoveAt
<1> DEFINE u == SubSeq(s, 1, p - 1)
           v == SubSeq(s, p + 1, n)
<1>4. u \in Seq(S) /\ Len(u) = p - 1 /\ \A i \in 1 .. p - 1 : u[i] = s[i]
  <2> DEFINE lo == 1
             hi == p - 1
  <2>1. lo \in Int /\ hi \in Int /\ \A i \in lo .. hi : s[i] \in S
    BY <1>2
  <2>2. lo = 1 /\ hi = p - 1 /\ hi - lo + 1 = p - 1 /\ (IF lo <= hi THEN hi - lo + 1 ELSE 0) = p - 1
    BY <1>2
  <2> HIDE DEF lo, hi
  <2>3. /\ SubSeq(s, lo, hi) \in Seq(S)
        /\ Len(SubSeq(s, lo, hi)) = IF lo <= hi THEN hi - lo + 1 ELSE 0
        /\ \A i \in 1 .. hi - lo + 1 : SubSeq(s, lo, hi)[i] = s[lo + i - 1]
    BY <2>1, SubSeqProperties
  <2>4. u = SubSeq(s, lo, hi)
    BY <2>2
  <2>5. \A i \in 1 .. p - 1 : lo + i - 1 = i
    BY <1>2, <2>2
  <2> QED
    BY <2>2, <2>3, <2>4, <2>5
<1>5. v \in Seq(S) /\ Len(v) = n - p /\ \A i \in 1 .. n - p : v[i] = s[p + i]
  <2> DEFINE lo == p + 1
  <2>1. lo \in Int /\ n \in Int /\ \A i \in lo .. n : s[i] \in S
    <3>1. \A i \in 1 .. n : s[i] \in S
      <4>1. \A i \in DOMAIN s : s[i] \in S
        OBVIOUS
      <4> QED
        BY <1>2, <4>1
    <3>2. lo \in Int /\ n \in Int /\ \A i \in lo .. n : i \in 1 .. n
      BY <1>2
    <3> QED
      BY <3>1, <3>2
  <2>2. n - lo + 1 = n - p /\ (IF lo <= n THEN n - lo + 1 ELSE 0) = n - p
    <3> HIDE DEF n
    <3>1. n \in Nat /\ p \in 1 .. n
      BY <1>2
    <3> QED
      BY ONLY <3>1
  <2>3. \A i \in 1 .. n - p : lo + i - 1 = p + i
    BY <1>2
  <2> HIDE DEF lo, n
  <2>4. /\ SubSeq(s, lo, n) \in Seq(S)
        /\ Len(SubSeq(s, lo, n)) = IF lo <= n THEN n - lo + 1 ELSE 0
        /\ \A i \in 1 .. n - lo + 1 : SubSeq(s, lo, n)[i] = s[lo + i - 1]
    BY <2>1, SubSeqProperties
  <2>5. v = SubSeq(s, lo, n)
    BY DEF lo
  <2> QED
    BY <2>2, <2>3, <2>4, <2>5
<1> HIDE DEF u, v, r
<1>6. r = u \o v
  BY <1>3 DEF u, v
<1>7. /\ r \in Seq(S) /\ Len(r) = n - 1 /\ DOMAIN r = 1 .. n - 1
      /\ \A i \in 1 .. n - 1 : r[i] = IF i <= p - 1 THEN u[i] ELSE v[i - (p - 1)]
  <2>1. /\ r \in Seq(S) /\ Len(r) = Len(u) + Len(v)
        /\ \A i \in 1 .. Len(u) + Len(v) : r[i] = IF i <= Len(u) THEN u[i] ELSE v[i - Len(u)]
    BY ONLY <1>4, <1>5, <1>6, ConcatProperties
  <2>2. Len(u) + Len(v) = n - 1
    BY <1>2, <1>4, <1>5
  <2>3. DOMAIN r = 1 .. Len(r)
    BY <2>1
  <2> QED
    BY <1>4, <2>1, <2>2, <2>3
<1>8. \A i \in 1 .. n - 1 : r[i] = IF i < p THEN s[i] ELSE s[i + 1]
  <2> TAKE i \in 1 .. n - 1
  <2>1. CASE i < p
    <3>1. i <= p - 1 /\ i \in 1 .. p - 1
      BY <1>2, <2>1
    <3> QED
      BY <1>4, <1>7, <2>1, <3>1
  <2>2. CASE ~(i < p)
    <3>1. ~(i <= p - 1) /\ i - (p - 1) \in 1 .. n - p /\ p + (i - (p - 1)) = i + 1
      BY <1>2, <2>2
    <3> QED
      BY <1>5, <1>7, <2>2, <3>1
  <2> QED
    BY <2>1, <2>2
<1> DEFINE e(i) == IF i < p THEN i ELSE i + 1
<1>9. \A i \in 1 .. n - 1 : e(i) \in 1 .. n /\ e(i) # p /\ r[i] = s[e(i)]
  BY <1>2, <1>8
<1>10. \A i, j \in 1 .. n - 1 : e(i) = e(j) => i = j
  BY <1>2
<1>11. \A k \in 1 .. n : k # p => \E i \in 1 .. n - 1 : e(i) = k
  <2> TAKE k \in 1 .. n
  <2>1. CASE k < p
    <3>1. k \in 1 .. n - 1 /\ e(k) = k
      BY <1>2, <2>1
    <3> QED
      BY <3>1
  <2>2. CASE k > p
    <3>1. k - 1 \in 1 .. n - 1 /\ e(k - 1) = k
      BY <1>2, <2>2
    <3> QED
      BY <3>1
  <2> QED
    BY <1>2, <2>1, <2>2
<1> HIDE DEF e
<1>12. \A i, j \in DOMAIN r : r[i] = r[j] => i = j
  BY <1>2, <1>7, <1>9, <1>10
<1>13. ToSet(r) = ToSet(s) \ {x}
  <2>1. \A i \in DOMAIN r : r[i] \in ToSet(s) \ {x}
    BY <1>1, <1>2, <1>7, <1>9 DEF ToSet
  <2>2. \A y \in ToSet(s) \ {x} : \E i \in DOMAIN r : r[i] = y
    <3> TAKE y \in ToSet(s) \ {x}
    <3>1. PICK k \in 1 .. n : s[k] = y
      BY <1>2 DEF ToSet
    <3>2. k # p
      BY <1>1, <3>1
    <3>3. PICK i \in 1 .. n - 1 : e(i) = k
      BY <1>11, <3>2
    <3> QED
      BY <1>7, <1>9, <3>1, <3>3
  <2> QED
    BY <2>1, <2>2 DEF ToSet
<1> QED
  BY <1>7, <1>12, <1>13 DEF r, p

\* And with one more.
LEMMA AppendedIs ==
    ASSUME NEW S, NEW s \in Seq(S), NEW x \in S, x \notin ToSet(s), \A i, j \in DOMAIN s : s[i] = s[j] => i = j
    PROVE  LET r == Append(s, x)
           IN  /\ r \in Seq(S) /\ ToSet(r) = ToSet(s) \cup {x}
               /\ \A i, j \in DOMAIN r : r[i] = r[j] => i = j
<1> DEFINE r == Append(s, x)
           n == Len(s)
<1>1. r \in Seq(S) /\ n \in Nat /\ DOMAIN s = 1 .. n /\ DOMAIN r = 1 .. n + 1
  OBVIOUS
<1>2. r[n + 1] = x /\ \A i \in 1 .. n : r[i] = s[i]
  OBVIOUS
<1> HIDE DEF r
<1>3. \A i \in 1 .. n : s[i] # x
  BY <1>1 DEF ToSet
<1>4. \A i, j \in DOMAIN r : r[i] = r[j] => i = j
  <2>1. \A i \in 1 .. n + 1 : i \in 1 .. n \/ i = n + 1
    BY <1>1
  <2> QED
    BY <1>1, <1>2, <1>3, <2>1
<1>5. ToSet(r) = ToSet(s) \cup {x}
  <2>1. \A i \in 1 .. n + 1 : i \in 1 .. n \/ i = n + 1
    BY <1>1
  <2>2. n + 1 \in 1 .. n + 1 /\ \A i \in 1 .. n : i \in 1 .. n + 1
    BY <1>1
  <2> QED
    BY <1>1, <1>2, <2>1, <2>2 DEF ToSet
<1> QED
  BY <1>1, <1>4, <1>5 DEF r


\* Nothing is changed in the tree but one array, and who has which children.
Others(t, u, a) ==
    \A d \in Arrays : d # a => /\ u[d].live = t[d].live /\ u[d].head = t[d].head
                              /\ u[d].arrays = t[d].arrays /\ u[d].lazy = t[d].lazy
                              /\ u[d].zeroing = t[d].zeroing

\* narrow and the end of a view, in the tree.
Narrowed(t, u, a) ==
    u = [t EXCEPT ![Parent[a]].children = Append(@, a),
                  ![a] = IF HasHead(t, Parent[a]) THEN FromParent(t[Parent[a]], New, a) ELSE New]
Released(t, u, a) ==
    u = [t EXCEPT ![Parent[a]].children = RemoveAt(@, PlaceOf(@, a)), ![a] = Absent]

\* A view is born.
LEMMA NarrowTree ==
    ASSUME NEW t, TreeInv(t), NEW a \in Views, ~t[a].live, t[Parent[a]].live,
           \A b \in Children(t, Parent[a]) : ~Overlap(a, b),
           NEW u, Narrowed(t, u, a)
    PROVE  /\ TreeInv(u) /\ (HasHead(u, Root) <=> HasHead(t, Root))
           /\ Others(t, u, a)
           /\ u[a].live /\ u[a].lazy = Nothing /\ u[a].zeroing = FALSE
           /\ IF HasHead(t, Root)
              THEN DOMAIN u[a].arrays = {u[a].head} /\ HeadArray(u, a).buf = HeadArray(t, Root).buf
              ELSE DOMAIN u[a].arrays = {}
<1> DEFINE p == Parent[a]
           n == IF HasHead(t, p) THEN FromParent(t[p], New, a) ELSE New
           s == t[p].children
           q == [t[p] EXCEPT !.children = Append(s, a)]
<1>1. /\ a \in Arrays /\ a # Root /\ p \in Arrays /\ a # p /\ DOMAIN t = Arrays
      /\ Root \in Arrays /\ \A d \in Arrays : Node(t[d])
  BY LineageStep, TreeAssumption DEF Views, TreeInv, Shaped, Node
<1>2. /\ Node(New) /\ New.live /\ New.children = << >> /\ New.lazy = Nothing /\ New.zeroing = FALSE
      /\ New.arrays = NoArrays /\ DOMAIN NoArrays = {}
  BY DEF New, Absent, Node, NodeFields, NoArrays
<1>3. s \in Seq(Arrays) /\ a \notin ToSet(s) /\ ToSet(s) = Children(t, p)
      /\ \A i, j \in DOMAIN s : s[i] = s[j] => i = j
  BY <1>1 DEF TreeInv, Shaped, Children
<1>4. /\ Append(s, a) \in Seq(Arrays) /\ ToSet(Append(s, a)) = ToSet(s) \cup {a}
      /\ \A i, j \in DOMAIN Append(s, a) : Append(s, a)[i] = Append(s, a)[j] => i = j
  <2> HIDE DEF s
  <2> QED
    BY <1>1, <1>3, AppendedIs
<1>5. /\ Node(q) /\ q.live = t[p].live /\ q.children = Append(s, a) /\ q.head = t[p].head
      /\ q.arrays = t[p].arrays /\ q.lazy = t[p].lazy /\ q.zeroing = t[p].zeroing
  <2> DEFINE x == t[p]
  <2>1. Node(x)
    BY <1>1
  <2> HIDE DEF x, s
  <2>2. LET y == [x EXCEPT !.children = Append(s, a)]
        IN  /\ Node(y) /\ y.live = x.live /\ y.children = Append(s, a) /\ y.head = x.head
            /\ y.arrays = x.arrays /\ y.lazy = x.lazy /\ y.zeroing = x.zeroing
    BY <2>1 DEF Node, NodeFields
  <2> QED
    BY <2>2 DEF x
<1>6. DOMAIN u = Arrays /\ u[p] = q /\ u[a] = n /\ \A d \in Arrays : d # a /\ d # p => u[d] = t[d]
  BY <1>1 DEF Narrowed
<1> HIDE DEF q, s, p, n
<1> DEFINE h == t[p].head
           x == HeadArray(t, p).buf
<1>7. /\ Node(n) /\ n.live /\ n.children = << >> /\ n.lazy = Nothing /\ n.zeroing = FALSE
      /\ IF HasHead(t, p) THEN n.head = Append(h, a) /\ n.arrays = Only(n.head, ArrayIn(x, Base(a)))
                          ELSE DOMAIN n.arrays = {}
  <2>1. CASE HasHead(t, p)
    <3>1. n = FromParent(t[p], New, a)
      BY <2>1 DEF n, p
    <3> DEFINE y == t[p]
               b == y.arrays[y.head].buf
    <3>2. /\ Node(n) /\ n.live = New.live /\ n.children = New.children
          /\ n.lazy = New.lazy /\ n.zeroing = New.zeroing
          /\ n.head = Append(y.head, a)
          /\ n.arrays = With(New.arrays, Append(y.head, a), ArrayIn(y.arrays[y.head].buf, BaseOf(a)))
      <4> DEFINE v == FromParent(y, New, a)
      <4> HIDE DEF y
      <4>1. n = v
        BY <3>1 DEF y
      <4>2. Node(New)
        BY <1>2
      <4>3. /\ Node(v) /\ v.live = New.live /\ v.children = New.children
            /\ v.lazy = New.lazy /\ v.zeroing = New.zeroing
            /\ v.head = Append(y.head, a)
            /\ v.arrays = With(New.arrays, Append(y.head, a), ArrayIn(y.arrays[y.head].buf, BaseOf(a)))
        BY ONLY <4>2, FromParentIs
      <4> HIDE DEF v
      <4> QED
        BY ONLY <4>1, <4>3
    <3>3. BaseOf(a) = Base(a)
      BY BaseIs
    <3>4. \A k, z : With(New.arrays, k, z) = Only(k, z)
      BY <1>2 DEF With, Only
    <3>5. n.arrays = Only(n.head, ArrayIn(b, Base(a)))
      <4> HIDE DEF y
      <4> QED
        BY ONLY <3>2, <3>3, <3>4 DEF b
    <3>6. b = x
      BY DEF HeadArray
    <3> HIDE DEF b
    <3> QED
      BY ONLY <1>2, <2>1, <3>2, <3>5, <3>6
  <2>2. CASE ~HasHead(t, p)
    <3>1. n = New
      BY <2>2 DEF n, p
    <3> QED
      BY ONLY <1>2, <2>2, <3>1
  <2> QED
    BY <2>1, <2>2
<1>8. \A d \in Arrays : d # a => /\ u[d].live = t[d].live /\ u[d].head = t[d].head
                                 /\ u[d].arrays = t[d].arrays /\ u[d].lazy = t[d].lazy
                                 /\ u[d].zeroing = t[d].zeroing
  BY <1>5, <1>6
<1>9. Shaped(u)
  <2>1. u[Root].live /\ t[p].live = TRUE
    <3>1. t[p].live \in BOOLEAN
      BY <1>1 DEF TreeInv, Shaped
    <3> QED
      BY <1>1, <1>8, <3>1 DEF TreeInv, Shaped, p
  <2>2. ASSUME NEW d \in Arrays
        PROVE  /\ DOMAIN u[d] = NodeFields /\ u[d].live \in BOOLEAN
               /\ ~u[d].live => u[d] = Absent
               /\ u[d].children \in Seq(Arrays)
               /\ \A i, j \in DOMAIN u[d].children : u[d].children[i] = u[d].children[j] => i = j
    <3>1. CASE d = a
      <4>1. << >> \in Seq(Arrays) /\ DOMAIN << >> = {}
        OBVIOUS
      <4> QED
        BY ONLY <1>6, <1>7, <3>1, <4>1 DEF Node
    <3>2. CASE d = p
      <4> DEFINE r == Append(s, a)
      <4>1. r \in Seq(Arrays) /\ \A i, j \in DOMAIN r : r[i] = r[j] => i = j
        BY ONLY <1>4
      <4>2. u[d] = q /\ q.children = r /\ DOMAIN q = NodeFields /\ q.live = TRUE
        BY ONLY <1>5, <1>6, <2>1, <3>2 DEF Node
      <4> HIDE DEF r
      <4> QED
        BY ONLY <4>1, <4>2
    <3>3. CASE d # a /\ d # p
      BY <1>6, <3>3 DEF TreeInv, Shaped
    <3> QED
      BY <3>1, <3>2, <3>3
  <2>3. \A d \in Views : u[d].live => u[Parent[d]].live
    <3> SUFFICES ASSUME NEW d \in Views, u[d].live
                 PROVE  u[Parent[d]].live
      OBVIOUS
    <3>1. d \in Arrays /\ Parent[d] \in Arrays
      BY LineageStep DEF Views
    <3>2. CASE d = a
      BY <1>1, <1>8, <2>1, <3>2 DEF p
    <3>3. CASE d # a
      <4>1. t[d].live /\ t[Parent[d]].live
        BY <1>8, <3>1, <3>3 DEF TreeInv, Shaped
      <4>2. Parent[d] # a
        BY <4>1
      <4> QED
        BY <1>8, <3>1, <4>1, <4>2
    <3> QED
      BY <3>2, <3>3
  <2>4. \A d \in Views : d \in Arrays /\ (u[d].live <=> t[d].live \/ d = a)
    BY <1>6, <1>7, <1>8 DEF Views
  <2>5. ASSUME NEW d \in Arrays
        PROVE  Children(u, d) = {c \in Views : u[c].live /\ Parent[c] = d}
    <3>1. Children(t, d) = {c \in Views : t[c].live /\ Parent[c] = d}
      BY DEF TreeInv, Shaped
    <3>2. CASE d = a
      <4>1. Children(u, d) = {}
        BY <1>6, <1>7, <3>2 DEF Children, ToSet
      <4>2. \A c \in Views : t[c].live => Parent[c] # a
        BY DEF TreeInv, Shaped
      <4>3. Parent[a] # a
        BY <1>1 DEF p
      <4> QED
        BY <2>4, <3>2, <4>1, <4>2, <4>3
    <3>3. CASE d = p
      <4>1. Children(u, d) = Children(t, d) \cup {a}
        BY <1>3, <1>4, <1>5, <1>6, <3>3 DEF Children
      <4> QED
        BY <2>4, <3>1, <3>3, <4>1 DEF p
    <3>4. CASE d # a /\ d # p
      <4>1. Children(u, d) = Children(t, d)
        BY <1>6, <3>4 DEF Children
      <4> QED
        BY <2>4, <3>1, <3>4, <4>1 DEF p
    <3> QED
      BY <3>2, <3>3, <3>4
  <2>6. \A c, d \in Views : u[c].live /\ u[d].live /\ c # d /\ Parent[c] = Parent[d] => ~Overlap(c, d)
    <3> SUFFICES ASSUME NEW c \in Views, NEW d \in Views, u[c].live, u[d].live, c # d, Parent[c] = Parent[d]
                 PROVE  ~Overlap(c, d)
      OBVIOUS
    <3>1. CASE c # a /\ d # a
      BY <2>4, <3>1 DEF TreeInv, Shaped
    <3>2. \A e \in Views : t[e].live /\ Parent[e] = p => ~Overlap(a, e)
      BY <1>1 DEF TreeInv, Shaped, p
    <3>3. \A e : Overlap(e, a) <=> Overlap(a, e)
      BY DEF Overlap
    <3> QED
      BY <2>4, <3>1, <3>2, <3>3 DEF p
  <2> QED
    BY ONLY <1>6, <2>1, <2>2, <2>3, <2>5, <2>6 DEF Shaped
<1>10. HasHead(t, p) <=> HasHead(t, Root)
  BY <1>1 DEF TreeInv, Headed, Uniform, p
<1>11. \A d \in Arrays : d # a => /\ HasHead(u, d) <=> HasHead(t, d)
                                  /\ HeadArray(u, d) = HeadArray(t, d)
  BY <1>8 DEF HasHead, HeadArray
<1>12. /\ Stored(n) /\ (HasHead(u, a) <=> HasHead(t, Root))
       /\ HasHead(t, Root) => /\ DOMAIN n.arrays = {n.head}
                              /\ HeadArray(u, a).buf = HeadArray(t, Root).buf /\ HeadArray(u, a).base = Base(a)
                              /\ n.head = Append(h, a)
  <2>1. CASE HasHead(t, Root)
    <3> DEFINE y == ArrayIn(x, Base(a))
    <3>1. DOMAIN y = ArrayFields /\ y.buf = x /\ y.base = Base(a)
      <4> HIDE DEF x
      <4> QED
        BY DEF ArrayIn, ArrayFields
    <3> HIDE DEF y
    <3>2. n.arrays = Only(n.head, y) /\ n.head = Append(h, a)
      BY <1>7, <1>10, <2>1 DEF y
    <3>3. n.head # NoHead
      <4>1. h \in Seq(Keys \cup Arrays)
        BY <1>1, <2>1, PathIs DEF p
      <4> HIDE DEF h
      <4>2. Append(h, a) # << >>
        BY <1>1, <4>1
      <4> QED
        BY <3>2, <4>2 DEF NoHead
    <3>4. Stored(n)
      BY <3>1, <3>2, <3>3, StoredOnly
    <3>5. DOMAIN n.arrays = {n.head} /\ n.arrays[n.head] = y
      BY <3>2 DEF Only
    <3>6. HasHead(u, a) /\ HeadArray(u, a) = y
      BY <1>6, <3>3, <3>5 DEF HasHead, HeadArray
    <3>7. x = HeadArray(t, Root).buf
      <4>1. CASE p = Root
        BY <4>1
      <4>2. CASE p # Root
        BY <1>1, <2>1, <4>2 DEF TreeInv, Headed, InPlace, Views, p
      <4> QED
        BY <4>1, <4>2
    <3> QED
      BY <2>1, <3>1, <3>2, <3>4, <3>5, <3>6, <3>7
  <2>2. CASE ~HasHead(t, Root)
    <3>1. DOMAIN n.arrays = {}
      BY <1>7, <1>10, <2>2
    <3> QED
      BY <1>6, <2>2, <3>1, FS_EmptySet DEF Stored, HasHead
  <2> QED
    BY <2>1, <2>2
<1>13. Headed(u)
  <2>1. \A d \in Arrays : Stored(u[d])
    BY ONLY <1>6, <1>8, <1>12, TreeInv(t) DEF TreeInv, Headed, Stored
  <2>2. Uniform(u)
    BY <1>1, <1>8, <1>11, <1>12 DEF TreeInv, Headed, Uniform
  <2>3. ASSUME HasHead(u, Root)
        PROVE  RootHead(u) /\ \A d \in Views : u[d].live => InPlace(u, d)
    <3>1. HasHead(t, Root) /\ HeadArray(u, Root) = HeadArray(t, Root) /\ u[Root].head = t[Root].head
      BY <1>1, <1>8, <1>11, <2>3
    <3>2. RootHead(u)
      BY <3>1 DEF TreeInv, Headed, RootHead
    <3>3. ASSUME NEW d \in Views, u[d].live
          PROVE  InPlace(u, d)
      <4>1. d \in Arrays /\ Parent[d] \in Arrays
        BY LineageStep DEF Views
      <4>2. CASE d = a
        <5>1. u[p].head = h
          BY <1>1, <1>8
        <5> QED
          BY <1>6, <1>12, <3>1, <4>2, <5>1 DEF InPlace, p
      <4>3. CASE d # a
        <5>1. t[d].live /\ Parent[d] # a
          BY <1>8, <3>3, <4>1, <4>3 DEF TreeInv, Shaped
        <5>2. InPlace(t, d)
          BY <3>1, <3>3, <5>1 DEF TreeInv, Headed
        <5> QED
          BY <1>8, <1>11, <3>1, <4>1, <4>3, <5>1, <5>2 DEF InPlace
      <4> QED
        BY <4>2, <4>3
    <3> QED
      BY <3>2, <3>3
  <2> QED
    BY <2>1, <2>2, <2>3 DEF Headed
<1>14. HasHead(u, Root) <=> HasHead(t, Root)
  BY <1>1, <1>11
<1>15. ~HasHead(t, Root) => DOMAIN n.arrays = {}
  BY <1>7, <1>10
<1> QED
  BY <1>6, <1>7, <1>8, <1>9, <1>12, <1>13, <1>14, <1>15 DEF TreeInv, Others


\* A view dies that has no views of its own.
LEMMA ReleaseTree ==
    ASSUME NEW t, TreeInv(t), NEW a \in Views, t[a].live, t[a].children = << >>,
           NEW u, Released(t, u, a)
    PROVE  /\ TreeInv(u) /\ (HasHead(u, Root) <=> HasHead(t, Root))
           /\ Others(t, u, a)
           /\ u[a] = Absent /\ ~u[a].live
<1> DEFINE p == Parent[a]
           s == t[p].children
           r == RemoveAt(s, PlaceOf(s, a))
           q == [t[p] EXCEPT !.children = r]
<1>1. /\ a \in Arrays /\ a # Root /\ p \in Arrays /\ a # p /\ DOMAIN t = Arrays
      /\ Root \in Arrays /\ \A d \in Arrays : Node(t[d])
  BY LineageStep, TreeAssumption DEF Views, TreeInv, Shaped, Node
<1>2. Node(Absent) /\ Absent.live = FALSE /\ Absent.children = << >> /\ DOMAIN Absent.arrays = {}
  BY DEF Absent, Node, NodeFields, NoArrays
<1>3. s \in Seq(Arrays) /\ a \in ToSet(s) /\ ToSet(s) = Children(t, p)
      /\ \A i, j \in DOMAIN s : s[i] = s[j] => i = j
  BY <1>1 DEF TreeInv, Shaped, Children
<1>4. /\ r \in Seq(Arrays) /\ ToSet(r) = ToSet(s) \ {a}
      /\ \A i, j \in DOMAIN r : r[i] = r[j] => i = j
  <2> HIDE DEF s
  <2> QED
    BY <1>3, WithoutIs
<1> HIDE DEF r
<1>5. /\ Node(q) /\ q.live = t[p].live /\ q.children = r /\ q.head = t[p].head
      /\ q.arrays = t[p].arrays /\ q.lazy = t[p].lazy /\ q.zeroing = t[p].zeroing
  <2> DEFINE x == t[p]
  <2>1. Node(x)
    BY <1>1
  <2> HIDE DEF x, s
  <2>2. LET y == [x EXCEPT !.children = r]
        IN  /\ Node(y) /\ y.live = x.live /\ y.children = r /\ y.head = x.head
            /\ y.arrays = x.arrays /\ y.lazy = x.lazy /\ y.zeroing = x.zeroing
    BY <2>1 DEF Node, NodeFields
  <2> QED
    BY <2>2 DEF x
<1>6. DOMAIN u = Arrays /\ u[p] = q /\ u[a] = Absent /\ \A d \in Arrays : d # a /\ d # p => u[d] = t[d]
  BY <1>1 DEF r, Released
<1> HIDE DEF q, s, p
<1>7. \A d \in Arrays : d # a => /\ u[d].live = t[d].live /\ u[d].head = t[d].head
                                 /\ u[d].arrays = t[d].arrays /\ u[d].lazy = t[d].lazy
                                 /\ u[d].zeroing = t[d].zeroing
  BY ONLY <1>5, <1>6
<1>8. \A d \in Views : t[d].live => Parent[d] # a
  <2>1. Children(t, a) = {}
    BY DEF Children, ToSet
  <2> QED
    BY <1>1, <2>1 DEF TreeInv, Shaped
<1>9. Shaped(u)
  <2>1. u[Root].live /\ t[p].live = TRUE
    <3>1. t[p].live \in BOOLEAN /\ t[p].live
      BY <1>1 DEF TreeInv, Shaped, p
    <3> QED
      BY <1>1, <1>7, <3>1 DEF TreeInv, Shaped
  <2>2. ASSUME NEW d \in Arrays
        PROVE  /\ DOMAIN u[d] = NodeFields /\ u[d].live \in BOOLEAN
               /\ ~u[d].live => u[d] = Absent
               /\ u[d].children \in Seq(Arrays)
               /\ \A i, j \in DOMAIN u[d].children : u[d].children[i] = u[d].children[j] => i = j
    <3>1. CASE d = a
      <4>1. << >> \in Seq(Arrays) /\ DOMAIN << >> = {}
        OBVIOUS
      <4> QED
        BY ONLY <1>2, <1>6, <3>1, <4>1 DEF Node
    <3>2. CASE d = p
      <4>1. u[d] = q /\ q.children = r /\ DOMAIN q = NodeFields /\ q.live = TRUE
        BY ONLY <1>5, <1>6, <2>1, <3>2 DEF Node
      <4> QED
        BY ONLY <1>4, <4>1
    <3>3. CASE d # a /\ d # p
      BY ONLY <1>6, <3>3, TreeInv(t) DEF TreeInv, Shaped
    <3> QED
      BY <3>1, <3>2, <3>3
  <2>3. \A d \in Views : d \in Arrays /\ Parent[d] \in Arrays /\ (u[d].live <=> t[d].live /\ d # a)
    BY <1>2, <1>6, <1>7, LineageStep DEF Views
  <2>4. \A d \in Views : u[d].live => u[Parent[d]].live
    <3> SUFFICES ASSUME NEW d \in Views, u[d].live
                 PROVE  u[Parent[d]].live
      OBVIOUS
    <3>1. t[d].live /\ t[Parent[d]].live /\ Parent[d] # a
      BY <1>8, <2>3 DEF TreeInv, Shaped
    <3> QED
      BY ONLY <1>7, <2>3, <3>1
  <2>5. ASSUME NEW d \in Arrays
        PROVE  Children(u, d) = {c \in Views : u[c].live /\ Parent[c] = d}
    <3>1. Children(t, d) = {c \in Views : t[c].live /\ Parent[c] = d}
      BY DEF TreeInv, Shaped
    <3>2. CASE d = a
      <4>1. Children(u, d) = {}
        BY <1>2, <1>6, <3>2 DEF Children, ToSet
      <4> QED
        BY <1>8, <2>3, <3>2, <4>1
    <3>3. CASE d = p
      <4>1. Children(u, d) = Children(t, d) \ {a}
        BY <1>3, <1>4, <1>5, <1>6, <3>3 DEF Children
      <4> QED
        BY <2>3, <3>1, <4>1
    <3>4. CASE d # a /\ d # p
      <4>1. Children(u, d) = Children(t, d)
        BY <1>6, <3>4 DEF Children
      <4> QED
        BY <2>3, <3>1, <3>4, <4>1 DEF p
    <3> QED
      BY <3>2, <3>3, <3>4
  <2>6. \A c, d \in Views : u[c].live /\ u[d].live /\ c # d /\ Parent[c] = Parent[d] => ~Overlap(c, d)
    BY <2>3 DEF TreeInv, Shaped
  <2> QED
    BY ONLY <1>6, <2>1, <2>2, <2>4, <2>5, <2>6 DEF Shaped
<1>10. \A d \in Arrays : d # a => /\ HasHead(u, d) <=> HasHead(t, d)
                                  /\ HeadArray(u, d) = HeadArray(t, d)
  BY ONLY <1>7 DEF HasHead, HeadArray
<1>11. Headed(u)
  <2>1. \A d \in Arrays : Stored(u[d])
    <3>1. Stored(u[a])
      BY ONLY <1>2, <1>6, FS_EmptySet DEF Stored
    <3> QED
      BY ONLY <1>7, <3>1, TreeInv(t) DEF TreeInv, Headed, Stored
  <2>2. Uniform(u)
    BY ONLY <1>1, <1>2, <1>6, <1>7, <1>10, TreeInv(t) DEF TreeInv, Headed, Uniform
  <2>3. ASSUME HasHead(u, Root)
        PROVE  RootHead(u) /\ \A d \in Views : u[d].live => InPlace(u, d)
    <3>1. HasHead(t, Root) /\ HeadArray(u, Root) = HeadArray(t, Root) /\ u[Root].head = t[Root].head
      BY <1>1, <1>7, <1>10, <2>3
    <3>2. RootHead(u)
      BY <3>1 DEF TreeInv, Headed, RootHead
    <3>3. ASSUME NEW d \in Views, u[d].live
          PROVE  InPlace(u, d)
      <4>1. d \in Arrays /\ Parent[d] \in Arrays /\ d # a
        BY <1>2, <1>6, <3>3, LineageStep DEF Views
      <4>2. t[d].live /\ Parent[d] # a
        BY <1>7, <1>8, <3>3, <4>1
      <4>3. InPlace(t, d)
        BY <3>1, <3>3, <4>2 DEF TreeInv, Headed
      <4> QED
        BY <1>7, <1>10, <3>1, <4>1, <4>2, <4>3 DEF InPlace
    <3> QED
      BY <3>2, <3>3
  <2> QED
    BY <2>1, <2>2, <2>3 DEF Headed
<1> QED
  BY <1>1, <1>2, <1>6, <1>7, <1>9, <1>10, <1>11 DEF TreeInv, Others

\* A root alone is cleared.
LEMMA ClearedTree ==
    ASSUME NEW t, TreeInv(t), ~HasFamily(t, Root), NEW u, u = [t EXCEPT ![Root] = NoArray(@)]
    PROVE  /\ TreeInv(u) /\ ~HasHead(u, Root) /\ Standing(t, u)
           /\ u[Root].lazy = Nothing
           /\ \A d \in Views : ~t[d].live /\ u[d] = t[d]
<1> DEFINE n == t[Root]
           m == NoArray(n)
<1>1. Root \in Arrays /\ DOMAIN t = Arrays /\ Node(n) /\ n.live /\ \A d \in Arrays : Node(t[d])
  BY TreeAssumption DEF TreeInv, Shaped, Node
<1>2. /\ Node(m) /\ m.live = n.live /\ m.children = n.children /\ m.zeroing = n.zeroing
      /\ m.lazy = Nothing /\ DOMAIN m.arrays = {}
  <2> HIDE DEF n
  <2>1. DOMAIN NoArrays = {}
    BY DEF NoArrays
  <2> QED
    BY <1>1, <2>1, NodeIs
<1>3. DOMAIN u = Arrays /\ u[Root] = m /\ \A d \in Arrays : d # Root => u[d] = t[d]
  BY <1>1
<1> HIDE DEF m
<1>4. \A d \in Views : d \in Arrays /\ ~t[d].live /\ u[d] = t[d]
  BY <1>3, LoneRoot DEF TreeInv, Views
<1>5. Alike(t, u)
  <2>1. \A d \in Arrays : ~u[d].live => u[d] = Absent
    BY <1>1, <1>2, <1>3 DEF TreeInv, Shaped
  <2> QED
    BY ONLY <1>1, <1>2, <1>3, <2>1 DEF Alike, Node
<1>6. Shaped(u)
  BY ONLY <1>5, TreeInv(t), ShapeStays DEF TreeInv
<1>7. \A d \in Arrays : DOMAIN u[d].arrays = {} /\ ~HasHead(u, d)
  <2>1. \A d \in Arrays : DOMAIN u[d].arrays = {}
    BY <1>2, <1>3, <1>4, DeadIs DEF TreeInv, Views
  <2> QED
    BY <2>1 DEF HasHead
<1>8. Headed(u)
  <2>1. \A d \in Arrays : Stored(u[d])
    BY <1>7, FS_EmptySet DEF Stored
  <2> QED
    BY <1>1, <1>7, <2>1 DEF Headed, Uniform
<1>9. Standing(t, u)
  BY ONLY <1>2, <1>3 DEF Standing
<1> QED
  BY <1>1, <1>2, <1>3, <1>4, <1>6, <1>7, <1>8, <1>9 DEF TreeInv


-----------------------------------------------------------------------------
(* The steps and the tree. *)

\* The next state.
LEMMA BecomeIs ==
    ASSUME NEW s, Become(s)
    PROVE  tree' = s.tree /\ mem' = Restrict(s.mem, UsedBufs(s.tree))
BY DEF Become

\* The state there is.
LEMMA NowIs ==
    State(Now) /\ Now.tree = tree /\ Now.mem = mem
BY DEF State, Now

\* What sync returns for reading, and what cast does.
ReadState(a, k) == Synced(Now, a, k, FALSE)
CastState(a, k, writeOnly) == Casted(Now, a, k, writeOnly)

\* get.
LEMMA GetTree ==
    ASSUME TreeInv(tree), NEW a \in Arrays, NEW k \in Keys, Live(tree, a)
    PROVE  LET y == ReadState(a, k)
               key == KeyOf(y.tree, a, k)
               r == AtHead(y, a, k)
           IN  /\ State(y) /\ TreeInv(y.tree) /\ HasHead(y.tree, Root) /\ Standing(tree, y.tree)
               /\ key \in DOMAIN y.tree[a].arrays
               /\ State(r) /\ r.mem = y.mem /\ r.tree = [y.tree EXCEPT ![a].arrays[key].atHead = TRUE]
               /\ SamePlaces(y.tree, r.tree) /\ TreeInv(r.tree) /\ HasHead(r.tree, Root) /\ Standing(tree, r.tree)
<1> DEFINE w == FALSE
           s == Now
           y == ReadState(a, k)
           key == KeyOf(y.tree, a, k)
           r == AtHead(y, a, k)
           u == [y.tree EXCEPT ![a].arrays[key].atHead = TRUE]
<1>1. State(s) /\ s.tree = tree /\ tree[a].live
  BY NowIs DEF Live
<1>2. y = Synced(s, a, k, w)
  BY DEF ReadState
<1> HIDE DEF w, s, y
<1>3. /\ State(y) /\ TreeInv(y.tree) /\ HasHead(y.tree, Root) /\ Standing(tree, y.tree)
      /\ key \in DOMAIN y.tree[a].arrays
  <2> DEFINE z == Synced(s, a, k, w)
             old == KeyOf(Prepared(s, a, k, w).tree, a, k)
  <2>1. /\ State(z) /\ TreeInv(z.tree) /\ HasHead(z.tree, Root) /\ Standing(s.tree, z.tree)
        /\ KeyOf(z.tree, a, k) = old /\ old \in DOMAIN z.tree[a].arrays
    BY <1>1, SyncedTree
  <2> HIDE DEF old, z
  <2>2. y = z
    BY <1>2 DEF z
  <2> QED
    BY <1>1, <2>1, <2>2
<1>4. y.tree[a].live
  BY <1>1, <1>3 DEF Standing
<1> HIDE DEF key
<1>5. State(r) /\ r.mem = y.mem /\ r.tree = u
  BY <1>3 DEF AtHead, State, key
<1>6. u = [y.tree EXCEPT ![a].arrays[key].atHead = TRUE]
  OBVIOUS
<1> HIDE DEF u, r
<1>7. SamePlaces(y.tree, u) /\ TreeInv(u) /\ HasHead(u, Root) /\ Standing(y.tree, u)
  <2> DEFINE t == y.tree
  <2>1. TreeInv(t) /\ HasHead(t, Root) /\ t[a].live /\ key \in DOMAIN t[a].arrays
        /\ u = [t EXCEPT ![a].arrays[key].atHead = TRUE]
    BY <1>3, <1>4, <1>6
  <2> HIDE DEF t
  <2>2. SamePlaces(t, u) /\ TreeInv(u) /\ HasHead(u, Root) /\ Standing(t, u)
    BY <2>1, AtHeadTree
  <2> QED
    BY <2>2 DEF t
<1>8. Standing(tree, u)
  BY <1>3, <1>7 DEF Standing
<1> QED
  BY <1>3, <1>5, <1>6, <1>7, <1>8 DEF key, r, y

\* cast.
LEMMA CastStateTree ==
    ASSUME TreeInv(tree), NEW a \in Arrays, NEW k \in Keys, Live(tree, a), MayCast(a, k), NEW writeOnly
    PROVE  LET y == Synced(Now, a, k, writeOnly)
               key == KeyOf(y.tree, a, k)
               r == CastState(a, k, writeOnly)
           IN  /\ State(y) /\ TreeInv(y.tree) /\ HasHead(y.tree, Root) /\ Standing(tree, y.tree)
               /\ key \in DOMAIN y.tree[a].arrays
               /\ a # Root => y.tree[Root].head = Own(k) /\ key = y.tree[a].head
               /\ State(r) /\ r.mem = y.mem /\ Casting(y.tree, r.tree, a, key)
               /\ TreeInv(r.tree) /\ HasHead(r.tree, Root)
               /\ \A d \in Arrays : r.tree[d].live = tree[d].live
<1> DEFINE s == Now
           y == Synced(s, a, k, writeOnly)
           key == KeyOf(y.tree, a, k)
           r == Casted(s, a, k, writeOnly)
<1>1. State(s) /\ s.tree = tree /\ tree[a].live
  BY NowIs DEF Live
<1>2. a # Root /\ HasHead(s.tree, Root) => s.tree[Root].head = Own(k)
  BY <1>1 DEF MayCast, Own
<1> HIDE DEF s
<1>3. /\ State(y) /\ TreeInv(y.tree) /\ HasHead(y.tree, Root) /\ Standing(s.tree, y.tree)
      /\ key \in DOMAIN y.tree[a].arrays
  <2> DEFINE old == KeyOf(Prepared(s, a, k, writeOnly).tree, a, k)
  <2>1. /\ State(y) /\ TreeInv(y.tree) /\ HasHead(y.tree, Root) /\ Standing(s.tree, y.tree)
        /\ key = old /\ old \in DOMAIN y.tree[a].arrays
    BY <1>1, SyncedTree
  <2> HIDE DEF old, y, key
  <2> QED
    BY <2>1
<1>4. LET changed == key # s.tree[a].head
      IN  /\ Castable(y.tree, a, key, changed)
          /\ a # Root => y.tree[Root].head = Own(k)
          /\ State(r) /\ r.mem = y.mem /\ Casting(y.tree, r.tree, a, key)
  BY <1>1, <1>2, CastedTree
<1> HIDE DEF y, key, r
<1>5. a # Root => y.tree[Root].head = Own(k) /\ key = y.tree[a].head
  BY <1>4 DEF Castable
<1>6. TreeInv(r.tree) /\ HasHead(r.tree, Root) /\ \A d \in Arrays : r.tree[d].live = tree[d].live
  BY <1>1, <1>3, <1>4 DEF Casting, Standing
<1> QED
  BY <1>1, <1>3, <1>4, <1>5, <1>6 DEF s, y, key, r, CastState

\* zero and fill, whether or not the array is said to be zero.
LEMMA NotedTree ==
    ASSUME TreeInv(tree), NEW a \in Arrays, Live(tree, a), NEW S \in SUBSET Arrays, NEW flag, NEW v,
           \A d \in S : tree[d].live,
           NEW u, Leaving(Flagged(Emptied(tree, a), S, flag), u, a, v)
    PROVE  LET t == Emptied(tree, a)
           IN  /\ Emptying(tree, t, a)
               /\ SameArrays(t, u) /\ TreeInv(u)
               /\ \A d \in Arrays : /\ u[d].live = tree[d].live /\ u[d].children = tree[d].children
                                    /\ u[d].lazy = IF d = a THEN v ELSE t[d].lazy
                                    /\ u[d].zeroing = IF d \in S THEN flag ELSE tree[d].zeroing
<1> DEFINE t == Emptied(tree, a)
           w == Flagged(t, S, flag)
<1>1. Emptying(tree, t, a)
  BY EmptiedTree DEF Live
<1>2. Leaving(w, u, a, v)
  OBVIOUS
<1> HIDE DEF t
<1>3. TreeInv(t) /\ Standing(tree, t) /\ \A d \in S : t[d].live
  BY <1>1 DEF Emptying, Standing
<1>4. /\ SameArrays(t, w) /\ TreeInv(w)
      /\ \A d \in Arrays : /\ w[d].lazy = t[d].lazy
                           /\ w[d].zeroing = IF d \in S THEN flag ELSE t[d].zeroing
  BY <1>3, FlagTree
<1> HIDE DEF w
<1>5. w[a].live
  BY <1>3, <1>4 DEF SameArrays, Standing, Live
<1>6. /\ SameArrays(w, u) /\ Standing(w, u) /\ TreeInv(u)
      /\ \A d \in Arrays : u[d].lazy = IF d = a THEN v ELSE w[d].lazy
  BY ONLY <1>2, <1>4, <1>5, a \in Arrays, NoteTree
<1>7. SameArrays(t, u)
  BY ONLY <1>4, <1>6 DEF SameArrays
<1>8. \A d \in Arrays : /\ u[d].live = tree[d].live /\ u[d].children = tree[d].children
                        /\ u[d].lazy = IF d = a THEN v ELSE t[d].lazy
                        /\ u[d].zeroing = IF d \in S THEN flag ELSE tree[d].zeroing
  BY ONLY <1>3, <1>4, <1>6 DEF Standing, SameArrays
<1> QED
  BY ONLY <1>1, <1>6, <1>7, <1>8 DEF t


\* What zero and fill of a make of the tree, when the arrays of S are then said to be zero or not.
Noting(t, u, a, v, S, flag) ==
    /\ Emptying(tree, t, a) /\ SameArrays(t, u) /\ TreeInv(u)
    /\ \A d \in Arrays : /\ u[d].live = tree[d].live /\ u[d].children = tree[d].children
                         /\ u[d].lazy = IF d = a THEN v ELSE t[d].lazy
                         /\ u[d].zeroing = IF d \in S THEN flag ELSE tree[d].zeroing

\* The family of an array stays when the live stay.
LEMMA FamilyStays ==
    ASSUME NEW t, NEW u, Standing(t, u), NEW a
    PROVE  Family(u, a) = Family(t, a)
BY DEF Family, Descendants, Live, Standing

\* zero.
LEMMA ZeroIs ==
    ASSUME TreeInv(tree), NEW a \in Arrays, Zero(a)
    PROVE  /\ Live(tree, a) /\ Noting(Emptied(tree, a), tree', a, 0, Family(tree, a), TRUE)
           /\ mem' = Restrict(mem, UsedBufs(tree')) /\ Write(a, 0)
<1> DEFINE t == Emptied(tree, a)
           S == Family(t, a)
           flag == TRUE
           v == 0
           u == [Flagged(t, S, flag) EXCEPT ![a].lazy = v]
           s == [Now EXCEPT !.tree = u]
<1>1. Live(tree, a) /\ Become(s) /\ Write(a, v)
  BY DEF Zero
<1>2. s.tree = u /\ s.mem = mem
  BY DEF Now
<1> HIDE DEF u, s
<1>3. tree' = u /\ mem' = Restrict(mem, UsedBufs(u))
  BY <1>1, <1>2, BecomeIs
<1>4. Emptying(tree, t, a)
  BY <1>1, EmptiedTree DEF Live
<1>5. S = Family(tree, a)
  BY <1>4, FamilyStays DEF Emptying
<1>6. S \in SUBSET Arrays /\ \A d \in S : tree[d].live
  BY <1>1, <1>5, FamilyIs DEF TreeInv, Live
<1> HIDE DEF flag, v, S
<1>7. Leaving(Flagged(Emptied(tree, a), S, flag), u, a, v)
  BY DEF u, Leaving
<1>8. Noting(t, u, a, v, S, flag)
  <2>1. /\ Emptying(tree, t, a)
        /\ SameArrays(t, u) /\ TreeInv(u)
        /\ \A d \in Arrays : /\ u[d].live = tree[d].live /\ u[d].children = tree[d].children
                             /\ u[d].lazy = IF d = a THEN v ELSE t[d].lazy
                             /\ u[d].zeroing = IF d \in S THEN flag ELSE tree[d].zeroing
    <3>1. Live(tree, a)
      BY <1>1
    <3> QED
      BY ONLY <1>6, <1>7, <3>1, TreeInv(tree), a \in Arrays, NotedTree
  <2> QED
    BY ONLY <2>1 DEF Noting
<1> HIDE DEF t
<1>9. Noting(t, tree', a, 0, Family(tree, a), TRUE)
  BY <1>3, <1>5, <1>8 DEF flag, v
<1> QED
  BY <1>1, <1>3, <1>9 DEF t, v

\* fill.
LEMMA FillIs ==
    ASSUME TreeInv(tree), NEW a \in Arrays, Fill(a)
    PROVE  \E v \in Values :
              /\ Live(tree, a) /\ Noting(Emptied(tree, a), tree', a, v, Family(tree, a) \cup Lineage[a], FALSE)
              /\ mem' = Restrict(mem, UsedBufs(tree')) /\ Write(a, v)
<1> DEFINE t == Emptied(tree, a)
           S == Family(t, a) \cup Lineage[a]
           flag == FALSE
<1>1. PICK v \in Values : /\ Live(tree, a)
                          /\ Become([Now EXCEPT !.tree = [Zeroing(t, a, FALSE) EXCEPT ![a].lazy = v]])
                          /\ Write(a, v)
  BY DEF Fill
<1> DEFINE u == [Flagged(t, S, flag) EXCEPT ![a].lazy = v]
           s == [Now EXCEPT !.tree = u]
<1>2. Become(s)
  BY <1>1 DEF Zeroing
<1>3. s.tree = u /\ s.mem = mem
  BY DEF Now
<1> HIDE DEF u, s
<1>4. tree' = u /\ mem' = Restrict(mem, UsedBufs(u))
  BY <1>2, <1>3, BecomeIs
<1>5. Emptying(tree, t, a)
  BY <1>1, EmptiedTree DEF Live
<1>6. S = Family(tree, a) \cup Lineage[a]
  BY <1>5, FamilyStays DEF Emptying
<1>7. S \in SUBSET Arrays /\ \A d \in S : tree[d].live
  BY <1>1, <1>6, FamilyIs DEF TreeInv, Live
<1> HIDE DEF flag, S
<1>8. Leaving(Flagged(Emptied(tree, a), S, flag), u, a, v)
  BY DEF u, Leaving
<1>9. Noting(t, u, a, v, S, flag)
  <2>1. /\ Emptying(tree, t, a)
        /\ SameArrays(t, u) /\ TreeInv(u)
        /\ \A d \in Arrays : /\ u[d].live = tree[d].live /\ u[d].children = tree[d].children
                             /\ u[d].lazy = IF d = a THEN v ELSE t[d].lazy
                             /\ u[d].zeroing = IF d \in S THEN flag ELSE tree[d].zeroing
    BY ONLY <1>1, <1>7, <1>8, TreeInv(tree), a \in Arrays, NotedTree
  <2> QED
    BY ONLY <2>1 DEF Noting
<1> HIDE DEF t
<1>10. Noting(t, tree', a, v, Family(tree, a) \cup Lineage[a], FALSE)
  BY <1>4, <1>6, <1>9 DEF flag
<1> QED
  BY <1>1, <1>4, <1>10 DEF t

\* get.
LEMMA GetIs ==
    ASSUME TreeInv(tree), NEW a \in Arrays, NEW k \in Keys, Get(a, k)
    PROVE  /\ Live(tree, a) /\ UNCHANGED cell
           /\ tree' = AtHead(ReadState(a, k), a, k).tree
           /\ mem' = Restrict(ReadState(a, k).mem, UsedBufs(tree'))
           /\ TreeInv(tree') /\ Standing(tree, tree')
<1> DEFINE y == ReadState(a, k)
           r == AtHead(y, a, k)
<1>1. Live(tree, a) /\ Become(r) /\ UNCHANGED cell
  BY DEF Get, ReadState
<1>2. r.mem = y.mem /\ TreeInv(r.tree) /\ Standing(tree, r.tree)
  BY <1>1, GetTree
<1> HIDE DEF r
<1>3. tree' = r.tree /\ mem' = Restrict(r.mem, UsedBufs(r.tree))
  BY <1>1, BecomeIs
<1> QED
  BY <1>1, <1>2, <1>3 DEF r

\* cast, after which the caller has written.
LEMMA CastWriteOnlyIs ==
    ASSUME TreeInv(tree), NEW a \in Arrays, NEW k \in Keys, CastWriteOnly(a, k)
    PROVE  LET s == CastState(a, k, TRUE)
           IN  /\ Live(tree, a) /\ MayCast(a, k)
               /\ \E v \in Values :
                     /\ Write(a, v) /\ tree' = s.tree
                     /\ mem' = Restrict(Put(s.mem, HeadArray(s.tree, a), a, [i \in Indices(a) |-> v]),
                                        UsedBufs(s.tree))
<1> DEFINE s == CastState(a, k, TRUE)
<1>1. PICK v \in Values :
         /\ Live(tree, a) /\ MayCast(a, k)
         /\ Become([s EXCEPT !.mem = Put(@, HeadArray(s.tree, a), a, [i \in Indices(a) |-> v])])
         /\ Write(a, v)
  BY DEF CastWriteOnly, CastState
<1> DEFINE m == Put(s.mem, HeadArray(s.tree, a), a, [i \in Indices(a) |-> v])
           r == [s EXCEPT !.mem = m]
<1>2. State(s)
  BY <1>1, CastStateTree
<1>3. Become(r)
  BY <1>1
<1> HIDE DEF s, m
<1>4. r.tree = s.tree /\ r.mem = m
  BY <1>2 DEF State
<1> HIDE DEF r
<1>5. tree' = s.tree /\ mem' = Restrict(m, UsedBufs(s.tree))
  BY <1>3, <1>4, BecomeIs
<1> QED
  BY <1>1, <1>5 DEF m, s

\* And to one cell.
LEMMA CastIs ==
    ASSUME TreeInv(tree), NEW a \in Arrays, NEW k \in Keys, Cast(a, k)
    PROVE  LET s == CastState(a, k, FALSE)
               h == HeadArray(s.tree, a)
           IN  /\ Live(tree, a) /\ MayCast(a, k)
               /\ \E v \in Values, i \in Indices(a) :
                     /\ Change(a, i, v) /\ tree' = s.tree
                     /\ mem' = Restrict([s.mem EXCEPT ![h.buf][h.base + i] = v], UsedBufs(s.tree))
<1> DEFINE s == CastState(a, k, FALSE)
           h == HeadArray(s.tree, a)
<1>1. PICK v \in Values, i \in Indices(a) :
         /\ Live(tree, a) /\ MayCast(a, k)
         /\ Become([s EXCEPT !.mem[h.buf][h.base + i] = v])
         /\ Change(a, i, v)
  BY DEF Cast, CastState
<1> DEFINE m == [s.mem EXCEPT ![h.buf][h.base + i] = v]
           r == [s EXCEPT !.mem[h.buf][h.base + i] = v]
<1>2. State(s)
  BY <1>1, CastStateTree
<1>3. Become(r)
  BY <1>1
<1> HIDE DEF s, h
<1>4. r.tree = s.tree /\ r.mem = m
  BY <1>2 DEF State
<1> HIDE DEF r, m
<1>5. tree' = s.tree /\ mem' = Restrict(m, UsedBufs(s.tree))
  BY <1>3, <1>4, BecomeIs
<1> QED
  BY <1>1, <1>5 DEF m, s, h

\* narrow.
LEMMA NarrowIs ==
    ASSUME TreeInv(tree), NEW a \in Arrays, Narrow(a)
    PROVE  /\ a \in Views /\ ~tree[a].live /\ tree[Parent[a]].live /\ UNCHANGED cell
           /\ mem' = Restrict(mem, UsedBufs(tree'))
           /\ TreeInv(tree') /\ (HasHead(tree', Root) <=> HasHead(tree, Root))
           /\ Others(tree, tree', a)
           /\ tree'[a].live /\ tree'[a].lazy = Nothing /\ tree'[a].zeroing = FALSE
           /\ IF HasHead(tree, Root)
              THEN DOMAIN tree'[a].arrays = {tree'[a].head} /\ HeadArray(tree', a).buf = HeadArray(tree, Root).buf
              ELSE DOMAIN tree'[a].arrays = {}
<1> DEFINE t == tree
           n == IF HasHead(t, Parent[a]) THEN FromParent(t[Parent[a]], New, a) ELSE New
           u == [t EXCEPT ![Parent[a]].children = Append(@, a), ![a] = n]
           s == [Now EXCEPT !.tree = u]
<1>1. /\ a \in Views /\ ~t[a].live /\ t[Parent[a]].live /\ UNCHANGED cell
      /\ \A b \in Children(t, Parent[a]) : ~Overlap(a, b)
  BY DEF Narrow, Live, Views
<1>2. Become(s)
  BY DEF Narrow, Now
<1>3. s.tree = u /\ s.mem = mem
  BY DEF Now
<1> HIDE DEF s
<1>4. tree' = u /\ mem' = Restrict(mem, UsedBufs(u))
  BY <1>2, <1>3, BecomeIs
<1>5. Narrowed(t, u, a)
  BY DEF Narrowed
<1> HIDE DEF u
<1>6. /\ TreeInv(u) /\ (HasHead(u, Root) <=> HasHead(t, Root))
      /\ Others(t, u, a)
      /\ u[a].live /\ u[a].lazy = Nothing /\ u[a].zeroing = FALSE
      /\ IF HasHead(t, Root)
         THEN DOMAIN u[a].arrays = {u[a].head} /\ HeadArray(u, a).buf = HeadArray(t, Root).buf
         ELSE DOMAIN u[a].arrays = {}
  BY <1>1, <1>5, NarrowTree
<1> HIDE DEF t
<1> QED
  BY <1>1, <1>4, <1>6 DEF t

\* The end of a view.
LEMMA ReleaseIs ==
    ASSUME TreeInv(tree), NEW a \in Arrays, Release(a)
    PROVE  /\ a \in Views /\ tree[a].live
           /\ IF Pending(tree, a) THEN Forget(a) ELSE UNCHANGED cell
           /\ mem' = Restrict(mem, UsedBufs(tree'))
           /\ TreeInv(tree') /\ (HasHead(tree', Root) <=> HasHead(tree, Root))
           /\ Others(tree, tree', a)
           /\ tree'[a] = Absent /\ ~tree'[a].live
<1> DEFINE t == tree
           u == [t EXCEPT ![Parent[a]].children = RemoveAt(@, PlaceOf(@, a)), ![a] = Absent]
           s == [Now EXCEPT !.tree[Parent[a]].children = RemoveAt(@, PlaceOf(@, a)), !.tree[a] = Absent]
<1>1. /\ a \in Views /\ t[a].live /\ t[a].children = << >>
      /\ Become(s)
      /\ IF Pending(t, a) THEN Forget(a) ELSE UNCHANGED cell
  BY DEF Release, Live, Views
<1>2. s.tree = u /\ s.mem = mem
  BY DEF Now
<1> HIDE DEF s
<1>3. tree' = u /\ mem' = Restrict(mem, UsedBufs(u))
  BY <1>1, <1>2, BecomeIs
<1>4. Released(t, u, a)
  BY DEF Released
<1> HIDE DEF u
<1>5. /\ TreeInv(u) /\ (HasHead(u, Root) <=> HasHead(t, Root))
      /\ Others(t, u, a)
      /\ u[a] = Absent /\ ~u[a].live
  BY <1>1, <1>4, ReleaseTree
<1> HIDE DEF t
<1> QED
  BY <1>1, <1>3, <1>5 DEF t

\* clear.
LEMMA ClearIs ==
    ASSUME TreeInv(tree), Clear
    PROVE  /\ Forget(Root) /\ mem' = Restrict(mem, UsedBufs(tree'))
           /\ TreeInv(tree') /\ ~HasHead(tree', Root) /\ Standing(tree, tree')
           /\ tree'[Root].lazy = Nothing
           /\ \A d \in Views : ~tree[d].live /\ tree'[d] = tree[d]
<1> DEFINE t == tree
           u == [t EXCEPT ![Root] = NoArray(@)]
           s == [Now EXCEPT !.tree[Root] = NoArray(@)]
<1>1. ~HasFamily(t, Root) /\ Become(s) /\ Forget(Root)
  BY DEF Clear
<1>2. s.tree = u /\ s.mem = mem
  BY DEF Now
<1> HIDE DEF s
<1>3. tree' = u /\ mem' = Restrict(mem, UsedBufs(u))
  BY <1>1, <1>2, BecomeIs
<1>4. u = [t EXCEPT ![Root] = NoArray(@)]
  OBVIOUS
<1> HIDE DEF u
<1>5. /\ TreeInv(u) /\ ~HasHead(u, Root) /\ Standing(t, u)
      /\ u[Root].lazy = Nothing
      /\ \A d \in Views : ~t[d].live /\ u[d] = t[d]
  BY <1>1, <1>4, ClearedTree
<1> HIDE DEF t
<1> QED
  BY <1>1, <1>3, <1>5 DEF t


-----------------------------------------------------------------------------
(* Head arrays share the memory of the root's. *)

\* At first.
LEMMA TreeInit ==
    ASSUME SAInit
    PROVE  TreeInv(tree) /\ ~HasHead(tree, Root)
<1> DEFINE r == [New EXCEPT !.lazy = 0]
<1>1. Root \in Arrays /\ tree = [a \in Arrays |-> IF a = Root THEN r ELSE Absent]
  BY TreeAssumption DEF SAInit
<1>2. /\ DOMAIN Absent = NodeFields /\ Absent.live = FALSE /\ Absent.children = << >>
      /\ Absent.arrays = NoArrays /\ DOMAIN NoArrays = {}
  BY DEF Absent, NodeFields, NoArrays
<1>3. DOMAIN r = NodeFields /\ r.live = TRUE /\ r.children = << >> /\ r.arrays = NoArrays
  BY <1>2 DEF New, NodeFields
<1> HIDE DEF r
<1>4. /\ DOMAIN tree = Arrays /\ tree[Root] = r
      /\ \A a \in Arrays : a # Root => tree[a] = Absent
  BY <1>1
<1>5. \A a \in Arrays : /\ DOMAIN tree[a] = NodeFields /\ tree[a].live = (a = Root)
                        /\ tree[a].children = << >> /\ DOMAIN tree[a].arrays = {}
                        /\ a # Root => tree[a] = Absent
  BY <1>2, <1>3, <1>4
<1>6. << >> \in Seq(Arrays) /\ DOMAIN << >> = {} /\ ToSet(<< >>) = {}
  BY DEF ToSet
<1>7. Shaped(tree)
  <2>1. \A a \in Views : ~tree[a].live
    BY <1>5 DEF Views
  <2>2. \A a \in Arrays : Children(tree, a) = {}
    BY <1>5, <1>6 DEF Children
  <2>3. tree[Root].live
    BY <1>1, <1>5
  <2>4. \A a \in Arrays : tree[a].live \in BOOLEAN /\ (~tree[a].live => tree[a] = Absent)
    BY <1>5
  <2>5. \A a \in Arrays : /\ tree[a].children \in Seq(Arrays)
                          /\ DOMAIN tree[a].children = {}
    BY <1>5, <1>6
  <2> QED
    BY ONLY <1>4, <1>5, <2>1, <2>2, <2>3, <2>4, <2>5 DEF Shaped
<1>8. \A a \in Arrays : ~HasHead(tree, a)
  BY <1>5 DEF HasHead
<1>9. \A a \in Arrays : Stored(tree[a])
  BY <1>5, FS_EmptySet DEF Stored
<1> QED
  BY <1>1, <1>7, <1>8, <1>9 DEF TreeInv, Headed, Uniform

\* The tree keeps its shape and the head arrays their places.
LEMMA TreeStep ==
    ASSUME TreeInv(tree), [Next]_vars
    PROVE  TreeInv(tree')
<1>1. ASSUME NEW a \in Arrays, NEW k \in Keys, Get(a, k)
      PROVE  TreeInv(tree')
  BY <1>1, GetIs
<1>2. ASSUME NEW a \in Arrays, NEW k \in Keys, CastWriteOnly(a, k)
      PROVE  TreeInv(tree')
  <2> DEFINE w == TRUE
             s == CastState(a, k, w)
  <2>1. Live(tree, a) /\ MayCast(a, k) /\ tree' = s.tree
    BY <1>2, CastWriteOnlyIs
  <2> HIDE DEF w
  <2>2. TreeInv(s.tree)
    BY <2>1, CastStateTree
  <2> QED
    BY <2>1, <2>2
<1>3. ASSUME NEW a \in Arrays, NEW k \in Keys, Cast(a, k)
      PROVE  TreeInv(tree')
  <2> DEFINE w == FALSE
             s == CastState(a, k, w)
  <2>1. Live(tree, a) /\ MayCast(a, k) /\ tree' = s.tree
    BY <1>3, CastIs
  <2> HIDE DEF w
  <2>2. TreeInv(s.tree)
    BY <2>1, CastStateTree
  <2> QED
    BY <2>1, <2>2
<1>4. ASSUME NEW a \in Arrays, Zero(a)
      PROVE  TreeInv(tree')
  BY <1>4, ZeroIs DEF Noting
<1>5. ASSUME NEW a \in Arrays, Fill(a)
      PROVE  TreeInv(tree')
  BY <1>5, FillIs DEF Noting
<1>6. ASSUME NEW a \in Arrays, Narrow(a)
      PROVE  TreeInv(tree')
  BY <1>6, NarrowIs
<1>7. ASSUME NEW a \in Arrays, Release(a)
      PROVE  TreeInv(tree')
  BY <1>7, ReleaseIs
<1>8. ASSUME Clear
      PROVE  TreeInv(tree')
  BY <1>8, ClearIs
<1>9. ASSUME UNCHANGED vars
      PROVE  TreeInv(tree')
  BY <1>9 DEF vars
<1> QED
  BY <1>1, <1>2, <1>3, <1>4, <1>5, <1>6, <1>7, <1>8, <1>9 DEF Next

\* Then the head arrays of the views are parts of the root's.
LEMMA TreeShares ==
    ASSUME TreeInv(tree)
    PROVE  SharesMemory
<1> SUFFICES ASSUME NEW a \in Arrays, tree[a].live
             PROVE  /\ HasHead(tree, a) <=> HasHead(tree, Root)
                    /\ HasHead(tree, a) =>
                          /\ HeadArray(tree, a).buf = HeadArray(tree, Root).buf
                          /\ WellPlaced(a) => HeadArray(tree, a).base = At[a]
                          /\ tree[a].head[1] = tree[Root].head[1]
  BY DEF SharesMemory, Live
<1>1. HasHead(tree, a) <=> HasHead(tree, Root)
  BY DEF TreeInv, Headed, Uniform
<1>2. ASSUME HasHead(tree, Root)
      PROVE  /\ HeadArray(tree, a).buf = HeadArray(tree, Root).buf
             /\ HeadArray(tree, a).base = Base(a)
  <2>1. CASE a = Root
    BY <1>2, <2>1 DEF TreeInv, Headed, RootHead, Base
  <2>2. CASE a # Root
    BY <1>2, <2>2 DEF TreeInv, Headed, InPlace, Views
  <2> QED
    BY <2>1, <2>2
<1>3. HasHead(tree, Root) => tree[a].head[1] = tree[Root].head[1]
  BY PathIs
<1> QED
  BY <1>1, <1>2, <1>3, BasePlaced

\* In every reachable state, whatever the tree, the views have head arrays if the root has one,
\* in its memory, and in their place those the code has the offsets of: create_array_from_parent, create_array_descendants,
\* clear_all_array_descendants and what cast_sp and narrow do with them keep to it.
THEOREM SharesHolds == Spec => []SharesMemory
<1>1. SAInit => TreeInv(tree)
  BY TreeInit
<1>2. TreeInv(tree) /\ [Next]_vars => TreeInv(tree)'
  BY TreeStep
<1>3. TreeInv(tree) => SharesMemory
  BY TreeShares
<1> QED
  BY <1>1, <1>2, <1>3, PTL DEF Spec


-----------------------------------------------------------------------------
(* What is said to be zero is. *)

\* The cells stand for the memory of the root, and what is said to be zero is, for all that
\* anybody knows.
Blank(x, c) == x[c] \in {0, Unknown}
Zeroed(t, x) == /\ DOMAIN x = CellsOf(Root)
                /\ \A a \in Arrays : t[a].live /\ t[a].zeroing => \A c \in CellsOf(a) : Blank(x, c)

\* A write to an array.
LEMMA WriteIs ==
    ASSUME DOMAIN cell = CellsOf(Root), NEW a \in Arrays, NEW v, Write(a, v)
    PROVE  /\ DOMAIN cell' = CellsOf(Root)
           /\ \A c \in CellsOf(Root) : cell'[c] = IF c \in CellsOf(a) THEN v ELSE cell[c]
BY DEF Write

\* A write to a cell of an array.
LEMMA ChangeIs ==
    ASSUME DOMAIN cell = CellsOf(Root), NEW a \in Arrays, NEW i \in Indices(a), NEW v, Change(a, i, v)
    PROVE  /\ DOMAIN cell' = CellsOf(Root) /\ At[a] + i \in CellsOf(a)
           /\ \A c \in CellsOf(Root) : cell'[c] = IF c = At[a] + i THEN v ELSE cell[c]
<1>1. At[a] \in Nat /\ Size[a] \in Nat
  BY TreeAssumption
<1>2. At[a] + i \in CellsOf(a)
  BY <1>1 DEF CellsOf, Indices
<1> DEFINE j == At[a] + i
<1>3. cell' = [cell EXCEPT ![j] = v]
  BY DEF Change
<1> HIDE DEF j
<1>4. DOMAIN cell' = CellsOf(Root)
      /\ \A c \in CellsOf(Root) : cell'[c] = IF c = j THEN v ELSE cell[c]
  BY <1>3
<1> QED
  BY <1>2, <1>4 DEF j

\* The cells of an array are the root's.
LEMMA CellsOfAll ==
    ASSUME NEW a \in Arrays
    PROVE  CellsOf(a) \subseteq CellsOf(Root)
BY RootAbove, CellsInside

\* After a change of the cells of an array, those that are still said to be zero are, if they
\* have none of them.
LEMMA ZeroedApart ==
    ASSUME NEW t, Shaped(t), NEW x, Zeroed(t, x), NEW u, NEW y, NEW a \in Arrays, t[a].live,
           DOMAIN y = CellsOf(Root),
           \A c \in CellsOf(Root) : c \in CellsOf(a) \/ y[c] = x[c],
           \A d \in Arrays : u[d].live /\ u[d].zeroing => t[d].live /\ t[d].zeroing /\ ~Related(a, d)
    PROVE  Zeroed(u, y)
<1>1. ASSUME NEW d \in Arrays, u[d].live, u[d].zeroing, NEW c \in CellsOf(d)
      PROVE  Blank(y, c)
  <2>1. t[d].live /\ t[d].zeroing /\ ~Related(a, d) /\ c \in CellsOf(Root)
    BY <1>1, CellsOfAll
  <2>2. c \notin CellsOf(a)
    BY <1>1, <2>1, SharedCell
  <2>3. y[c] = x[c] /\ Blank(x, c)
    BY <1>1, <2>1, <2>2 DEF Zeroed
  <2> QED
    BY <2>3 DEF Blank
<1> QED
  BY <1>1 DEF Zeroed

\* After a change to what is zero or unknown, those that have the cells are as zero as they were.
LEMMA ZeroedBlank ==
    ASSUME NEW t, NEW x, Zeroed(t, x), NEW u, NEW y, DOMAIN y = CellsOf(Root), NEW S,
           \A c \in CellsOf(Root) : Blank(y, c) \/ (y[c] = x[c] /\ c \notin S),
           \A d \in Arrays : u[d].live /\ u[d].zeroing => (t[d].live /\ t[d].zeroing) \/ CellsOf(d) \subseteq S
    PROVE  Zeroed(u, y)
<1>1. ASSUME NEW d \in Arrays, u[d].live, u[d].zeroing, NEW c \in CellsOf(d)
      PROVE  Blank(y, c)
  <2>1. c \in CellsOf(Root)
    BY <1>1, CellsOfAll
  <2>2. CASE t[d].live /\ t[d].zeroing
    BY <1>1, <2>1, <2>2 DEF Zeroed, Blank
  <2>3. CASE CellsOf(d) \subseteq S
    BY <1>1, <2>1, <2>3
  <2> QED
    BY <1>1, <2>2, <2>3
<1> QED
  BY <1>1 DEF Zeroed

\* Zero is.
LEMMA ZeroIsBlank ==
    ASSUME NEW x, NEW c, x[c] = 0 \/ x[c] = Unknown
    PROVE  Blank(x, c)
BY DEF Blank

\* At first.
LEMMA ZeroedInit ==
    ASSUME SAInit
    PROVE  Zeroed(tree, cell)
<1>1. DOMAIN cell = CellsOf(Root) /\ \A c \in CellsOf(Root) : cell[c] = 0
  BY DEF SAInit, Init
<1>2. \A c \in CellsOf(Root) : Blank(cell, c)
  BY <1>1, ZeroIsBlank
<1> QED
  BY <1>1, <1>2, CellsOfAll DEF Zeroed

\* No step leaves what is not zero said to be.
LEMMA ZeroedStep ==
    ASSUME TreeInv(tree), Zeroed(tree, cell), [Next]_vars
    PROVE  Zeroed(tree', cell')
<1> DEFINE t == tree
           x == cell
           u == tree'
           y == cell'
<1>0. Shaped(t) /\ Zeroed(t, x) /\ DOMAIN x = CellsOf(Root)
  BY DEF TreeInv, Zeroed
<1>1. ASSUME NEW a \in Arrays, NEW k \in Keys, Get(a, k)
      PROVE  Zeroed(u, y)
  <2>1. Standing(t, u) /\ y = x
    BY <1>1, GetIs
  <2> QED
    BY ONLY <1>0, <2>1 DEF Zeroed, Standing
<1>2. ASSUME NEW a \in Arrays, NEW k \in Keys, NEW w, Live(t, a), MayCast(a, k), u = CastState(a, k, w).tree,
             DOMAIN y = CellsOf(Root), \A c \in CellsOf(Root) : c \in CellsOf(a) \/ y[c] = x[c]
      PROVE  Zeroed(u, y)
  <2> DEFINE z == Synced(Now, a, k, w)
             key == KeyOf(z.tree, a, k)
  <2>1. Standing(t, z.tree) /\ Casting(z.tree, u, a, key)
    BY <1>2, CastStateTree
  <2> HIDE DEF z, key
  <2>2. \A d \in Arrays : u[d].live /\ u[d].zeroing => t[d].live /\ t[d].zeroing /\ ~Related(a, d)
    BY ONLY <2>1 DEF Standing, Casting
  <2>3. t[a].live
    BY <1>2 DEF Live
  <2> HIDE DEF t, x, u, y
  <2> QED
    BY <1>0, <1>2, <2>2, <2>3, ZeroedApart
<1>3. ASSUME NEW a \in Arrays, NEW k \in Keys, CastWriteOnly(a, k)
      PROVE  Zeroed(u, y)
  <2>1. Live(t, a) /\ MayCast(a, k) /\ u = CastState(a, k, TRUE).tree /\ \E v \in Values : Write(a, v)
    BY <1>3, CastWriteOnlyIs
  <2>2. DOMAIN y = CellsOf(Root) /\ \A c \in CellsOf(Root) : c \in CellsOf(a) \/ y[c] = x[c]
    BY <1>0, <2>1, WriteIs
  <2> QED
    BY <1>2, <2>1, <2>2
<1>4. ASSUME NEW a \in Arrays, NEW k \in Keys, Cast(a, k)
      PROVE  Zeroed(u, y)
  <2>1. Live(t, a) /\ MayCast(a, k) /\ u = CastState(a, k, FALSE).tree
        /\ \E v \in Values : \E i \in Indices(a) : Change(a, i, v)
    BY <1>4, CastIs
  <2>2. DOMAIN y = CellsOf(Root) /\ \A c \in CellsOf(Root) : c \in CellsOf(a) \/ y[c] = x[c]
    BY <1>0, <2>1, ChangeIs
  <2> QED
    BY <1>2, <2>1, <2>2
<1>5. ASSUME NEW a \in Arrays, Zero(a)
      PROVE  Zeroed(u, y)
  <2> DEFINE z == Emptied(tree, a)
             S == Family(t, a)
             flag == TRUE
             v == 0
             C == CellsOf(a)
  <2>1. Live(t, a) /\ Noting(z, u, a, v, S, flag) /\ Write(a, v)
    BY <1>5, ZeroIs
  <2>2. DOMAIN y = CellsOf(Root) /\ \A c \in CellsOf(Root) : y[c] = IF c \in C THEN v ELSE x[c]
    BY <1>0, <2>1, WriteIs
  <2>3. \A c \in CellsOf(Root) : Blank(y, c) \/ (y[c] = x[c] /\ c \notin C)
    BY <2>2, ZeroIsBlank
  <2>4. \A d \in S : CellsOf(d) \subseteq C
    BY CellsInside DEF Family, Descendants
  <2> HIDE DEF z, S, flag, v, C
  <2>5. \A d \in Arrays : u[d].live /\ u[d].zeroing => (t[d].live /\ t[d].zeroing) \/ CellsOf(d) \subseteq C
    BY ONLY <2>1, <2>4 DEF Noting
  <2> HIDE DEF t, x, u, y
  <2> QED
    BY <1>0, <2>2, <2>3, <2>5, ZeroedBlank
<1>6. ASSUME NEW a \in Arrays, Fill(a)
      PROVE  Zeroed(u, y)
  <2> DEFINE z == Emptied(tree, a)
             S == Family(t, a) \cup Lineage[a]
             flag == FALSE
  <2>1. PICK v \in Values : Live(t, a) /\ Noting(z, u, a, v, S, flag) /\ Write(a, v)
    BY <1>6, FillIs
  <2>2. DOMAIN y = CellsOf(Root) /\ \A c \in CellsOf(Root) : c \in CellsOf(a) \/ y[c] = x[c]
    BY <1>0, <2>1, WriteIs
  <2>3. t[a].live /\ a \in S /\ \A d \in Arrays : t[d].live /\ Related(a, d) => d \in S
    BY <2>1 DEF Family, Descendants, Live, Related
  <2>4. flag = FALSE
    OBVIOUS
  <2> HIDE DEF z, S, flag
  <2>5. \A d \in Arrays : u[d].live /\ u[d].zeroing => t[d].live /\ t[d].zeroing /\ ~Related(a, d)
    BY ONLY <2>1, <2>3, <2>4 DEF Noting
  <2> HIDE DEF t, x, u, y
  <2> QED
    BY <1>0, <2>2, <2>3, <2>5, ZeroedApart
<1>7. ASSUME NEW a \in Arrays, Narrow(a)
      PROVE  Zeroed(u, y)
  <2>1. /\ y = x /\ u[a].zeroing = FALSE
        /\ \A d \in Arrays : d # a => u[d].live = t[d].live /\ u[d].zeroing = t[d].zeroing
    <3>1. UNCHANGED cell /\ tree'[a].zeroing = FALSE /\ Others(tree, tree', a)
      BY ONLY TreeInv(tree), <1>7, NarrowIs
    <3> QED
      BY ONLY <3>1 DEF Others
  <2> QED
    BY ONLY <1>0, <2>1 DEF Zeroed
<1>8. ASSUME NEW a \in Arrays, Release(a)
      PROVE  Zeroed(u, y)
  <2> DEFINE C == {}
  <2>1. /\ IF Pending(t, a) THEN Forget(a) ELSE UNCHANGED cell
        /\ ~u[a].live
        /\ \A d \in Arrays : d # a => u[d].live = t[d].live /\ u[d].zeroing = t[d].zeroing
    <3>1. /\ IF Pending(tree, a) THEN Forget(a) ELSE UNCHANGED cell
          /\ ~tree'[a].live /\ Others(tree, tree', a)
      BY ONLY TreeInv(tree), <1>8, ReleaseIs
    <3> QED
      BY ONLY <3>1 DEF Others
  <2>2. DOMAIN y = CellsOf(Root) /\ \A c \in CellsOf(Root) : y[c] = Unknown \/ y[c] = x[c]
    BY <1>0, <2>1, WriteIs DEF Forget
  <2>3. \A c \in CellsOf(Root) : Blank(y, c) \/ (y[c] = x[c] /\ c \notin C)
    BY <2>2, ZeroIsBlank
  <2>4. \A d \in Arrays : u[d].live /\ u[d].zeroing => (t[d].live /\ t[d].zeroing) \/ CellsOf(d) \subseteq C
    BY ONLY <2>1
  <2> HIDE DEF t, x, u, y, C
  <2> QED
    BY <1>0, <2>2, <2>3, <2>4, ZeroedBlank
<1>9. ASSUME Clear
      PROVE  Zeroed(u, y)
  <2>1. Forget(Root) /\ Standing(t, u)
    BY <1>9, ClearIs
  <2>2. DOMAIN y = CellsOf(Root) /\ \A c \in CellsOf(Root) : y[c] = Unknown
    BY <1>0, <2>1, WriteIs, TreeAssumption DEF Forget
  <2>3. \A c \in CellsOf(Root) : Blank(y, c)
    BY <2>2, ZeroIsBlank
  <2> HIDE DEF t, x, u, y
  <2> QED
    BY <2>2, <2>3, CellsOfAll DEF Zeroed
<1>10. ASSUME UNCHANGED vars
       PROVE  Zeroed(u, y)
  BY <1>0, <1>10 DEF vars
<1> QED
  BY <1>1, <1>3, <1>4, <1>5, <1>6, <1>7, <1>8, <1>9, <1>10 DEF Next

\* In every reachable state an array that the solver may skip because its gradient is zero, or
\* a function may overwrite, is zero: the flag goes for all relatives when one is cast or filled.
THEOREM ZeroHolds == Spec => []ZeroingIsZero
<1> DEFINE Inv == TreeInv(tree) /\ Zeroed(tree, cell)
<1>1. SAInit => Inv
  BY TreeInit, ZeroedInit
<1>2. Inv /\ [Next]_vars => Inv'
  BY TreeStep, ZeroedStep
<1>3. Inv => ZeroingIsZero
  BY DEF Zeroed, ZeroingIsZero, Live, Blank
<1> QED
  BY <1>1, <1>2, <1>3, PTL DEF Spec


-----------------------------------------------------------------------------
(* The memory, and what is to be read there. *)

\* The buffer of the head arrays, and the notes on a cell, of which the lowest in the tree was
\* left last.
HeadBuf(t) == HeadArray(t, Root).buf
Over(t, c) == {d \in Arrays : t[d].live /\ Pending(t, d) /\ c \in CellsOf(d)}
LastNote(t, c) == t[Lowest(Over(t, c))].lazy

\* No two arrays are in one buffer, but for head arrays.
Alone(t) ==
    \A a, b \in Arrays : \A k \in DOMAIN t[a].arrays, l \in DOMAIN t[b].arrays :
        t[a].arrays[k].buf = t[b].arrays[l].buf => (a = b /\ k = l) \/ (k = t[a].head /\ l = t[b].head)

\* The arrays are in the memory.
Stands(t, m) ==
    /\ \A b \in DOMAIN m : DOMAIN m[b] = CellsOf(Root)
    /\ IsFiniteSet(DOMAIN m)
    /\ \A a \in Arrays : \A k \in DOMAIN t[a].arrays : t[a].arrays[k].buf \in DOMAIN m

\* What was written to a cell is as the last note says, or in the head array.
ToldAt(t, m, x, c) ==
    x[c] # Unknown => IF Over(t, c) # {} THEN x[c] = LastNote(t, c)
                                         ELSE HasHead(t, Root) /\ x[c] = m[HeadBuf(t)][c]
Told(t, m, x) == \A c \in CellsOf(Root) : ToldAt(t, m, x, c)

\* What is to be read in an array, and that it is what was written.
Held(m, array, a, c) == m[array.buf][array.base + (c - At[a])]
Good(t, m, x, a, key) == \A c \in CellsOf(a) : x[c] = Unknown \/ x[c] = Held(m, t[a].arrays[key], a, c)

\* It is in the copies that are said to be as good as the head array.
Copied(t, m, x) ==
    \A a \in Arrays : \A k \in DOMAIN t[a].arrays :
        k # t[a].head /\ t[a].arrays[k].atHead => Good(t, m, x, a, k)

Mem(t, m, x) == TreeInv(t) /\ Alone(t) /\ Stands(t, m) /\ Told(t, m, x) /\ Copied(t, m, x)

\* The note of a root without views stands for all of its arrays: it has none.
Clean(t) == Pending(t, Root) => ~HasHead(t, Root)

\* The cells of the head array of an array are its own.
LEMMA HeadPlace ==
    ASSUME Placed, NEW t, TreeInv(t), HasHead(t, Root), NEW a \in Arrays, t[a].live
    PROVE  /\ t[a].head \in DOMAIN t[a].arrays /\ HeadArray(t, a) = t[a].arrays[t[a].head]
           /\ HeadArray(t, a).buf = HeadBuf(t) /\ HeadArray(t, a).base = At[a]
           /\ Cells(HeadArray(t, a), a) = CellsOf(a)
           /\ \A m : \A c \in CellsOf(a) : Held(m, HeadArray(t, a), a, c) = m[HeadBuf(t)][c]
<1>1. t[a].head \in DOMAIN t[a].arrays /\ HeadArray(t, a) = t[a].arrays[t[a].head]
  BY HeadIs DEF HeadArray
<1>2. HeadArray(t, a).buf = HeadBuf(t) /\ HeadArray(t, a).base = Base(a)
  <2>1. CASE a = Root
    BY <2>1 DEF TreeInv, Headed, RootHead, HeadBuf, Base
  <2>2. CASE a # Root
    BY <2>2 DEF TreeInv, Headed, InPlace, Views, HeadBuf
  <2> QED
    BY <2>1, <2>2
<1>7. HeadArray(t, a).base = At[a]
  BY <1>2, BasePlaced DEF Placed
<1>3. At[a] \in Nat /\ Size[a] \in Nat
  BY TreeAssumption
<1>4. \A c \in CellsOf(a) : At[a] + (c - At[a]) = c
  BY <1>3 DEF CellsOf
<1>5. \A m : \A c \in CellsOf(a) : Held(m, HeadArray(t, a), a, c) = m[HeadBuf(t)][c]
  BY <1>2, <1>4, <1>7 DEF Held
<1>6. Cells(HeadArray(t, a), a) = CellsOf(a)
  BY <1>7 DEF Cells, CellsOf
<1> QED
  BY <1>1, <1>2, <1>5, <1>6, <1>7

\* A buffer that is not there is found.
LEMMA NewBufIs ==
    ASSUME NEW s, IsFiniteSet(DOMAIN s.mem), NEW a, NEW key
    PROVE  NewBuf(s, a, key) \notin DOMAIN s.mem
<1> DEFINE D == DOMAIN s.mem
           top == Cardinality(D) + 1
           free == {n \in 1 .. top : <<a, key, n>> \notin D}
<1>1. Cardinality(D) \in Nat /\ top \in Nat
  BY FS_CardinalityType
<1>2. free # {}
  <2> SUFFICES ASSUME \A n \in 1 .. top : <<a, key, n>> \in D
               PROVE  FALSE
    OBVIOUS
  <2> DEFINE f == [n \in 1 .. top |-> <<a, key, n>>]
  <2>1. f \in [1 .. top -> D]
    OBVIOUS
  <2>2. IsFiniteSet(1 .. top) /\ Cardinality(1 .. top) = top
    BY <1>1, FS_Interval
  <2>3. IsFiniteSet(D)
    OBVIOUS
  <2>4. \A i, j \in 1 .. top : f[i] = f[j] => i = j
    OBVIOUS
  <2> HIDE DEF f, D
  <2>5. Cardinality(D) < Cardinality(1 .. top)
    BY <1>1, <2>2
  <2>6. \E i, j \in 1 .. top : i # j /\ f[i] = f[j]
    BY <2>1, <2>2, <2>3, <2>5, FS_PigeonHole
  <2> QED
    BY <2>4, <2>6
<1>3. free \in SUBSET Nat
  BY <1>1
<1>4. Min(free) \in free
  <2> HIDE DEF free
  <2> QED
    BY <1>2, <1>3, MinIs
<1> QED
  BY <1>4 DEF NewBuf

\* Those with a note on a cell of an array are its relatives.
LEMMA OverIs ==
    ASSUME NEW t, Shaped(t), NEW a \in Arrays, t[a].live, NEW c \in CellsOf(a)
    PROVE  /\ c \in CellsOf(Root)
           /\ \A d \in Over(t, c) : d \in Arrays /\ t[d].live /\ Pending(t, d) /\ c \in CellsOf(d) /\ Related(a, d)
           /\ (\A d \in Arrays : t[d].live /\ Related(a, d) => ~Pending(t, d)) => Over(t, c) = {}
<1>1. c \in CellsOf(Root)
  BY CellsOfAll
<1>2. \A d \in Over(t, c) : d \in Arrays /\ t[d].live /\ Pending(t, d) /\ c \in CellsOf(d)
  BY DEF Over
<1>3. \A d \in Over(t, c) : Related(a, d)
  BY <1>2, SharedCell
<1> QED
  BY <1>1, <1>2, <1>3

\* The notes on a cell are the same if those that may leave one have the same.
LEMMA OverSame ==
    ASSUME NEW t, NEW u, NEW c,
           \A d \in Arrays : c \in CellsOf(d) => u[d].live = t[d].live /\ u[d].lazy = t[d].lazy
    PROVE  Over(u, c) = Over(t, c) /\ (Over(t, c) # {} => LastNote(u, c) = LastNote(t, c))
<1>1. Over(u, c) = Over(t, c)
  BY DEF Over, Pending
<1>2. \A d \in Over(t, c) : u[d].lazy = t[d].lazy
  BY DEF Over
<1>3. Over(t, c) \in SUBSET Arrays
  BY DEF Over
<1>4. Over(t, c) # {} => Lowest(Over(t, c)) \in Over(t, c)
  BY <1>3, Deepest
<1> QED
  BY <1>1, <1>2, <1>4 DEF LastNote

\* What is to be read stays if the notes on a cell and the head array there do.
LEMMA ToldStays ==
    ASSUME NEW t, NEW u, NEW m, NEW n, NEW x, NEW y, NEW c, ToldAt(t, m, x, c),
           \A d \in Arrays : c \in CellsOf(d) => u[d].live = t[d].live /\ u[d].lazy = t[d].lazy,
           HasHead(t, Root) => HasHead(u, Root) /\ n[HeadBuf(u)][c] = m[HeadBuf(t)][c],
           y[c] = x[c] \/ y[c] = Unknown
    PROVE  ToldAt(u, n, y, c)
<1>1. Over(u, c) = Over(t, c) /\ (Over(t, c) # {} => LastNote(u, c) = LastNote(t, c))
  BY OverSame
<1> QED
  BY <1>1 DEF ToldAt


-----------------------------------------------------------------------------
(* sync and the memory. *)

\* A copy comes to be, with anything in it.
LEMMA GrownCopy ==
    ASSUME Placed, NEW t, NEW m, NEW x, Mem(t, m, x), HasHead(t, Root), NEW a \in Arrays, t[a].live,
           NEW key, key \notin DOMAIN t[a].arrays, NEW buf, buf \notin DOMAIN m,
           NEW u, TreeInv(u), HasHead(u, Root), Grown(t, u, a, key, buf)
    PROVE  /\ Mem(u, With(m, buf, Fresh), x) /\ ~u[a].arrays[key].atHead
           /\ HeadBuf(u) = HeadBuf(t)
<1> DEFINE n == With(m, buf, Fresh)
<1>1. \A d \in Arrays : Kept(t[d], u[d]) /\ u[d].head = t[d].head
  BY DEF Grown
<1>2. \A d \in Arrays : d # a => u[d].arrays = t[d].arrays
  BY DEF Grown
<1>3. /\ \A k : k \in DOMAIN u[a].arrays <=> k = key \/ k \in DOMAIN t[a].arrays
      /\ u[a].arrays[key] = OwnArray(buf)
      /\ \A k \in DOMAIN t[a].arrays : u[a].arrays[k] = t[a].arrays[k]
  <2> DEFINE f == t[a].arrays
  <2>1. u[a].arrays = With(f, key, OwnArray(buf)) /\ key \notin DOMAIN f
    BY DEF Grown
  <2> HIDE DEF f
  <2>2. /\ \A k : k \in DOMAIN With(f, key, OwnArray(buf)) <=> k = key \/ k \in DOMAIN f
        /\ With(f, key, OwnArray(buf))[key] = OwnArray(buf)
        /\ \A k \in DOMAIN f : k # key => With(f, key, OwnArray(buf))[k] = f[k]
    BY WithIs
  <2> QED
    BY <2>1, <2>2 DEF f
<1>4. OwnArray(buf).buf = buf /\ OwnArray(buf).atHead = FALSE
  BY OwnIs
<1>5. /\ \A b : b \in DOMAIN n <=> b = buf \/ b \in DOMAIN m
      /\ n[buf] = Fresh
      /\ \A b \in DOMAIN m : n[b] = m[b]
  BY WithIs
<1> HIDE DEF n
<1>6. \A d \in Arrays : \A k \in DOMAIN u[d].arrays :
         \/ d = a /\ k = key /\ u[d].arrays[k].buf = buf /\ u[d].arrays[k].atHead = FALSE
         \/ k \in DOMAIN t[d].arrays /\ u[d].arrays[k] = t[d].arrays[k]
  BY <1>2, <1>3, <1>4
<1>7. \A d \in Arrays : \A k \in DOMAIN t[d].arrays : t[d].arrays[k].buf \in DOMAIN m
  BY DEF Mem, Stands
<1>8. Root \in Arrays /\ t[Root].live /\ TreeInv(t)
  BY TreeAssumption DEF Mem, TreeInv, Shaped
<1>9. t[Root].head \in DOMAIN t[Root].arrays /\ u[Root].arrays[t[Root].head] = t[Root].arrays[t[Root].head]
  <2>1. t[Root].head \in DOMAIN t[Root].arrays
    BY <1>8, HeadPlace
  <2> DEFINE h == t[Root].head
  <2> HIDE DEF h
  <2>2. h \in DOMAIN t[Root].arrays
    BY <2>1 DEF h
  <2>3. u[Root].arrays[h] = t[Root].arrays[h]
    <3>1. CASE a = Root
      BY <1>3, <2>2, <3>1
    <3>2. CASE a # Root
      BY <1>2, <1>8, <3>2
    <3> QED
      BY <3>1, <3>2
  <2> QED
    BY <2>1, <2>3 DEF h
<1>10. HeadBuf(u) = HeadBuf(t) /\ HeadBuf(t) \in DOMAIN m
  BY <1>1, <1>7, <1>8, <1>9 DEF HeadBuf, HeadArray
<1>11. Alone(u)
  <2> SUFFICES ASSUME NEW d \in Arrays, NEW e \in Arrays,
                      NEW k \in DOMAIN u[d].arrays, NEW l \in DOMAIN u[e].arrays,
                      u[d].arrays[k].buf = u[e].arrays[l].buf
               PROVE  (d = e /\ k = l) \/ (k = u[d].head /\ l = u[e].head)
    BY DEF Alone
  <2>1. CASE k \in DOMAIN t[d].arrays /\ u[d].arrays[k] = t[d].arrays[k]
    <3>1. CASE l \in DOMAIN t[e].arrays /\ u[e].arrays[l] = t[e].arrays[l]
      BY <1>1, <2>1, <3>1 DEF Mem, Alone
    <3>2. CASE u[e].arrays[l].buf = buf
      BY <1>7, <2>1, <3>2
    <3> QED
      BY <1>6, <3>1, <3>2
  <2>2. CASE d = a /\ k = key /\ u[d].arrays[k].buf = buf
    <3>1. CASE l \in DOMAIN t[e].arrays /\ u[e].arrays[l] = t[e].arrays[l]
      BY <1>7, <2>2, <3>1
    <3>2. CASE e = a /\ l = key
      BY <2>2, <3>2
    <3> QED
      BY <1>6, <3>1, <3>2
  <2> QED
    BY <1>6, <2>1, <2>2
<1>12. Stands(u, n)
  <2>1. \A b \in DOMAIN n : DOMAIN n[b] = CellsOf(Root)
    BY <1>5 DEF Mem, Stands, Fresh
  <2>2. IsFiniteSet(DOMAIN n)
    <3>1. IsFiniteSet(DOMAIN m \cup {buf})
      BY FS_AddElement DEF Mem, Stands
    <3>2. DOMAIN n = DOMAIN m \cup {buf}
      BY <1>5
    <3> QED
      BY <3>1, <3>2
  <2>3. \A d \in Arrays : \A k \in DOMAIN u[d].arrays : u[d].arrays[k].buf \in DOMAIN n
    BY <1>5, <1>6, <1>7
  <2> QED
    BY <2>1, <2>2, <2>3 DEF Stands
<1>13. Told(u, n, x)
  <2> SUFFICES ASSUME NEW c \in CellsOf(Root)
               PROVE  ToldAt(u, n, x, c)
    BY DEF Told
  <2>1. ToldAt(t, m, x, c)
    BY DEF Mem, Told
  <2>2. \A d \in Arrays : c \in CellsOf(d) => u[d].live = t[d].live /\ u[d].lazy = t[d].lazy
    BY <1>1 DEF Kept
  <2>3. n[HeadBuf(u)][c] = m[HeadBuf(t)][c]
    BY <1>5, <1>10
  <2> QED
    BY <2>1, <2>2, <2>3, ToldStays
<1>14. Copied(u, n, x)
  <2> SUFFICES ASSUME NEW d \in Arrays, NEW k \in DOMAIN u[d].arrays, k # u[d].head, u[d].arrays[k].atHead,
                      NEW c \in CellsOf(d)
               PROVE  x[c] = Unknown \/ x[c] = Held(n, u[d].arrays[k], d, c)
    BY DEF Copied, Good
  <2>1. k \in DOMAIN t[d].arrays /\ u[d].arrays[k] = t[d].arrays[k] /\ k # t[d].head
    BY <1>1, <1>6
  <2>2. x[c] = Unknown \/ x[c] = Held(m, t[d].arrays[k], d, c)
    BY <2>1 DEF Mem, Copied, Good
  <2>3. t[d].arrays[k].buf \in DOMAIN m
    BY <1>7, <2>1
  <2>4. Held(n, t[d].arrays[k], d, c) = Held(m, t[d].arrays[k], d, c)
    BY <1>5, <2>3 DEF Held
  <2> QED
    BY <2>1, <2>2, <2>4
<1> QED
  BY <1>3, <1>4, <1>10, <1>11, <1>12, <1>13, <1>14 DEF Mem, n

\* Where there is no array but head arrays in one buffer, nothing is in the way.
LEMMA HeadsAlone ==
    ASSUME NEW t, \A d \in Arrays : \A k \in DOMAIN t[d].arrays : k = t[d].head
    PROVE  Alone(t) /\ \A m, x : Copied(t, m, x)
<1>1. Alone(t)
  BY DEF Alone
<1>2. \A m, x : Copied(t, m, x)
  BY DEF Copied
<1> QED
  BY <1>1, <1>2

\* The first array of a root is its head array, and that of its views; their notes stand for
\* what is in it.
LEMMA GrownFirst ==
    ASSUME NEW t, NEW m, NEW x, Mem(t, m, x), ~HasHead(t, Root), NEW key, NEW buf,
           NEW u, TreeInv(u), HasHead(u, Root), Grown(t, u, Root, key, buf)
    PROVE  /\ Mem(u, With(m, buf, Fresh), x) /\ ~u[Root].arrays[key].atHead
           /\ u[Root].head = key
<1> DEFINE n == With(m, buf, Fresh)
<1>1. /\ \A d \in Arrays : Kept(t[d], u[d])
      /\ u[Root].head = key
      /\ \A d \in Arrays : IF t[d].live THEN u[d].arrays = Only(u[d].head, ArrayIn(buf, Base(d)))
                                        ELSE u[d].arrays = t[d].arrays
  BY DEF Grown
<1>2. Root \in Arrays /\ t[Root].live /\ Shaped(t)
  BY TreeAssumption DEF Mem, TreeInv, Shaped
<1>3. ASSUME NEW d \in Arrays
      PROVE  /\ t[d].live => DOMAIN u[d].arrays = {u[d].head} /\ u[d].arrays[u[d].head] = ArrayIn(buf, Base(d))
             /\ ~t[d].live => DOMAIN u[d].arrays = {}
  <2>1. CASE t[d].live
    BY <1>1, <2>1 DEF Only
  <2>2. CASE ~t[d].live
    BY <1>1, <1>2, <2>2, DeadIs
  <2> QED
    BY <2>1, <2>2
<1>4. ArrayIn(buf, Base(Root)).atHead = FALSE /\ \A d : ArrayIn(buf, Base(d)).buf = buf
  BY DEF ArrayIn
<1>5. /\ \A b : b \in DOMAIN n <=> b = buf \/ b \in DOMAIN m
      /\ n[buf] = Fresh
      /\ \A b \in DOMAIN m : b # buf => n[b] = m[b]
  BY WithIs
<1> HIDE DEF n
<1>6. Stands(u, n)
  <2>1. \A b \in DOMAIN n : DOMAIN n[b] = CellsOf(Root)
    BY <1>5 DEF Mem, Stands, Fresh
  <2>2. IsFiniteSet(DOMAIN n)
    <3>1. IsFiniteSet(DOMAIN m \cup {buf})
      BY FS_AddElement DEF Mem, Stands
    <3>2. DOMAIN n = DOMAIN m \cup {buf}
      BY <1>5
    <3> QED
      BY <3>1, <3>2
  <2>3. \A d \in Arrays : \A k \in DOMAIN u[d].arrays : u[d].arrays[k].buf \in DOMAIN n
    BY <1>3, <1>4, <1>5
  <2> QED
    BY <2>1, <2>2, <2>3 DEF Stands
<1>7. Told(u, n, x)
  <2> SUFFICES ASSUME NEW c \in CellsOf(Root)
               PROVE  ToldAt(u, n, x, c)
    BY DEF Told
  <2>1. ToldAt(t, m, x, c)
    BY DEF Mem, Told
  <2>2. \A d \in Arrays : c \in CellsOf(d) => u[d].live = t[d].live /\ u[d].lazy = t[d].lazy
    BY <1>1 DEF Kept
  <2> QED
    BY <2>1, <2>2, ToldStays
<1>8. Alone(u) /\ Copied(u, n, x)
  BY <1>3, HeadsAlone
<1>9. ~u[Root].arrays[key].atHead
  BY <1>1, <1>2, <1>3, <1>4
<1> QED
  BY <1>1, <1>6, <1>7, <1>8, <1>9 DEF Mem, n

\* The array that is asked for is there.
LEMMA MadeMem ==
    ASSUME Placed, NEW s, NEW x, Mem(s.tree, s.mem, x), NEW a \in Arrays, s.tree[a].live, NEW key,
           key \in DOMAIN s.tree[a].arrays \/ Plain(key),
           a = Root \/ HasHead(s.tree, Root)
    PROVE  LET r == Made(s, a, key)
           IN  /\ Mem(r.tree, r.mem, x)
               /\ key \notin DOMAIN s.tree[a].arrays => ~r.tree[a].arrays[key].atHead
<1> DEFINE t == s.tree
           m == s.mem
           r == Made(s, a, key)
           buf == NewBuf(s, a, key)
<1>1. TreeInv(t)
  BY DEF Mem
<1>2. CASE key \in DOMAIN t[a].arrays
  BY <1>2 DEF Made
<1>3. CASE key \notin DOMAIN t[a].arrays
  <2>1. /\ TreeInv(r.tree) /\ HasHead(r.tree, Root)
        /\ r = Allocated(s, a, key) /\ Grown(t, r.tree, a, key, buf)
    BY <1>1, <1>3, MadeTree
  <2>2. r.mem = With(m, buf, Fresh)
    BY <2>1 DEF Allocated
  <2>3. buf \notin DOMAIN m
    <3>1. IsFiniteSet(DOMAIN s.mem)
      BY DEF Mem, Stands
    <3> QED
      BY <3>1, NewBufIs
  <2> DEFINE u == r.tree
  <2>4. Mem(t, m, x) /\ t[a].live /\ (a = Root \/ HasHead(t, Root))
    OBVIOUS
  <2>5. TreeInv(u) /\ HasHead(u, Root) /\ Grown(t, u, a, key, buf)
    BY <2>1
  <2> HIDE DEF u, t, m, buf
  <2>6. Mem(u, With(m, buf, Fresh), x) /\ ~u[a].arrays[key].atHead
    <3>1. CASE HasHead(t, Root)
      BY ONLY Placed, <1>3, <2>3, <2>4, <2>5, <3>1, a \in Arrays, GrownCopy
    <3>2. CASE ~HasHead(t, Root)
      <4>1. a = Root
        BY <2>4, <3>2
      <4> QED
        BY ONLY <2>4, <2>5, <3>2, <4>1, GrownFirst
    <3> QED
      BY <3>1, <3>2
  <2> QED
    BY <2>2, <2>6 DEF u
<1> QED
  BY <1>2, <1>3


\* Nobody has a note that changes what is to be read in an array.
Quiet(t, a) == \A d \in Arrays : t[d].live /\ Related(a, d) => ~Pending(t, d)

\* A copy lies in a buffer of its own, at its beginning.
LEMMA CopyPlace ==
    ASSUME Placed, NEW t, TreeInv(t), Alone(t), HasHead(t, Root), NEW a \in Arrays, NEW key \in DOMAIN t[a].arrays,
           key # t[a].head
    PROVE  /\ t[a].live /\ t[a].arrays[key].base = 0 /\ t[a].arrays[key].buf # HeadBuf(t)
           /\ \A c \in CellsOf(a) : t[a].arrays[key].base + (c - At[a]) \in CellsOf(Root)
<1>1. Root \in Arrays /\ t[Root].live
  BY TreeAssumption DEF TreeInv, Shaped
<1>2. t[Root].head \in DOMAIN t[Root].arrays /\ HeadArray(t, Root) = t[Root].arrays[t[Root].head]
  BY <1>1, HeadPlace
<1>3. t[a].live
  BY DeadIs DEF TreeInv
<1>4. t[a].arrays[key].base = 0
  BY DEF TreeInv, Headed, Stored
<1>5. t[a].arrays[key].buf # HeadBuf(t)
  BY <1>1, <1>2 DEF Alone, HeadBuf
<1>6. ASSUME NEW c \in CellsOf(a)
      PROVE  0 + (c - At[a]) \in CellsOf(Root)
  <2>1. At[a] \in Nat /\ Size[a] \in Nat /\ At[Root] = 0 /\ Size[Root] \in Nat
    BY <1>1, TreeAssumption
  <2>2. c \in CellsOf(Root)
    BY CellsOfAll
  <2> QED
    BY <1>6, <2>1, <2>2 DEF CellsOf
<1> QED
  BY <1>3, <1>4, <1>5, <1>6

\* Where nobody has a note there is what the head array holds.
LEMMA HeadGood ==
    ASSUME Placed, NEW t, NEW m, NEW x, TreeInv(t), HasHead(t, Root), Told(t, m, x), NEW a \in Arrays, t[a].live,
           Quiet(t, a)
    PROVE  /\ \A c \in CellsOf(a) : Over(t, c) = {} /\ (x[c] = Unknown \/ x[c] = m[HeadBuf(t)][c])
           /\ Good(t, m, x, a, t[a].head)
<1>1. ASSUME NEW c \in CellsOf(a)
      PROVE  c \in CellsOf(Root) /\ Over(t, c) = {}
  BY OverIs DEF Quiet, TreeInv
<1>2. ASSUME NEW c \in CellsOf(a)
      PROVE  x[c] = Unknown \/ x[c] = m[HeadBuf(t)][c]
  BY <1>1 DEF Told, ToldAt
<1>3. ASSUME NEW c \in CellsOf(a)
      PROVE  x[c] = Unknown \/ x[c] = Held(m, t[a].arrays[t[a].head], a, c)
  <2>1. /\ HeadArray(t, a) = t[a].arrays[t[a].head]
        /\ Held(m, HeadArray(t, a), a, c) = m[HeadBuf(t)][c]
    BY HeadPlace
  <2>2. Held(m, t[a].arrays[t[a].head], a, c) = m[HeadBuf(t)][c]
    BY <2>1
  <2> QED
    BY <1>2, <2>2
<1> QED
  BY <1>1, <1>2, <1>3 DEF Good

\* A write to an array in a buffer.
LEMMA PutIs ==
    ASSUME NEW m, NEW array, array.buf \in DOMAIN m, NEW a, NEW v
    PROVE  LET n == Put(m, array, a, v)
               b == array.buf
           IN  /\ DOMAIN n = DOMAIN m /\ DOMAIN n[b] = DOMAIN m[b]
               /\ \A e \in DOMAIN m : e # b => n[e] = m[e]
               /\ \A c \in DOMAIN m[b] : n[b][c] = IF c \in Cells(array, a) THEN v[c - array.base] ELSE m[b][c]
BY DEF Put

\* The cells of an array, and their numbers.
LEMMA CellsAre ==
    ASSUME NEW a \in Arrays, NEW array, array.base \in Nat, NEW c \in CellsOf(a)
    PROVE  LET i == array.base + (c - At[a])
           IN  i \in Cells(array, a) /\ i - array.base = c - At[a] /\ c - At[a] \in Indices(a)
               /\ At[a] + (c - At[a]) = c
<1>1. At[a] \in Nat /\ Size[a] \in Nat
  BY TreeAssumption
<1> DEFINE p == array.base
<1>2. p \in Nat /\ c \in Int /\ c >= At[a] /\ c < At[a] + Size[a]
  BY <1>1 DEF CellsOf
<1> HIDE DEF p
<1>3. /\ p + (c - At[a]) \in p .. p + Size[a] - 1
      /\ (p + (c - At[a])) - p = c - At[a]
      /\ c - At[a] \in 0 .. Size[a] - 1
      /\ At[a] + (c - At[a]) = c
  BY <1>1, <1>2
<1> QED
  BY <1>3 DEF Cells, Indices, p

\* Where an array was written.
LEMMA PutHeld ==
    ASSUME NEW m, NEW a \in Arrays, NEW array, array.base \in Nat, array.buf \in DOMAIN m, NEW v,
           NEW c \in CellsOf(a), array.base + (c - At[a]) \in DOMAIN m[array.buf]
    PROVE  Held(Put(m, array, a, v), array, a, c) = v[c - At[a]]
<1> DEFINE n == Put(m, array, a, v)
           b == array.buf
           i == array.base + (c - At[a])
<1>1. n[b][i] = IF i \in Cells(array, a) THEN v[i - array.base] ELSE m[b][i]
  BY PutIs
<1>2. i \in Cells(array, a) /\ i - array.base = c - At[a]
  BY CellsAre
<1> HIDE DEF n, b, i
<1>3. n[b][i] = v[c - At[a]]
  BY <1>1, <1>2
<1> QED
  BY <1>3 DEF Held, n, b, i

\* After a write to one of the arrays that leaves what is to be read in the others.
LEMMA PutMem ==
    ASSUME NEW t, NEW m, NEW x, Mem(t, m, x), HasHead(t, Root), NEW u, SameArrays(t, u),
           NEW a \in Arrays, NEW key \in DOMAIN t[a].arrays, NEW v,
           NEW n, n = Put(m, t[a].arrays[key], a, v),
           Told(u, n, x), key = t[a].head \/ Good(u, n, x, a, key)
    PROVE  Mem(u, n, x)
<1> DEFINE array == t[a].arrays[key]
<1>1. TreeInv(t) /\ Alone(t) /\ Stands(t, m) /\ Copied(t, m, x)
  BY DEF Mem
<1>2. TreeInv(u)
  BY <1>1, SameTree
<1>3. \A d \in Arrays : u[d].live = t[d].live /\ u[d].head = t[d].head /\ u[d].arrays = t[d].arrays
  BY DEF SameArrays
<1>4. array.buf \in DOMAIN m
  BY <1>1 DEF Stands
<1>5. /\ DOMAIN n = DOMAIN m /\ DOMAIN n[array.buf] = DOMAIN m[array.buf]
      /\ \A e \in DOMAIN m : e # array.buf => n[e] = m[e]
  <2> HIDE DEF array
  <2>1. n = Put(m, array, a, v)
    BY DEF array
  <2> DEFINE y == Put(m, array, a, v)
  <2>2. /\ DOMAIN y = DOMAIN m /\ DOMAIN y[array.buf] = DOMAIN m[array.buf]
        /\ \A e \in DOMAIN m : e # array.buf => y[e] = m[e]
    BY <1>4, PutIs
  <2> HIDE DEF y
  <2>3. n = y
    BY <2>1 DEF y
  <2> QED
    BY ONLY <2>2, <2>3
<1>6. Alone(u)
  BY <1>1, <1>3 DEF Alone
<1>7. Stands(u, n)
  <2>1. \A b \in DOMAIN n : DOMAIN n[b] = CellsOf(Root)
    BY <1>1, <1>5 DEF Stands
  <2>2. IsFiniteSet(DOMAIN n)
    BY <1>1, <1>5 DEF Stands
  <2>3. \A d \in Arrays : \A k \in DOMAIN u[d].arrays : u[d].arrays[k].buf \in DOMAIN n
    BY <1>1, <1>3, <1>5 DEF Stands
  <2> QED
    BY <2>1, <2>2, <2>3 DEF Stands
<1>8. ASSUME NEW d \in Arrays, NEW k \in DOMAIN u[d].arrays, k # u[d].head, u[d].arrays[k].atHead
      PROVE  Good(u, n, x, d, k)
  <2>1. k \in DOMAIN t[d].arrays /\ k # t[d].head /\ t[d].arrays[k].atHead
    BY <1>3, <1>8
  <2>2. CASE d = a /\ k = key
    BY <2>1, <2>2
  <2>3. CASE ~(d = a /\ k = key)
    <3>1. t[d].arrays[k].buf # array.buf
      BY <1>1, <2>1, <2>3 DEF Alone
    <3>2. t[d].arrays[k].buf \in DOMAIN m
      BY <1>1, <2>1 DEF Stands
    <3>3. n[t[d].arrays[k].buf] = m[t[d].arrays[k].buf]
      BY <1>5, <3>1, <3>2
    <3>4. \A c : Held(n, t[d].arrays[k], d, c) = Held(m, t[d].arrays[k], d, c)
      BY <3>3 DEF Held
    <3>5. Good(t, m, x, d, k)
      BY <1>1, <2>1 DEF Copied
    <3> QED
      BY <1>3, <3>4, <3>5 DEF Good
  <2> QED
    BY <2>2, <2>3
<1>9. Copied(u, n, x)
  BY <1>8 DEF Copied
<1> QED
  BY <1>2, <1>6, <1>7, <1>9 DEF Mem


\* The notes carried out are those of S on the cell of an array in the buffer.
LEMMA NotedIs ==
    ASSUME Placed, NEW s, TreeInv(s.tree), HasHead(s.tree, Root), NEW S, \A d \in S : d \in Arrays /\ s.tree[d].live
    PROVE  /\ \A b, c : b # HeadBuf(s.tree) => Noted(s, S, b, c) = {}
           /\ \A c : Noted(s, S, HeadBuf(s.tree), c) = Over(s.tree, c) \cap S
<1> DEFINE t == s.tree
<1>1. \A d \in S : d \in Arrays /\ t[d].live /\ HeadArray(t, d).buf = HeadBuf(t)
                   /\ Cells(HeadArray(t, d), d) = CellsOf(d)
  BY HeadPlace
<1>2. \A b, c : Noted(s, S, b, c) =
         {d \in S : Pending(t, d) /\ HeadArray(t, d).buf = b /\ c \in Cells(HeadArray(t, d), d)}
  BY DEF Noted
<1> HIDE DEF t
<1>3. \A b, c : b # HeadBuf(t) => Noted(s, S, b, c) = {}
  BY <1>1, <1>2
<1>4. \A c : Noted(s, S, HeadBuf(t), c) = Over(t, c) \cap S
  BY <1>1, <1>2 DEF Over
<1> QED
  BY <1>3, <1>4 DEF t

\* Of the notes on a cell, the family of an array that nobody with a note is above of has all or
\* none.
LEMMA AllOrNone ==
    ASSUME NEW t, Shaped(t), NEW z \in Arrays, t[z].live, \A p \in Lineage[z] : p # z => ~Pending(t, p),
           NEW c
    PROVE  Over(t, c) \cap Family(t, z) = {} \/ Over(t, c) \subseteq Family(t, z)
<1> SUFFICES ASSUME NEW d \in Over(t, c), d \in Family(t, z), NEW e \in Over(t, c)
             PROVE  e \in Family(t, z)
  OBVIOUS
<1>1. Family(t, z) = {a \in Arrays : z \in Lineage[a] /\ t[a].live}
  BY FamilyIs
<1>2. d \in Arrays /\ t[d].live /\ c \in CellsOf(d) /\ z \in Lineage[d]
  BY <1>1 DEF Over
<1>3. e \in Arrays /\ t[e].live /\ c \in CellsOf(e) /\ Pending(t, e)
  BY DEF Over
<1>4. Related(d, e)
  BY <1>2, <1>3, SharedCell
<1>5. CASE d \in Lineage[e]
  BY <1>1, <1>2, <1>3, <1>5, LineageOfAncestor
<1>6. CASE e \in Lineage[d]
  <2>1. Related(z, e)
    BY <1>2, <1>6, AncestorsRelated
  <2>2. e \in Lineage[z] => e = z
    BY <1>3
  <2>3. z \in Lineage[z]
    BY LineageStep
  <2> QED
    BY <1>1, <1>3, <2>1, <2>2, <2>3 DEF Related
<1> QED
  BY <1>4, <1>5, <1>6 DEF Related

\* The notes of a family are carried out.
LEMMA CarryMem ==
    ASSUME Placed, NEW s, NEW x, Mem(s.tree, s.mem, x), HasHead(s.tree, Root), NEW z \in Arrays, s.tree[z].live,
           \A p \in Lineage[z] : p # z => ~Pending(s.tree, p)
    PROVE  LET r == CarriedBy(s, Family(s.tree, z))
           IN  Mem(r.tree, r.mem, x)
<1> DEFINE t == s.tree
           m == s.mem
           F == Family(t, z)
           h == HeadBuf(t)
           u == CarriedBy(s, F).tree
           n == CarriedBy(s, F).mem
<1>1. TreeInv(t) /\ Shaped(t) /\ Alone(t) /\ Stands(t, m) /\ Told(t, m, x) /\ Copied(t, m, x)
  BY DEF Mem, TreeInv
<1>2. F \in SUBSET Arrays /\ (\A d \in F : d \in Arrays /\ t[d].live)
  BY <1>1, FamilyIs
<1>3. \A c : Over(t, c) \cap F = {} \/ Over(t, c) \subseteq F
  BY <1>1, AllOrNone
<1>4. u = ClearFlags(t, F)
  BY DEF CarriedBy
<1>5. /\ \A b, c : b # h => Noted(s, F, b, c) = {}
      /\ \A c : Noted(s, F, h, c) = Over(t, c) \cap F
  <2> HIDE DEF F
  <2> QED
    BY <1>1, <1>2, NotedIs
<1>6. DOMAIN n = DOMAIN m /\ \A b \in DOMAIN m : DOMAIN n[b] = DOMAIN m[b]
      /\ \A c \in DOMAIN m[b] : n[b][c] = IF Noted(s, F, b, c) = {} THEN m[b][c]
                                          ELSE t[Lowest(Noted(s, F, b, c))].lazy
  BY DEF CarriedBy
<1> HIDE DEF F, n
<1>7. /\ SameArrays(t, u)
      /\ \A d \in Arrays : u[d].lazy = IF d \in F THEN Nothing ELSE t[d].lazy
  <2> HIDE DEF t, u
  <2>1. LET w == ClearFlags(t, F)
        IN SameArrays(t, w) /\ \A d \in Arrays : w[d].lazy = IF d \in F THEN Nothing ELSE t[d].lazy
    BY <1>1, <1>2, ClearTree
  <2> QED
    BY <1>4, <2>1
<1> HIDE DEF u
<1>8. TreeInv(u)
  BY <1>1, <1>7, SameTree
<1>9. \A d \in Arrays : u[d].live = t[d].live /\ u[d].head = t[d].head /\ u[d].arrays = t[d].arrays
  BY <1>7 DEF SameArrays
<1>10. Root \in Arrays /\ t[Root].live /\ HasHead(u, Root) /\ HeadBuf(u) = h
  BY <1>1, <1>9, TreeAssumption DEF Shaped, HasHead, HeadBuf, HeadArray
<1>11. h \in DOMAIN m
  <2>1. t[Root].head \in DOMAIN t[Root].arrays /\ HeadArray(t, Root) = t[Root].arrays[t[Root].head]
    BY <1>1, <1>10, HeadPlace
  <2> QED
    BY <1>1, <1>10, <2>1 DEF Stands, HeadBuf
<1>12. \A b \in DOMAIN m : DOMAIN n[b] = CellsOf(Root) /\ DOMAIN m[b] = CellsOf(Root)
  BY <1>1, <1>6 DEF Stands
<1>13. Alone(u)
  BY <1>1, <1>9 DEF Alone
<1>14. Stands(u, n)
  BY <1>1, <1>6, <1>9, <1>12 DEF Stands
<1>15. ASSUME NEW c \in CellsOf(Root)
       PROVE  ToldAt(u, n, x, c)
  <2>1. ToldAt(t, m, x, c)
    BY <1>1 DEF Told
  <2>2. CASE Over(t, c) \cap F = {}
    <3>1. n[h][c] = m[h][c]
      BY <1>5, <1>6, <1>11, <1>12, <2>2
    <3>2. ASSUME NEW d \in Arrays, c \in CellsOf(d)
          PROVE  u[d].live = t[d].live /\ u[d].lazy = t[d].lazy
      <4>1. CASE d \in F
        BY <1>2, <1>7, <1>9, <2>2, <3>2, <4>1 DEF Over, Pending
      <4>2. CASE d \notin F
        BY <1>7, <1>9, <4>2
      <4> QED
        BY <4>1, <4>2
    <3>3. HasHead(u, Root) /\ n[HeadBuf(u)][c] = m[HeadBuf(t)][c]
      BY <1>10, <3>1
    <3> HIDE DEF t, m
    <3> QED
      BY <2>1, <3>2, <3>3, ToldStays
  <2>3. CASE Over(t, c) \cap F # {}
    <3>1. Over(t, c) \cap F = Over(t, c) /\ Over(t, c) # {}
      BY <1>3, <2>3
    <3>2. n[h][c] = LastNote(t, c)
      <4>1. Noted(s, F, h, c) = Over(t, c)
        BY ONLY <1>5, <3>1
      <4>2. n[h][c] = IF Noted(s, F, h, c) = {} THEN m[h][c] ELSE t[Lowest(Noted(s, F, h, c))].lazy
        BY <1>6, <1>11, <1>12
      <4> QED
        BY ONLY <3>1, <4>1, <4>2 DEF LastNote
    <3>3. Over(u, c) = {}
      <4>1. \A d \in Over(t, c) : d \in F
        BY <3>1
      <4>2. \A d \in Arrays : Pending(u, d) => Pending(t, d) /\ d \notin F
        BY <1>7 DEF Pending
      <4> QED
        BY <1>9, <4>1, <4>2 DEF Over
    <3> QED
      BY <1>10, <2>1, <3>1, <3>2, <3>3 DEF ToldAt
  <2> QED
    BY <2>2, <2>3
<1>16. ASSUME NEW d \in Arrays, NEW k \in DOMAIN u[d].arrays, k # u[d].head, u[d].arrays[k].atHead,
              NEW c \in CellsOf(d)
       PROVE  x[c] = Unknown \/ x[c] = Held(n, u[d].arrays[k], d, c)
  <2> DEFINE array == t[d].arrays[k]
             b == array.buf
             i == array.base + (c - At[d])
  <2>1. k \in DOMAIN t[d].arrays /\ k # t[d].head /\ array.atHead /\ u[d].arrays[k] = array
    BY <1>9, <1>16
  <2>2. b # h /\ i \in CellsOf(Root)
    BY <1>1, <2>1, CopyPlace
  <2>3. b \in DOMAIN m
    BY <1>1, <2>1 DEF Stands
  <2>4. n[b][i] = m[b][i]
    <3> HIDE DEF b, i
    <3> QED
      BY <1>5, <1>6, <1>12, <2>2, <2>3
  <2>5. x[c] = Unknown \/ x[c] = Held(m, array, d, c)
    BY <1>1, <2>1 DEF Copied, Good
  <2>6. Held(n, array, d, c) = Held(m, array, d, c)
    BY <2>4 DEF Held
  <2> QED
    BY <2>1, <2>5, <2>6
<1>17. Copied(u, n, x)
  BY <1>16 DEF Copied, Good
<1>18. Told(u, n, x)
  BY <1>15 DEF Told
<1> QED
  BY <1>8, <1>13, <1>14, <1>17, <1>18 DEF Mem, u, n, F


\* check_zeroing_filling: then nobody has a note that changes what is to be read in the array,
\* unless it is a root without views.
LEMMA CarriedMem ==
    ASSUME Placed, NEW s, NEW x, Mem(s.tree, s.mem, x), HasHead(s.tree, Root), NEW a \in Arrays, s.tree[a].live
    PROVE  LET r == Carried(s, a)
           IN  /\ Mem(r.tree, r.mem, x)
               /\ HasFamily(s.tree, a) => Quiet(r.tree, a)
               /\ ~HasFamily(s.tree, a) => r = s
<1> DEFINE t == s.tree
           r == Carried(s, a)
           z == ZeroFillRoot(t, a)
           F == Family(t, z)
<1>1. TreeInv(t) /\ Shaped(t)
  BY DEF Mem, TreeInv
<1>2. /\ SameArrays(t, r.tree) /\ Standing(t, r.tree)
      /\ \/ /\ HasFamily(t, a) /\ AnyPending(t, a)
            /\ r = CarriedBy(s, F)
            /\ \A d \in Arrays : r.tree[d].lazy = IF d \in F THEN Nothing ELSE t[d].lazy
         \/ ~(HasFamily(t, a) /\ AnyPending(t, a)) /\ r = s
  BY <1>1, CarriedTree
<1>3. z \in Lineage[a] /\ z \in Arrays /\ t[z].live /\ \A p \in Lineage[z] : p # z => ~Pending(t, p)
  BY <1>1, ZeroFillRootIs
<1> HIDE DEF z
<1>4. F = {d \in Arrays : z \in Lineage[d] /\ t[d].live}
  BY <1>1, <1>3, FamilyIs
<1>5. CASE HasFamily(t, a) /\ AnyPending(t, a)
  <2>1. r = CarriedBy(s, F)
        /\ \A d \in Arrays : r.tree[d].lazy = IF d \in F THEN Nothing ELSE t[d].lazy
    BY <1>2, <1>5
  <2>2. Mem(CarriedBy(s, F).tree, CarriedBy(s, F).mem, x)
    BY <1>3, CarryMem
  <2> HIDE DEF F, r, t
  <2>3. ASSUME NEW d \in Arrays, r.tree[d].live, Related(a, d)
        PROVE  ~Pending(r.tree, d)
    <3>1. t[d].live
      BY <1>2, <2>3 DEF Standing
    <3>2. CASE a \in Lineage[d]
      <4>1. z \in Lineage[d]
        BY <1>3, <3>2, LineageOfAncestor
      <4> QED
        BY <1>4, <2>1, <3>1, <4>1 DEF Pending
    <3>3. CASE d \in Lineage[a]
      <4>1. Related(z, d)
        BY <1>3, <3>3, AncestorsRelated
      <4>2. CASE z \in Lineage[d]
        BY <1>4, <2>1, <3>1, <4>2 DEF Pending
      <4>3. CASE d \in Lineage[z] /\ z \notin Lineage[d]
        <5>1. d # z
          BY <4>3, LineageStep
        <5>2. ~Pending(t, d)
          BY <1>3, <4>3, <5>1
        <5> QED
          BY <2>1, <5>2 DEF Pending
      <4> QED
        BY <4>1, <4>2, <4>3 DEF Related
    <3> QED
      BY <2>3, <3>2, <3>3 DEF Related
  <2> QED
    BY <1>5, <2>1, <2>2, <2>3 DEF Quiet, r, t
<1>6. CASE ~(HasFamily(t, a) /\ AnyPending(t, a))
  <2>1. r = s
    BY <1>2, <1>6
  <2>2. ~AnyPending(t, a) => Quiet(t, a)
    <3>1. Family(t, a) = {d \in Arrays : a \in Lineage[d] /\ t[d].live}
      BY <1>1, FamilyIs
    <3> QED
      BY <3>1 DEF AnyPending, Quiet, Related
  <2> HIDE DEF r
  <2> QED
    BY <1>6, <2>1, <2>2 DEF r
<1> QED
  BY <1>5, <1>6

\* What is said of nobody is not said of the root.
LEMMA QuietClean ==
    ASSUME NEW t, Shaped(t), NEW a \in Arrays, Quiet(t, a)
    PROVE  Clean(t)
<1>1. Root \in Arrays /\ t[Root].live /\ Root \in Lineage[a]
  BY RootAbove, TreeAssumption DEF Shaped
<1> QED
  BY <1>1 DEF Quiet, Clean, Related

\* An array that has no family is a root, and the only one there is.
LEMMA LoneOver ==
    ASSUME NEW t, Shaped(t), NEW a \in Arrays, ~HasFamily(t, a)
    PROVE  /\ a = Root /\ \A d \in Arrays : t[d].live => d = Root
           /\ ~Pending(t, Root) => Quiet(t, a)
           /\ Pending(t, Root) => \A c \in CellsOf(Root) : Over(t, c) # {} /\ LastNote(t, c) = t[Root].lazy
<1>1. a = Root
  BY DEF HasFamily
<1>2. \A d \in Arrays : t[d].live => d = Root
  BY <1>1, LoneRoot DEF Views
<1>3. ~Pending(t, Root) => Quiet(t, a)
  BY <1>2 DEF Quiet
<1>4. ASSUME Pending(t, Root), NEW c \in CellsOf(Root)
      PROVE  Over(t, c) # {} /\ LastNote(t, c) = t[Root].lazy
  <2>1. Root \in Over(t, c) /\ \A d \in Over(t, c) : d = Root
    BY <1>2, <1>4, TreeAssumption DEF Over, Shaped
  <2>2. Over(t, c) \in SUBSET Arrays /\ Over(t, c) # {}
    BY <2>1 DEF Over
  <2>3. Lowest(Over(t, c)) \in Over(t, c)
    BY <2>2, Deepest
  <2> QED
    BY <2>1, <2>2, <2>3 DEF LastNote
<1> QED
  BY <1>1, <1>2, <1>3, <1>4


\* The note of a root without views is carried out in the head array.
LEMMA FillNote ==
    ASSUME Placed, NEW t, NEW m, NEW x, Mem(t, m, x), HasHead(t, Root), NEW a \in Arrays, t[a].live,
           ~HasFamily(t, a), Pending(t, a), NEW key, key = t[a].head,
           NEW v, \A i \in Indices(a) : v[i] = t[a].lazy,
           NEW n, n = Put(m, t[a].arrays[key], a, v),
           NEW u, u = ClearFlags(t, {a})
    PROVE  Mem(u, n, x) /\ Quiet(u, a) /\ Good(u, n, x, a, key)
<1> DEFINE array == t[a].arrays[key]
           h == HeadBuf(t)
<1>1. TreeInv(t) /\ Shaped(t) /\ Stands(t, m) /\ Told(t, m, x)
  BY DEF Mem, TreeInv
<1>2. /\ a = Root /\ \A d \in Arrays : t[d].live => d = Root
      /\ \A c \in CellsOf(Root) : Over(t, c) # {} /\ LastNote(t, c) = t[a].lazy
  BY <1>1, LoneOver
<1>3. key \in DOMAIN t[a].arrays /\ HeadArray(t, a) = array /\ array.buf = h /\ array.base = At[a]
      /\ Cells(array, a) = CellsOf(a)
  <2>1. /\ t[a].head \in DOMAIN t[a].arrays /\ HeadArray(t, a) = t[a].arrays[t[a].head]
        /\ HeadArray(t, a).buf = HeadBuf(t) /\ HeadArray(t, a).base = At[a]
        /\ Cells(HeadArray(t, a), a) = CellsOf(a)
    BY <1>1, HeadPlace
  <2> QED
    BY <2>1
<1>4. h \in DOMAIN m /\ DOMAIN m[h] = CellsOf(Root)
  BY <1>1, <1>3 DEF Stands
<1> HIDE DEF array, h
<1>5. SameArrays(t, u) /\ \A d \in Arrays : u[d].lazy = IF d = a THEN Nothing ELSE t[d].lazy
  <2> DEFINE S == {a}
             w == ClearFlags(t, S)
  <2>1. S \in SUBSET Arrays /\ (\A d \in S : t[d].live) /\ \A d : d \in S <=> d = a
    OBVIOUS
  <2>2. w = u
    OBVIOUS
  <2> HIDE DEF S
  <2>3. SameArrays(t, w) /\ \A d \in Arrays : w[d].lazy = IF d \in S THEN Nothing ELSE t[d].lazy
    BY <1>1, <2>1, ClearTree
  <2> HIDE DEF w
  <2> QED
    BY ONLY <2>1, <2>2, <2>3
<1>6. TreeInv(u) /\ HasHead(u, Root) /\ HeadBuf(u) = h /\ u[a].live /\ u[a].head = key
  <2>1. TreeInv(u)
    BY <1>1, <1>5, SameTree
  <2>2. u[a].live = t[a].live /\ u[a].head = t[a].head /\ u[a].arrays = t[a].arrays
    BY <1>5 DEF SameArrays
  <2> QED
    BY ONLY <1>2, <2>1, <2>2, HasHead(t, Root), key = t[a].head, t[a].live DEF HasHead, HeadBuf, HeadArray, h
<1>7. Quiet(u, a)
  BY <1>2, <1>5 DEF Quiet, Pending, SameArrays
<1>8. ASSUME NEW c \in CellsOf(Root)
      PROVE  ToldAt(u, n, x, c)
  <2>1. Over(u, c) = {}
    BY <1>2, <1>6, <1>7, <1>8, OverIs DEF Quiet, TreeInv
  <2>2. n[h][c] = t[a].lazy
    <3>1. At[a] = 0 /\ c - At[a] \in Indices(a) /\ c \in Cells(array, a)
      <4>1. At[a] = 0 /\ Size[a] \in Nat
        BY <1>2, TreeAssumption
      <4> QED
        BY <1>2, <1>3, <1>8, <4>1 DEF CellsOf, Indices
    <3> DEFINE y == Put(m, array, a, v)
    <3>2. \A e \in DOMAIN m[array.buf] : y[array.buf][e] = IF e \in Cells(array, a) THEN v[e - array.base]
                                                           ELSE m[array.buf][e]
      BY <1>3, <1>4, PutIs
    <3>3. y = n
      BY DEF array
    <3> HIDE DEF y
    <3>4. n[h][c] = v[c - At[a]]
      BY <1>2, <1>3, <1>4, <1>8, <3>1, <3>2, <3>3
    <3> QED
      BY <3>1, <3>4
  <2>3. x[c] # Unknown => x[c] = t[a].lazy
    BY <1>1, <1>2 DEF Told, ToldAt
  <2> QED
    BY <1>6, <2>1, <2>2, <2>3 DEF ToldAt
<1>9. Told(u, n, x)
  BY <1>8 DEF Told
<1>10. Mem(u, n, x)
  <2>1. key = t[a].head /\ key \in DOMAIN t[a].arrays /\ n = Put(m, t[a].arrays[key], a, v)
    BY <1>3
  <2> QED
    BY <1>5, <1>9, <2>1, PutMem
<1>11. Good(u, n, x, a, u[a].head)
  BY <1>6, <1>7, <1>9, HeadGood
<1> QED
  BY <1>6, <1>7, <1>10, <1>11

\* An array is brought up to date from the head array.
LEMMA FillCopy ==
    ASSUME Placed, NEW t, NEW m, NEW x, Mem(t, m, x), HasHead(t, Root), NEW a \in Arrays, t[a].live,
           Quiet(t, a), NEW key \in DOMAIN t[a].arrays,
           NEW v, \A i \in Indices(a) : v[i] = m[HeadBuf(t)][At[a] + i],
           NEW n, n = Put(m, t[a].arrays[key], a, v)
    PROVE  Mem(t, n, x) /\ Good(t, n, x, a, key)
<1> DEFINE array == t[a].arrays[key]
           h == HeadBuf(t)
           y == Put(m, array, a, v)
<1>1. TreeInv(t) /\ Shaped(t) /\ Alone(t) /\ Stands(t, m) /\ Told(t, m, x)
  BY DEF Mem, TreeInv
<1>2. array.buf \in DOMAIN m
  BY <1>1 DEF Stands
<1>3. /\ DOMAIN y = DOMAIN m
      /\ \A e \in DOMAIN m : e # array.buf => y[e] = m[e]
      /\ \A c \in DOMAIN m[array.buf] : y[array.buf][c] = IF c \in Cells(array, a) THEN v[c - array.base]
                                                          ELSE m[array.buf][c]
  BY <1>2, PutIs
<1>4. y = n
  OBVIOUS
<1> HIDE DEF y
<1>5. h \in DOMAIN m /\ DOMAIN m[h] = CellsOf(Root)
  <2>1. Root \in Arrays /\ t[Root].live
    BY <1>1, TreeAssumption DEF Shaped
  <2>2. t[Root].head \in DOMAIN t[Root].arrays /\ HeadArray(t, Root) = t[Root].arrays[t[Root].head]
    BY <1>1, <2>1, HeadPlace
  <2> QED
    BY <1>1, <2>1, <2>2 DEF Stands, HeadBuf
<1>6. \A c \in CellsOf(a) : x[c] = Unknown \/ x[c] = m[h][c]
  BY <1>1, HeadGood
<1>7. \A c \in CellsOf(a) : v[c - At[a]] = m[h][c]
  <2>1. At[a] \in Nat /\ Size[a] \in Nat
    BY TreeAssumption
  <2>2. ASSUME NEW c \in CellsOf(a)
        PROVE  c - At[a] \in Indices(a) /\ At[a] + (c - At[a]) = c
    BY <2>1 DEF CellsOf, Indices
  <2> QED
    BY <2>2
<1>8. CASE key = t[a].head
  <2>1. array.buf = h /\ array.base = At[a] /\ Cells(array, a) = CellsOf(a)
    <3>1. /\ HeadArray(t, a) = t[a].arrays[t[a].head]
          /\ HeadArray(t, a).buf = HeadBuf(t) /\ HeadArray(t, a).base = At[a]
          /\ Cells(HeadArray(t, a), a) = CellsOf(a)
      BY <1>1, HeadPlace
    <3> QED
      BY <1>8, <3>1
  <2> HIDE DEF array, h
  <2>2. ASSUME NEW c \in CellsOf(Root)
        PROVE  n[h][c] = m[h][c]
    BY <1>3, <1>4, <1>5, <1>7, <2>1
  <2>3. ASSUME NEW c \in CellsOf(Root)
        PROVE  ToldAt(t, n, x, c)
    <3>1. ToldAt(t, m, x, c)
      BY <1>1 DEF Told
    <3> QED
      BY <2>2, <3>1 DEF ToldAt, h
  <2>4. Told(t, n, x)
    BY <2>3 DEF Told
  <2>5. SameArrays(t, t)
    BY <1>1 DEF SameArrays, Shaped, Node
  <2>6. Mem(t, n, x)
    BY <1>8, <2>4, <2>5, PutMem
  <2> QED
    BY <1>1, <1>8, <2>4, <2>6, HeadGood
<1>9. CASE key # t[a].head
  <2>1. array.buf # h /\ array.base = 0
        /\ \A c \in CellsOf(a) : array.base + (c - At[a]) \in CellsOf(Root)
    BY <1>1, <1>9, CopyPlace
  <2>2. n[h] = m[h]
    BY <1>3, <1>4, <1>5, <2>1
  <2>3. ASSUME NEW c \in CellsOf(Root)
        PROVE  ToldAt(t, n, x, c)
    <3>1. ToldAt(t, m, x, c)
      BY <1>1 DEF Told
    <3> QED
      BY <2>2, <3>1 DEF ToldAt
  <2>4. Told(t, n, x)
    BY <2>3 DEF Told
  <2>5. SameArrays(t, t)
    BY <1>1 DEF SameArrays, Shaped, Node
  <2>6. ASSUME NEW c \in CellsOf(a)
        PROVE  Held(n, array, a, c) = m[h][c]
    <3>1. array.base \in Nat /\ DOMAIN m[array.buf] = CellsOf(Root)
      BY <1>1, <1>2, <2>1 DEF Stands
    <3>2. array.base + (c - At[a]) \in DOMAIN m[array.buf]
      BY <2>1, <3>1
    <3> HIDE DEF array
    <3>3. Held(Put(m, array, a, v), array, a, c) = v[c - At[a]]
      BY <1>2, <3>1, <3>2, PutHeld
    <3> QED
      BY <1>4, <1>7, <3>3 DEF y
  <2>7. Good(t, n, x, a, key)
    BY <1>6, <2>6 DEF Good
  <2>8. Mem(t, n, x)
    BY <2>4, <2>5, <2>7, PutMem
  <2> QED
    BY <2>7, <2>8
<1> QED
  BY <1>8, <1>9

\* The end of sync.
LEMMA FilledMem ==
    ASSUME Placed, NEW s, State(s), NEW x, Mem(s.tree, s.mem, x), HasHead(s.tree, Root), NEW a \in Arrays, s.tree[a].live,
           NEW key \in DOMAIN s.tree[a].arrays, NEW writeOnly,
           HasFamily(s.tree, a) => Quiet(s.tree, a),
           ~HasFamily(s.tree, a) /\ Pending(s.tree, a) => key = s.tree[a].head /\ ~s.tree[a].arrays[key].atHead
    PROVE  LET r == Filled(s, a, key, writeOnly)
           IN  /\ Mem(r.tree, r.mem, x)
               /\ ~writeOnly => Good(r.tree, r.mem, x, a, key)
               /\ HasFamily(s.tree, a) \/ ~writeOnly => Quiet(r.tree, a)
<1> DEFINE t == s.tree
           m == s.mem
           r == Filled(s, a, key, writeOnly)
           noted == ~HasFamily(t, a) /\ Pending(t, a)
<1>1. TreeInv(t) /\ Shaped(t) /\ Told(t, m, x) /\ Copied(t, m, x)
  BY DEF Mem, TreeInv
<1>2. ~noted => Quiet(t, a)
  <2>1. ~HasFamily(t, a) => a = Root /\ (~Pending(t, Root) => Quiet(t, a))
    BY <1>1, LoneOver
  <2> QED
    BY <2>1
<1>3. CASE writeOnly \/ t[a].arrays[key].atHead
  <2>1. r = s
    BY <1>3 DEF Filled
  <2>2. ~writeOnly => ~noted
    BY <1>3
  <2>3. ~writeOnly => Good(t, m, x, a, key)
    <3>1. CASE key = t[a].head
      BY <1>1, <1>2, <2>2, <3>1, HeadGood
    <3>2. CASE key # t[a].head
      BY <1>1, <1>3, <3>2 DEF Copied
    <3> QED
      BY <3>1, <3>2
  <2> HIDE DEF r
  <2> QED
    BY <1>2, <2>1, <2>2, <2>3 DEF r
<1>4. CASE ~(writeOnly \/ t[a].arrays[key].atHead) /\ noted
  <2> DEFINE v == [i \in Indices(a) |-> t[a].lazy]
             n == Put(m, t[a].arrays[key], a, v)
             u == ClearFlags(t, {a})
  <2>1. r = [tree |-> u, mem |-> n]
    BY <1>4 DEF Filled
  <2>2. r.tree = u /\ r.mem = n
    BY <2>1
  <2>3. \A i \in Indices(a) : v[i] = t[a].lazy
    OBVIOUS
  <2>4. key = t[a].head
    BY <1>4
  <2>5. n = Put(m, t[a].arrays[key], a, v) /\ u = ClearFlags(t, {a})
    OBVIOUS
  <2> HIDE DEF v, n, u, r
  <2>6. Mem(u, n, x) /\ Quiet(u, a) /\ Good(u, n, x, a, key)
    BY <1>4, <2>3, <2>4, <2>5, FillNote
  <2> QED
    BY <2>2, <2>6 DEF r
<1>5. CASE ~(writeOnly \/ t[a].arrays[key].atHead) /\ ~noted
  <2> DEFINE v == [i \in Indices(a) |-> Place(s, HeadArray(t, a), i)]
             n == Put(m, t[a].arrays[key], a, v)
  <2>1. r.tree = t /\ r.mem = n
    BY <1>5 DEF Filled, State
  <2>2. HeadArray(t, a).buf = HeadBuf(t) /\ HeadArray(t, a).base = At[a]
    BY <1>1, HeadPlace
  <2>3. \A i \in Indices(a) : v[i] = m[HeadBuf(t)][At[a] + i]
    BY <2>2 DEF Place
  <2>4. n = Put(m, t[a].arrays[key], a, v)
    OBVIOUS
  <2> HIDE DEF v, n, r
  <2>5. Mem(t, n, x) /\ Good(t, n, x, a, key)
    BY <1>2, <1>5, <2>3, <2>4, FillCopy
  <2> QED
    BY <1>2, <1>5, <2>1, <2>5 DEF r
<1> QED
  BY <1>3, <1>4, <1>5


\* sync with a given key: then there is what was written, unless the caller is to write all.
LEMMA SyncedAtMem ==
    ASSUME Placed, NEW s, State(s), NEW x, Mem(s.tree, s.mem, x), Clean(s.tree), NEW a \in Arrays, s.tree[a].live,
           NEW key, key \in DOMAIN s.tree[a].arrays \/ Plain(key),
           a = Root \/ HasHead(s.tree, Root), NEW writeOnly
    PROVE  LET r == SyncedAt(s, a, key, writeOnly)
           IN  /\ Mem(r.tree, r.mem, x)
               /\ ~writeOnly => Good(r.tree, r.mem, x, a, key)
               /\ HasFamily(s.tree, a) \/ ~writeOnly => Quiet(r.tree, a)
<1> DEFINE t == s.tree
           s1 == Made(s, a, key)
           s2 == Carried(s1, a)
           s3 == Filled(s2, a, key, writeOnly)
<1>0. TreeInv(t)
  BY DEF Mem
<1>1. SyncedAt(s, a, key, writeOnly) = s3
  BY DEF SyncedAt, Made
<1>2. State(s1)
  BY PhaseStates DEF Made
<1>3. /\ TreeInv(s1.tree) /\ HasHead(s1.tree, Root) /\ Standing(t, s1.tree) /\ key \in DOMAIN s1.tree[a].arrays
      /\ ~HasHead(t, Root) => s1.tree[Root].head = key
      /\ \A d \in Arrays : s1.tree[d].lazy = t[d].lazy
  BY <1>0, MadeTree
<1>4. Mem(s1.tree, s1.mem, x) /\ (key \notin DOMAIN t[a].arrays => ~s1.tree[a].arrays[key].atHead)
  BY MadeMem
<1> HIDE DEF s1
<1>5. s1.tree[a].live /\ Root \in Arrays
  BY <1>3, TreeAssumption DEF Standing
<1>6. HasFamily(s1.tree, a) <=> HasFamily(t, a)
  BY <1>3, <1>5 DEF HasFamily, Standing
<1>7. SameArrays(s1.tree, s2.tree) /\ Standing(s1.tree, s2.tree) /\ TreeInv(s2.tree)
  BY <1>3, <1>5, CarriedTree
<1>8. State(s2)
  BY <1>2, PhaseStates
<1>9. /\ Mem(s2.tree, s2.mem, x)
      /\ HasFamily(t, a) => Quiet(s2.tree, a)
      /\ ~HasFamily(t, a) => s2 = s1
  BY <1>3, <1>4, <1>5, <1>6, CarriedMem
<1> HIDE DEF s2
<1>10. /\ s2.tree[a].live /\ HasHead(s2.tree, Root) /\ key \in DOMAIN s2.tree[a].arrays
       /\ HasFamily(s2.tree, a) <=> HasFamily(t, a)
  <2>1. s2.tree[a].live = s1.tree[a].live /\ s2.tree[a].arrays = s1.tree[a].arrays
        /\ s2.tree[Root].children = s1.tree[Root].children
    BY <1>5, <1>7 DEF SameArrays
  <2>2. HasHead(s2.tree, Root)
    BY <1>3, <1>5, <1>7, SameTree
  <2> QED
    BY <1>3, <1>5, <1>6, <2>1, <2>2 DEF HasFamily
<1>11. ~HasFamily(t, a) /\ Pending(s2.tree, a) => key = s2.tree[a].head /\ ~s2.tree[a].arrays[key].atHead
  <2> SUFFICES ASSUME ~HasFamily(t, a), Pending(s2.tree, a)
               PROVE  key = s2.tree[a].head /\ ~s2.tree[a].arrays[key].atHead
    OBVIOUS
  <2>1. a = Root /\ s2 = s1
    BY <1>9 DEF HasFamily
  <2>2. Pending(t, a)
    BY <1>3, <2>1 DEF Pending
  <2>3. ~HasHead(t, Root)
    BY <2>1, <2>2 DEF Clean
  <2>4. key \notin DOMAIN t[a].arrays
    BY <1>0, <2>1, <2>3, HeadIs
  <2> QED
    BY <1>3, <1>4, <2>1, <2>3, <2>4
<1>12. /\ Mem(s3.tree, s3.mem, x)
       /\ ~writeOnly => Good(s3.tree, s3.mem, x, a, key)
       /\ HasFamily(t, a) \/ ~writeOnly => Quiet(s3.tree, a)
  <2> HIDE DEF t
  <2> DEFINE y == Filled(s2, a, key, writeOnly)
  <2>1. /\ Mem(y.tree, y.mem, x)
        /\ ~writeOnly => Good(y.tree, y.mem, x, a, key)
        /\ HasFamily(s2.tree, a) \/ ~writeOnly => Quiet(y.tree, a)
    BY <1>8, <1>9, <1>10, <1>11, FilledMem
  <2> HIDE DEF y
  <2> QED
    BY <1>10, <2>1 DEF y
<1> QED
  BY <1>1, <1>12

\* A root of which there are views has children.
LEMMA RootFamily ==
    ASSUME NEW t, Shaped(t), NEW a \in Arrays, a # Root, t[a].live
    PROVE  HasFamily(t, Root)
<1>1. SUFFICES ASSUME ~HasFamily(t, Root) PROVE FALSE
  OBVIOUS
<1> QED
  BY <1>1, LoneRoot DEF Views

\* sync.
LEMMA SyncedMem ==
    ASSUME Placed, NEW s, State(s), NEW x, Mem(s.tree, s.mem, x), Clean(s.tree), NEW a \in Arrays, s.tree[a].live,
           NEW k \in Keys, NEW writeOnly
    PROVE  LET r == Synced(s, a, k, writeOnly)
           IN  /\ Mem(r.tree, r.mem, x)
               /\ ~writeOnly => Good(r.tree, r.mem, x, a, KeyOf(r.tree, a, k))
               /\ HasFamily(s.tree, a) \/ ~writeOnly => Quiet(r.tree, a)
<1> DEFINE t == s.tree
           p == Prepared(s, a, k, writeOnly)
           key == KeyOf(p.tree, a, k)
           r == Synced(s, a, k, writeOnly)
           k1 == Own(k)
<1>0. TreeInv(t) /\ Shaped(t)
  BY DEF Mem, TreeInv
<1>1. /\ State(p) /\ TreeInv(p.tree) /\ Standing(t, p.tree) /\ p.tree[a].live
      /\ a = Root \/ HasHead(p.tree, Root)
      /\ key \in DOMAIN p.tree[a].arrays \/ Plain(key)
      /\ r = SyncedAt(p, a, key, writeOnly)
      /\ KeyOf(r.tree, a, k) = key
      /\ a = Root \/ HasHead(t, a) => p = s
      /\ a # Root /\ ~HasHead(t, a) => p = SyncedAt(s, Root, k1, writeOnly)
  BY <1>0, SyncedTree
<1> HIDE DEF p, key, r
<1>2. Plain(k1) /\ Root \in Arrays /\ t[Root].live
  BY <1>0, TreeAssumption DEF Shaped, Plain, Own
<1> HIDE DEF k1
<1>3. Mem(p.tree, p.mem, x) /\ Clean(p.tree)
  <2>1. CASE a = Root \/ HasHead(t, a)
    BY <1>1, <2>1
  <2>2. CASE a # Root /\ ~HasHead(t, a)
    <3> DEFINE y == SyncedAt(s, Root, k1, writeOnly)
    <3>1. p = y /\ HasFamily(t, Root)
      BY <1>0, <1>1, <2>2, RootFamily
    <3>2. Mem(y.tree, y.mem, x) /\ (HasFamily(t, Root) \/ ~writeOnly => Quiet(y.tree, Root))
      BY <1>2, SyncedAtMem
    <3> HIDE DEF y
    <3>3. Mem(p.tree, p.mem, x) /\ Quiet(p.tree, Root)
      BY <3>1, <3>2
    <3>4. Clean(p.tree)
      BY <1>1, <1>2, <3>3, QuietClean DEF TreeInv
    <3> QED
      BY <3>3, <3>4
  <2> QED
    BY <2>1, <2>2
<1>4. HasFamily(p.tree, a) <=> HasFamily(t, a)
  BY <1>1, <1>2 DEF HasFamily, Standing
<1>5. /\ Mem(r.tree, r.mem, x)
      /\ ~writeOnly => Good(r.tree, r.mem, x, a, key)
      /\ HasFamily(t, a) \/ ~writeOnly => Quiet(r.tree, a)
  <2> DEFINE y == SyncedAt(p, a, key, writeOnly)
  <2>1. /\ Mem(y.tree, y.mem, x)
        /\ ~writeOnly => Good(y.tree, y.mem, x, a, key)
        /\ HasFamily(p.tree, a) \/ ~writeOnly => Quiet(y.tree, a)
    BY <1>1, <1>3, SyncedAtMem
  <2> HIDE DEF y
  <2> QED
    BY <1>1, <1>4, <2>1 DEF y
<1> QED
  BY <1>1, <1>5 DEF r


-----------------------------------------------------------------------------
(* The steps and the memory. *)

\* Memory nobody holds is of no use.
LEMMA RestrictMem ==
    ASSUME Placed, NEW t, NEW m, NEW x, Mem(t, m, x)
    PROVE  Mem(t, Restrict(m, UsedBufs(t)), x)
<1> DEFINE n == Restrict(m, UsedBufs(t))
<1>1. TreeInv(t) /\ Shaped(t) /\ Alone(t) /\ Stands(t, m) /\ Told(t, m, x) /\ Copied(t, m, x)
  BY DEF Mem, TreeInv
<1>2. \A d \in Arrays : \A k \in DOMAIN t[d].arrays : t[d].arrays[k].buf \in UsedBufs(t)
  BY DEF UsedBufs, Range
<1>3. UsedBufs(t) \subseteq DOMAIN m
  BY <1>1 DEF UsedBufs, Range, Stands
<1>4. DOMAIN n = UsedBufs(t) /\ \A b \in UsedBufs(t) : n[b] = m[b]
  BY DEF Restrict
<1> HIDE DEF n
<1>5. Stands(t, n)
  <2>1. IsFiniteSet(DOMAIN n)
    BY <1>1, <1>3, <1>4, FS_Subset DEF Stands
  <2> QED
    BY <1>1, <1>2, <1>3, <1>4, <2>1 DEF Stands
<1>6. HasHead(t, Root) => n[HeadBuf(t)] = m[HeadBuf(t)]
  <2>1. Root \in Arrays /\ t[Root].live
    BY <1>1, TreeAssumption DEF Shaped
  <2>2. HasHead(t, Root) =>
           t[Root].head \in DOMAIN t[Root].arrays /\ HeadArray(t, Root) = t[Root].arrays[t[Root].head]
    BY <1>1, <2>1, HeadPlace
  <2> QED
    BY <1>2, <1>4, <2>1, <2>2 DEF HeadBuf
<1>7. Told(t, n, x)
  BY <1>1, <1>6 DEF Told, ToldAt
<1>8. ASSUME NEW d \in Arrays, NEW k \in DOMAIN t[d].arrays, k # t[d].head, t[d].arrays[k].atHead
      PROVE  Good(t, n, x, d, k)
  <2>1. Good(t, m, x, d, k)
    BY <1>1, <1>8 DEF Copied
  <2>2. \A c : Held(n, t[d].arrays[k], d, c) = Held(m, t[d].arrays[k], d, c)
    BY <1>2, <1>4 DEF Held
  <2> QED
    BY <2>1, <2>2 DEF Good
<1>9. Copied(t, n, x)
  BY <1>8 DEF Copied
<1> QED
  BY <1>1, <1>5, <1>7, <1>9 DEF Mem, n

\* An array that was brought up to date is as good as the head.
LEMMA AtHeadMem ==
    ASSUME NEW t, NEW m, NEW x, Mem(t, m, x), NEW u, TreeInv(u), SamePlaces(t, u),
           NEW a \in Arrays, NEW key, Good(t, m, x, a, key),
           \A d \in Arrays : \A k \in DOMAIN t[d].arrays : d # a \/ k # key => u[d].arrays[k] = t[d].arrays[k]
    PROVE  Mem(u, m, x)
<1>1. Alone(t) /\ Stands(t, m) /\ Told(t, m, x) /\ Copied(t, m, x)
  BY DEF Mem
<1>2. \A d \in Arrays : /\ u[d].live = t[d].live /\ u[d].lazy = t[d].lazy
                        /\ u[d].head = t[d].head /\ DOMAIN u[d].arrays = DOMAIN t[d].arrays
                        /\ \A k \in DOMAIN u[d].arrays : /\ u[d].arrays[k].buf = t[d].arrays[k].buf
                                                         /\ u[d].arrays[k].base = t[d].arrays[k].base
  BY DEF SamePlaces, Kept
<1>3. Alone(u)
  BY <1>1, <1>2 DEF Alone
<1>4. Stands(u, m)
  BY <1>1, <1>2 DEF Stands
<1>5. HasHead(t, Root) => HasHead(u, Root) /\ HeadBuf(u) = HeadBuf(t)
  <2>1. Root \in Arrays
    BY TreeAssumption
  <2>2. HasHead(t, Root) => t[Root].head \in DOMAIN t[Root].arrays
    BY <2>1, HeadIs DEF Mem, TreeInv, Shaped
  <2> QED
    BY <1>2, <2>1, <2>2 DEF HasHead, HeadBuf, HeadArray
<1>6. ASSUME NEW c \in CellsOf(Root)
      PROVE  ToldAt(u, m, x, c)
  <2>1. ToldAt(t, m, x, c)
    BY <1>1 DEF Told
  <2>2. HasHead(t, Root) => HasHead(u, Root) /\ m[HeadBuf(u)][c] = m[HeadBuf(t)][c]
    BY <1>5
  <2>3. \A d \in Arrays : c \in CellsOf(d) => u[d].live = t[d].live /\ u[d].lazy = t[d].lazy
    BY <1>2
  <2> QED
    BY <2>1, <2>2, <2>3, ToldStays
<1>7. ASSUME NEW d \in Arrays, NEW k \in DOMAIN u[d].arrays, k # u[d].head, u[d].arrays[k].atHead
      PROVE  Good(u, m, x, d, k)
  <2>1. k \in DOMAIN t[d].arrays /\ k # t[d].head
    BY <1>2, <1>7
  <2>2. Good(t, m, x, d, k)
    BY <1>1, <1>7, <2>1 DEF Copied
  <2>3. \A c : Held(m, u[d].arrays[k], d, c) = Held(m, t[d].arrays[k], d, c)
    BY <1>2 DEF Held
  <2> QED
    BY <2>2, <2>3 DEF Good
<1> QED
  BY <1>3, <1>4, <1>6, <1>7 DEF Mem, Told, Copied

\* The array that is cast becomes the only one of the root; its family has no notes.
LEMMA CastMem ==
    ASSUME Placed, NEW t, NEW m, NEW x, Mem(t, m, x), NEW a \in Arrays, t[a].live,
           NEW key \in DOMAIN t[a].arrays, NEW u, Casting(t, u, a, key), Quiet(u, a),
           NEW n, DOMAIN n = DOMAIN m, \A b \in DOMAIN m : DOMAIN n[b] = DOMAIN m[b],
           NEW y, \A c \in CellsOf(Root) : IF c \in CellsOf(a) THEN y[c] = Unknown \/ y[c] = n[HeadBuf(u)][c]
                                           ELSE y[c] = x[c] /\ n[HeadBuf(u)][c] = m[HeadBuf(u)][c]
    PROVE  Mem(u, n, y) /\ Clean(u)
<1>1. TreeInv(t) /\ Shaped(t) /\ Stands(t, m) /\ Told(t, m, x)
  BY DEF Mem, TreeInv
<1>2. /\ TreeInv(u) /\ Shaped(u) /\ HasHead(u, Root)
      /\ HeadArray(u, a).buf = t[a].arrays[key].buf
      /\ a # Root => HeadBuf(u) = HeadBuf(t)
  BY DEF Casting, TreeInv, HeadBuf
<1>3. \A d \in Arrays : /\ u[d].live = t[d].live
                        /\ u[d].lazy = t[d].lazy \/ ((a = Root \/ d = a) /\ u[d].lazy = Nothing)
                        /\ t[d].live => DOMAIN u[d].arrays = {u[d].head}
  BY DEF Casting
<1>4. \A d \in Arrays : \A k \in DOMAIN u[d].arrays : u[d].live /\ k = u[d].head
  BY <1>2, <1>3, DeadIs
<1>5. \A d \in Arrays : \A k \in DOMAIN u[d].arrays : u[d].arrays[k].buf = HeadBuf(u)
  <2> SUFFICES ASSUME NEW d \in Arrays, NEW k \in DOMAIN u[d].arrays
               PROVE  u[d].arrays[k].buf = HeadBuf(u)
    OBVIOUS
  <2>1. u[d].live /\ k = u[d].head
    BY <1>4
  <2>2. HeadArray(u, d) = u[d].arrays[u[d].head] /\ HeadArray(u, d).buf = HeadBuf(u)
    BY <1>2, <2>1, HeadPlace
  <2> QED
    BY <2>1, <2>2
<1>6. HeadBuf(u) \in DOMAIN m
  <2>1. HeadArray(u, a).buf = HeadBuf(u)
    BY <1>2, <1>3, HeadPlace
  <2> QED
    BY <1>1, <1>2, <2>1 DEF Stands
<1>7. Stands(u, n)
  BY <1>1, <1>5, <1>6 DEF Stands
<1>8. Alone(u) /\ Copied(u, n, y)
  BY <1>4, HeadsAlone
<1>9. ASSUME NEW c \in CellsOf(Root)
      PROVE  ToldAt(u, n, y, c)
  <2>1. CASE c \in CellsOf(a)
    <3>1. Over(u, c) = {}
      BY <1>2, <1>3, <2>1, OverIs DEF Quiet
    <3> QED
      BY <1>2, <2>1, <3>1 DEF ToldAt
  <2>2. CASE c \notin CellsOf(a)
    <3>1. a # Root /\ y[c] = x[c] /\ n[HeadBuf(u)][c] = m[HeadBuf(t)][c]
      BY <1>2, <1>9, <2>2
    <3>2. \A d \in Arrays : c \in CellsOf(d) => u[d].live = t[d].live /\ u[d].lazy = t[d].lazy
      BY <1>3, <2>2, <3>1
    <3>3. ToldAt(t, m, x, c)
      BY <1>1 DEF Told
    <3> QED
      BY <1>2, <3>1, <3>2, <3>3, ToldStays
  <2> QED
    BY <2>1, <2>2
<1>10. Clean(u)
  BY <1>2, QuietClean
<1> QED
  BY <1>2, <1>7, <1>8, <1>9, <1>10 DEF Mem, Told


MemInv == Mem(tree, mem, cell) /\ Clean(tree) /\ DOMAIN cell = CellsOf(Root)

\* What sync makes of the state there is.
LEMMA NowMem ==
    ASSUME Placed, MemInv, NEW a \in Arrays, Live(tree, a), NEW k \in Keys, NEW writeOnly
    PROVE  LET r == Synced(Now, a, k, writeOnly)
           IN  /\ Mem(r.tree, r.mem, cell)
               /\ ~writeOnly => Good(r.tree, r.mem, cell, a, KeyOf(r.tree, a, k))
               /\ HasFamily(tree, a) \/ ~writeOnly => Quiet(r.tree, a)
<1> DEFINE s == Now
           r == Synced(s, a, k, writeOnly)
<1>1. State(s) /\ s.tree = tree /\ s.mem = mem
  BY NowIs
<1>2. Mem(s.tree, s.mem, cell) /\ Clean(s.tree) /\ s.tree[a].live
  BY <1>1 DEF MemInv, Live
<1> HIDE DEF s
<1>3. /\ Mem(r.tree, r.mem, cell)
      /\ ~writeOnly => Good(r.tree, r.mem, cell, a, KeyOf(r.tree, a, k))
      /\ HasFamily(s.tree, a) \/ ~writeOnly => Quiet(r.tree, a)
  BY <1>1, <1>2, SyncedMem
<1> HIDE DEF r
<1>4. HasFamily(s.tree, a) <=> HasFamily(tree, a)
  BY <1>1
<1> QED
  BY <1>3, <1>4 DEF r, s

\* An array that is read.
LEMMA ReadMem ==
    ASSUME Placed, MemInv, NEW a \in Arrays, Live(tree, a), NEW k \in Keys
    PROVE  LET y == ReadState(a, k)
           IN  /\ Mem(y.tree, y.mem, cell) /\ Quiet(y.tree, a)
               /\ Good(y.tree, y.mem, cell, a, KeyOf(y.tree, a, k))
<1> DEFINE w == FALSE
           r == Synced(Now, a, k, w)
<1>1. ~w /\ ReadState(a, k) = r
  BY DEF ReadState
<1> HIDE DEF w
<1>2. /\ Mem(r.tree, r.mem, cell)
      /\ ~w => Good(r.tree, r.mem, cell, a, KeyOf(r.tree, a, k))
      /\ HasFamily(tree, a) \/ ~w => Quiet(r.tree, a)
  BY NowMem
<1> HIDE DEF r
<1> QED
  BY <1>1, <1>2

\* get.
LEMMA GetMem ==
    ASSUME Placed, MemInv, NEW a \in Arrays, NEW k \in Keys, Get(a, k)
    PROVE  Mem(tree', mem', cell') /\ Clean(tree')
<1> DEFINE y == ReadState(a, k)
           key == KeyOf(y.tree, a, k)
           r == AtHead(y, a, k)
<1>1. TreeInv(tree) /\ Root \in Arrays
  BY TreeAssumption DEF MemInv, Mem
<1>2. /\ Live(tree, a) /\ UNCHANGED cell
      /\ tree' = r.tree /\ mem' = Restrict(y.mem, UsedBufs(tree'))
  BY <1>1, GetIs
<1>3. /\ State(y) /\ TreeInv(y.tree) /\ HasHead(y.tree, Root) /\ Standing(tree, y.tree)
      /\ key \in DOMAIN y.tree[a].arrays
      /\ r.mem = y.mem /\ r.tree = [y.tree EXCEPT ![a].arrays[key].atHead = TRUE]
      /\ SamePlaces(y.tree, r.tree) /\ TreeInv(r.tree)
  BY <1>1, <1>2, GetTree
<1>4. Mem(y.tree, y.mem, cell) /\ Quiet(y.tree, a) /\ Good(y.tree, y.mem, cell, a, key)
  BY <1>2, ReadMem
<1> DEFINE t == y.tree
           u == r.tree
           m == y.mem
<1>5. t[a].live
  BY <1>2, <1>3 DEF Standing, Live
<1>6. u = [t EXCEPT ![a].arrays[key].atHead = TRUE]
  BY <1>3
<1>7. /\ TreeInv(t) /\ HasHead(t, Root) /\ key \in DOMAIN t[a].arrays /\ SamePlaces(t, u) /\ TreeInv(u)
      /\ Mem(t, m, cell) /\ Quiet(t, a) /\ Good(t, m, cell, a, key)
      /\ tree' = u /\ mem' = Restrict(m, UsedBufs(tree'))
  BY <1>2, <1>3, <1>4
<1> HIDE DEF t, u, m, key, y, r
<1>8. \A d \in Arrays : \A k1 \in DOMAIN t[d].arrays : d # a \/ k1 # key => u[d].arrays[k1] = t[d].arrays[k1]
  BY ONLY <1>5, <1>6, <1>7, a \in Arrays, AtHeadTree
<1>9. Mem(u, m, cell)
  BY <1>7, <1>8, AtHeadMem
<1>10. Mem(u, Restrict(m, UsedBufs(u)), cell)
  BY <1>9, RestrictMem
<1>11. Clean(u)
  <2>1. Clean(t)
    BY <1>7, QuietClean DEF TreeInv
  <2> QED
    BY <1>1, <1>7, <2>1 DEF Clean, Pending, SamePlaces, Kept
<1> QED
  BY <1>2, <1>7, <1>10, <1>11

\* zero and fill: the note they leave is the last on the cells of the array.
LEMMA NoteMem ==
    ASSUME MemInv, NEW a \in Arrays, Live(tree, a), NEW v, v # Nothing, NEW S, NEW flag,
           NEW t, NEW u, Noting(t, u, a, v, S, flag), Write(a, v)
    PROVE  Mem(u, mem, cell') /\ Clean(u)
<1> DEFINE o == tree
           x == cell
           y == cell'
<1>1. /\ TreeInv(o) /\ Shaped(o) /\ Alone(o) /\ Stands(o, mem) /\ Told(o, mem, x) /\ Copied(o, mem, x)
      /\ Clean(o) /\ o[a].live /\ Root \in Arrays
  BY TreeAssumption DEF MemInv, Mem, TreeInv, Live
<1>2. DOMAIN y = CellsOf(Root) /\ \A c \in CellsOf(Root) : y[c] = IF c \in CellsOf(a) THEN v ELSE x[c]
  BY WriteIs DEF MemInv
<1>3. Emptying(o, t, a) /\ SameArrays(t, u) /\ TreeInv(u)
  BY DEF Noting
<1>4. Family(o, a) = {d \in Arrays : a \in Lineage[d] /\ o[d].live}
  BY <1>1, FamilyIs
<1>5. \A d \in Arrays : /\ u[d].live = o[d].live
                        /\ u[d].lazy = IF d = a THEN v ELSE IF a \in Lineage[d] /\ o[d].live THEN Nothing ELSE o[d].lazy
                        /\ u[d].head = t[d].head /\ u[d].arrays = t[d].arrays
  <2>1. \A d \in Arrays : t[d].lazy = IF a \in Lineage[d] /\ o[d].live THEN Nothing ELSE o[d].lazy
    BY <1>3, <1>4 DEF Emptying
  <2>2. \A d \in Arrays : u[d].live = o[d].live /\ u[d].lazy = IF d = a THEN v ELSE t[d].lazy
    BY DEF Noting
  <2> QED
    BY <1>3, <2>1, <2>2 DEF SameArrays
<1>6. HasHead(u, Root) <=> HasHead(t, Root)
  BY <1>1, <1>5 DEF HasHead
<1>7. HasHead(u, Root) => a # Root /\ HasHead(o, Root)
  BY <1>3, <1>6 DEF Emptying
<1> HIDE DEF o, x, y
<1>8. ASSUME HasHead(u, Root)
      PROVE  /\ HeadBuf(u) = HeadBuf(o)
             /\ \A d \in Arrays : /\ u[d].head = o[d].head
                                  /\ IF o[d].live /\ Related(a, d) THEN DOMAIN u[d].arrays = {u[d].head}
                                                                   ELSE u[d].arrays = o[d].arrays
             /\ \A d \in Arrays : \A k \in DOMAIN u[d].arrays :
                   k \in DOMAIN o[d].arrays /\ u[d].arrays[k].buf = o[d].arrays[k].buf
  <2>1. \A d \in Arrays : /\ t[d].head = o[d].head
                          /\ o[d].live => HeadArray(t, d) = HeadArray(o, d)
                          /\ IF o[d].live /\ Related(a, d) THEN DOMAIN t[d].arrays = {t[d].head}
                                                           ELSE t[d].arrays = o[d].arrays
    BY ONLY <1>3, <1>7, <1>8 DEF Emptying
  <2>2. \A d \in Arrays : HeadArray(u, d) = HeadArray(t, d)
    BY <1>5 DEF HeadArray
  <2>3. HeadBuf(u) = HeadBuf(o)
    BY <1>1, <2>1, <2>2 DEF HeadBuf, Shaped
  <2>4. ASSUME NEW d \in Arrays, NEW k \in DOMAIN u[d].arrays
        PROVE  k \in DOMAIN o[d].arrays /\ u[d].arrays[k].buf = o[d].arrays[k].buf
    <3>1. CASE o[d].live /\ Related(a, d)
      <4>1. k = u[d].head /\ u[d].head = o[d].head
        BY <1>5, <2>1, <2>4, <3>1
      <4>2. HeadArray(u, d) = HeadArray(o, d) /\ o[d].head \in DOMAIN o[d].arrays
        BY <1>1, <1>7, <1>8, <2>1, <2>2, <3>1, HeadIs
      <4> QED
        BY <4>1, <4>2 DEF HeadArray
    <3>2. CASE ~(o[d].live /\ Related(a, d))
      BY <1>5, <2>1, <2>4, <3>2
    <3> QED
      BY <3>1, <3>2
  <2> QED
    BY <1>5, <2>1, <2>3, <2>4
<1>9. ASSUME ~HasHead(u, Root), NEW d \in Arrays
      PROVE  DOMAIN u[d].arrays = {}
  BY <1>3, <1>9, HeadIs, DeadIs DEF TreeInv
<1>10. Alone(u)
  BY <1>1, <1>8, <1>9 DEF Alone
<1>11. Stands(u, mem)
  BY <1>1, <1>8, <1>9 DEF Stands
<1>12. ASSUME NEW c \in CellsOf(Root)
       PROVE  ToldAt(u, mem, y, c)
  <2>1. CASE c \in CellsOf(a)
    <3>1. \A d \in Over(u, c) : a \in Lineage[d] => d = a
      BY <1>1, <1>5 DEF Over, Pending
    <3>2. \A d \in Over(u, c) : Related(a, d)
      BY <1>1, <1>3, <1>5, <2>1, OverIs DEF TreeInv
    <3>3. a \in Over(u, c)
      BY <1>1, <1>5, <2>1 DEF Over, Pending
    <3>4. Over(u, c) \in SUBSET Arrays
      BY DEF Over
    <3>5. Lowest(Over(u, c)) = a
      <4> DEFINE z == Over(u, c)
                 l == Lowest(z)
      <4>1. z \in SUBSET Arrays /\ z # {}
        BY <3>3, <3>4
      <4> HIDE DEF z
      <4>2. l \in z /\ \A e \in z : l \in Lineage[e] => e = l
        BY <4>1, Deepest
      <4> HIDE DEF l
      <4>3. l \in Lineage[a] \/ a \in Lineage[l]
        BY <3>2, <4>2 DEF Related, z
      <4>4. l = a
        BY <3>1, <3>3, <4>2, <4>3 DEF z
      <4> QED
        BY <4>4 DEF l, z
    <3> QED
      BY <1>2, <1>5, <2>1, <3>3, <3>5 DEF ToldAt, LastNote
  <2>2. CASE c \notin CellsOf(a)
    <3>1. ASSUME NEW d \in Arrays, c \in CellsOf(d)
          PROVE  u[d].live = o[d].live /\ u[d].lazy = o[d].lazy
      <4>1. a \notin Lineage[d]
        BY <2>2, <3>1, CellsInside
      <4>2. d # a
        BY <4>1, LineageStep
      <4> QED
        BY <1>5, <4>1, <4>2
    <3>2. y[c] = x[c] /\ ToldAt(o, mem, x, c)
      BY <1>1, <1>2, <2>2 DEF Told
    <3>3. HasHead(o, Root) => HasHead(u, Root) /\ mem[HeadBuf(u)][c] = mem[HeadBuf(o)][c]
      <4>1. a # Root
        BY <1>12, <2>2
      <4>2. HasHead(o, Root) => HasHead(u, Root)
        BY <1>3, <1>6, <4>1 DEF Emptying
      <4> QED
        BY <1>8, <4>2
    <3> QED
      BY <3>1, <3>2, <3>3, ToldStays
  <2> QED
    BY <2>1, <2>2
<1>13. ASSUME NEW d \in Arrays, NEW k \in DOMAIN u[d].arrays, k # u[d].head, u[d].arrays[k].atHead
       PROVE  Good(u, mem, y, d, k)
  <2>1. HasHead(u, Root)
    BY <1>9, <1>13
  <2>2. ~(o[d].live /\ Related(a, d)) /\ u[d].arrays = o[d].arrays /\ u[d].head = o[d].head
    BY <1>8, <1>13, <2>1
  <2>3. o[d].live
    BY <1>1, <1>13, <2>2, DeadIs
  <2>4. Good(o, mem, x, d, k)
    BY <1>1, <1>13, <2>2 DEF Copied
  <2>5. ASSUME NEW c \in CellsOf(d)
        PROVE  y[c] = x[c]
    <3>1. c \in CellsOf(Root) /\ c \notin CellsOf(a)
      BY <1>1, <2>2, <2>3, <2>5, SharedCell, CellsOfAll
    <3> QED
      BY <1>2, <3>1
  <2> QED
    BY <2>2, <2>4, <2>5 DEF Good
<1>14. Clean(u)
  <2>1. HasHead(u, Root) => u[Root].lazy = o[Root].lazy
    <3>1. HasHead(u, Root) => a \notin Lineage[Root]
      <4>1. Root \in Arrays /\ Lineage[Root] = {Root} /\ (HasHead(u, Root) => a # Root)
        BY ONLY <1>1, <1>7, LineageStep
      <4> QED
        BY ONLY <4>1
    <3> QED
      BY <1>1, <1>5, <1>7, <3>1
  <2> QED
    BY <1>1, <1>7, <2>1 DEF Clean, Pending
<1> QED
  BY <1>3, <1>10, <1>11, <1>12, <1>13, <1>14 DEF Mem, Told, Copied, y

\* zero.
LEMMA ZeroMem ==
    ASSUME Placed, MemInv, NEW a \in Arrays, Zero(a)
    PROVE  Mem(tree', mem', cell') /\ Clean(tree')
<1> DEFINE t == Emptied(tree, a)
           v == 0
           S == Family(tree, a)
           flag == TRUE
<1>1. TreeInv(tree)
  BY DEF MemInv, Mem
<1>2. /\ Live(tree, a) /\ Noting(t, tree', a, v, S, flag)
      /\ mem' = Restrict(mem, UsedBufs(tree')) /\ Write(a, v)
  BY <1>1, ZeroIs
<1>3. v # Nothing
  BY DEF Nothing
<1> HIDE DEF t, v, S, flag
<1>4. Mem(tree', mem, cell') /\ Clean(tree')
  BY <1>2, <1>3, NoteMem
<1> QED
  BY <1>2, <1>4, RestrictMem

\* fill.
LEMMA FillMem ==
    ASSUME Placed, MemInv, NEW a \in Arrays, Fill(a)
    PROVE  Mem(tree', mem', cell') /\ Clean(tree')
<1> DEFINE t == Emptied(tree, a)
           S == Family(tree, a) \cup Lineage[a]
           flag == FALSE
<1>1. TreeInv(tree)
  BY DEF MemInv, Mem
<1>2. PICK v \in Values :
         /\ Live(tree, a) /\ Noting(t, tree', a, v, S, flag)
         /\ mem' = Restrict(mem, UsedBufs(tree')) /\ Write(a, v)
  BY <1>1, FillIs
<1>3. v # Nothing
  BY ValuesAssumption
<1> HIDE DEF t, S, flag
<1>4. Mem(tree', mem, cell') /\ Clean(tree')
  BY <1>2, <1>3, NoteMem
<1> QED
  BY <1>2, <1>4, RestrictMem

\* Who is cast has no notes around, its own is gone, and its head array is as sync left it.
LEMMA CastQuiet ==
    ASSUME Placed, MemInv, NEW a \in Arrays, NEW k \in Keys, Live(tree, a), MayCast(a, k), NEW writeOnly
    PROVE  LET y == Synced(Now, a, k, writeOnly)
               key == KeyOf(y.tree, a, k)
               r == CastState(a, k, writeOnly)
           IN  /\ Mem(y.tree, y.mem, cell) /\ y.tree[a].live /\ key \in DOMAIN y.tree[a].arrays
               /\ ~writeOnly => Good(y.tree, y.mem, cell, a, key) /\ Quiet(y.tree, a)
               /\ HasHead(y.tree, Root) /\ (a # Root => key = y.tree[a].head)
               /\ r.mem = y.mem /\ Casting(y.tree, r.tree, a, key) /\ r.tree[a].live
               /\ TreeInv(r.tree) /\ HasHead(r.tree, Root) /\ Quiet(r.tree, a)
<1> DEFINE y == Synced(Now, a, k, writeOnly)
           key == KeyOf(y.tree, a, k)
           r == CastState(a, k, writeOnly)
           t == y.tree
           u == r.tree
<1>1. TreeInv(tree) /\ tree[a].live
  BY DEF MemInv, Mem, Live
<1>2. /\ State(y) /\ TreeInv(t) /\ HasHead(t, Root) /\ Standing(tree, t)
      /\ key \in DOMAIN t[a].arrays /\ (a # Root => key = t[a].head)
      /\ State(r) /\ r.mem = y.mem /\ Casting(t, u, a, key)
      /\ TreeInv(u) /\ HasHead(u, Root)
      /\ \A d \in Arrays : u[d].live = tree[d].live
  BY <1>1, CastStateTree
<1>3. /\ Mem(t, y.mem, cell)
      /\ ~writeOnly => Good(t, y.mem, cell, a, key)
      /\ HasFamily(tree, a) \/ ~writeOnly => Quiet(t, a)
  BY NowMem
<1> HIDE DEF y, r, key, t, u
<1>4. t[a].live /\ u[a].live
  BY <1>1, <1>2 DEF Standing
<1>5. ASSUME Quiet(t, a)
      PROVE  Quiet(u, a)
  BY ONLY <1>2, <1>5 DEF Quiet, Casting, Pending
<1>6. ASSUME ~HasFamily(tree, a)
      PROVE  Quiet(u, a)
  <2>1. u[a].children = tree[a].children /\ u[a].lazy = Nothing
    BY ONLY <1>2, a \in Arrays DEF Casting, Standing
  <2>2. a = Root /\ ~HasFamily(u, a)
    BY <1>6, <2>1 DEF HasFamily
  <2>3. ~Pending(u, Root)
    BY <2>1, <2>2 DEF Pending
  <2> QED
    BY <1>2, <2>2, <2>3, LoneOver DEF TreeInv
<1>7. Quiet(u, a)
  BY <1>3, <1>5, <1>6
<1> QED
  BY <1>2, <1>3, <1>4, <1>7 DEF y, r, key, t, u

\* cast, and all cells are written.
LEMMA CastWriteOnlyMem ==
    ASSUME Placed, MemInv, NEW a \in Arrays, NEW k \in Keys, CastWriteOnly(a, k)
    PROVE  Mem(tree', mem', cell') /\ Clean(tree')
<1> DEFINE w == TRUE
           y == Synced(Now, a, k, w)
           key == KeyOf(y.tree, a, k)
           s == CastState(a, k, w)
           t == y.tree
           m == y.mem
           u == s.tree
           x == cell
           z == cell'
           h == HeadArray(u, a)
<1>1. TreeInv(tree)
  BY DEF MemInv, Mem
<1>2. Live(tree, a) /\ MayCast(a, k)
  BY DEF CastWriteOnly
<1>3. PICK v \in Values :
         /\ Write(a, v) /\ tree' = u
         /\ mem' = Restrict(Put(s.mem, h, a, [i \in Indices(a) |-> v]), UsedBufs(u))
  BY <1>1, CastWriteOnlyIs
<1> DEFINE f == [i \in Indices(a) |-> v]
           n == Put(m, h, a, f)
<1>4. DOMAIN z = CellsOf(Root) /\ \A c \in CellsOf(Root) : z[c] = IF c \in CellsOf(a) THEN v ELSE x[c]
  BY <1>3, WriteIs DEF MemInv
<1> HIDE DEF w
<1>5. /\ Mem(t, m, x) /\ t[a].live /\ key \in DOMAIN t[a].arrays
      /\ s.mem = m /\ Casting(t, u, a, key) /\ u[a].live
      /\ TreeInv(u) /\ HasHead(u, Root) /\ Quiet(u, a)
  BY <1>2, CastQuiet
<1>6. n = Put(s.mem, h, a, [i \in Indices(a) |-> v])
  BY <1>5
<1>7. tree' = u /\ mem' = Restrict(n, UsedBufs(u))
  BY <1>3, <1>6
<1>8. \A c \in CellsOf(a) : f[c - At[a]] = v
  <2>1. At[a] \in Nat /\ Size[a] \in Nat
    BY TreeAssumption
  <2> QED
    BY <2>1 DEF CellsOf, Indices
<1> HIDE DEF f, s, y, key, t, m, u, x, z
<1>9. h.buf = HeadBuf(u) /\ h.base = At[a] /\ Cells(h, a) = CellsOf(a)
  BY <1>5, HeadPlace
<1>10. h.buf \in DOMAIN m /\ DOMAIN m[h.buf] = CellsOf(Root)
  <2>1. h.buf = t[a].arrays[key].buf
    BY <1>5 DEF Casting
  <2> QED
    BY <1>5, <2>1 DEF Mem, Stands
<1> HIDE DEF h
<1>11. /\ DOMAIN n = DOMAIN m /\ DOMAIN n[h.buf] = DOMAIN m[h.buf]
       /\ \A e \in DOMAIN m : e # h.buf => n[e] = m[e]
       /\ \A c \in DOMAIN m[h.buf] : n[h.buf][c] = IF c \in Cells(h, a) THEN f[c - h.base] ELSE m[h.buf][c]
  BY <1>10, PutIs
<1> HIDE DEF n
<1>12. \A b \in DOMAIN m : DOMAIN n[b] = DOMAIN m[b]
  BY <1>11
<1>13. ASSUME NEW c \in CellsOf(Root)
       PROVE  IF c \in CellsOf(a) THEN z[c] = Unknown \/ z[c] = n[HeadBuf(u)][c]
              ELSE z[c] = x[c] /\ n[HeadBuf(u)][c] = m[HeadBuf(u)][c]
  BY <1>4, <1>8, <1>9, <1>10, <1>11
<1>14. Mem(u, n, z) /\ Clean(u)
  <2>1. DOMAIN n = DOMAIN m /\ a \in Arrays
    BY <1>11
  <2>2. /\ Mem(t, m, x) /\ t[a].live /\ key \in DOMAIN t[a].arrays
        /\ Casting(t, u, a, key) /\ Quiet(u, a)
    BY <1>5
  <2>3. \A c \in CellsOf(Root) : IF c \in CellsOf(a) THEN z[c] = Unknown \/ z[c] = n[HeadBuf(u)][c]
                                 ELSE z[c] = x[c] /\ n[HeadBuf(u)][c] = m[HeadBuf(u)][c]
    BY <1>13
  <2> QED
    BY ONLY Placed, <1>12, <2>1, <2>2, <2>3, CastMem, Z3T(30)
<1>15. Mem(u, Restrict(n, UsedBufs(u)), z)
  BY <1>14, RestrictMem
<1> QED
  BY <1>7, <1>14, <1>15 DEF z

\* cast, and one cell is written: of the others there is what there was.
LEMMA CastOneMem ==
    ASSUME Placed, MemInv, NEW a \in Arrays, NEW k \in Keys, Cast(a, k)
    PROVE  Mem(tree', mem', cell') /\ Clean(tree')
<1> DEFINE w == FALSE
           y == Synced(Now, a, k, w)
           key == KeyOf(y.tree, a, k)
           s == CastState(a, k, w)
           t == y.tree
           m == y.mem
           u == s.tree
           x == cell
           z == cell'
           h == HeadArray(u, a)
<1>1. TreeInv(tree)
  BY DEF MemInv, Mem
<1>2. Live(tree, a) /\ MayCast(a, k)
  BY DEF Cast
<1>3. \E v \in Values, i \in Indices(a) :
         /\ Change(a, i, v) /\ tree' = u
         /\ mem' = Restrict([s.mem EXCEPT ![h.buf][h.base + i] = v], UsedBufs(u))
  BY <1>1, CastIs
<1>4. PICK v \in Values : \E i \in Indices(a) :
         /\ Change(a, i, v) /\ tree' = u
         /\ mem' = Restrict([s.mem EXCEPT ![h.buf][h.base + i] = v], UsedBufs(u))
  BY <1>3
<1>5. PICK i \in Indices(a) :
         /\ Change(a, i, v) /\ tree' = u
         /\ mem' = Restrict([s.mem EXCEPT ![h.buf][h.base + i] = v], UsedBufs(u))
  BY <1>4
<1> DEFINE j == At[a] + i
           b == h.buf
           n == [m EXCEPT ![b][j] = v]
<1>6. /\ DOMAIN z = CellsOf(Root) /\ j \in CellsOf(a)
      /\ \A c \in CellsOf(Root) : z[c] = IF c = j THEN v ELSE x[c]
  BY <1>5, ChangeIs DEF MemInv
<1>7. ~w
  OBVIOUS
<1> HIDE DEF w
<1>8. /\ Mem(t, m, x) /\ t[a].live /\ key \in DOMAIN t[a].arrays
      /\ Good(t, m, x, a, key) /\ HasHead(t, Root) /\ (a # Root => key = t[a].head)
      /\ s.mem = m /\ Casting(t, u, a, key) /\ u[a].live
      /\ TreeInv(u) /\ HasHead(u, Root) /\ Quiet(u, a)
  BY <1>2, <1>7, CastQuiet
<1>9. h.buf = HeadBuf(u) /\ h.base = At[a]
  BY <1>8, HeadPlace
<1>10. tree' = u /\ mem' = Restrict(n, UsedBufs(u))
  BY <1>5, <1>8, <1>9
<1> HIDE DEF s, y, key, t, m, u, x, z, j, h
<1>11. h.buf = t[a].arrays[key].buf
  BY <1>8 DEF Casting, h
<1>12. b \in DOMAIN m /\ DOMAIN m[b] = CellsOf(Root)
  BY <1>8, <1>11 DEF Mem, Stands
<1> HIDE DEF b
<1>13. /\ DOMAIN n = DOMAIN m /\ DOMAIN n[b] = DOMAIN m[b]
       /\ \A e \in DOMAIN m : e # b => n[e] = m[e]
       /\ \A c \in DOMAIN m[b] : n[b][c] = IF c = j THEN v ELSE m[b][c]
  BY <1>12
<1> HIDE DEF n
<1>14. \A e \in DOMAIN m : DOMAIN n[e] = DOMAIN m[e]
  BY <1>13
<1>15. b = HeadBuf(u) /\ b = t[a].arrays[key].buf
  BY <1>9, <1>11 DEF b
<1>16. t[a].arrays[key].base = At[a]
  <2>1. CASE key = t[a].head
    BY <1>8, <2>1, HeadPlace DEF Mem
  <2>2. CASE key # t[a].head
    <3>1. a = Root
      BY <1>8, <2>2
    <3> QED
      BY <1>8, <2>2, <3>1, CopyPlace, TreeAssumption DEF Mem
  <2> QED
    BY <2>1, <2>2
<1>17. ASSUME NEW c \in CellsOf(a)
       PROVE  x[c] = Unknown \/ x[c] = m[b][c]
  <2>1. x[c] = Unknown \/ x[c] = Held(m, t[a].arrays[key], a, c)
    BY <1>8 DEF Good
  <2>2. At[a] + (c - At[a]) = c
    <3>1. At[a] \in Nat /\ Size[a] \in Nat
      BY TreeAssumption
    <3>2. c \in Int
      BY <1>17, <3>1 DEF CellsOf
    <3> QED
      BY <3>1, <3>2
  <2>3. Held(m, t[a].arrays[key], a, c) = m[b][c]
    BY <1>15, <1>16, <2>2 DEF Held
  <2> QED
    BY <2>1, <2>3
<1>18. ASSUME NEW c \in CellsOf(Root)
       PROVE  IF c \in CellsOf(a) THEN z[c] = Unknown \/ z[c] = n[HeadBuf(u)][c]
              ELSE z[c] = x[c] /\ n[HeadBuf(u)][c] = m[HeadBuf(u)][c]
  BY <1>6, <1>12, <1>13, <1>15, <1>17
<1>19. Mem(u, n, z) /\ Clean(u)
  <2>1. DOMAIN n = DOMAIN m /\ a \in Arrays
    BY <1>13
  <2> QED
    BY ONLY Placed, <1>8, <1>14, <1>18, <2>1, CastMem, Z3T(30)
<1>20. Mem(u, Restrict(n, UsedBufs(u)), z)
  BY <1>19, RestrictMem
<1> QED
  BY <1>10, <1>19, <1>20 DEF z

\* A view more or less: what it has is in the memory of the head arrays, and what a note of its
\* says is forgotten.
LEMMA ViewMem ==
    ASSUME Placed, NEW t, NEW m, NEW x, Mem(t, m, x), Clean(t), NEW u, TreeInv(u), HasHead(u, Root) <=> HasHead(t, Root),
           NEW b \in Views,
           Others(t, u, b),
           \A k \in DOMAIN u[b].arrays : /\ HasHead(t, Root) /\ k = u[b].head
                                         /\ u[b].arrays[k].buf = HeadBuf(t),
           NEW y,
           \A c \in CellsOf(Root) :
              \/ y[c] = Unknown
              \/ /\ y[c] = x[c]
                 /\ c \in CellsOf(b) => ~(t[b].live /\ Pending(t, b)) /\ ~(u[b].live /\ Pending(u, b))
    PROVE  Mem(u, m, y) /\ Clean(u)
<1>1. /\ TreeInv(t) /\ Shaped(t) /\ Alone(t) /\ Stands(t, m) /\ Told(t, m, x) /\ Copied(t, m, x)
      /\ Root \in Arrays /\ b \in Arrays /\ b # Root /\ t[Root].live
  BY TreeAssumption DEF Mem, TreeInv, Shaped, Views
<1> USE DEF Others
<1>2. HeadArray(u, Root) = HeadArray(t, Root) /\ HeadBuf(u) = HeadBuf(t)
  BY <1>1 DEF HeadArray, HeadBuf
<1>3. HasHead(t, Root) =>
         /\ t[Root].head \in DOMAIN t[Root].arrays
         /\ t[Root].arrays[t[Root].head].buf = HeadBuf(t)
  BY <1>1, HeadPlace DEF HeadBuf
<1>4. ASSUME NEW d \in Arrays, NEW l \in DOMAIN t[d].arrays, HasHead(t, Root), t[d].arrays[l].buf = HeadBuf(t)
      PROVE  l = t[d].head
  BY <1>1, <1>3, <1>4 DEF Alone
<1>5. Alone(u)
  <2> SUFFICES ASSUME NEW d \in Arrays, NEW e \in Arrays, NEW k \in DOMAIN u[d].arrays, NEW l \in DOMAIN u[e].arrays,
                      u[d].arrays[k].buf = u[e].arrays[l].buf
               PROVE  (d = e /\ k = l) \/ (k = u[d].head /\ l = u[e].head)
    BY DEF Alone
  <2>1. CASE d # b /\ e # b
    BY <1>1, <2>1 DEF Alone
  <2>2. CASE d = b /\ e # b
    BY <1>4, <2>2
  <2>3. CASE d # b /\ e = b
    BY <1>4, <2>3
  <2>4. CASE d = b /\ e = b
    BY <2>4
  <2> QED
    BY <2>1, <2>2, <2>3, <2>4
<1>6. Stands(u, m)
  <2>1. HasHead(t, Root) => HeadBuf(t) \in DOMAIN m
    BY <1>1, <1>3 DEF Stands
  <2>2. \A d \in Arrays : \A k \in DOMAIN u[d].arrays : u[d].arrays[k].buf \in DOMAIN m
    BY <1>1, <2>1 DEF Stands
  <2> QED
    BY <1>1, <2>2 DEF Stands
<1>7. ASSUME NEW c \in CellsOf(Root)
      PROVE  ToldAt(u, m, y, c)
  <2>1. CASE y[c] = Unknown
    BY <2>1 DEF ToldAt
  <2>2. CASE y[c] # Unknown
    <3>1. y[c] = x[c] /\ ToldAt(t, m, x, c)
      BY <1>1, <2>2 DEF Told
    <3>2. Over(u, c) = Over(t, c) /\ \A d \in Over(t, c) : u[d].lazy = t[d].lazy
      BY <2>2 DEF Over, Pending
    <3>3. Over(t, c) \in SUBSET Arrays
      BY DEF Over
    <3>4. Over(t, c) # {} => LastNote(u, c) = LastNote(t, c)
      BY <3>2, <3>3, Deepest DEF LastNote
    <3> QED
      BY <1>2, <3>1, <3>2, <3>4 DEF ToldAt
  <2> QED
    BY <2>1, <2>2
<1>8. ASSUME NEW d \in Arrays, NEW k \in DOMAIN u[d].arrays, k # u[d].head, u[d].arrays[k].atHead
      PROVE  Good(u, m, y, d, k)
  <2>1. d # b
    BY <1>8
  <2>2. Good(t, m, x, d, k) /\ u[d].arrays = t[d].arrays
    BY <1>1, <1>8, <2>1 DEF Copied
  <2>3. \A c \in CellsOf(d) : y[c] = Unknown \/ y[c] = x[c]
    BY CellsOfAll
  <2> QED
    BY <2>2, <2>3 DEF Good
<1>9. Clean(u)
  BY <1>1 DEF Clean, Pending
<1> QED
  BY <1>5, <1>6, <1>7, <1>8, <1>9 DEF Mem, Told, Copied

\* narrow.
LEMMA NarrowMem ==
    ASSUME Placed, MemInv, NEW a \in Arrays, Narrow(a)
    PROVE  Mem(tree', mem', cell') /\ Clean(tree')
<1> DEFINE t == tree
           u == tree'
           m == mem
           x == cell
           y == cell'
<1>1. Mem(t, m, x) /\ Clean(t) /\ TreeInv(t) /\ Root \in Arrays /\ t[Root].live
  BY TreeAssumption DEF MemInv, Mem, TreeInv, Shaped
<1>2. /\ a \in Views /\ ~t[a].live /\ y = x /\ mem' = Restrict(m, UsedBufs(u))
      /\ TreeInv(u) /\ (HasHead(u, Root) <=> HasHead(t, Root)) /\ Others(t, u, a)
      /\ u[a].lazy = Nothing
      /\ IF HasHead(t, Root)
         THEN DOMAIN u[a].arrays = {u[a].head} /\ HeadArray(u, a).buf = HeadArray(t, Root).buf
         ELSE DOMAIN u[a].arrays = {}
  BY ONLY <1>1, Narrow(a), a \in Arrays, NarrowIs
<1> HIDE DEF t, u, m, x, y
<1>3. \A k \in DOMAIN u[a].arrays : HasHead(t, Root) /\ k = u[a].head /\ u[a].arrays[k].buf = HeadBuf(t)
  BY <1>2 DEF HeadBuf, HeadArray
<1>4. ~Pending(u, a)
  BY <1>2 DEF Pending
<1>5. \A c \in CellsOf(Root) :
         \/ y[c] = Unknown
         \/ /\ y[c] = x[c]
            /\ c \in CellsOf(a) => ~(t[a].live /\ Pending(t, a)) /\ ~(u[a].live /\ Pending(u, a))
  BY <1>2, <1>4
<1>6. Mem(u, m, y) /\ Clean(u)
  BY <1>1, <1>2, <1>3, <1>5, ViewMem
<1>7. Mem(u, Restrict(m, UsedBufs(u)), y)
  BY <1>6, RestrictMem
<1> QED
  BY <1>2, <1>6, <1>7 DEF u, y

\* The end of a view, with which its note is lost.
LEMMA ReleaseMem ==
    ASSUME Placed, MemInv, NEW a \in Arrays, Release(a)
    PROVE  Mem(tree', mem', cell') /\ Clean(tree')
<1> DEFINE t == tree
           u == tree'
           m == mem
           x == cell
           y == cell'
<1>1. Mem(t, m, x) /\ Clean(t) /\ TreeInv(t)
  BY DEF MemInv, Mem
<1>2. /\ a \in Views /\ mem' = Restrict(m, UsedBufs(u))
      /\ IF Pending(t, a) THEN Forget(a) ELSE UNCHANGED cell
      /\ TreeInv(u) /\ (HasHead(u, Root) <=> HasHead(t, Root)) /\ Others(t, u, a)
      /\ u[a] = Absent /\ ~u[a].live
  BY ONLY <1>1, Release(a), a \in Arrays, ReleaseIs
<1>3. \A c \in CellsOf(Root) : y[c] = Unknown \/ (y[c] = x[c] /\ (c \in CellsOf(a) => ~Pending(t, a)))
  <2>1. CASE Pending(t, a)
    <3>1. Write(a, Unknown)
      BY <1>2, <2>1 DEF Forget
    <3> QED
      BY <3>1, WriteIs DEF MemInv
  <2>2. CASE ~Pending(t, a)
    BY <1>2, <2>2
  <2> QED
    BY <2>1, <2>2
<1>4. DOMAIN u[a].arrays = {}
  BY <1>2 DEF Absent, NoArrays
<1> HIDE DEF t, u, m, x, y
<1>5. \A k \in DOMAIN u[a].arrays : HasHead(t, Root) /\ k = u[a].head /\ u[a].arrays[k].buf = HeadBuf(t)
  BY <1>4
<1>6. \A c \in CellsOf(Root) :
         \/ y[c] = Unknown
         \/ /\ y[c] = x[c]
            /\ c \in CellsOf(a) => ~(t[a].live /\ Pending(t, a)) /\ ~(u[a].live /\ Pending(u, a))
  BY <1>2, <1>3
<1>7. Mem(u, m, y) /\ Clean(u)
  BY <1>1, <1>2, <1>5, <1>6, ViewMem
<1>8. Mem(u, Restrict(m, UsedBufs(u)), y)
  BY <1>7, RestrictMem
<1> QED
  BY <1>2, <1>7, <1>8 DEF u, y

\* Where there are no arrays there are the notes alone.
LEMMA BareMem ==
    ASSUME NEW u, TreeInv(u), ~HasHead(u, Root), NEW m, IsFiniteSet(DOMAIN m),
           \A b \in DOMAIN m : DOMAIN m[b] = CellsOf(Root), NEW x, Told(u, m, x)
    PROVE  Mem(u, m, x) /\ Clean(u)
<1>1. \A d \in Arrays : DOMAIN u[d].arrays = {}
  BY HeadIs, DeadIs DEF TreeInv
<1>2. Alone(u) /\ Copied(u, m, x)
  BY <1>1, HeadsAlone
<1>3. Stands(u, m)
  BY <1>1 DEF Stands
<1> QED
  BY <1>2, <1>3 DEF Mem, Clean

\* clear.
LEMMA ClearMem ==
    ASSUME Placed, MemInv, Clear
    PROVE  Mem(tree', mem', cell') /\ Clean(tree')
<1> DEFINE u == tree'
           m == mem
           y == cell'
<1>1. TreeInv(tree) /\ Stands(tree, m) /\ Root \in Arrays
  BY TreeAssumption DEF MemInv, Mem
<1>2. Forget(Root) /\ mem' = Restrict(m, UsedBufs(u)) /\ TreeInv(u) /\ ~HasHead(u, Root)
  BY <1>1, ClearIs
<1>3. \A c \in CellsOf(Root) : y[c] = Unknown
  BY <1>1, <1>2, WriteIs DEF Forget, MemInv
<1> HIDE DEF u, m, y
<1>4. Told(u, m, y)
  BY <1>3 DEF Told, ToldAt
<1>5. Mem(u, m, y) /\ Clean(u)
  BY <1>1, <1>2, <1>4, BareMem DEF Stands
<1>6. Mem(u, Restrict(m, UsedBufs(u)), y)
  BY <1>5, RestrictMem
<1> QED
  BY <1>2, <1>5, <1>6 DEF u, y

\* At first there is the note of the root that everything is zero.
LEMMA MemInit ==
    ASSUME SAInit
    PROVE  MemInv
<1> DEFINE r == [New EXCEPT !.lazy = 0]
           v == 0
<1>1. TreeInv(tree) /\ ~HasHead(tree, Root) /\ Root \in Arrays
  BY TreeInit, TreeAssumption
<1>2. r.children = << >> /\ r.lazy = v
  BY DEF New, Absent
<1>3. tree[Root] = r
  BY <1>1 DEF SAInit
<1>4. DOMAIN cell = CellsOf(Root) /\ \A c \in CellsOf(Root) : cell[c] = v
  BY DEF SAInit, Init
<1>5. v # Nothing
  BY DEF Nothing
<1>6. DOMAIN mem = {}
  BY DEF SAInit
<1> HIDE DEF r, v
<1>7. ~HasFamily(tree, Root) /\ Pending(tree, Root) /\ tree[Root].lazy = v
  BY <1>2, <1>3, <1>5 DEF HasFamily, Pending
<1>8. \A c \in CellsOf(Root) : Over(tree, c) # {} /\ LastNote(tree, c) = v
  BY <1>1, <1>7, LoneOver DEF TreeInv
<1>9. Told(tree, mem, cell)
  BY <1>4, <1>8 DEF Told, ToldAt
<1>10. IsFiniteSet(DOMAIN mem)
  BY <1>6, FS_EmptySet
<1>11. Mem(tree, mem, cell) /\ Clean(tree)
  BY <1>1, <1>6, <1>9, <1>10, BareMem
<1> QED
  BY <1>4, <1>11 DEF MemInv

\* Whatever is done, it is read afterwards.
LEMMA MemStep ==
    ASSUME Placed, MemInv, Zeroed(tree, cell), [Next]_vars
    PROVE  MemInv'
<1>1. ASSUME NEW a \in Arrays, NEW k \in Keys, Get(a, k)
      PROVE  Mem(tree', mem', cell') /\ Clean(tree')
  BY <1>1, GetMem
<1>2. ASSUME NEW a \in Arrays, NEW k \in Keys, CastWriteOnly(a, k)
      PROVE  Mem(tree', mem', cell') /\ Clean(tree')
  BY <1>2, CastWriteOnlyMem
<1>3. ASSUME NEW a \in Arrays, NEW k \in Keys, Cast(a, k)
      PROVE  Mem(tree', mem', cell') /\ Clean(tree')
  BY <1>3, CastOneMem
<1>4. ASSUME NEW a \in Arrays, Zero(a)
      PROVE  Mem(tree', mem', cell') /\ Clean(tree')
  BY <1>4, ZeroMem
<1>5. ASSUME NEW a \in Arrays, Fill(a)
      PROVE  Mem(tree', mem', cell') /\ Clean(tree')
  BY <1>5, FillMem
<1>6. ASSUME NEW a \in Arrays, Narrow(a)
      PROVE  Mem(tree', mem', cell') /\ Clean(tree')
  BY <1>6, NarrowMem
<1>7. ASSUME NEW a \in Arrays, Release(a)
      PROVE  Mem(tree', mem', cell') /\ Clean(tree')
  BY <1>7, ReleaseMem
<1>8. ASSUME Clear
      PROVE  Mem(tree', mem', cell') /\ Clean(tree')
  BY <1>8, ClearMem
<1>9. ASSUME UNCHANGED vars
      PROVE  Mem(tree', mem', cell') /\ Clean(tree')
  BY <1>9 DEF vars, MemInv
<1>10. DOMAIN cell' = CellsOf(Root)
  BY ZeroedStep DEF MemInv, Mem, Zeroed
<1>11. Mem(tree', mem', cell') /\ Clean(tree')
  BY <1>1, <1>2, <1>3, <1>4, <1>5, <1>6, <1>7, <1>8, <1>9 DEF Next
<1> QED
  BY <1>10, <1>11 DEF MemInv

\* Then the last write is read.
LEMMA MemReads ==
    ASSUME Placed, MemInv
    PROVE  ReadsLastWrite
<1> SUFFICES ASSUME NEW a \in Arrays, NEW k \in Keys, Live(tree, a)
             PROVE  \E r \in {WouldRead(a, k)} : \A c \in CellsOf(a) : cell[c] \in {r[c], Unknown}
  BY DEF ReadsLastWrite
<1> DEFINE y == ReadState(a, k)
           key == KeyOf(y.tree, a, k)
           array == y.tree[a].arrays[key]
           r == WouldRead(a, k)
<1>1. Good(y.tree, y.mem, cell, a, key)
  BY ReadMem
<1>2. r = [c \in CellsOf(a) |-> Place(y, array, c - At[a])]
  BY DEF WouldRead, ReadIn, ReadState
<1> HIDE DEF r, y, key
<1>3. \A c \in CellsOf(a) : r[c] = Held(y.mem, array, a, c)
  BY <1>2 DEF Place, Held
<1>4. \A c \in CellsOf(a) : cell[c] = Unknown \/ cell[c] = r[c]
  BY <1>1, <1>3 DEF Good
<1> QED
  BY <1>4 DEF r

\* In every reachable state, whichever array of the tree is read, in whichever dtype, there is
\* what was written last, through whichever array: sync_sp, cast_sp, zero, fill, the walks over
\* the descendants and traverse_zero_fill lose no write, whatever their order. All of this if
\* every view lies in its place for the code, as views and views of views do.
THEOREM ReadsHolds ==
    ASSUME Placed
    PROVE  Spec => []ReadsLastWrite
<1> DEFINE Inv == MemInv /\ Zeroed(tree, cell)
<1>1. SAInit => Inv
  BY MemInit, ZeroedInit
<1>2. Inv /\ [Next]_vars => Inv'
  BY MemStep, ZeroedStep DEF MemInv, Mem
<1>3. Inv => ReadsLastWrite
  BY MemReads
<1> QED
  BY <1>1, <1>2, <1>3, PTL DEF Spec

=============================================================================
