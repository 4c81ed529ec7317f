----------------------- MODULE CachingAllocatorProofs -----------------------
(***************************************************************************)
(* The allocator is correct for every set of blocks, segments and devices, *)
(* every granularity and every sequence of requests.  Inv is the inductive *)
(* invariant: the heap is tiled by linked blocks, the pools hold exactly   *)
(* the blocks nobody uses, free neighbours are merged and of one size      *)
(* class, and every holder has at least what it asked for.                 *)
(***************************************************************************)
EXTENDS CachingAllocator, FoldProofs

-----------------------------------------------------------------------------
(* The blocks: dividing one, merging two neighbours, creating, locking and
   dropping blocks take a heap whose segments are tiled by linked blocks to
   another such heap. *)

\* What integer division drops is less than the divisor.
LEMMA DivisionBound ==
    ASSUME NEW n \in Nat, NEW r \in Nat \ {0}
    PROVE  /\ n \div r \in Nat
           /\ n < (n \div r) * r + r
  OBVIOUS

\* round_up returns a value no smaller than its argument.
LEMMA RoundUpBound ==
    ASSUME NEW n \in Nat, NEW r \in Nat \ {0}
    PROVE  RoundUp(n, r) \in Nat /\ RoundUp(n, r) >= n
<1>1. (n + r - 1) \in Nat
  OBVIOUS
<1> DEFINE q == (n + r - 1) \div r
<1>2. q \in Nat /\ n + r - 1 < q * r + r
  BY <1>1, DivisionBound
<1>3. q * r \in Nat
  BY <1>2, SMT
<1> HIDE DEF q
<1>4. q * r >= n
  BY <1>2, <1>3
<1> QED
  BY <1>3, <1>4 DEF RoundUp, q

\* Rounding never loses a byte of a request and never yields an empty block.
LEMMA NeedBound ==
    ASSUME NEW n \in Nat
    PROVE  /\ Need(n) \in Nat
           /\ Need(n) >= n
           /\ Need(n) > 0
<1> DEFINE v == Max1(n)
<1>1. v \in Nat /\ v >= n /\ v > 0
  BY DEF Max1
<1> HIDE DEF v
<1>2. /\ RoundUp(v, round_small) \in Nat /\ RoundUp(v, round_small) >= v
      /\ RoundUp(v, round_large) \in Nat /\ RoundUp(v, round_large) >= v
  BY <1>1, RoundUpBound, SizeAssumption
<1>3. RoundSize(v) \in Nat /\ RoundSize(v) >= v
  BY <1>1, <1>2, SizeAssumption DEF RoundSize
<1>4. RoundSize(v) > 0
  BY <1>1, <1>3
<1>5. RoundSize(v) >= n
  BY <1>1, <1>3
<1>6. Need(n) = RoundSize(v)
  BY ONLY DEF Need, v
<1> QED
  BY ONLY <1>3, <1>4, <1>5, <1>6

-----------------------------------------------------------------------------
(* What each Memory method does to the fields of each object. *)

\* associate_consecutive sets one next and one prev and no other field.
LEMMA AssociateFields ==
    ASSUME NEW m \in [Block -> Memory],
           NEW left \in Block \cup {NULL}, NEW right \in Block \cup {NULL},
           NEW a, a = AssociateConsecutive(m, left, right)
    PROVE  /\ a \in [Block -> Memory]
           /\ \A x \in Block :
                 /\ a[x].bytes = m[x].bytes
                 /\ a[x].seg = m[x].seg
                 /\ a[x].off = m[x].off
                 /\ a[x].locked = m[x].locked
                 /\ a[x].device_id = m[x].device_id
                 /\ a[x].next = IF x = left THEN right ELSE m[x].next
                 /\ a[x].prev = IF x = right THEN left ELSE m[x].prev
<1>2. ASSUME NEW x \in Block
      PROVE  /\ a[x] \in Memory
             /\ a[x].bytes = m[x].bytes
             /\ a[x].seg = m[x].seg
             /\ a[x].off = m[x].off
             /\ a[x].locked = m[x].locked
             /\ a[x].device_id = m[x].device_id
             /\ a[x].next = IF x = left THEN right ELSE m[x].next
             /\ a[x].prev = IF x = right THEN left ELSE m[x].prev
  <2> DEFINE nx == IF x = left THEN right ELSE m[x].next
             pv == IF x = right THEN left ELSE m[x].prev
  <2>1. m[x] \in Memory
    OBVIOUS
  <2>2. nx \in Block \cup {NULL} /\ pv \in Block \cup {NULL}
    BY <2>1 DEF Memory
  <2>3. a[x] = [m[x] EXCEPT !.next = nx, !.prev = pv]
    BY DEF AssociateConsecutive
  <2> HIDE DEF nx, pv
  <2>4. /\ a[x] \in Memory
        /\ a[x].bytes = m[x].bytes
        /\ a[x].seg = m[x].seg
        /\ a[x].off = m[x].off
        /\ a[x].locked = m[x].locked
        /\ a[x].device_id = m[x].device_id
        /\ a[x].next = nx
        /\ a[x].prev = pv
    BY ONLY <2>1, <2>2, <2>3, Zenon DEF Memory
  <2> QED
    BY <2>4 DEF nx, pv
<1>3. a \in [Block -> Memory]
  BY <1>2, Zenon DEF AssociateConsecutive
<1> QED
  BY <1>2, <1>3

\* The same as one predicate, which is quicker to instantiate where much is in scope.
Associated(m, left, right, a) ==
    /\ a \in [Block -> Memory]
    /\ \A x \in Block :
          /\ a[x].bytes = m[x].bytes
          /\ a[x].seg = m[x].seg
          /\ a[x].off = m[x].off
          /\ a[x].locked = m[x].locked
          /\ a[x].device_id = m[x].device_id
          /\ a[x].next = IF x = left THEN right ELSE m[x].next
          /\ a[x].prev = IF x = right THEN left ELSE m[x].prev

\* Linking two blocks sets one forward and one backward link and nothing else.
LEMMA AssociateLinks ==
    ASSUME NEW m \in [Block -> Memory],
           NEW left \in Block \cup {NULL}, NEW right \in Block \cup {NULL}
    PROVE  Associated(m, left, right, AssociateConsecutive(m, left, right))
  BY AssociateFields DEF Associated

\* The first part keeps the block's identity and the second is a new, unused block.
LEMMA DivideFields ==
    ASSUME NEW m \in [Block -> Memory],
           NEW b \in Block, NEW r \in Block, b # r,
           NEW start \in Nat, start < m[b].bytes,
           NEW a, a = Divide(m, b, r, start)
    PROVE  /\ a \in [Block -> Memory]
           /\ \A x \in Block :
                 /\ a[x].bytes = IF x = b THEN start
                                 ELSE IF x = r THEN m[b].bytes - start ELSE m[x].bytes
                 /\ a[x].seg = IF x = r THEN m[b].seg ELSE m[x].seg
                 /\ a[x].off = IF x = r THEN m[b].off + start ELSE m[x].off
                 /\ a[x].locked = (x # r /\ m[x].locked)
                 /\ a[x].device_id = IF x = r THEN m[b].device_id ELSE m[x].device_id
                 /\ a[x].next = IF x = b THEN r ELSE IF x = r THEN m[b].next ELSE m[x].next
                 /\ a[x].prev = IF x = r THEN b
                                ELSE IF x = m[b].next THEN r ELSE m[x].prev
<1> DEFINE rest == Piece(m[b].bytes - start, m[b].seg, m[b].off + start, m[b].device_id)
           cut  == Put(Put(m, r, rest), b, [m[b] EXCEPT !.bytes = start])
           one  == AssociateConsecutive(cut, r, m[b].next)
           two  == AssociateConsecutive(one, b, r)
<1>1. /\ rest \in Memory
      /\ rest.bytes = m[b].bytes - start /\ rest.seg = m[b].seg
      /\ rest.off = m[b].off + start /\ rest.next = NULL /\ rest.prev = NULL
      /\ rest.locked = FALSE /\ rest.device_id = m[b].device_id
  BY DEF Piece, Memory
<1> HIDE DEF rest
<1>2. [m[b] EXCEPT !.bytes = start] \in Memory
  BY DEF Memory
<1>3. cut \in [Block -> Memory]
  BY <1>1, <1>2 DEF Put
<1>4. \A x \in Block :
         /\ x = b => cut[x] = [m[b] EXCEPT !.bytes = start]
         /\ x # b /\ x = r => cut[x] = rest
         /\ x # b /\ x # r => cut[x] = m[x]
  BY DEF Put
<1>5. \A x \in Block :
         /\ cut[x].bytes = IF x = b THEN start
                           ELSE IF x = r THEN m[b].bytes - start ELSE m[x].bytes
         /\ cut[x].seg = IF x = r THEN m[b].seg ELSE m[x].seg
         /\ cut[x].off = IF x = r THEN m[b].off + start ELSE m[x].off
         /\ cut[x].locked = (x # r /\ m[x].locked)
         /\ cut[x].device_id = IF x = r THEN m[b].device_id ELSE m[x].device_id
         /\ cut[x].next = IF x = r THEN NULL ELSE m[x].next
         /\ cut[x].prev = IF x = r THEN NULL ELSE m[x].prev
  <2> SUFFICES ASSUME NEW x \in Block
               PROVE  /\ cut[x].bytes = IF x = b THEN start
                                 ELSE IF x = r THEN m[b].bytes - start ELSE m[x].bytes
                      /\ cut[x].seg = IF x = r THEN m[b].seg ELSE m[x].seg
                      /\ cut[x].off = IF x = r THEN m[b].off + start ELSE m[x].off
                      /\ cut[x].locked = (x # r /\ m[x].locked)
                      /\ cut[x].device_id = IF x = r THEN m[b].device_id ELSE m[x].device_id
                      /\ cut[x].next = IF x = r THEN NULL ELSE m[x].next
                      /\ cut[x].prev = IF x = r THEN NULL ELSE m[x].prev
    OBVIOUS
  <2>1. CASE x = b
    <3>1. cut[x] = [m[b] EXCEPT !.bytes = start]
      BY <2>1, <1>4
    <3> QED
      BY <2>1, <3>1 DEF Memory
  <2>2. CASE x = r
    BY <2>2, <1>1, <1>4
  <2>3. CASE x # b /\ x # r
    <3>1. m[x].locked \in BOOLEAN
      BY DEF Memory
    <3> QED
      BY <2>3, <3>1, <1>4
  <2> QED
    BY <2>1, <2>2, <2>3
<1> HIDE DEF cut
<1>6. m[b].next \in Block \cup {NULL}
  BY DEF Memory
<1>7. /\ one \in [Block -> Memory]
      /\ \A x \in Block :
            /\ one[x].bytes = cut[x].bytes
            /\ one[x].seg = cut[x].seg
            /\ one[x].off = cut[x].off
            /\ one[x].locked = cut[x].locked
            /\ one[x].device_id = cut[x].device_id
            /\ one[x].next = IF x = r THEN m[b].next ELSE cut[x].next
            /\ one[x].prev = IF x = m[b].next THEN r ELSE cut[x].prev
  BY <1>3, <1>6, AssociateFields
<1> HIDE DEF one
<1>8. /\ two \in [Block -> Memory]
      /\ \A x \in Block :
            /\ two[x].bytes = one[x].bytes
            /\ two[x].seg = one[x].seg
            /\ two[x].off = one[x].off
            /\ two[x].locked = one[x].locked
            /\ two[x].device_id = one[x].device_id
            /\ two[x].next = IF x = b THEN r ELSE one[x].next
            /\ two[x].prev = IF x = r THEN b ELSE one[x].prev
  BY <1>7, AssociateFields
<1>9. a = two
  BY DEF Divide, two, one, cut, rest
<1> HIDE DEF two
<1>10. ASSUME NEW x \in Block
       PROVE  /\ two[x].bytes = IF x = b THEN start
                                ELSE IF x = r THEN m[b].bytes - start ELSE m[x].bytes
              /\ two[x].seg = IF x = r THEN m[b].seg ELSE m[x].seg
              /\ two[x].off = IF x = r THEN m[b].off + start ELSE m[x].off
              /\ two[x].locked = (x # r /\ m[x].locked)
              /\ two[x].device_id = IF x = r THEN m[b].device_id ELSE m[x].device_id
              /\ two[x].next = IF x = b THEN r ELSE IF x = r THEN m[b].next ELSE m[x].next
              /\ two[x].prev = IF x = r THEN b
                               ELSE IF x = m[b].next THEN r ELSE m[x].prev
  <2>1. CASE x = b
    BY <2>1, <1>5, <1>7, <1>8
  <2>2. CASE x = r
    BY <2>2, <1>5, <1>7, <1>8
  <2>3. CASE x # b /\ x # r
    BY <2>3, <1>5, <1>7, <1>8
  <2> QED
    BY <2>1, <2>2, <2>3
<1> QED
  BY <1>8, <1>9, <1>10

\* Merging the next block: the block keeps its start and takes the neighbour's bytes.
LEMMA MergeNextFields ==
    ASSUME NEW m \in [Block -> Memory],
           NEW b \in Block, NEW from \in Block, b # from,
           m[b].next = from, ~m[from].locked,
           NEW a, a = TryMerge(m, b, from)
    PROVE  /\ a \in [Block -> Memory]
           /\ \A x \in Block :
                 /\ a[x].bytes = IF x = b THEN m[b].bytes + m[from].bytes ELSE m[x].bytes
                 /\ a[x].seg = IF x = from THEN NULL ELSE m[x].seg
                 /\ a[x].off = m[x].off
                 /\ a[x].locked = m[x].locked
                 /\ a[x].device_id = m[x].device_id
                 /\ a[x].next = IF x = b THEN m[from].next ELSE m[x].next
                 /\ a[x].prev = IF x = m[from].next THEN b ELSE m[x].prev
<1> DEFINE near == AssociateConsecutive(m, b, m[from].next)
           one  == Put(near, b, [near[b] EXCEPT !.bytes = @ + m[from].bytes])
           two  == Put(one, from, [near[from] EXCEPT !.seg = NULL])
<1>1. m[from].next \in Block \cup {NULL}
  BY DEF Memory
<1>2. /\ near \in [Block -> Memory]
      /\ \A x \in Block :
            /\ near[x].bytes = m[x].bytes
            /\ near[x].seg = m[x].seg
            /\ near[x].off = m[x].off
            /\ near[x].locked = m[x].locked
            /\ near[x].device_id = m[x].device_id
            /\ near[x].next = IF x = b THEN m[from].next ELSE m[x].next
            /\ near[x].prev = IF x = m[from].next THEN b ELSE m[x].prev
  BY <1>1, AssociateFields
<1>3. a = two
  BY NullAssumption DEF TryMerge, Relink, two, one, near
<1> HIDE DEF near
<1>4. one \in [Block -> Memory] /\ two \in [Block -> Memory]
  <2>1. [near[b] EXCEPT !.bytes = @ + m[from].bytes] \in Memory
    BY <1>2 DEF Memory
  <2>2. [near[from] EXCEPT !.seg = NULL] \in Memory
    BY <1>2 DEF Memory
  <2> QED
    BY <1>2, <2>1, <2>2 DEF Put
<1>5. /\ two[b] = [near[b] EXCEPT !.bytes = @ + m[from].bytes]
      /\ two[from] = [near[from] EXCEPT !.seg = NULL]
      /\ \A x \in Block \ {b, from} : two[x] = near[x]
  BY DEF Put
<1> HIDE DEF two
<1>6. ASSUME NEW x \in Block
      PROVE  /\ two[x].bytes = IF x = b THEN m[b].bytes + m[from].bytes ELSE m[x].bytes
             /\ two[x].seg = IF x = from THEN NULL ELSE m[x].seg
             /\ two[x].off = m[x].off
             /\ two[x].locked = m[x].locked
             /\ two[x].device_id = m[x].device_id
             /\ two[x].next = IF x = b THEN m[from].next ELSE m[x].next
             /\ two[x].prev = IF x = m[from].next THEN b ELSE m[x].prev
  <2>1. CASE x = b
    BY <2>1, <1>2, <1>5 DEF Memory
  <2>2. CASE x = from
    BY <2>2, <1>2, <1>5 DEF Memory
  <2>3. CASE x # b /\ x # from
    BY <2>3, <1>2, <1>5
  <2> QED
    BY <2>1, <2>2, <2>3
<1> QED
  BY <1>3, <1>4, <1>6

\* What b looks like after taking over `from`, whose own previous block is `left`.
PrevMerged(m, b, from, left) ==
    LET moved == Put(m, b, [m[b] EXCEPT !.seg = m[from].seg, !.off = m[from].off])
        near  == AssociateConsecutive(moved, left, b)
    IN  Put(Put(near, b, [near[b] EXCEPT !.bytes = @ + m[from].bytes]),
            from, [near[from] EXCEPT !.seg = NULL])

\* The fields after b takes over `from`, whose own previous block is `left`.
TakesOver(m, b, from, left, a) ==
    /\ a \in [Block -> Memory]
    /\ \A x \in Block :
          /\ a[x].bytes = IF x = b THEN m[b].bytes + m[from].bytes ELSE m[x].bytes
          /\ a[x].seg = IF x = from THEN NULL ELSE IF x = b THEN m[from].seg ELSE m[x].seg
          /\ a[x].off = IF x = b THEN m[from].off ELSE m[x].off
          /\ a[x].locked = m[x].locked
          /\ a[x].device_id = m[x].device_id
          /\ a[x].next = IF x = left THEN b ELSE m[x].next
          /\ a[x].prev = IF x = b THEN left ELSE m[x].prev

\* Field by field, what merging the previous block leaves.
LEMMA PrevMergedTakesOver ==
    ASSUME NEW m \in [Block -> Memory],
           NEW b \in Block, NEW from \in Block, b # from,
           NEW left \in Block \cup {NULL}
    PROVE  TakesOver(m, b, from, left, PrevMerged(m, b, from, left))
<1> DEFINE moved == Put(m, b, [m[b] EXCEPT !.seg = m[from].seg, !.off = m[from].off])
           near == AssociateConsecutive(moved, left, b)
           one  == Put(near, b, [near[b] EXCEPT !.bytes = @ + m[from].bytes])
           two  == Put(one, from, [near[from] EXCEPT !.seg = NULL])
<1>2. /\ moved \in [Block -> Memory]
      /\ moved[b] = [m[b] EXCEPT !.seg = m[from].seg, !.off = m[from].off]
      /\ \A x \in Block \ {b} : moved[x] = m[x]
  <2>1. [m[b] EXCEPT !.seg = m[from].seg, !.off = m[from].off] \in Memory
    BY DEF Memory
  <2> QED
    BY <2>1 DEF Put
<1> HIDE DEF moved
<1>3. \A x \in Block :
         /\ moved[x].bytes = m[x].bytes
         /\ moved[x].seg = IF x = b THEN m[from].seg ELSE m[x].seg
         /\ moved[x].off = IF x = b THEN m[from].off ELSE m[x].off
         /\ moved[x].locked = m[x].locked
         /\ moved[x].device_id = m[x].device_id
         /\ moved[x].next = m[x].next
         /\ moved[x].prev = m[x].prev
  <2> SUFFICES ASSUME NEW x \in Block
               PROVE  /\ moved[x].bytes = m[x].bytes
                      /\ moved[x].seg = IF x = b THEN m[from].seg ELSE m[x].seg
                      /\ moved[x].off = IF x = b THEN m[from].off ELSE m[x].off
                      /\ moved[x].locked = m[x].locked
                      /\ moved[x].device_id = m[x].device_id
                      /\ moved[x].next = m[x].next
                      /\ moved[x].prev = m[x].prev
    OBVIOUS
  <2>1. CASE x = b
    BY <2>1, <1>2 DEF Memory
  <2>2. CASE x # b
    BY <2>2, <1>2
  <2> QED
    BY <2>1, <2>2
<1>4. /\ near \in [Block -> Memory]
      /\ \A x \in Block :
            /\ near[x].bytes = moved[x].bytes
            /\ near[x].seg = moved[x].seg
            /\ near[x].off = moved[x].off
            /\ near[x].locked = moved[x].locked
            /\ near[x].device_id = moved[x].device_id
            /\ near[x].next = IF x = left THEN b ELSE moved[x].next
            /\ near[x].prev = IF x = b THEN left ELSE moved[x].prev
  <2>1. moved \in [Block -> Memory] /\ b \in Block \cup {NULL}
    BY <1>2
  <2>2. Associated(moved, left, b, near)
    BY <2>1, AssociateLinks
  <2> HIDE DEF near, one, two
  <2> QED
    BY ONLY <2>2 DEF Associated
<1>6. PrevMerged(m, b, from, left) = two
  BY DEF PrevMerged, two, one, near, moved
<1> HIDE DEF near
<1>7. one \in [Block -> Memory] /\ two \in [Block -> Memory]
  <2>1. [near[b] EXCEPT !.bytes = @ + m[from].bytes] \in Memory
    BY <1>4 DEF Memory
  <2>2. [near[from] EXCEPT !.seg = NULL] \in Memory
    BY <1>4 DEF Memory
  <2> QED
    BY <1>4, <2>1, <2>2 DEF Put
<1>8. /\ two[b] = [near[b] EXCEPT !.bytes = @ + m[from].bytes]
      /\ two[from] = [near[from] EXCEPT !.seg = NULL]
      /\ \A x \in Block \ {b, from} : two[x] = near[x]
  BY DEF Put
<1> HIDE DEF two
<1>9. ASSUME NEW x \in Block
      PROVE  /\ two[x].bytes = IF x = b THEN m[b].bytes + m[from].bytes ELSE m[x].bytes
             /\ two[x].seg = IF x = from THEN NULL
                             ELSE IF x = b THEN m[from].seg ELSE m[x].seg
             /\ two[x].off = IF x = b THEN m[from].off ELSE m[x].off
             /\ two[x].locked = m[x].locked
             /\ two[x].device_id = m[x].device_id
             /\ two[x].next = IF x = left THEN b ELSE m[x].next
             /\ two[x].prev = IF x = b THEN left ELSE m[x].prev
  <2>1. CASE x = b
    BY <2>1, <1>3, <1>4, <1>8 DEF Memory
  <2>2. CASE x = from
    BY <2>2, <1>3, <1>4, <1>8 DEF Memory
  <2>3. CASE x # b /\ x # from
    BY <2>3, <1>3, <1>4, <1>8
  <2> QED
    BY <2>1, <2>2, <2>3
<1>10. TakesOver(m, b, from, left, two)
  BY ONLY <1>7, <1>9 DEF TakesOver
<1> QED
  BY ONLY <1>6, <1>10

\* Merging the previous block: the block also takes over the neighbour's start.
LEMMA MergePrevFields ==
    ASSUME NEW m \in [Block -> Memory],
           NEW b \in Block, NEW from \in Block, b # from,
           m[b].next # from, m[b].prev = from, ~m[from].locked
    PROVE  /\ m[from].prev \in Block \cup {NULL}
           /\ TryMerge(m, b, from) = PrevMerged(m, b, from, m[from].prev)
<1>1. m[from].prev \in Block \cup {NULL}
  BY DEF Memory
<1>2. from # NULL
  BY NullAssumption
<1>3. Relink(m, b, from) =
         AssociateConsecutive(Put(m, b, [m[b] EXCEPT !.seg = m[from].seg, !.off = m[from].off]),
                              m[from].prev, b)
  BY DEF Relink
<1>4. TryMerge(m, b, from) =
         LET near == Relink(m, b, from)
         IN  Put(Put(near, b, [near[b] EXCEPT !.bytes = @ + m[from].bytes]),
                 from, [near[from] EXCEPT !.seg = NULL])
  BY <1>2 DEF TryMerge
<1> QED
  BY <1>1, <1>3, <1>4 DEF PrevMerged

-----------------------------------------------------------------------------
(* The shape of the heap, which every operation on it keeps. *)

GoodHeap(m, sz) ==
    /\ m \in [Block -> Memory]
    /\ sz \in [Segment -> Nat]
    /\ Linked(m, sz)
    /\ NoOverlap(m)

\* divide keeps the shape of the heap and adds one block.
LEMMA DivideGood ==
    ASSUME NEW m, NEW sz, GoodHeap(m, sz),
           NEW b \in Alive(m), NEW r \in Fresh(m),
           NEW start \in Nat, 0 < start, start < m[b].bytes,
           NEW a, a = Divide(m, b, r, start)
    PROVE  GoodHeap(a, sz) /\ Alive(a) = Alive(m) \cup {r} /\ r \notin Alive(m)
<1>1. /\ m \in [Block -> Memory] /\ sz \in [Segment -> Nat]
      /\ b \in Block /\ r \in Block /\ r \notin Alive(m) /\ b # r
      /\ m[b].seg # NULL
  BY DEF GoodHeap, Alive, Fresh, Disabled, Unborn
<1>2. /\ a \in [Block -> Memory]
      /\ \A x \in Block :
            /\ a[x].bytes = IF x = b THEN start
                            ELSE IF x = r THEN m[b].bytes - start ELSE m[x].bytes
            /\ a[x].seg = IF x = r THEN m[b].seg ELSE m[x].seg
            /\ a[x].off = IF x = r THEN m[b].off + start ELSE m[x].off
            /\ a[x].device_id = IF x = r THEN m[b].device_id ELSE m[x].device_id
            /\ a[x].next = IF x = b THEN r ELSE IF x = r THEN m[b].next ELSE m[x].next
            /\ a[x].prev = IF x = r THEN b
                           ELSE IF x = m[b].next THEN r ELSE m[x].prev
  BY <1>1, DivideFields
<1>3. Alive(a) = Alive(m) \cup {r}
  BY <1>1, <1>2 DEF Alive, Disabled
<1>4. \A x \in Alive(m) : x \in Block /\ LinkedAt(m, sz, x) /\ m[x] \in Memory
  BY DEF GoodHeap, Linked, Alive
<1>5. \A x, y \in Alive(m) : x # y => Apart(m, x, y)
  BY DEF GoodHeap, NoOverlap
<1>6. ASSUME NEW x \in Alive(a)
      PROVE  LinkedAt(a, sz, x)
  <2> DEFINE n == m[b].next
  <2>1. CASE x = b
    BY <2>1, <1>1, <1>2, <1>3, <1>4, NullAssumption DEF LinkedAt, End, Memory
  <2>2. CASE x = r
    <3>1. n # NULL => /\ n \in Alive(m) /\ n # b /\ n # r
                      /\ m[n].seg = m[b].seg /\ m[n].off = End(m, b)
                      /\ m[n].device_id = m[b].device_id
      <4>1. LinkedAt(m, sz, b) /\ m[b].off \in Nat /\ m[b].bytes \in Nat
        BY <1>1, <1>4 DEF Memory
      <4>2. n # NULL => /\ n \in Alive(m) /\ m[n].seg = m[b].seg
                        /\ m[n].off = End(m, b) /\ m[n].device_id = m[b].device_id
        BY <4>1 DEF LinkedAt
      <4>3. End(m, b) > m[b].off
        BY <4>1 DEF LinkedAt, End
      <4> HIDE DEF n
      <4> QED
        BY <1>1, <4>1, <4>2, <4>3
    <3>2. /\ a[x].next = n /\ a[x].prev = b /\ a[b].next = r
          /\ a[x].bytes > 0 /\ End(a, x) = End(m, b) /\ a[x].seg = m[b].seg
          /\ a[x].device_id = m[b].device_id
      <4>1. m[b].off \in Nat /\ m[b].bytes \in Nat
        BY <1>4 DEF Memory
      <4>2. /\ a[r].next = n /\ a[r].prev = b /\ a[b].next = r
            /\ a[r].bytes = m[b].bytes - start /\ a[r].off = m[b].off + start
            /\ a[r].seg = m[b].seg /\ a[r].device_id = m[b].device_id
        BY <1>1, <1>2
      <4> HIDE DEF n
      <4> QED
        BY <2>2, <4>1, <4>2 DEF End
    <3>3. n # NULL => /\ a[n].prev = r /\ a[n].seg = m[n].seg /\ a[n].off = m[n].off
                      /\ a[n].device_id = m[n].device_id
      BY <3>1, <1>1, <1>2, <1>4
    <3>4. End(m, b) <= sz[m[b].seg] /\ (n = NULL => End(m, b) = sz[m[b].seg])
      BY <1>4 DEF LinkedAt
    <3> HIDE DEF n
    <3> QED
      BY <2>2, <3>1, <3>2, <3>3, <3>4, <1>1, <1>3, NullAssumption DEF LinkedAt
  <2>3. CASE x # b /\ x # r
    <3>1. x \in Alive(m) /\ x \in Block /\ LinkedAt(m, sz, x)
      BY <2>3, <1>3, <1>4
    <3>2. /\ a[x].bytes = m[x].bytes /\ a[x].seg = m[x].seg /\ a[x].off = m[x].off
          /\ a[x].next = m[x].next /\ a[x].device_id = m[x].device_id
          /\ End(a, x) = End(m, x)
      BY <2>3, <3>1, <1>2 DEF End
    <3>3. a[x].bytes > 0 /\ End(a, x) <= sz[a[x].seg]
          /\ (a[x].next = NULL => End(a, x) = sz[a[x].seg])
      BY <3>1, <3>2 DEF LinkedAt
    <3>4. ASSUME m[x].next # NULL
          PROVE  /\ a[x].next \in Alive(a)
                 /\ a[a[x].next].prev = x
                 /\ a[a[x].next].seg = a[x].seg
                 /\ a[a[x].next].off = End(a, x)
                 /\ a[a[x].next].device_id = a[x].device_id
      BY <2>3, <3>1, <3>2, <3>4, <1>1, <1>2, <1>3, <1>4 DEF LinkedAt
    <3>5. CASE x = n
      BY <2>3, <3>1, <3>2, <3>3, <3>4, <3>5, <1>1, <1>2, <1>3, NullAssumption DEF LinkedAt
    <3>6. CASE x # n
      <4>1. a[x].prev = m[x].prev
        BY <2>3, <3>1, <3>6, <1>2
      <4>2. m[x].prev # NULL =>
              m[x].prev \in Alive(a) /\ a[m[x].prev].next = x
        BY <2>3, <3>1, <3>6, <1>1, <1>2, <1>3, <1>4 DEF LinkedAt
      <4>3. m[x].prev = NULL => a[x].off = 0
        BY <3>1, <3>2 DEF LinkedAt
      <4> QED
        BY <3>2, <3>3, <3>4, <4>1, <4>2, <4>3 DEF LinkedAt
    <3> QED
      BY <3>5, <3>6
  <2> QED
    BY <2>1, <2>2, <2>3
<1>7. ASSUME NEW x \in Alive(a), NEW y \in Alive(a), x # y
      PROVE  Apart(a, x, y)
  BY <1>1, <1>2, <1>3, <1>4, <1>5, <1>7, SMTT(20) DEF Apart, End, Memory
<1> QED
  BY <1>1, <1>2, <1>3, <1>6, <1>7 DEF GoodHeap, Linked, NoOverlap

\* The links of a good heap: a neighbour is another block, and nobody else's neighbour.
LEMMA LinkFacts ==
    ASSUME NEW m, NEW sz, GoodHeap(m, sz), NEW x \in Alive(m)
    PROVE  /\ x \in Block /\ m[x].seg \in Segment
           /\ m[x].bytes \in Nat /\ m[x].off \in Nat /\ m[x].bytes > 0
           /\ End(m, x) \in Nat /\ End(m, x) > m[x].off
           /\ m[x].next \in Block \cup {NULL} /\ m[x].prev \in Block \cup {NULL}
           /\ LinkedAt(m, sz, x)
           /\ m[x].next # NULL => m[x].next \in Alive(m) /\ m[x].next # x
           /\ m[x].prev # NULL =>
                 /\ m[x].prev \in Alive(m) /\ m[x].prev # x
                 /\ m[x].prev # m[x].next
                 /\ End(m, m[x].prev) = m[x].off
                 /\ m[m[x].prev].seg = m[x].seg
                 /\ m[m[x].prev].device_id = m[x].device_id
<1>1. \A y \in Alive(m) :
         /\ y \in Block /\ m[y].seg \in Segment
         /\ m[y].bytes \in Nat /\ m[y].off \in Nat
         /\ m[y].next \in Block \cup {NULL} /\ m[y].prev \in Block \cup {NULL}
  BY DEF GoodHeap, Alive, Disabled, Memory
<1>2. \A y \in Alive(m) : LinkedAt(m, sz, y)
  BY DEF GoodHeap, Linked
<1>3. \A y \in Alive(m) : /\ m[y].bytes > 0
                          /\ End(m, y) \in Nat /\ End(m, y) > m[y].off
  BY <1>1, <1>2 DEF LinkedAt, End
<1>4. ASSUME NEW y \in Alive(m), m[y].next # NULL
      PROVE  /\ m[y].next \in Alive(m)
             /\ m[m[y].next].prev = y
             /\ m[m[y].next].off = End(m, y)
             /\ m[m[y].next].seg = m[y].seg
             /\ m[m[y].next].device_id = m[y].device_id
  BY <1>2, <1>4 DEF LinkedAt
<1>5. ASSUME NEW y \in Alive(m), m[y].next # NULL
      PROVE  m[y].next # y
  BY <1>1, <1>3, <1>4, <1>5
<1>6. ASSUME m[x].prev # NULL
      PROVE  m[x].prev \in Alive(m) /\ m[m[x].prev].next = x
  BY <1>2, <1>6 DEF LinkedAt
<1>7. x # NULL
  BY <1>1, NullAssumption
<1>8. ASSUME m[x].prev # NULL
      PROVE  /\ m[x].prev # x
             /\ End(m, m[x].prev) = m[x].off
             /\ m[m[x].prev].seg = m[x].seg
             /\ m[m[x].prev].device_id = m[x].device_id
  BY <1>4, <1>5, <1>6, <1>7, <1>8
<1>9. ASSUME m[x].prev # NULL, m[x].prev = m[x].next
      PROVE  FALSE
  <2> DEFINE y == m[x].prev
  <2>1. y \in Alive(m) /\ m[y].off = End(m, x) /\ End(m, y) = m[x].off
    BY <1>4, <1>6, <1>8, <1>9
  <2> HIDE DEF y
  <2> QED
    BY <2>1, <1>1, <1>3
<1> QED
  BY <1>1, <1>2, <1>3, <1>4, <1>5, <1>6, <1>8, <1>9

\* Merging the next block keeps the shape of the heap and removes that block.
LEMMA MergeNextGood ==
    ASSUME NEW m, NEW sz, GoodHeap(m, sz), NEW b \in Alive(m),
           NEW from, from = m[b].next, from # NULL, ~m[from].locked,
           NEW a, a = TryMerge(m, b, from)
    PROVE  /\ GoodHeap(a, sz) /\ Alive(a) = Alive(m) \ {from}
           /\ from \in Alive(m) /\ from # b
           /\ a[b].prev = m[b].prev
<1> DEFINE nn == m[from].next
<1>1. /\ from \in Alive(m) /\ from \in Block /\ from # b /\ b \in Block
      /\ m \in [Block -> Memory] /\ sz \in [Segment -> Nat]
      /\ m[from].prev = b /\ m[from].seg = m[b].seg /\ m[from].off = End(m, b)
      /\ m[from].device_id = m[b].device_id
  BY LinkFacts DEF GoodHeap, LinkedAt
<1>2. nn # NULL => /\ nn \in Alive(m) /\ nn # from /\ nn # b /\ m[nn].prev = from
                   /\ m[nn].off = End(m, from) /\ m[nn].seg = m[b].seg
                   /\ m[nn].device_id = m[b].device_id
  <2>1. nn # NULL => /\ nn \in Alive(m) /\ nn # from /\ m[nn].prev = from
                     /\ m[nn].off = End(m, from) /\ m[nn].seg = m[b].seg
                     /\ m[nn].device_id = m[b].device_id
    BY <1>1, LinkFacts DEF LinkedAt
  <2>2. End(m, b) \in Nat /\ End(m, from) \in Nat /\ m[b].off \in Nat
        /\ m[from].off \in Nat /\ End(m, b) > m[b].off /\ End(m, from) > m[from].off
    BY <1>1, LinkFacts
  <2> HIDE DEF nn
  <2> QED
    BY <1>1, <2>1, <2>2
<1> HIDE DEF nn
<1>3. /\ a \in [Block -> Memory]
      /\ \A x \in Block :
            /\ a[x].bytes = IF x = b THEN m[b].bytes + m[from].bytes ELSE m[x].bytes
            /\ a[x].seg = IF x = from THEN NULL ELSE m[x].seg
            /\ a[x].off = m[x].off
            /\ a[x].locked = m[x].locked
            /\ a[x].device_id = m[x].device_id
            /\ a[x].next = IF x = b THEN nn ELSE m[x].next
            /\ a[x].prev = IF x = nn THEN b ELSE m[x].prev
  BY <1>1, MergeNextFields DEF nn
<1>4. Alive(a) = Alive(m) \ {from}
  BY <1>1, <1>3 DEF Alive, Disabled
<1>5. a[b].prev = m[b].prev
  BY <1>1, <1>2, <1>3, NullAssumption
<1>6. End(a, b) = End(m, from) /\ \A x \in Block \ {b} : End(a, x) = End(m, x)
  <2>1. m[b].bytes \in Nat /\ m[from].bytes \in Nat /\ m[b].off \in Nat
        /\ m[from].off = m[b].off + m[b].bytes
    BY <1>1, LinkFacts DEF End
  <2> QED
    BY <1>1, <1>3, <2>1 DEF End
<1>7. ASSUME NEW x \in Alive(a)
      PROVE  LinkedAt(a, sz, x)
  <2>0. x \in Alive(m) /\ x \in Block /\ x # from /\ x # NULL /\ LinkedAt(m, sz, x)
    BY <1>4, LinkFacts, NullAssumption
  <2>1. CASE x = b
    <3>1. a[b].next = nn /\ a[b].seg = m[b].seg /\ a[b].off = m[b].off
          /\ a[b].device_id = m[b].device_id
      BY <1>1, <1>3
    <3>2. a[b].bytes > 0
      BY <1>1, <1>3, LinkFacts
    <3>3. LinkedAt(m, sz, from)
      BY <1>1, LinkFacts
    <3>4. /\ End(a, b) <= sz[a[b].seg]
          /\ nn = NULL => End(a, b) = sz[a[b].seg]
      BY <1>1, <1>6, <3>1, <3>3 DEF LinkedAt, nn
    <3>5. nn # NULL => /\ nn \in Alive(a) /\ a[nn].prev = b /\ a[nn].seg = a[b].seg
                       /\ a[nn].off = End(a, b) /\ a[nn].device_id = a[b].device_id
      BY <1>1, <1>2, <1>3, <1>4, <1>6, <3>1, LinkFacts
    <3>6. a[b].prev = NULL => a[b].off = 0
      BY <1>5, <3>1, <2>0, <2>1 DEF LinkedAt
    <3>7. a[b].prev # NULL => a[b].prev \in Alive(a) /\ a[a[b].prev].next = b
      <4>1. m[b].prev # NULL => /\ m[b].prev \in Alive(m) /\ m[b].prev # b
                                /\ m[b].prev # from /\ m[m[b].prev].next = b
                                /\ m[b].prev \in Block
        BY <1>1, LinkFacts DEF LinkedAt
      <4> QED
        BY <4>1, <1>3, <1>4, <1>5
    <3> QED
      BY <2>1, <3>1, <3>2, <3>4, <3>5, <3>6, <3>7 DEF LinkedAt
  <2>2. CASE x # b
    <3>1. /\ a[x].bytes = m[x].bytes /\ a[x].seg = m[x].seg /\ a[x].off = m[x].off
          /\ a[x].next = m[x].next /\ a[x].device_id = m[x].device_id
          /\ End(a, x) = End(m, x)
      BY <2>0, <2>2, <1>3, <1>6
    <3>2. /\ a[x].bytes > 0 /\ End(a, x) <= sz[a[x].seg]
          /\ a[x].next = NULL => End(a, x) = sz[a[x].seg]
      BY <2>0, <3>1 DEF LinkedAt
    <3>3. ASSUME m[x].next # NULL
          PROVE  /\ a[x].next \in Alive(a)
                 /\ a[a[x].next].prev = x
                 /\ a[a[x].next].seg = a[x].seg
                 /\ a[a[x].next].off = End(a, x)
                 /\ a[a[x].next].device_id = a[x].device_id
      <4> DEFINE y == m[x].next
      <4>1. y \in Alive(m) /\ m[y].prev = x /\ m[y].seg = m[x].seg
            /\ m[y].off = End(m, x) /\ m[y].device_id = m[x].device_id
        BY <2>0, <3>3 DEF LinkedAt
      <4>2. y # from /\ y # nn /\ y \in Block /\ a[x].next = y
        BY <1>1, <1>2, <2>0, <2>2, <3>1, <4>1, LinkFacts, NullAssumption
      <4> HIDE DEF y
      <4> QED
        BY <1>3, <1>4, <3>1, <4>1, <4>2
    <3>4. CASE x = nn
      <4>1. a[x].prev = b /\ a[b].next = x /\ b \in Alive(a)
        BY <3>4, <2>0, <1>1, <1>3, <1>4
      <4>2. b # NULL
        BY <1>1, NullAssumption
      <4> QED
        BY <3>1, <3>2, <3>3, <4>1, <4>2 DEF LinkedAt
    <3>5. CASE x # nn
      <4>1. a[x].prev = m[x].prev
        BY <2>0, <3>5, <1>3
      <4>2. ASSUME m[x].prev # NULL
            PROVE  m[x].prev \in Alive(a) /\ a[m[x].prev].next = x
        <5>1. m[x].prev \in Alive(m) /\ m[m[x].prev].next = x /\ m[x].prev \in Block
          BY <2>0, <4>2, LinkFacts DEF LinkedAt
        <5>2. m[x].prev # from /\ m[x].prev # b
          BY <5>1, <3>5, <2>0 DEF nn
        <5> QED
          BY <5>1, <5>2, <1>3, <1>4
      <4>3. m[x].prev = NULL => a[x].off = 0
        BY <2>0, <3>1 DEF LinkedAt
      <4> QED
        BY <3>1, <3>2, <3>3, <4>1, <4>2, <4>3 DEF LinkedAt
    <3> QED
      BY <3>4, <3>5
  <2> QED
    BY <2>1, <2>2
<1>8. ASSUME NEW x \in Alive(a), NEW y \in Alive(a), x # y
      PROVE  Apart(a, x, y)
  <2>1. /\ x \in Alive(m) /\ y \in Alive(m) /\ x \in Block /\ y \in Block
        /\ x # from /\ y # from
    BY <1>4, LinkFacts
  <2>2. Apart(m, x, y) /\ Apart(m, x, from) /\ Apart(m, from, y)
    BY <2>1, <1>1, <1>8 DEF GoodHeap, NoOverlap
  <2>3. /\ m[x].off \in Nat /\ m[y].off \in Nat /\ m[x].bytes \in Nat
        /\ m[y].bytes \in Nat /\ m[b].off \in Nat /\ m[from].off \in Nat
        /\ End(m, x) \in Nat /\ End(m, y) \in Nat /\ End(m, from) \in Nat
        /\ End(m, x) > m[x].off /\ End(m, y) > m[y].off /\ End(m, from) > m[from].off
    BY <2>1, <1>1, LinkFacts
  <2>4. /\ a[x].seg = m[x].seg /\ a[y].seg = m[y].seg
        /\ a[x].off = m[x].off /\ a[y].off = m[y].off
    BY <2>1, <1>3
  <2>5. CASE x = b
    BY <2>5, <1>1, <1>6, <1>8, <2>1, <2>2, <2>3, <2>4 DEF Apart
  <2>6. CASE y = b
    BY <2>6, <1>1, <1>6, <1>8, <2>1, <2>2, <2>3, <2>4 DEF Apart
  <2>7. CASE x # b /\ y # b
    BY <2>7, <1>6, <2>1, <2>2, <2>4 DEF Apart
  <2> QED
    BY <2>5, <2>6, <2>7
<1> QED
  BY <1>1, <1>3, <1>4, <1>5, <1>7, <1>8 DEF GoodHeap, Linked, NoOverlap

\* Merging the previous block keeps the shape of the heap and removes that block.
LEMMA MergePrevGood ==
    ASSUME NEW m, NEW sz, GoodHeap(m, sz), NEW b \in Alive(m),
           NEW from, from = m[b].prev, from # NULL, ~m[from].locked,
           NEW a, a = TryMerge(m, b, from)
    PROVE  /\ GoodHeap(a, sz) /\ Alive(a) = Alive(m) \ {from}
           /\ from \in Alive(m) /\ from # b
           /\ a[b].next = m[b].next
<1> DEFINE left == m[from].prev
<1>1. /\ from \in Alive(m) /\ from \in Block /\ from # b /\ b \in Block
      /\ m \in [Block -> Memory] /\ sz \in [Segment -> Nat]
      /\ m[from].next = b /\ m[from].seg = m[b].seg /\ End(m, from) = m[b].off
      /\ m[from].device_id = m[b].device_id /\ m[b].next # from
  BY LinkFacts DEF GoodHeap, LinkedAt
<1>2. left # NULL => /\ left \in Alive(m) /\ left # from /\ left # b
                     /\ m[left].next = from
                     /\ End(m, left) = m[from].off /\ m[left].seg = m[b].seg
                     /\ m[left].device_id = m[b].device_id
  <2>1. left # NULL => /\ left \in Alive(m) /\ left # from /\ left # m[from].next
                       /\ m[left].next = from
                       /\ End(m, left) = m[from].off /\ m[left].seg = m[from].seg
                       /\ m[left].device_id = m[from].device_id
    BY <1>1, LinkFacts DEF LinkedAt
  <2> HIDE DEF left
  <2> QED
    BY <1>1, <2>1
<1>3. /\ left \in Block \cup {NULL}
      /\ a = PrevMerged(m, b, from, left)
  BY <1>1, MergePrevFields
<1>4. \A f \in Block, l \in Block \cup {NULL} :
         f # b => TakesOver(m, b, f, l, PrevMerged(m, b, f, l))
  BY <1>1, PrevMergedTakesOver
<1> HIDE DEF left
<1>5. /\ a \in [Block -> Memory]
      /\ \A x \in Block :
          /\ a[x].bytes = IF x = b THEN m[b].bytes + m[from].bytes ELSE m[x].bytes
          /\ a[x].seg = IF x = from THEN NULL ELSE m[x].seg
          /\ a[x].off = IF x = b THEN m[from].off ELSE m[x].off
          /\ a[x].locked = m[x].locked
          /\ a[x].device_id = m[x].device_id
          /\ a[x].next = IF x = left THEN b ELSE m[x].next
          /\ a[x].prev = IF x = b THEN left ELSE m[x].prev
  <2>1. TakesOver(m, b, from, left, a)
    BY <1>1, <1>3, <1>4
  <2> QED
    BY <1>1, <2>1 DEF TakesOver
<1>6. Alive(a) = Alive(m) \ {from}
  BY <1>1, <1>5 DEF Alive, Disabled
<1>7. a[b].next = m[b].next
  BY <1>1, <1>2, <1>5, NullAssumption
<1>8. End(a, b) = End(m, b) /\ \A x \in Block \ {b} : End(a, x) = End(m, x)
  <2>1. m[b].bytes \in Nat /\ m[from].bytes \in Nat /\ m[from].off \in Nat
        /\ m[b].off = m[from].off + m[from].bytes
    BY <1>1, LinkFacts DEF End
  <2> QED
    BY <1>1, <1>5, <2>1 DEF End
<1>9. ASSUME NEW x \in Alive(a)
      PROVE  LinkedAt(a, sz, x)
  <2>0. x \in Alive(m) /\ x \in Block /\ x # from /\ x # NULL /\ LinkedAt(m, sz, x)
    BY <1>6, LinkFacts, NullAssumption
  <2>1. CASE x = b
    <3>1. a[b].seg = m[b].seg /\ a[b].off = m[from].off /\ a[b].prev = left
          /\ a[b].device_id = m[b].device_id
      BY <1>1, <1>5
    <3>2. a[b].bytes > 0
      BY <1>1, <1>5, LinkFacts
    <3>3. /\ End(a, b) <= sz[a[b].seg]
          /\ a[b].next = NULL => End(a, b) = sz[a[b].seg]
      BY <1>7, <1>8, <2>0, <2>1, <3>1 DEF LinkedAt
    <3>4. ASSUME m[b].next # NULL
          PROVE  /\ m[b].next \in Alive(a)
                 /\ a[m[b].next].prev = b
                 /\ a[m[b].next].seg = a[b].seg
                 /\ a[m[b].next].off = End(a, b)
                 /\ a[m[b].next].device_id = a[b].device_id
      <4> DEFINE y == m[b].next
      <4>1. y \in Alive(m) /\ y # b /\ y # from /\ y \in Block /\ m[y].prev = b
            /\ m[y].seg = m[b].seg /\ m[y].off = End(m, b)
            /\ m[y].device_id = m[b].device_id
        BY <1>1, <3>4, LinkFacts DEF LinkedAt
      <4> HIDE DEF y
      <4>2. y \in Alive(a) /\ a[y].prev = b /\ a[y].seg = a[b].seg
            /\ a[y].off = End(a, b) /\ a[y].device_id = a[b].device_id
        BY <1>1, <1>5, <1>6, <1>8, <3>1, <4>1
      <4> QED
        BY <4>2 DEF y
    <3>5. left = NULL => a[b].off = 0
      <4>1. LinkedAt(m, sz, from)
        BY <1>1, LinkFacts
      <4> QED
        BY <3>1, <4>1 DEF LinkedAt, left
    <3>6. left # NULL => left \in Alive(a) /\ a[left].next = b
      BY <1>2, <1>3, <1>5, <1>6
    <3> QED
      BY <1>7, <2>1, <3>1, <3>2, <3>3, <3>4, <3>5, <3>6 DEF LinkedAt
  <2>2. CASE x # b
    <3>1. /\ a[x].bytes = m[x].bytes /\ a[x].seg = m[x].seg /\ a[x].off = m[x].off
          /\ a[x].prev = m[x].prev /\ a[x].device_id = m[x].device_id
          /\ End(a, x) = End(m, x)
      BY <2>0, <2>2, <1>5, <1>8
    <3>2. /\ a[x].bytes > 0 /\ End(a, x) <= sz[a[x].seg]
          /\ m[x].next = NULL => End(a, x) = sz[a[x].seg]
          /\ a[x].prev = NULL => a[x].off = 0
      BY <2>0, <3>1 DEF LinkedAt
    <3>3. ASSUME m[x].prev # NULL
          PROVE  m[x].prev \in Alive(a) /\ a[m[x].prev].next = x
      <4> DEFINE z == m[x].prev
      <4>1. z \in Alive(m) /\ m[z].next = x /\ z \in Block
        BY <2>0, <3>3, LinkFacts DEF LinkedAt
      <4> HIDE DEF z
      <4>2. z # from
        BY <1>1, <2>2, <4>1
      <4>3. z # left
        BY <1>2, <2>0, <4>1, NullAssumption
      <4>4. z \in Alive(a) /\ a[z].next = x
        BY <1>5, <1>6, <4>1, <4>2, <4>3
      <4> QED
        BY <4>4 DEF z
    <3>4. CASE x = left
      <4>1. a[x].next = b /\ b \in Alive(a) /\ a[b].prev = x
        BY <3>4, <2>0, <1>1, <1>5, <1>6
      <4>2. a[b].seg = a[x].seg /\ a[b].off = End(a, x) /\ a[b].device_id = a[x].device_id
        BY <1>1, <1>2, <1>5, <2>0, <3>1, <3>4
      <4> QED
        BY <1>1, <3>1, <3>2, <3>3, <4>1, <4>2, NullAssumption DEF LinkedAt
    <3>5. CASE x # left
      <4>1. a[x].next = m[x].next
        BY <2>0, <3>5, <1>5
      <4>2. ASSUME m[x].next # NULL
            PROVE  /\ m[x].next \in Alive(a)
                   /\ a[m[x].next].prev = x
                   /\ a[m[x].next].seg = a[x].seg
                   /\ a[m[x].next].off = End(a, x)
                   /\ a[m[x].next].device_id = a[x].device_id
        <5> DEFINE y == m[x].next
        <5>1. y \in Alive(m) /\ y \in Block /\ m[y].prev = x /\ m[y].seg = m[x].seg
              /\ m[y].off = End(m, x) /\ m[y].device_id = m[x].device_id
          BY <2>0, <4>2, LinkFacts DEF LinkedAt
        <5> HIDE DEF y
        <5>2. y # b
          BY <2>0, <5>1
        <5>3. y # from
          BY <3>5, <5>1 DEF left
        <5>4. y \in Alive(a) /\ a[y].prev = x /\ a[y].seg = a[x].seg
              /\ a[y].off = End(a, x) /\ a[y].device_id = a[x].device_id
          BY <1>5, <1>6, <3>1, <5>1, <5>2, <5>3
        <5> QED
          BY <5>4 DEF y
      <4> QED
        BY <3>1, <3>2, <3>3, <4>1, <4>2 DEF LinkedAt
    <3> QED
      BY <3>4, <3>5
  <2> QED
    BY <2>1, <2>2
<1>10. ASSUME NEW x \in Alive(a), NEW y \in Alive(a), x # y
       PROVE  Apart(a, x, y)
  <2>1. /\ x \in Alive(m) /\ y \in Alive(m) /\ x \in Block /\ y \in Block
        /\ x # from /\ y # from
    BY <1>6, LinkFacts
  <2>2. Apart(m, x, y) /\ Apart(m, x, from) /\ Apart(m, from, y)
    BY <2>1, <1>1, <1>10 DEF GoodHeap, NoOverlap
  <2>3. /\ m[x].off \in Nat /\ m[y].off \in Nat /\ m[from].off \in Nat
        /\ m[b].off \in Nat
        /\ End(m, x) \in Nat /\ End(m, y) \in Nat /\ End(m, from) \in Nat
        /\ End(m, x) > m[x].off /\ End(m, y) > m[y].off /\ End(m, from) > m[from].off
    BY <2>1, <1>1, LinkFacts
  <2>4. /\ a[x].seg = m[x].seg /\ a[y].seg = m[y].seg
        /\ End(a, x) = End(m, x) /\ End(a, y) = End(m, y)
    BY <2>1, <1>5, <1>8
  <2>5. CASE x = b
    <3>1. a[x].off = m[from].off /\ a[y].off = m[y].off
      BY <2>5, <2>1, <1>5, <1>10
    <3> QED
      BY <2>5, <1>1, <2>2, <2>3, <2>4, <3>1 DEF Apart
  <2>6. CASE y = b
    <3>1. a[y].off = m[from].off /\ a[x].off = m[x].off
      BY <2>6, <2>1, <1>5, <1>10
    <3> QED
      BY <2>6, <1>1, <2>2, <2>3, <2>4, <3>1 DEF Apart
  <2>7. CASE x # b /\ y # b
    <3>1. a[x].off = m[x].off /\ a[y].off = m[y].off
      BY <2>7, <2>1, <1>5
    <3> QED
      BY <2>2, <2>4, <3>1 DEF Apart
  <2> QED
    BY <2>5, <2>6, <2>7
<1> QED
  BY <1>1, <1>5, <1>6, <1>7, <1>9, <1>10 DEF GoodHeap, Linked, NoOverlap

\* Two live blocks of one segment, one of which fills it: they are the same block.
LEMMA WholeIsAlone ==
    ASSUME NEW m, NEW sz, GoodHeap(m, sz), NEW w \in Alive(m), NEW x \in Alive(m),
           m[w].next = NULL, m[w].prev = NULL, m[x].seg = m[w].seg
    PROVE  x = w
<1> SUFFICES ASSUME x # w PROVE FALSE
  OBVIOUS
<1>1. Apart(m, w, x)
  BY DEF GoodHeap, NoOverlap
<1>2. LinkedAt(m, sz, w) /\ LinkedAt(m, sz, x)
  BY LinkFacts
<1>3. /\ m[w].off \in Nat /\ m[x].off \in Nat
      /\ End(m, w) \in Nat /\ End(m, x) \in Nat /\ End(m, x) > m[x].off
  BY LinkFacts
<1>4. /\ m[w].off = 0 /\ End(m, w) = sz[m[w].seg]
      /\ End(m, x) <= sz[m[w].seg]
  BY <1>2 DEF LinkedAt
<1>5. End(m, w) <= m[x].off \/ End(m, x) <= m[w].off
  BY <1>1 DEF Apart
<1> QED
  BY <1>3, <1>4, <1>5

\* Dropping blocks nobody is linked to, and whatever does not touch links, sizes and
\* places of the blocks that stay, keeps the heap good.
LEMMA SubHeapGood ==
    ASSUME NEW m, NEW sz, GoodHeap(m, sz),
           NEW a \in [Block -> Memory], NEW z \in [Segment -> Nat],
           Alive(a) \subseteq Alive(m),
           \A x \in Alive(a) :
              /\ a[x].bytes = m[x].bytes /\ a[x].seg = m[x].seg /\ a[x].off = m[x].off
              /\ a[x].next = m[x].next /\ a[x].prev = m[x].prev
              /\ a[x].device_id = m[x].device_id
              /\ z[m[x].seg] = sz[m[x].seg]
              /\ m[x].next # NULL => m[x].next \in Alive(a)
              /\ m[x].prev # NULL => m[x].prev \in Alive(a)
    PROVE  GoodHeap(a, z)
<1>1. \A x \in Alive(a) : End(a, x) = End(m, x)
  BY DEF End
<1>2. ASSUME NEW x \in Alive(a)
      PROVE  LinkedAt(a, z, x)
  <2>1. LinkedAt(m, sz, x)
    BY <1>2 DEF GoodHeap, Linked
  <2> QED
    BY <1>1, <1>2, <2>1 DEF LinkedAt
<1>3. ASSUME NEW x \in Alive(a), NEW y \in Alive(a), x # y
      PROVE  Apart(a, x, y)
  <2>1. Apart(m, x, y)
    BY <1>3 DEF GoodHeap, NoOverlap
  <2> QED
    BY <1>1, <1>3, <2>1 DEF Apart
<1> QED
  BY <1>2, <1>3 DEF GoodHeap, Linked, NoOverlap

\* A block on an unused segment keeps the shape of the heap.
LEMMA ConstructGood ==
    ASSUME NEW m, NEW sz, GoodHeap(m, sz), NEW b \in Fresh(m), NEW s \in Segment,
           sz[s] = 0, NEW n \in Nat, n > 0, NEW d \in Device,
           NEW a, a = Construct(m, b, s, n, d),
           NEW z \in [Segment -> Nat], z[s] = n,
           \A t \in Segment : t # s => z[t] = sz[t]
    PROVE  /\ GoodHeap(a, z) /\ Alive(a) = Alive(m) \cup {b} /\ b \notin Alive(m)
           /\ a[b] = Piece(n, s, 0, d)
           /\ \A x \in Block \ {b} : a[x] = m[x]
           /\ \A x \in Alive(m) : m[x].seg # s
<1>1. /\ b \in Block /\ b \notin Alive(m) /\ b # NULL /\ s # NULL
      /\ m \in [Block -> Memory] /\ sz \in [Segment -> Nat]
  BY NullAssumption DEF GoodHeap, Alive, Fresh, Disabled, Unborn
<1>2. z \in [Segment -> Nat] /\ z[s] = n /\ \A t \in Segment : t # s => z[t] = sz[t]
  OBVIOUS
<1>3. a[b] = Piece(n, s, 0, d) /\ \A x \in Block \ {b} : a[x] = m[x]
  BY <1>1 DEF Construct, Put
<1>4. Piece(n, s, 0, d) \in Memory
  BY DEF Piece, Memory
<1>5. a \in [Block -> Memory]
  BY <1>1, <1>4 DEF Construct, Put
<1>6. /\ a[b].bytes = n /\ a[b].seg = s /\ a[b].off = 0
      /\ a[b].next = NULL /\ a[b].prev = NULL
  BY <1>3 DEF Piece
<1>7. Alive(a) = Alive(m) \cup {b}
  BY <1>1, <1>3, <1>6 DEF Alive, Disabled
<1>8. ASSUME NEW x \in Alive(m)
      PROVE  m[x].seg # s
  <2>1. LinkedAt(m, sz, x) /\ End(m, x) \in Nat /\ End(m, x) > m[x].off /\ m[x].off \in Nat
    BY <1>8, LinkFacts
  <2> QED
    BY <2>1 DEF LinkedAt
<1>9. \A x \in Alive(m) : /\ x \in Block \ {b} /\ End(a, x) = End(m, x)
                          /\ m[x].seg \in Segment
  BY <1>1, <1>3, LinkFacts DEF End
<1>10. ASSUME NEW x \in Alive(a)
       PROVE  LinkedAt(a, z, x)
  <2>1. CASE x = b
    BY <2>1, <1>2, <1>6 DEF LinkedAt, End
  <2>2. CASE x # b
    <3>1. x \in Alive(m)
      BY <1>7, <1>10, <2>2
    <3>2. LinkedAt(m, sz, x) /\ a[x] = m[x] /\ z[m[x].seg] = sz[m[x].seg]
      BY <1>2, <1>3, <1>8, <1>9, <3>1, LinkFacts
    <3>3. /\ m[x].next # NULL => m[x].next \in Alive(m) /\ a[m[x].next] = m[m[x].next]
          /\ m[x].prev # NULL => m[x].prev \in Alive(m) /\ a[m[x].prev] = m[m[x].prev]
      BY <1>3, <1>9, <3>1, LinkFacts
    <3> QED
      BY <1>7, <1>9, <3>1, <3>2, <3>3 DEF LinkedAt
  <2> QED
    BY <2>1, <2>2
<1>11. ASSUME NEW x \in Alive(a), NEW y \in Alive(a), x # y
       PROVE  Apart(a, x, y)
  <2>1. CASE x = b \/ y = b
    BY <2>1, <1>3, <1>6, <1>7, <1>8, <1>9, <1>11 DEF Apart
  <2>2. CASE x # b /\ y # b
    <3>1. x \in Alive(m) /\ y \in Alive(m) /\ Apart(m, x, y)
      BY <1>7, <1>11, <2>2 DEF GoodHeap, NoOverlap
    <3> QED
      BY <1>3, <1>9, <3>1 DEF Apart
  <2> QED
    BY <2>1, <2>2
<1> QED
  BY <1>1, <1>2, <1>3, <1>5, <1>7, <1>8, <1>10, <1>11 DEF GoodHeap, Linked, NoOverlap

\* Taking and giving back a block touches its mark only.
Marked(m, b, v, a) ==
    /\ a \in [Block -> Memory]
    /\ a[b].locked = v
    /\ \A x \in Block \ {b} : a[x] = m[x]
    /\ \A x \in Block :
          /\ a[x].bytes = m[x].bytes /\ a[x].seg = m[x].seg /\ a[x].off = m[x].off
          /\ a[x].next = m[x].next /\ a[x].prev = m[x].prev
          /\ a[x].device_id = m[x].device_id

\* lock and release change the flag only.
LEMMA SetLockFields ==
    ASSUME NEW m \in [Block -> Memory], NEW b \in Block, NEW v \in BOOLEAN
    PROVE  Marked(m, b, v, SetLock(m, b, v))
<1> DEFINE a == SetLock(m, b, v)
<1>1. [m[b] EXCEPT !.locked = v] \in Memory
  BY DEF Memory
<1>2. /\ a \in [Block -> Memory]
      /\ a[b] = [m[b] EXCEPT !.locked = v]
      /\ \A x \in Block \ {b} : a[x] = m[x]
  BY <1>1 DEF SetLock, Put
<1>3. ASSUME NEW x \in Block
      PROVE  /\ a[x].bytes = m[x].bytes /\ a[x].seg = m[x].seg /\ a[x].off = m[x].off
             /\ a[x].next = m[x].next /\ a[x].prev = m[x].prev
             /\ a[x].device_id = m[x].device_id
  <2>1. CASE x = b
    BY <2>1, <1>2 DEF Memory
  <2>2. CASE x # b
    BY <2>2, <1>2
  <2> QED
    BY <2>1, <2>2
<1>4. a[b].locked = v
  BY <1>2 DEF Memory
<1> QED
  BY <1>2, <1>3, <1>4 DEF Marked

\* So they keep the shape of the heap.
LEMMA SetLockGood ==
    ASSUME NEW m, NEW sz, GoodHeap(m, sz), NEW b \in Block, NEW v \in BOOLEAN,
           NEW a, a = SetLock(m, b, v)
    PROVE  GoodHeap(a, sz) /\ Alive(a) = Alive(m)
<1>1. m \in [Block -> Memory] /\ sz \in [Segment -> Nat]
  BY DEF GoodHeap
<1>2. /\ a \in [Block -> Memory]
      /\ \A x \in Block :
            /\ a[x].bytes = m[x].bytes /\ a[x].seg = m[x].seg /\ a[x].off = m[x].off
            /\ a[x].next = m[x].next /\ a[x].prev = m[x].prev
            /\ a[x].device_id = m[x].device_id
  <2>1. Marked(m, b, v, a)
    BY <1>1, SetLockFields
  <2> QED
    BY <2>1 DEF Marked
<1>3. Alive(a) = Alive(m)
  BY <1>2 DEF Alive, Disabled
<1>4. \A x \in Alive(m) :
         /\ x \in Block
         /\ m[x].next # NULL => m[x].next \in Alive(m)
         /\ m[x].prev # NULL => m[x].prev \in Alive(m)
  BY LinkFacts
<1>5. GoodHeap(a, sz)
  BY <1>1, <1>2, <1>3, <1>4, SubHeapGood
<1> QED
  BY <1>3, <1>5

\* What a merge that happens does, on either side.
LEMMA MergeFacts ==
    ASSUME NEW m, NEW sz, GoodHeap(m, sz), NEW b \in Alive(m),
           NEW from, from # NULL, ~m[from].locked,
           from = m[b].next \/ from = m[b].prev,
           NEW a, a = TryMerge(m, b, from)
    PROVE  /\ GoodHeap(a, sz)
           /\ Alive(a) = Alive(m) \ {from} /\ from \in Alive(m) /\ from # b
           /\ m[from].seg = m[b].seg /\ m[from].device_id = m[b].device_id
           /\ a[b].seg = m[b].seg
           /\ a[b].bytes >= m[b].bytes
           /\ \A x \in Block : a[x].locked = m[x].locked /\ a[x].device_id = m[x].device_id
           /\ \A x \in Block \ {b} : a[x].bytes = m[x].bytes /\ a[x].off = m[x].off
           /\ \A x \in Block \ {b, from} : a[x].seg = m[x].seg
           /\ \A x \in Alive(a) \ {b} :
                 a[x].next = IF m[x].next = from THEN b ELSE m[x].next
           /\ from = m[b].next => a[b].next = m[from].next /\ a[b].prev = m[b].prev
           /\ from = m[b].prev => a[b].next = m[b].next /\ a[b].prev = m[from].prev
<1>1. /\ m \in [Block -> Memory] /\ b \in Block /\ b # NULL
      /\ m[b].bytes \in Nat
  BY LinkFacts, NullAssumption DEF GoodHeap
<1>2. CASE from = m[b].next
  <2>1. /\ GoodHeap(a, sz) /\ Alive(a) = Alive(m) \ {from}
        /\ from \in Alive(m) /\ from # b /\ a[b].prev = m[b].prev
    BY <1>2, MergeNextGood
  <2>2. /\ from \in Block /\ m[from].prev = b /\ m[from].seg = m[b].seg
        /\ m[from].device_id = m[b].device_id /\ from # m[b].prev
        /\ m[from].bytes \in Nat
    BY <1>2, <2>1, LinkFacts DEF LinkedAt
  <2>3. \A x \in Block :
            /\ a[x].bytes = IF x = b THEN m[b].bytes + m[from].bytes ELSE m[x].bytes
            /\ a[x].seg = IF x = from THEN NULL ELSE m[x].seg
            /\ a[x].off = m[x].off
            /\ a[x].locked = m[x].locked
            /\ a[x].device_id = m[x].device_id
            /\ a[x].next = IF x = b THEN m[from].next ELSE m[x].next
    BY <1>1, <1>2, <2>1, <2>2, MergeNextFields
  <2>4. ASSUME NEW x \in Alive(a) \ {b}
        PROVE  x \in Block /\ m[x].next # from
    BY <2>1, <2>2, <2>4, LinkFacts, NullAssumption DEF LinkedAt
  <2> QED
    BY <1>1, <1>2, <2>1, <2>2, <2>3, <2>4
<1>3. CASE from = m[b].prev
  <2>1. /\ GoodHeap(a, sz) /\ Alive(a) = Alive(m) \ {from}
        /\ from \in Alive(m) /\ from # b /\ a[b].next = m[b].next
    BY <1>3, MergePrevGood
  <2>2. /\ from \in Block /\ m[from].next = b /\ m[from].seg = m[b].seg
        /\ m[from].device_id = m[b].device_id /\ from # m[b].next
        /\ m[from].bytes \in Nat
    BY <1>3, <2>1, LinkFacts DEF LinkedAt
  <2>3. m[from].prev \in Block \cup {NULL} /\ a = PrevMerged(m, b, from, m[from].prev)
    BY <1>1, <1>3, <2>1, <2>2, MergePrevFields
  <2>4. \A f \in Block, l \in Block \cup {NULL} :
           f # b => TakesOver(m, b, f, l, PrevMerged(m, b, f, l))
    BY <1>1, PrevMergedTakesOver
  <2>5. TakesOver(m, b, from, m[from].prev, a)
    BY <2>1, <2>2, <2>3, <2>4
  <2>6. \A x \in Block :
            /\ a[x].bytes = IF x = b THEN m[b].bytes + m[from].bytes ELSE m[x].bytes
            /\ a[x].seg = IF x = from THEN NULL ELSE IF x = b THEN m[from].seg ELSE m[x].seg
            /\ a[x].off = IF x = b THEN m[from].off ELSE m[x].off
            /\ a[x].locked = m[x].locked
            /\ a[x].device_id = m[x].device_id
            /\ a[x].next = IF x = m[from].prev THEN b ELSE m[x].next
            /\ a[x].prev = IF x = b THEN m[from].prev ELSE m[x].prev
    BY <2>5 DEF TakesOver
  <2>7. ASSUME NEW x \in Alive(a) \ {b}
        PROVE  x \in Block /\ (m[x].next = from <=> x = m[from].prev)
    <3>1. x \in Alive(m) /\ x # NULL /\ x \in Block
      BY <2>1, LinkFacts, NullAssumption
    <3>2. m[x].next = from => x = m[from].prev
      BY <3>1, <2>1, LinkFacts DEF LinkedAt
    <3>3. x = m[from].prev => m[x].next = from
      BY <3>1, <2>1, LinkFacts DEF LinkedAt
    <3> QED
      BY <3>1, <3>2, <3>3
  <2> QED
    BY <1>1, <1>3, <2>1, <2>2, <2>6, <2>7
<1> QED
  BY <1>2, <1>3


-----------------------------------------------------------------------------
(* The allocator. *)

CacheType(c) == c \in [Device -> [Pool -> SUBSET (Nat \X Block)]]

\* Only objects that own memory are in use.
HeldAlive(m) == \A b \in Block : m[b].locked => b \in Alive(m)

Served(m, q) == \A b \in Block : m[b].locked => m[b].bytes >= q[b]

Good(m, c, z) ==
    /\ GoodHeap(m, z)
    /\ CacheType(c)
    /\ Entries(m, c)
    /\ \A b \in Alive(m) : Filed(m, c, b)
    /\ NoFreeNeighbours(m)
    /\ OnePool(m, z)
    /\ HeldAlive(m)

Inv ==
    /\ Good(mem, cache, size)
    /\ counter \in [Pool -> [Device -> Int]]
    /\ asked \in [Block -> Nat]
    /\ Served(mem, asked)

\* Block b is in nobody's hands: not in use and not in the pools.
Loose(m, c, b) ==
    /\ b \in Alive(m)
    /\ ~m[b].locked
    /\ m[b].device_id \in Device
    /\ \A d \in Device, p \in Pool : \A k \in c[d][p] : k[2] # b
    /\ \A x \in Alive(m) \ {b} : Filed(m, c, x)

\* Good but for block b, which the current operation has in hand.
GoodBut(m, c, z, b) ==
    /\ GoodHeap(m, z)
    /\ CacheType(c)
    /\ Entries(m, c)
    /\ Loose(m, c, b)
    /\ OnePool(m, z)
    /\ HeldAlive(m)

\* Free neighbours, if there are any, are b and a neighbour of it.
NoFreeBut(m, b) ==
    \A x \in Alive(m) :
        x # b /\ m[x].next # NULL /\ m[x].next # b => m[x].locked \/ m[m[x].next].locked

\* Block o is left alone: as much in use as it was and, if so, in place.
Kept(m, z, a, y, o) ==
    /\ a[o].locked <=> m[o].locked
    /\ m[o].locked => /\ a[o].seg = m[o].seg /\ a[o].off = m[o].off
                      /\ a[o].bytes = m[o].bytes
                      /\ y[m[o].seg] = z[m[o].seg]

-----------------------------------------------------------------------------
(* The pools. *)

\* map::erase in a pool takes out the one entry named and leaves every other pool.
LEMMA EraseValue ==
    ASSUME NEW c, CacheType(c), NEW d \in Device, NEW p \in Pool, NEW k
    PROVE  /\ CacheType(Erase(c, d, p, k))
           /\ \A f \in Device, q \in Pool : \A j :
                 j \in Erase(c, d, p, k)[f][q] <=>
                     j \in c[f][q] /\ ~(f = d /\ q = p /\ j = k)
<1> DEFINE e == Erase(c, d, p, k)
<1>1. \A f \in Device : c[f] \in [Pool -> SUBSET (Nat \X Block)]
  BY DEF CacheType
<1>2. e[d] = [c[d] EXCEPT ![p] = @ \ {k}] /\ \A f \in Device \ {d} : e[f] = c[f]
  BY DEF Erase, CacheType
<1>3. \A q \in Pool : e[d][q] = IF q = p THEN c[d][q] \ {k} ELSE c[d][q]
  BY <1>1, <1>2
<1>4. c[d][p] \ {k} \in SUBSET (Nat \X Block)
  BY <1>1
<1>5. [c[d] EXCEPT ![p] = @ \ {k}] \in [Pool -> SUBSET (Nat \X Block)]
  BY <1>1, <1>4
<1>6. CacheType(e)
  BY <1>5 DEF Erase, CacheType
<1> QED
  BY <1>2, <1>3, <1>6

\* map::operator[] on a pool adds the one entry named and leaves every other pool.
LEMMA InsertValue ==
    ASSUME NEW c, CacheType(c), NEW d \in Device, NEW p \in Pool, NEW k \in Nat \X Block
    PROVE  /\ CacheType(Insert(c, d, p, k))
           /\ \A f \in Device, q \in Pool : \A j :
                 j \in Insert(c, d, p, k)[f][q] <=>
                     j \in c[f][q] \/ (f = d /\ q = p /\ j = k)
<1> DEFINE e == Insert(c, d, p, k)
<1>1. \A f \in Device : c[f] \in [Pool -> SUBSET (Nat \X Block)]
  BY DEF CacheType
<1>2. e[d] = [c[d] EXCEPT ![p] = @ \cup {k}] /\ \A f \in Device \ {d} : e[f] = c[f]
  BY DEF Insert, CacheType
<1>3. \A q \in Pool : e[d][q] = IF q = p THEN c[d][q] \cup {k} ELSE c[d][q]
  BY <1>1, <1>2
<1>4. c[d][p] \cup {k} \in SUBSET (Nat \X Block)
  BY <1>1
<1>5. [c[d] EXCEPT ![p] = @ \cup {k}] \in [Pool -> SUBSET (Nat \X Block)]
  BY <1>1, <1>4
<1>6. CacheType(e)
  BY <1>5 DEF Insert, CacheType
<1> QED
  BY <1>2, <1>3, <1>6, ZenonT(40)

\* The size test of alloc_impl always selects one of the two pools.
LEMMA PoolType == \A n : PoolOf(n) \in Pool
  BY DEF PoolOf, Pool

-----------------------------------------------------------------------------
(* Allocation. *)

\* The block lower_bound finds is free, large enough and of the device and pool asked.
LEMMA TakeCached ==
    ASSUME NEW m, NEW c, NEW z, Good(m, c, z),
           NEW d \in Device, NEW p \in Pool, NEW n \in Nat,
           NEW k \in LowerBound(c[d][p], n)
    PROVE  /\ GoodBut(m, Erase(c, d, p, k), z, k[2])
           /\ m[k[2]].device_id = d /\ m[k[2]].bytes >= n
           /\ PoolOf(m[k[2]].bytes) = p
<1> DEFINE b == k[2]
           e == Erase(c, d, p, k)
<1>2. k \in c[d][p] /\ k[1] >= n
  BY DEF LowerBound
<1>3. /\ CacheType(c) /\ Entries(m, c) /\ GoodHeap(m, z) /\ OnePool(m, z) /\ HeldAlive(m)
      /\ \A x \in Alive(m) : Filed(m, c, x)
  BY DEF Good
<1>4. /\ b \in Alive(m) /\ ~m[b].locked /\ k = Key(m, b) /\ m[b].device_id = d
      /\ PoolOf(k[1]) = p
  BY <1>2, <1>3 DEF Entries
<1>5. k[1] = m[b].bytes
  BY <1>4 DEF Key
<1>7. /\ CacheType(e)
      /\ \A f \in Device, q \in Pool : \A j :
            j \in e[f][q] <=> j \in c[f][q] /\ ~(f = d /\ q = p /\ j = k)
  BY <1>3, EraseValue
<1> HIDE DEF b, e
<1>8. Entries(m, e)
  BY <1>3, <1>7 DEF Entries
<1>9. ASSUME NEW f \in Device, NEW q \in Pool, NEW j \in e[f][q]
      PROVE  j[2] # b
  <2>1. SUFFICES ASSUME j[2] = b PROVE FALSE
    OBVIOUS
  <2>2. j \in c[f][q]
    BY <1>7, <1>9
  <2>3. j = Key(m, b) /\ m[b].device_id = f /\ PoolOf(j[1]) = q
    BY <1>3, <2>1, <2>2 DEF Entries
  <2>4. j = k /\ f = d /\ q = p
    BY <1>4, <2>3
  <2> QED
    BY <1>7, <1>9, <2>4
<1>10. ASSUME NEW x \in Alive(m) \ {b}
       PROVE  Filed(m, e, x)
  <2>1. Filed(m, c, x) /\ PoolOf(m[x].bytes) \in Pool
    BY <1>3 DEF PoolOf, Pool
  <2>2. Key(m, x) # k
    BY <1>4, <1>10 DEF Key
  <2> QED
    BY <1>7, <2>1, <2>2 DEF Filed
<1> QED
  BY <1>2, <1>3, <1>4, <1>5, <1>7, <1>8, <1>9, <1>10 DEF GoodBut, Loose, b, e

\* A new allocation covers the request and is filed in the pool of the request.
LEMMA NewBytesFit ==
    ASSUME NEW n \in Nat
    PROVE  /\ NewBytes(Need(n)) \in Nat /\ NewBytes(Need(n)) >= Need(n)
           /\ NewBytes(Need(n)) > 0
           /\ PoolOf(NewBytes(Need(n))) = PoolOf(Need(n))
  BY NeedBound, SizeAssumption DEF NewBytes, PoolOf

\* A block on a segment the device just gave is the only one there, so no neighbour is free.
LEMMA NewBlock ==
    ASSUME NEW m, NEW c, NEW z, Good(m, c, z),
           NEW d \in Device, NEW b \in Fresh(m), NEW s \in Segment, z[s] = 0,
           NEW w \in Nat, w > 0,
           NEW y \in [Segment -> Nat], y[s] = w,
           \A t \in Segment : t # s => y[t] = z[t]
    PROVE  /\ GoodBut(Construct(m, b, s, w, d), c, y, b)
           /\ Construct(m, b, s, w, d)[b] = Piece(w, s, 0, d)
           /\ NoFreeNeighbours(Construct(m, b, s, w, d))
           /\ ~m[b].locked
           /\ \A o \in Block : Kept(m, z, Construct(m, b, s, w, d), y, o)
<1> DEFINE a == Construct(m, b, s, w, d)
<1>2. /\ CacheType(c) /\ Entries(m, c) /\ GoodHeap(m, z) /\ OnePool(m, z) /\ HeldAlive(m)
      /\ NoFreeNeighbours(m) /\ \A x \in Alive(m) : Filed(m, c, x)
  BY DEF Good
<1>3. /\ z \in [Segment -> Nat] /\ y \in [Segment -> Nat] /\ y[s] = w
      /\ \A t \in Segment : t # s => y[t] = z[t]
  BY <1>2 DEF GoodHeap
<1>4. /\ GoodHeap(a, y) /\ Alive(a) = Alive(m) \cup {b} /\ b \notin Alive(m)
      /\ a[b] = Piece(w, s, 0, d)
      /\ \A x \in Block \ {b} : a[x] = m[x]
      /\ \A x \in Alive(m) : m[x].seg # s
  BY <1>2, <1>3, ConstructGood
<1> HIDE DEF a
<1>5. /\ a[b].bytes = w /\ a[b].seg = s /\ a[b].device_id = d /\ ~a[b].locked
      /\ a[b].next = NULL
  BY <1>4 DEF Piece
<1>6. b \in Block /\ ~m[b].locked
  BY DEF Fresh, Unborn
<1>7. \A x \in Alive(m) : /\ x \in Block \ {b} /\ a[x] = m[x] /\ m[x].seg \in Segment
                          /\ y[m[x].seg] = z[m[x].seg]
                          /\ (m[x].next # NULL => m[x].next \in Alive(m))
  BY <1>2, <1>4, <1>3, LinkFacts
<1>8. Entries(a, c)
  BY <1>2, <1>4, <1>7 DEF Entries, Key
<1>9. Loose(a, c, b)
  <2>1. \A f \in Device, p \in Pool : \A k \in c[f][p] : k[2] # b
    BY <1>2, <1>4 DEF Entries
  <2>2. \A x \in Alive(a) \ {b} : Filed(a, c, x)
    BY <1>2, <1>4, <1>7 DEF Filed, Key
  <2> QED
    BY <1>4, <1>5, <2>1, <2>2 DEF Loose
<1>10. OnePool(a, y)
  <2>1. \A x \in Alive(m) : PoolOf(a[x].bytes) = PoolOf(y[a[x].seg])
    BY <1>2, <1>7 DEF OnePool
  <2>2. PoolOf(a[b].bytes) = PoolOf(y[a[b].seg])
    BY <1>5, <1>3
  <2> QED
    BY <1>4, <2>1, <2>2 DEF OnePool
<1>11. HeldAlive(a)
  BY <1>2, <1>4, <1>5, <1>6 DEF HeldAlive
<1>12. NoFreeNeighbours(a)
  BY <1>2, <1>4, <1>5, <1>7 DEF NoFreeNeighbours
<1>13. ASSUME NEW o \in Block
       PROVE  Kept(m, z, a, y, o)
  <2>1. CASE o = b
    BY <1>5, <1>6, <2>1 DEF Kept
  <2>2. CASE o # b
    BY <1>2, <1>4, <1>7, <2>2 DEF Kept, HeldAlive
  <2> QED
    BY <2>1, <2>2
<1> QED
  BY <1>2, <1>4, <1>5, <1>6, <1>8, <1>9, <1>10, <1>11, <1>12, <1>13 DEF GoodBut, a

\* Locking the one block outside the pools makes the heap good again.
LEMMA LockGood ==
    ASSUME NEW m, NEW c, NEW z, NEW b, GoodBut(m, c, z, b), NoFreeBut(m, b)
    PROVE  /\ Good(SetLock(m, b, TRUE), c, z)
           /\ SetLock(m, b, TRUE)[b].locked
           /\ SetLock(m, b, TRUE)[b].bytes = m[b].bytes
           /\ \A o \in Block \ {b} : Kept(m, z, SetLock(m, b, TRUE), z, o)
<1> DEFINE a == SetLock(m, b, TRUE)
<1>1. /\ CacheType(c) /\ Entries(m, c) /\ GoodHeap(m, z) /\ OnePool(m, z) /\ HeldAlive(m)
      /\ Loose(m, c, b) /\ b \in Alive(m) /\ m \in [Block -> Memory]
  BY DEF GoodBut, Loose, GoodHeap
<1>2. b \in Block
  BY <1>1 DEF Alive
<1>3. GoodHeap(a, z) /\ Alive(a) = Alive(m)
  BY <1>1, <1>2, SetLockGood
<1>4. /\ a[b].locked = TRUE
      /\ \A x \in Block \ {b} : a[x] = m[x]
      /\ \A x \in Block :
            /\ a[x].bytes = m[x].bytes /\ a[x].seg = m[x].seg /\ a[x].off = m[x].off
            /\ a[x].next = m[x].next /\ a[x].prev = m[x].prev
            /\ a[x].device_id = m[x].device_id
  <2>1. Marked(m, b, TRUE, a)
    BY <1>1, <1>2, SetLockFields
  <2> QED
    BY <2>1 DEF Marked
<1> HIDE DEF a
<1>5. \A x \in Alive(m) : x \in Block /\ (m[x].next # NULL => m[x].next \in Block)
  BY <1>1, LinkFacts
<1>6. \A x \in Block : Key(a, x) = Key(m, x)
  BY <1>4 DEF Key
<1>7. Entries(a, c)
  <2> SUFFICES ASSUME NEW d \in Device, NEW p \in Pool, NEW k \in c[d][p]
               PROVE  /\ k[2] \in Alive(a) /\ ~a[k[2]].locked /\ k = Key(a, k[2])
                      /\ a[k[2]].device_id = d /\ PoolOf(k[1]) = p
    BY DEF Entries
  <2>1. /\ k[2] \in Alive(m) /\ ~m[k[2]].locked /\ k = Key(m, k[2])
        /\ m[k[2]].device_id = d /\ PoolOf(k[1]) = p /\ k[2] # b
    BY <1>1 DEF Entries, Loose
  <2> QED
    BY <1>3, <1>4, <1>5, <1>6, <2>1
<1>8. ASSUME NEW x \in Alive(a)
      PROVE  Filed(a, c, x)
  <2>1. CASE x = b
    BY <1>1, <1>2, <1>4, <2>1 DEF Filed, Loose
  <2>2. CASE x # b
    BY <1>1, <1>3, <1>4, <1>5, <2>2 DEF Filed, Loose, Key
  <2> QED
    BY <2>1, <2>2
<1>9. NoFreeNeighbours(a)
  BY <1>3, <1>4, <1>5 DEF NoFreeNeighbours, NoFreeBut
<1>10. OnePool(a, z)
  BY <1>1, <1>3, <1>4, <1>5 DEF OnePool
<1>11. HeldAlive(a)
  BY <1>1, <1>3, <1>4 DEF HeldAlive
<1>12. \A o \in Block \ {b} : Kept(m, z, a, z, o)
  BY <1>4 DEF Kept
<1> QED
  BY <1>1, <1>2, <1>3, <1>4, <1>7, <1>8, <1>9, <1>10, <1>11, <1>12 DEF Good, a

\* The rest of a divided block has the size class of the block.
LEMMA SplitGood ==
    ASSUME NEW m, NEW c, NEW z, NEW b, GoodBut(m, c, z, b), NoFreeNeighbours(m),
           NEW start \in Nat, 0 < start, NEW p \in Pool,
           PoolOf(start) = p, PoolOf(m[b].bytes) = p,
           m[b].bytes - start >= SplitAt(p), NEW r \in Fresh(m),
           NEW d, m[b].device_id = d
    PROVE  LET a == Divide(m, b, r, start) IN
           /\ GoodBut(a, Insert(c, d, p, Key(a, r)), z, b)
           /\ NoFreeBut(a, b)
           /\ a[b].bytes = start /\ a[b].device_id = d
           /\ \A o \in Block \ {b} : Kept(m, z, a, z, o)
<1> DEFINE a == Divide(m, b, r, start)
<1>1. /\ CacheType(c) /\ Entries(m, c) /\ GoodHeap(m, z) /\ OnePool(m, z) /\ HeldAlive(m)
      /\ Loose(m, c, b) /\ b \in Alive(m) /\ ~m[b].locked /\ d \in Device
      /\ m \in [Block -> Memory]
  BY DEF GoodBut, Loose, GoodHeap
<1>2. /\ b \in Block /\ m[b].bytes \in Nat
      /\ m[b].next \in Block \cup {NULL} /\ m[b].prev \in Block \cup {NULL}
  BY <1>1, LinkFacts
<1>3. start < m[b].bytes
  BY <1>2, SizeAssumption DEF SplitAt
<1>4. r \in Block /\ r # NULL /\ r \notin Alive(m) /\ r # b /\ ~m[r].locked
  BY <1>1, NullAssumption DEF Fresh, Unborn, Alive, Disabled
<1>5. GoodHeap(a, z) /\ Alive(a) = Alive(m) \cup {r}
  BY <1>1, <1>3, DivideGood
<1>6. \A x \in Block :
         /\ a[x].bytes = IF x = b THEN start
                         ELSE IF x = r THEN m[b].bytes - start ELSE m[x].bytes
         /\ a[x].seg = IF x = r THEN m[b].seg ELSE m[x].seg
         /\ a[x].off = IF x = r THEN m[b].off + start ELSE m[x].off
         /\ a[x].locked = (x # r /\ m[x].locked)
         /\ a[x].device_id = IF x = r THEN m[b].device_id ELSE m[x].device_id
         /\ a[x].next = IF x = b THEN r ELSE IF x = r THEN m[b].next ELSE m[x].next
  BY <1>1, <1>2, <1>3, <1>4, DivideFields
<1> HIDE DEF a
<1>7. \A x \in Alive(m) : /\ x \in Block /\ x # r
                          /\ (m[x].next # NULL => m[x].next \in Alive(m) /\ m[x].next \in Block)
  BY <1>1, <1>4, LinkFacts
<1> DEFINE e == Insert(c, d, p, Key(a, r))
<1>8. Key(a, r) = <<m[b].bytes - start, r>> /\ Key(a, r) \in Nat \X Block
  BY <1>2, <1>3, <1>4, <1>6 DEF Key
<1>9. /\ CacheType(e)
      /\ \A f \in Device, q \in Pool : \A j :
            j \in e[f][q] <=> j \in c[f][q] \/ (f = d /\ q = p /\ j = Key(a, r))
  BY <1>1, <1>8, InsertValue, SMTT(20)
<1> HIDE DEF e
<1>10. PoolOf(m[b].bytes - start) = p
  BY <1>2, <1>3, SizeAssumption DEF PoolOf, SplitAt
<1>11. Entries(a, e)
  <2> SUFFICES ASSUME NEW f \in Device, NEW q \in Pool, NEW k \in e[f][q]
               PROVE  /\ k[2] \in Alive(a) /\ ~a[k[2]].locked /\ k = Key(a, k[2])
                      /\ a[k[2]].device_id = f /\ PoolOf(k[1]) = q
    BY DEF Entries
  <2>1. CASE k \in c[f][q]
    <3>1. /\ k[2] \in Alive(m) /\ ~m[k[2]].locked /\ k = Key(m, k[2])
          /\ m[k[2]].device_id = f /\ PoolOf(k[1]) = q /\ k[2] # b
      BY <1>1, <2>1 DEF Entries, Loose
    <3>2. k[2] \in Block /\ k[2] # r
      BY <1>7, <3>1
    <3>3. /\ a[k[2]].bytes = m[k[2]].bytes /\ ~a[k[2]].locked
          /\ a[k[2]].device_id = m[k[2]].device_id
      BY <1>6, <3>1, <3>2
    <3>4. Key(a, k[2]) = Key(m, k[2])
      BY <3>3 DEF Key
    <3> QED
      BY <1>5, <3>1, <3>3, <3>4
  <2>2. CASE k = Key(a, r) /\ f = d /\ q = p
    <3>1. k[2] = r /\ k[1] = m[b].bytes - start
      BY <1>8, <2>2
    <3>2. ~a[r].locked /\ a[r].device_id = d
      BY <1>4, <1>6
    <3> QED
      BY <1>5, <1>10, <2>2, <3>1, <3>2
  <2> QED
    BY <1>9, <2>1, <2>2
<1>12. Loose(a, e, b)
  <2>1. ~a[b].locked /\ a[b].device_id \in Device /\ b \in Alive(a)
    BY <1>1, <1>2, <1>4, <1>5, <1>6
  <2>2. ASSUME NEW f \in Device, NEW q \in Pool, NEW k \in e[f][q]
        PROVE  k[2] # b
    <3>1. CASE k \in c[f][q]
      BY <1>1, <3>1 DEF Loose
    <3>2. CASE k = Key(a, r)
      BY <1>4, <1>8, <3>2
    <3> QED
      BY <1>9, <2>2, <3>1, <3>2
  <2>3. ASSUME NEW x \in Alive(a) \ {b}
        PROVE  Filed(a, e, x)
    <3>1. CASE x = r
      <4>1. a[r].device_id = d /\ a[r].bytes = m[b].bytes - start
        BY <1>4, <1>6
      <4>2. Key(a, r) \in e[d][p]
        BY <1>1, <1>9
      <4> QED
        BY <1>1, <1>10, <3>1, <4>1, <4>2 DEF Filed
    <3>2. CASE x # r
      <4>1. x \in Alive(m) /\ x \in Block /\ Filed(m, c, x)
        BY <1>1, <1>5, <1>7, <2>3, <3>2 DEF Loose
      <4>2. /\ a[x].bytes = m[x].bytes /\ (a[x].locked <=> m[x].locked)
            /\ a[x].device_id = m[x].device_id
        BY <1>6, <2>3, <3>2, <4>1
      <4> QED
        BY <1>9, <4>1, <4>2, PoolType DEF Filed, Key
    <3> QED
      BY <3>1, <3>2
  <2> QED
    BY <2>1, <2>2, <2>3 DEF Loose
<1>13. OnePool(a, z)
  <2> SUFFICES ASSUME NEW x \in Alive(a)
               PROVE  PoolOf(a[x].bytes) = PoolOf(z[a[x].seg])
    BY DEF OnePool
  <2>1. PoolOf(z[m[b].seg]) = p
    BY <1>1 DEF OnePool
  <2>2. CASE x = b
    BY <1>2, <1>4, <1>6, <2>1, <2>2
  <2>3. CASE x = r
    BY <1>4, <1>6, <1>10, <2>1, <2>3
  <2>4. CASE x # b /\ x # r
    <3>1. x \in Alive(m) /\ x \in Block
      BY <1>5, <1>7, <2>4
    <3>2. a[x].bytes = m[x].bytes /\ a[x].seg = m[x].seg
      BY <1>6, <2>4, <3>1
    <3> QED
      BY <1>1, <3>1, <3>2 DEF OnePool
  <2> QED
    BY <2>2, <2>3, <2>4
<1>14. HeldAlive(a)
  BY <1>1, <1>5, <1>6 DEF HeldAlive
<1>15. NoFreeBut(a, b)
  <2> SUFFICES ASSUME NEW x \in Alive(a), x # b, a[x].next # NULL, a[x].next # b
               PROVE  a[x].locked \/ a[a[x].next].locked
    BY DEF NoFreeBut
  <2>1. CASE x = r
    <3>1. a[x].next = m[b].next
      BY <1>4, <1>6, <2>1
    <3>2. m[b].next \in Alive(m) /\ m[b].next \in Block /\ m[b].next # r
      BY <1>1, <1>7, <3>1
    <3>3. m[m[b].next].locked
      BY <1>1, <3>1 DEF NoFreeNeighbours
    <3> QED
      BY <1>6, <3>1, <3>2, <3>3
  <2>2. CASE x # r
    <3>1. x \in Alive(m) /\ x \in Block /\ a[x].next = m[x].next
      BY <1>5, <1>6, <1>7, <2>2
    <3>2. m[x].next \in Alive(m) /\ m[x].next \in Block /\ m[x].next # r
      BY <1>7, <3>1
    <3>3. m[x].locked \/ m[m[x].next].locked
      BY <3>1 DEF NoFreeNeighbours
    <3> QED
      BY <1>6, <2>2, <3>1, <3>2, <3>3
  <2> QED
    BY <2>1, <2>2
<1>16. \A o \in Block \ {b} : Kept(m, z, a, z, o)
  BY <1>4, <1>6 DEF Kept
<1>17. a[b].bytes = start /\ a[b].device_id = d
  BY <1>2, <1>4, <1>6
<1> QED
  BY <1>5, <1>9, <1>11, <1>12, <1>13, <1>14, <1>15, <1>16, <1>17 DEF GoodBut, e, a

CounterType(q) == q \in [Pool -> [Device -> Int]]

\* Counting a block up or down keeps the counters counters.
LEMMA CounterStep ==
    ASSUME NEW q, CounterType(q), NEW p \in Pool, NEW d \in Device
    PROVE  /\ CounterType([q EXCEPT ![p][d] = @ + 1])
           /\ CounterType([q EXCEPT ![p][d] = @ - 1])
<1>1. q[p] \in [Device -> Int] /\ q[p][d] \in Int
  BY DEF CounterType
<1>2. /\ [q[p] EXCEPT ![d] = @ + 1] \in [Device -> Int]
      /\ [q[p] EXCEPT ![d] = @ - 1] \in [Device -> Int]
  BY <1>1
<1> QED
  BY <1>2 DEF CounterType

\* What the tail of alloc leaves: b is in the hands of a holder who asked for n bytes.
HandedOut(m, z, y, b, n) ==
    /\ Good(mem', cache', y)
    /\ CounterType(counter')
    /\ asked' = [asked EXCEPT ![b] = n]
    /\ mem'[b].locked
    /\ mem'[b].bytes >= n
    /\ \A o \in Block \ {b} : Kept(m, z, mem', y, o)

\* Cutting a block, filing the rest and locking the first part hands it out in a good heap.
LEMMA CarveGood ==
    ASSUME NEW m, NEW c, NEW z, NEW b, GoodBut(m, c, z, b), NoFreeNeighbours(m),
           NEW n \in Nat, NEW d \in Device, m[b].device_id = d,
           m[b].bytes >= Need(n), PoolOf(m[b].bytes) = PoolOf(Need(n)),
           CounterType(counter), Carve(m, c, d, b, n)
    PROVE  HandedOut(m, z, z, b, n)
<1>1. Need(n) \in Nat /\ Need(n) > 0 /\ Need(n) >= n
  BY NeedBound
<1>2. PoolOf(Need(n)) \in Pool /\ PoolOf(m[b].bytes) \in Pool
  BY PoolType
<1>3. CASE KeepWhole(m, c, d, b, n)
  <2>1. /\ mem' = SetLock(m, b, TRUE) /\ cache' = c
        /\ counter' = [counter EXCEPT ![PoolOf(m[b].bytes)][d] = @ + 1]
        /\ asked' = [asked EXCEPT ![b] = n]
    BY <1>3 DEF KeepWhole, Hand
  <2>2. NoFreeBut(m, b)
    BY DEF NoFreeBut, NoFreeNeighbours
  <2>3. /\ Good(mem', cache', z) /\ mem'[b].locked /\ mem'[b].bytes = m[b].bytes
        /\ \A o \in Block \ {b} : Kept(m, z, mem', z, o)
    BY <2>1, <2>2, LockGood
  <2>4. CounterType(counter')
    BY <1>2, <2>1, CounterStep
  <2>5. b \in Block /\ m[b].bytes \in Nat
    BY LinkFacts DEF GoodBut, Loose
  <2>6. mem'[b].bytes >= n
    BY <1>1, <2>3, <2>5
  <2>7. asked' = [asked EXCEPT ![b] = n]
    BY <2>1
  <2> QED
    BY <2>3, <2>4, <2>6, <2>7 DEF HandedOut
<1>4. CASE Split(m, c, d, b, n)
  <2>1. PICK r \in Fresh(m) :
          LET cut == Divide(m, b, r, Need(n)) IN
          /\ Hand(cut, b, n)
          /\ cache' = Insert(c, d, PoolOf(Need(n)), Key(cut, r))
    BY <1>4 DEF Split
  <2>2. m[b].bytes - Need(n) >= SplitAt(PoolOf(Need(n)))
    BY <1>4 DEF Split
  <2> DEFINE a == Divide(m, b, r, Need(n))
             e == Insert(c, d, PoolOf(Need(n)), Key(a, r))
  <2>3. /\ GoodBut(a, e, z, b) /\ NoFreeBut(a, b)
        /\ a[b].bytes = Need(n) /\ a[b].device_id = d
        /\ \A o \in Block \ {b} : Kept(m, z, a, z, o)
    <3> DEFINE start == Need(n)
               p == PoolOf(start)
    <3>1. /\ start \in Nat /\ 0 < start /\ p \in Pool /\ PoolOf(start) = p
          /\ PoolOf(m[b].bytes) = p /\ m[b].bytes - start >= SplitAt(p)
      BY <1>1, <1>2, <2>2
    <3> HIDE DEF start, p
    <3>2. LET f == Divide(m, b, r, start) IN
          /\ GoodBut(f, Insert(c, d, p, Key(f, r)), z, b)
          /\ NoFreeBut(f, b)
          /\ f[b].bytes = start /\ f[b].device_id = d
          /\ \A o \in Block \ {b} : Kept(m, z, f, z, o)
      BY <3>1, SplitGood
    <3> QED
      BY <3>2 DEF start, p
  <2>4. /\ mem' = SetLock(a, b, TRUE) /\ cache' = e
        /\ counter' = [counter EXCEPT ![PoolOf(a[b].bytes)][a[b].device_id] = @ + 1]
        /\ asked' = [asked EXCEPT ![b] = n]
    BY <2>1 DEF Hand
  <2> HIDE DEF a, e
  <2>5. /\ Good(mem', cache', z) /\ mem'[b].locked /\ mem'[b].bytes = a[b].bytes
        /\ \A o \in Block \ {b} : Kept(a, z, mem', z, o)
    <3>1. GoodBut(a, e, z, b) /\ NoFreeBut(a, b) /\ mem' = SetLock(a, b, TRUE) /\ cache' = e
      BY <2>3, <2>4
    <3> QED
      BY ONLY <3>1, LockGood
  <2>6. \A o \in Block \ {b} : Kept(m, z, mem', z, o)
    BY <2>3, <2>5 DEF Kept
  <2>7. CounterType(counter')
    BY <1>2, <2>3, <2>4, CounterStep
  <2> QED
    BY <1>1, <2>3, <2>4, <2>5, <2>6, <2>7 DEF HandedOut
<1> QED
  BY <1>3, <1>4 DEF Carve

-----------------------------------------------------------------------------
(* Trimming. *)

\* free_unused_device_caches removes whole free allocations and touches no block in use.
LEMMA TrimGood ==
    ASSUME NEW D, D \subseteq Device, Good(mem, cache, size)
    PROVE  /\ Good(TrimMem(D), TrimCache(D), TrimSize(D))
           /\ \A o \in Block : Kept(mem, size, TrimMem(D), TrimSize(D), o)
           /\ Alive(TrimMem(D)) = Alive(mem) \ WholeIn(mem, cache, D)
<1> DEFINE W == WholeIn(mem, cache, D)
           a == TrimMem(D)
           c == TrimCache(D)
           z == TrimSize(D)
<1>1. /\ CacheType(cache) /\ Entries(mem, cache) /\ GoodHeap(mem, size)
      /\ OnePool(mem, size) /\ HeldAlive(mem) /\ NoFreeNeighbours(mem)
      /\ \A x \in Alive(mem) : Filed(mem, cache, x)
      /\ mem \in [Block -> Memory] /\ size \in [Segment -> Nat]
  BY DEF Good, GoodHeap
<1>2. ASSUME NEW w \in W
      PROVE  /\ w \in Alive(mem) /\ w \in Block /\ ~mem[w].locked
             /\ mem[w].next = NULL /\ mem[w].prev = NULL
  <2>1. PICK d \in D : w \in Whole(mem, cache, d)
    BY DEF WholeIn
  <2>2. w \in CachedOn(cache, d) /\ BytesActive(mem, w) > 0 /\ d \in Device
    BY <2>1 DEF Whole
  <2>3. w \in Block /\ \E p \in Pool : \E k \in cache[d][p] : k[2] = w
    BY <2>2 DEF CachedOn
  <2>4. w \in Alive(mem) /\ ~mem[w].locked
    BY <1>1, <2>2, <2>3 DEF Entries
  <2>5. mem[w].next = NULL /\ mem[w].prev = NULL
    BY <2>2 DEF BytesActive
  <2> QED
    BY <2>3, <2>4, <2>5
<1>3. /\ a = [b \in Block |-> IF b \in W THEN Unborn ELSE mem[b]]
      /\ z = [s \in Segment |-> IF \E b \in W : mem[b].seg = s THEN 0 ELSE size[s]]
      /\ c = [d \in Device |-> [p \in Pool |-> {k \in cache[d][p] : k[2] \notin W}]]
  BY DEF TrimMem, TrimSize, TrimCache
<1> HIDE DEF W, a, z, c
<1>4. Unborn \in Memory /\ Unborn.seg = NULL /\ ~Unborn.locked
  BY DEF Unborn, Memory
<1>5. a \in [Block -> Memory] /\ z \in [Segment -> Nat]
  BY <1>1, <1>3, <1>4
<1>6. \A x \in Block : a[x] = IF x \in W THEN Unborn ELSE mem[x]
  BY <1>3
<1>7. Alive(a) = Alive(mem) \ W
  BY <1>2, <1>4, <1>6 DEF Alive, Disabled
<1>8. \A x \in Alive(a) : /\ x \in Alive(mem) /\ x \in Block /\ x \notin W
                          /\ x # NULL /\ a[x] = mem[x]
  BY <1>6, <1>7, NullAssumption DEF Alive
<1>9. ASSUME NEW x \in Alive(a)
      PROVE  /\ z[mem[x].seg] = size[mem[x].seg]
             /\ mem[x].next # NULL => mem[x].next \in Alive(a)
             /\ mem[x].prev # NULL => mem[x].prev \in Alive(a)
  <2>1. x \in Alive(mem) /\ x \notin W /\ x # NULL /\ mem[x].seg \in Segment
    BY <1>1, <1>8, LinkFacts
  <2>2. \A w \in W : mem[w].seg # mem[x].seg
    BY <1>1, <1>2, <2>1, WholeIsAlone
  <2>3. z[mem[x].seg] = size[mem[x].seg]
    BY <1>3, <2>1, <2>2
  <2>4. mem[x].next # NULL => mem[x].next \in Alive(mem) /\ mem[mem[x].next].prev = x
    BY <1>1, <2>1, LinkFacts DEF LinkedAt
  <2>5. mem[x].prev # NULL => mem[x].prev \in Alive(mem) /\ mem[mem[x].prev].next = x
    BY <1>1, <2>1, LinkFacts DEF LinkedAt
  <2> QED
    BY <1>2, <1>7, <2>1, <2>3, <2>4, <2>5
<1>10. GoodHeap(a, z)
  BY <1>1, <1>5, <1>7, <1>8, <1>9, SubHeapGood
<1>11. \A d \in Device, p \in Pool : \A k :
          k \in c[d][p] <=> k \in cache[d][p] /\ k[2] \notin W
  BY <1>3
<1>12. CacheType(c)
  BY <1>1, <1>3 DEF CacheType
<1>13. Entries(a, c)
  <2> SUFFICES ASSUME NEW d \in Device, NEW p \in Pool, NEW k \in c[d][p]
               PROVE  /\ k[2] \in Alive(a) /\ ~a[k[2]].locked /\ k = Key(a, k[2])
                      /\ a[k[2]].device_id = d /\ PoolOf(k[1]) = p
    BY DEF Entries
  <2>1. k \in cache[d][p] /\ k[2] \notin W
    BY <1>11
  <2>2. /\ k[2] \in Alive(mem) /\ ~mem[k[2]].locked /\ k = Key(mem, k[2])
        /\ mem[k[2]].device_id = d /\ PoolOf(k[1]) = p
    BY <1>1, <2>1 DEF Entries
  <2>3. k[2] \in Alive(a) /\ a[k[2]] = mem[k[2]]
    BY <1>7, <1>8, <2>1, <2>2
  <2>4. Key(a, k[2]) = Key(mem, k[2])
    BY <2>3 DEF Key
  <2> QED
    BY <2>2, <2>3, <2>4
<1>14. ASSUME NEW x \in Alive(a)
       PROVE  Filed(a, c, x)
  <2>1. x \in Alive(mem) /\ x \notin W /\ a[x] = mem[x] /\ Filed(mem, cache, x)
    BY <1>1, <1>8
  <2> QED
    BY <1>11, <2>1, PoolType DEF Filed, Key
<1>15. NoFreeNeighbours(a)
  BY <1>1, <1>8, <1>9 DEF NoFreeNeighbours
<1>16. OnePool(a, z)
  BY <1>1, <1>8, <1>9 DEF OnePool
<1>17. ASSUME NEW o \in Block
       PROVE  Kept(mem, size, a, z, o) /\ (a[o].locked => o \in Alive(a))
  <2>1. CASE o \in W
    BY <1>2, <1>4, <1>6, <2>1 DEF Kept
  <2>2. CASE o \notin W
    <3>1. a[o] = mem[o] /\ (mem[o].locked => o \in Alive(a))
      BY <1>1, <1>6, <1>7, <2>2 DEF HeldAlive
    <3>2. mem[o].locked => z[mem[o].seg] = size[mem[o].seg]
      BY <1>9, <3>1
    <3> QED
      BY <3>1, <3>2 DEF Kept
  <2> QED
    BY <2>1, <2>2
<1>18. HeldAlive(a)
  BY <1>17 DEF HeldAlive
<1> QED
  BY <1>7, <1>10, <1>12, <1>13, <1>14, <1>15, <1>16, <1>17, <1>18 DEF Good, W, a, c, z

-----------------------------------------------------------------------------
(* Freeing. *)

NextSettled(m, b) == m[b].next # NULL => m[m[b].next].locked

PrevSettled(m, b) == m[b].prev # NULL => m[m[b].prev].locked

\* What one try_merge and the try_erase_cache after it leave, b being the freed block.
Merged(m, c, z, b, from, a, e) ==
    /\ GoodBut(a, e, z, b) /\ NoFreeBut(a, b)
    /\ a[b].device_id = m[b].device_id
    /\ PoolOf(a[b].bytes) = PoolOf(m[b].bytes)
    /\ from = m[b].next => NextSettled(a, b)
    /\ from = m[b].prev => PrevSettled(a, b) /\ (NextSettled(m, b) => NextSettled(a, b))
    /\ \A o \in Block \ {b} : Kept(m, z, a, z, o) /\ a[o].bytes = m[o].bytes
    /\ \A o \in Block \ {b} : o # from => (Disabled(a, o) <=> Disabled(m, o))

\* One try_merge of free_impl, with the pool entry it erases, keeps all but b filed.
LEMMA MergeStep ==
    ASSUME NEW m, NEW c, NEW z, NEW b, GoodBut(m, c, z, b), NoFreeBut(m, b),
           NEW from, from = m[b].next \/ from = m[b].prev,
           NEW d, m[b].device_id = d, NEW p \in Pool, PoolOf(m[b].bytes) = p
    PROVE  LET a == TryMerge(m, b, from)
           IN  Merged(m, c, z, b, from, a, TryEraseCache(c, a, d, p, from))
<1> DEFINE a == TryMerge(m, b, from)
           e == TryEraseCache(c, a, d, p, from)
<1>1. /\ CacheType(c) /\ Entries(m, c) /\ GoodHeap(m, z) /\ OnePool(m, z) /\ HeldAlive(m)
      /\ Loose(m, c, b) /\ b \in Alive(m) /\ ~m[b].locked /\ d \in Device
  BY DEF GoodBut, Loose
<1>2. /\ b \in Block /\ m[b].bytes \in Nat
      /\ m[b].next \in Block \cup {NULL} /\ m[b].prev \in Block \cup {NULL}
      /\ m[b].next # NULL => m[b].next \in Alive(m) /\ m[b].next # b
      /\ m[b].prev # NULL => m[b].prev \in Alive(m) /\ m[b].prev # b
  BY <1>1, LinkFacts
<1>3. CASE from = NULL \/ m[from].locked
  <2>1. a = m
    BY <1>3 DEF TryMerge
  <2>2. from # NULL => ~Disabled(m, from)
    BY <1>2 DEF Alive
  <2>3. e = c
    BY <2>1, <2>2 DEF TryEraseCache
  <2> HIDE DEF a, e
  <2>4. Merged(m, c, z, b, from, m, c)
    BY <1>2, <1>3 DEF Merged, NextSettled, PrevSettled, Kept
  <2> QED
    BY <2>1, <2>3, <2>4 DEF a, e
<1>4. CASE from # NULL /\ ~m[from].locked
  <2>1. /\ GoodHeap(a, z)
        /\ Alive(a) = Alive(m) \ {from} /\ from \in Alive(m) /\ from # b
        /\ m[from].seg = m[b].seg /\ m[from].device_id = m[b].device_id
        /\ a[b].seg = m[b].seg
        /\ a[b].bytes >= m[b].bytes
        /\ \A x \in Block : a[x].locked = m[x].locked /\ a[x].device_id = m[x].device_id
        /\ \A x \in Block \ {b} : a[x].bytes = m[x].bytes /\ a[x].off = m[x].off
        /\ \A x \in Block \ {b, from} : a[x].seg = m[x].seg
        /\ \A x \in Alive(a) \ {b} :
              a[x].next = IF m[x].next = from THEN b ELSE m[x].next
        /\ from = m[b].next => a[b].next = m[from].next /\ a[b].prev = m[b].prev
        /\ from = m[b].prev => a[b].next = m[b].next /\ a[b].prev = m[from].prev
    BY <1>1, <1>4, MergeFacts
  <2> HIDE DEF a
  <2>2. /\ from \in Block /\ b \in Alive(a) /\ Disabled(a, from)
        /\ Filed(m, c, from) /\ PoolOf(m[from].bytes) = p
        /\ m[b].bytes \in Nat /\ PoolOf(z[m[b].seg]) = p
    <3>1. from \in Block /\ b \in Alive(a) /\ Disabled(a, from)
      BY <1>1, <1>2, <2>1 DEF Alive
    <3>2. Filed(m, c, from)
      BY <1>1, <2>1 DEF Loose
    <3>3. PoolOf(m[from].bytes) = p /\ PoolOf(z[m[b].seg]) = p
      BY <1>1, <2>1 DEF OnePool
    <3> QED
      BY <1>2, <3>1, <3>2, <3>3
  <2>3. \A x \in Alive(m) : x \in Block /\ (m[x].next # NULL => m[x].next \in Alive(m))
    BY <1>1, LinkFacts
  <2>4. Key(a, from) = Key(m, from) /\ Key(m, from) \in c[d][p]
    BY <1>1, <1>4, <2>1, <2>2 DEF Key, Filed
  <2>5. e = Erase(c, d, p, Key(m, from))
    BY <1>4, <2>2, <2>4 DEF TryEraseCache
  <2>6. /\ CacheType(e)
        /\ \A f \in Device, q \in Pool : \A j :
              j \in e[f][q] <=> j \in c[f][q] /\ ~(f = d /\ q = p /\ j = Key(m, from))
    BY <1>1, <2>5, EraseValue
  <2> HIDE DEF e
  <2>7. Entries(a, e)
    <3> SUFFICES ASSUME NEW f \in Device, NEW q \in Pool, NEW k \in e[f][q]
                 PROVE  /\ k[2] \in Alive(a) /\ ~a[k[2]].locked /\ k = Key(a, k[2])
                        /\ a[k[2]].device_id = f /\ PoolOf(k[1]) = q
      BY DEF Entries
    <3>1. k \in c[f][q] /\ ~(f = d /\ q = p /\ k = Key(m, from))
      BY <2>6
    <3>2. /\ k[2] \in Alive(m) /\ ~m[k[2]].locked /\ k = Key(m, k[2])
          /\ m[k[2]].device_id = f /\ PoolOf(k[1]) = q /\ k[2] # b
      BY <1>1, <3>1 DEF Entries, Loose
    <3>3. k[1] = m[k[2]].bytes
      BY <3>2 DEF Key
    <3>4. k[2] # from
      BY <1>1, <2>1, <2>2, <3>1, <3>2, <3>3
    <3>5. k[2] \in Block /\ a[k[2]].bytes = m[k[2]].bytes
      BY <2>1, <2>3, <3>2
    <3>6. Key(a, k[2]) = Key(m, k[2])
      BY <3>5 DEF Key
    <3> QED
      BY <2>1, <3>2, <3>4, <3>5, <3>6
  <2>8. Loose(a, e, b)
    <3>1. ASSUME NEW x \in Alive(a) \ {b}
          PROVE  Filed(a, e, x)
      <4>1. x \in Alive(m) /\ x # from /\ x \in Block /\ Filed(m, c, x)
        BY <1>1, <2>1, <2>3, <3>1 DEF Loose
      <4>2. a[x].bytes = m[x].bytes /\ a[x].locked = m[x].locked
            /\ a[x].device_id = m[x].device_id
        BY <2>1, <3>1, <4>1
      <4>3. Key(a, x) = Key(m, x) /\ Key(m, x) # Key(m, from)
        BY <4>1, <4>2 DEF Key
      <4> QED
        BY <2>6, <4>1, <4>2, <4>3, PoolType DEF Filed
    <3>2. \A f \in Device, q \in Pool : \A k \in e[f][q] : k[2] # b
      BY <1>1, <2>6 DEF Loose
    <3> QED
      BY <1>1, <1>2, <2>1, <2>2, <3>1, <3>2 DEF Loose
  <2>9. PoolOf(a[b].bytes) = p /\ OnePool(a, z)
    <3>1. /\ a[b].bytes \in Nat /\ a[b].off \in Nat /\ z[m[b].seg] \in Nat
          /\ a[b].bytes <= z[m[b].seg]
      <4>1. /\ a[b].bytes \in Nat /\ a[b].off \in Nat /\ LinkedAt(a, z, b)
            /\ a[b].seg \in Segment
        BY <2>1, <2>2, LinkFacts
      <4>2. z[m[b].seg] \in Nat
        BY <2>1, <4>1 DEF GoodHeap
      <4>3. a[b].off + a[b].bytes <= z[m[b].seg]
        BY <2>1, <4>1 DEF LinkedAt, End
      <4> QED
        BY <4>1, <4>2, <4>3
    <3>2. PoolOf(a[b].bytes) = p
      BY <2>1, <2>2, <3>1, SizeAssumption DEF PoolOf
    <3>3. ASSUME NEW x \in Alive(a)
          PROVE  PoolOf(a[x].bytes) = PoolOf(z[a[x].seg])
      <4>1. CASE x = b
        BY <2>1, <2>2, <3>2, <4>1
      <4>2. CASE x # b
        <5>1. x \in Alive(m) /\ x \in Block /\ x # from
          BY <2>1, <2>3, <3>3
        <5>2. a[x].bytes = m[x].bytes /\ a[x].seg = m[x].seg
          BY <2>1, <4>2, <5>1
        <5> QED
          BY <1>1, <5>1, <5>2 DEF OnePool
      <4> QED
        BY <4>1, <4>2
    <3> QED
      BY <3>2, <3>3 DEF OnePool
  <2>10. HeldAlive(a)
    BY <1>1, <1>4, <2>1 DEF HeldAlive
  <2>11. NoFreeBut(a, b)
    <3> SUFFICES ASSUME NEW x \in Alive(a), x # b, a[x].next # NULL, a[x].next # b
                 PROVE  a[x].locked \/ a[a[x].next].locked
      BY DEF NoFreeBut
    <3>1. x \in Alive(m) /\ x \in Block /\ a[x].next = m[x].next
      BY <2>1, <2>3
    <3>2. m[x].next \in Block
      BY <2>3, <3>1
    <3> QED
      BY <2>1, <3>1, <3>2 DEF NoFreeBut
  <2>12. ASSUME from = m[b].next
         PROVE  NextSettled(a, b)
    <3> SUFFICES ASSUME a[b].next # NULL PROVE a[a[b].next].locked
      BY DEF NextSettled
    <3>1. a[b].next = m[from].next
      BY <2>1, <2>12
    <3>2. a[b].next # b
      BY <2>1, <2>2, LinkFacts
    <3>3. m[m[from].next].locked /\ m[from].next \in Block
      BY <1>4, <2>1, <2>3, <3>1, <3>2 DEF NoFreeBut
    <3> QED
      BY <2>1, <3>1, <3>3
  <2>13. ASSUME from = m[b].prev
         PROVE  PrevSettled(a, b) /\ (NextSettled(m, b) => NextSettled(a, b))
    <3>1. a[b].prev = m[from].prev /\ a[b].next = m[b].next
      BY <2>1, <2>13
    <3>2. ASSUME m[from].prev # NULL
          PROVE  a[m[from].prev].locked
      <4> DEFINE x == m[from].prev
      <4>1. x \in Alive(m) /\ m[x].next = from /\ x \in Block
        BY <1>1, <2>1, <2>3, <3>2, LinkFacts DEF LinkedAt
      <4>2. x # b
        BY <1>1, <2>2, <2>1, <2>13, <3>1, <3>2, LinkFacts
      <4> HIDE DEF x
      <4>3. m[x].locked
        BY <1>4, <2>1, <4>1, <4>2 DEF NoFreeBut
      <4>4. a[x].locked
        BY <2>1, <4>1, <4>3
      <4> QED
        BY <4>4 DEF x
    <3>3. NextSettled(m, b) => NextSettled(a, b)
      BY <1>2, <2>1, <3>1 DEF NextSettled
    <3> QED
      BY <3>1, <3>2, <3>3 DEF PrevSettled
  <2>14. ASSUME NEW o \in Block \ {b}
         PROVE  /\ Kept(m, z, a, z, o) /\ a[o].bytes = m[o].bytes
                /\ o # from => (Disabled(a, o) <=> Disabled(m, o))
    BY <1>4, <2>1, <2>14 DEF Kept, Disabled
  <2>15. GoodBut(a, e, z, b)
    BY <2>1, <2>6, <2>7, <2>8, <2>9, <2>10 DEF GoodBut
  <2>16. a[b].device_id = m[b].device_id /\ PoolOf(a[b].bytes) = PoolOf(m[b].bytes)
    BY <1>2, <2>1, <2>9
  <2>17. Merged(m, c, z, b, from, a, e)
    BY <2>11, <2>12, <2>13, <2>14, <2>15, <2>16 DEF Merged
  <2> QED
    BY <2>17 DEF a, e
<1> QED
  BY <1>3, <1>4

\* Releasing a block leaves it the only block that is free and in no pool.
LEMMA UnlockGood ==
    ASSUME NEW m, NEW c, NEW z, Good(m, c, z), NEW b \in Block, m[b].locked
    PROVE  LET a == SetLock(m, b, FALSE) IN
           /\ GoodBut(a, c, z, b) /\ NoFreeBut(a, b)
           /\ a[b].bytes = m[b].bytes /\ a[b].device_id = m[b].device_id
           /\ \A o \in Block \ {b} : a[o] = m[o]
<1> DEFINE a == SetLock(m, b, FALSE)
<1>1. /\ CacheType(c) /\ Entries(m, c) /\ GoodHeap(m, z) /\ OnePool(m, z) /\ HeldAlive(m)
      /\ NoFreeNeighbours(m) /\ \A x \in Alive(m) : Filed(m, c, x)
      /\ m \in [Block -> Memory] /\ b \in Alive(m)
  BY DEF Good, GoodHeap, HeldAlive
<1>2. GoodHeap(a, z) /\ Alive(a) = Alive(m)
  BY <1>1, SetLockGood
<1>3. Marked(m, b, FALSE, a)
  BY <1>1, SetLockFields
<1> HIDE DEF a
<1>4. /\ a[b].locked = FALSE
      /\ \A x \in Block \ {b} : a[x] = m[x]
      /\ \A x \in Block :
            /\ a[x].bytes = m[x].bytes /\ a[x].seg = m[x].seg /\ a[x].next = m[x].next
            /\ a[x].device_id = m[x].device_id
  BY <1>3 DEF Marked
<1>5. \A x \in Alive(m) : x \in Block /\ (m[x].next # NULL => m[x].next \in Block)
  BY <1>1, LinkFacts
<1>6. ASSUME NEW d \in Device, NEW p \in Pool, NEW k \in c[d][p]
      PROVE  /\ k[2] \in Alive(m) /\ ~m[k[2]].locked /\ k = Key(m, k[2])
             /\ m[k[2]].device_id = d /\ PoolOf(k[1]) = p /\ k[2] # b
             /\ a[k[2]] = m[k[2]] /\ Key(a, k[2]) = Key(m, k[2])
  <2>1. /\ k[2] \in Alive(m) /\ ~m[k[2]].locked /\ k = Key(m, k[2])
        /\ m[k[2]].device_id = d /\ PoolOf(k[1]) = p
    BY <1>1, <1>6 DEF Entries
  <2>2. k[2] # b
    BY <2>1
  <2> QED
    BY <1>4, <1>5, <2>1, <2>2 DEF Key
<1>7. Entries(a, c)
  BY <1>2, <1>6 DEF Entries
<1>8. Loose(a, c, b)
  <2>1. a[b].device_id \in Device
    BY <1>1, <1>4 DEF Filed
  <2>2. \A x \in Alive(a) \ {b} : Filed(a, c, x)
    BY <1>1, <1>2, <1>4, <1>5 DEF Filed, Key
  <2> QED
    BY <1>1, <1>2, <1>4, <1>6, <2>1, <2>2 DEF Loose
<1>9. OnePool(a, z)
  BY <1>1, <1>2, <1>4, <1>5 DEF OnePool
<1>10. HeldAlive(a)
  BY <1>1, <1>2, <1>4 DEF HeldAlive
<1>11. NoFreeBut(a, b)
  BY <1>1, <1>2, <1>4, <1>5 DEF NoFreeBut, NoFreeNeighbours
<1> QED
  BY <1>1, <1>2, <1>4, <1>7, <1>8, <1>9, <1>10, <1>11 DEF GoodBut, a

\* Filing the merged block and dropping the objects it swallowed.
LEMMA FileGood ==
    ASSUME NEW m, NEW c, NEW z, NEW b, GoodBut(m, c, z, b), NoFreeBut(m, b),
           NextSettled(m, b), PrevSettled(m, b),
           NEW d, m[b].device_id = d, NEW p \in Pool, PoolOf(m[b].bytes) = p
    PROVE  LET e == Insert(c, d, p, Key(m, b))
               a == Collect(m, e)
           IN  /\ Good(a, e, z)
               /\ ~a[b].locked
               /\ \A o \in Block \ {b} : Kept(m, z, a, z, o)
<1> DEFINE e == Insert(c, d, p, Key(m, b))
           a == Collect(m, e)
<1>1. /\ CacheType(c) /\ Entries(m, c) /\ GoodHeap(m, z) /\ OnePool(m, z) /\ HeldAlive(m)
      /\ Loose(m, c, b) /\ b \in Alive(m) /\ ~m[b].locked /\ d \in Device
      /\ m \in [Block -> Memory] /\ z \in [Segment -> Nat]
  BY DEF GoodBut, Loose, GoodHeap
<1>2. b \in Block /\ m[b].bytes \in Nat /\ Key(m, b) \in Nat \X Block
      /\ Key(m, b) = <<m[b].bytes, b>>
  BY <1>1, LinkFacts DEF Key
<1>3. /\ CacheType(e)
      /\ \A f \in Device, q \in Pool : \A j :
            j \in e[f][q] <=> j \in c[f][q] \/ (f = d /\ q = p /\ j = Key(m, b))
  <2> DEFINE k == Key(m, b)
  <2>1. k \in Nat \X Block /\ d \in Device /\ CacheType(c)
    BY ONLY <1>1, <1>2
  <2> HIDE DEF k
  <2>2. /\ CacheType(Insert(c, d, p, k))
        /\ \A f \in Device, q \in Pool : \A j :
              j \in Insert(c, d, p, k)[f][q] <=> j \in c[f][q] \/ (f = d /\ q = p /\ j = k)
    BY ONLY <2>1, p \in Pool, InsertValue
  <2> QED
    BY ONLY <2>2 DEF e, k
<1> HIDE DEF e
<1>4. Unborn \in Memory /\ Unborn.seg = NULL /\ ~Unborn.locked
  BY DEF Unborn, Memory
<1>5. \A x \in Block : a[x] = m[x] \/ (a[x] = Unborn /\ x \notin Alive(m))
  BY DEF Collect, Alive
<1>6. \A x \in Alive(m) : x \in Block /\ a[x] = m[x]
  BY DEF Collect, Alive
<1>7. a \in [Block -> Memory]
  BY <1>1, <1>4 DEF Collect
<1> HIDE DEF a
<1>8. Alive(a) = Alive(m)
  BY <1>4, <1>5, <1>6 DEF Alive, Disabled
<1>9. GoodHeap(a, z)
  <2>1. \A x \in Alive(m) : /\ m[x].next # NULL => m[x].next \in Alive(m)
                            /\ m[x].prev # NULL => m[x].prev \in Alive(m)
    BY <1>1, LinkFacts
  <2> QED
    BY <1>1, <1>6, <1>7, <1>8, <2>1, SubHeapGood
<1>10. \A x \in Alive(m) : Key(a, x) = Key(m, x)
  BY <1>6 DEF Key
<1>11. Entries(a, e)
  <2> SUFFICES ASSUME NEW f \in Device, NEW q \in Pool, NEW k \in e[f][q]
               PROVE  /\ k[2] \in Alive(a) /\ ~a[k[2]].locked /\ k = Key(a, k[2])
                      /\ a[k[2]].device_id = f /\ PoolOf(k[1]) = q
    BY DEF Entries
  <2>1. CASE k \in c[f][q]
    BY <1>1, <1>6, <1>8, <1>10, <2>1 DEF Entries
  <2>2. CASE k = Key(m, b) /\ f = d /\ q = p
    <3>1. k[2] = b /\ k[1] = m[b].bytes
      BY <1>2, <2>2
    <3> QED
      BY <1>1, <1>6, <1>8, <1>10, <2>2, <3>1
  <2> QED
    BY <1>3, <2>1, <2>2
<1>12. ASSUME NEW x \in Alive(a)
       PROVE  Filed(a, e, x)
  <2>1. CASE x = b
    <3>1. Key(m, b) \in e[d][p]
      BY <1>1, <1>3
    <3> QED
      BY <1>1, <1>6, <1>10, <2>1, <3>1 DEF Filed
  <2>2. CASE x # b
    <3>1. Filed(m, c, x) /\ a[x] = m[x]
      BY <1>1, <1>6, <1>8, <2>2 DEF Loose
    <3> QED
      BY <1>3, <3>1, PoolType DEF Filed, Key
  <2> QED
    BY <2>1, <2>2
<1>13. NoFreeNeighbours(a)
  <2> SUFFICES ASSUME NEW x \in Alive(m), m[x].next # NULL
               PROVE  m[x].locked \/ m[m[x].next].locked
    <3>1. \A x \in Alive(m) : m[x].next # NULL => m[x].next \in Alive(m)
      BY <1>1, LinkFacts
    <3> QED
      BY <1>6, <1>8, <3>1 DEF NoFreeNeighbours
  <2>1. CASE x = b
    BY <2>1 DEF NextSettled
  <2>2. CASE m[x].next = b
    <3>1. m[b].prev = x /\ x # NULL
      BY <1>1, <2>2, LinkFacts, NullAssumption DEF LinkedAt
    <3> QED
      BY <3>1 DEF PrevSettled
  <2>3. CASE x # b /\ m[x].next # b
    BY <2>3 DEF NoFreeBut
  <2> QED
    BY <2>1, <2>2, <2>3
<1>14. OnePool(a, z)
  BY <1>1, <1>6, <1>8 DEF OnePool
<1>15. HeldAlive(a)
  BY <1>1, <1>4, <1>5, <1>8 DEF HeldAlive
<1>16. ASSUME NEW o \in Block \ {b}
       PROVE  Kept(m, z, a, z, o)
  <2>1. CASE a[o] = m[o]
    BY <2>1 DEF Kept
  <2>2. CASE a[o] = Unborn /\ o \notin Alive(m)
    BY <1>1, <1>4, <2>2 DEF Kept, HeldAlive
  <2> QED
    BY <1>5, <2>1, <2>2
<1>17. ~a[b].locked
  BY <1>1, <1>6
<1> QED
  BY <1>3, <1>9, <1>11, <1>12, <1>13, <1>14, <1>15, <1>16, <1>17 DEF Good, e, a

\* free_impl as a whole: merged both ways and filed, the heap is good again.
LEMMA FreeGood ==
    ASSUME Good(mem, cache, size), NEW b \in Block, Free(b)
    PROVE  /\ Good(mem', cache', size)
           /\ ~mem'[b].locked
           /\ mem[b].device_id \in Device
           /\ \A o \in Block \ {b} : Kept(mem, size, mem', size, o)
<1> DEFINE d    == mem[b].device_id
           pool == PoolOf(mem[b].bytes)
           open == SetLock(mem, b, FALSE)
           n    == open[b].next
           m1   == TryMerge(open, b, n)
           p    == m1[b].prev
           m2   == TryMerge(m1, b, p)
           e1   == TryEraseCache(cache, m1, d, pool, n)
           c1   == TryEraseCache(cache, m2, d, pool, n)
           c2   == TryEraseCache(c1, m2, d, pool, p)
<1>1. /\ mem[b].locked
      /\ cache' = Insert(c2, d, pool, Key(m2, b))
      /\ mem' = Collect(m2, cache')
  BY DEF Free
<1>2. pool \in Pool
  BY PoolType
<1>3. /\ GoodBut(open, cache, size, b) /\ NoFreeBut(open, b)
      /\ open[b].device_id = d /\ PoolOf(open[b].bytes) = pool
      /\ \A o \in Block \ {b} : open[o] = mem[o]
  BY <1>1, UnlockGood
<1> HIDE DEF d, pool, open
<1>4. Merged(open, cache, size, b, n, m1, e1)
  BY <1>2, <1>3, MergeStep
<1> HIDE DEF n, m1, e1
<1>5. /\ GoodBut(m1, e1, size, b) /\ NoFreeBut(m1, b)
      /\ m1[b].device_id = d /\ PoolOf(m1[b].bytes) = pool
      /\ NextSettled(m1, b)
  BY <1>3, <1>4 DEF Merged, n
<1> DEFINE f2 == TryEraseCache(e1, m2, d, pool, p)
<1>6. Merged(m1, e1, size, b, p, m2, f2)
  BY <1>2, <1>5, MergeStep
<1> HIDE DEF m2, p
<1>7. /\ GoodBut(m2, f2, size, b) /\ NoFreeBut(m2, b)
      /\ m2[b].device_id = d /\ PoolOf(m2[b].bytes) = pool
      /\ NextSettled(m2, b) /\ PrevSettled(m2, b)
  BY <1>5, <1>6 DEF Merged, p
\* The code looks at the next block only after both merges.
<1>8. c1 = e1
  <2>1. CASE n = NULL
    BY <2>1 DEF TryEraseCache, e1
  <2>2. CASE n # NULL
    <3>1. n \in Block /\ n # b /\ n # open[b].prev
      BY <1>3, <2>2, LinkFacts DEF GoodBut, Loose, n, Alive
    <3>2. n # p
      <4>1. CASE open[n].locked
        BY <3>1, <4>1 DEF TryMerge, m1, p
      <4>2. CASE ~open[n].locked
        <5>1. n \notin Alive(m1)
          BY <1>3, <2>2, <4>2, MergeFacts DEF m1, n, GoodBut, Loose
        <5>2. p # NULL => p \in Alive(m1)
          BY <1>5, LinkFacts DEF p, GoodBut, Loose
        <5> QED
          BY <2>2, <5>1, <5>2
      <4> QED
        BY <4>1, <4>2
    <3>3. (Disabled(m2, n) <=> Disabled(m1, n)) /\ Key(m2, n) = Key(m1, n)
      BY <1>6, <3>1, <3>2 DEF Merged, Key
    <3> QED
      BY <3>3 DEF TryEraseCache, e1
  <2> QED
    BY <2>1, <2>2
<1>9. c2 = f2
  BY <1>8
<1> HIDE DEF c1, c2, f2
<1>10. /\ Good(mem', cache', size) /\ ~mem'[b].locked
       /\ \A o \in Block \ {b} : Kept(m2, size, mem', size, o)
  <2> DEFINE e == Insert(f2, d, pool, Key(m2, b))
             a == Collect(m2, e)
  <2>1. /\ Good(a, e, size) /\ ~a[b].locked
        /\ \A o \in Block \ {b} : Kept(m2, size, a, size, o)
    BY <1>2, <1>7, FileGood
  <2>2. cache' = e /\ mem' = a
    BY <1>1, <1>9
  <2> HIDE DEF e, a
  <2> QED
    BY <2>1, <2>2
<1>11. ASSUME NEW o \in Block \ {b}
       PROVE  Kept(mem, size, mem', size, o)
  <2>1. open[o] = mem[o] /\ Kept(open, size, m1, size, o) /\ Kept(m1, size, m2, size, o)
    BY <1>3, <1>4, <1>6 DEF Merged
  <2>2. Kept(mem, size, m1, size, o)
    BY <2>1 DEF Kept
  <2>3. Kept(mem, size, m2, size, o)
    BY <2>1, <2>2 DEF Kept
  <2> QED
    BY <1>10, <2>3 DEF Kept
<1>12. d \in Device
  BY <1>3 DEF GoodBut, Loose
<1> QED
  BY <1>10, <1>11, <1>12 DEF d

-----------------------------------------------------------------------------
(* The actions. *)

\* Being left alone is transitive.
LEMMA KeptTwice ==
    ASSUME NEW m, NEW z, NEW a, NEW y, NEW f, NEW x, NEW o,
           Kept(m, z, a, y, o), Kept(a, y, f, x, o)
    PROVE  Kept(m, z, f, x, o)
  BY DEF Kept

\* A new allocation from a heap m whose pools have no block large enough.
LEMMA AllocFresh ==
    ASSUME NEW m, NEW c, NEW z, Good(m, c, z), CounterType(counter),
           NEW d \in Device, NEW n \in Nat, NEW b \in Fresh(m), NEW s \in Segment,
           z[s] = 0, NEW y \in [Segment -> Nat], y[s] = NewBytes(Need(n)),
           \A t \in Segment : t # s => y[t] = z[t],
           Carve(Construct(m, b, s, NewBytes(Need(n)), d), c, d, b, n)
    PROVE  ~m[b].locked /\ HandedOut(m, z, y, b, n)
<1> DEFINE w == NewBytes(Need(n))
           a == Construct(m, b, s, w, d)
<1>1. w \in Nat /\ w >= Need(n) /\ w > 0 /\ PoolOf(w) = PoolOf(Need(n))
  BY NewBytesFit
<1>2. Carve(a, c, d, b, n) /\ y[s] = w
  OBVIOUS
<1> HIDE DEF w
<1>3. /\ GoodBut(a, c, y, b) /\ a[b] = Piece(w, s, 0, d) /\ NoFreeNeighbours(a)
      /\ ~m[b].locked
      /\ \A o \in Block : Kept(m, z, a, y, o)
  BY <1>1, <1>2, NewBlock
<1> HIDE DEF a
<1>4. a[b].bytes = w /\ a[b].device_id = d
  BY <1>3 DEF Piece
<1>5. HandedOut(a, y, y, b, n)
  BY <1>1, <1>2, <1>3, <1>4, CarveGood
<1>6. \A o \in Block \ {b} : Kept(m, z, mem', y, o)
  BY <1>3, <1>5 DEF HandedOut, Kept
<1> QED
  BY <1>3, <1>5, <1>6 DEF HandedOut

\* Each way alloc_impl can end hands out a block that was not in use.
LEMMA AllocStep ==
    ASSUME Inv, NEW d \in Device, NEW n \in Request,
           AllocCached(d, n) \/ AllocNew(d, n) \/ AllocRetried(d, n)
    PROVE  \E b \in Block : ~mem[b].locked /\ HandedOut(mem, size, size', b, n)
<1>1. /\ Good(mem, cache, size) /\ CounterType(counter) /\ n \in Nat
      /\ size \in [Segment -> Nat] /\ NoFreeNeighbours(mem)
  BY SizeAssumption DEF Inv, CounterType, Good, GoodHeap
<1>2. CASE AllocCached(d, n)
  <2>1. PICK k \in LowerBound(cache[d][PoolOf(Need(n))], Need(n)) :
          /\ Carve(mem, Erase(cache, d, PoolOf(Need(n)), k), d, k[2], n)
          /\ size' = size
    BY <1>2 DEF AllocCached, Candidates
  <2> DEFINE p == PoolOf(Need(n))
             e == Erase(cache, d, p, k)
             b == k[2]
  <2>2. p \in Pool /\ Need(n) \in Nat
    BY <1>1, PoolType, NeedBound
  <2>3. k \in LowerBound(cache[d][p], Need(n)) /\ Carve(mem, e, d, b, n)
    BY <2>1
  <2>4. p = PoolOf(Need(n))
    OBVIOUS
  <2> HIDE DEF p
  <2>5. /\ GoodBut(mem, e, size, b) /\ mem[b].device_id = d
        /\ mem[b].bytes >= Need(n) /\ PoolOf(mem[b].bytes) = p
    BY <1>1, <2>2, <2>3, TakeCached
  <2> HIDE DEF e, b
  <2>6. HandedOut(mem, size, size, b, n)
    BY <1>1, <2>3, <2>4, <2>5, CarveGood
  <2>7. b \in Block /\ ~mem[b].locked
    BY <2>5 DEF GoodBut, Loose, Alive
  <2> QED
    BY <2>1, <2>6, <2>7
<1>3. CASE AllocNew(d, n)
  <2>1. PICK b \in Fresh(mem), s \in Segment :
          /\ size[s] = 0
          /\ size' = [size EXCEPT ![s] = NewBytes(Need(n))]
          /\ Carve(Construct(mem, b, s, NewBytes(Need(n)), d), cache, d, b, n)
    BY <1>3 DEF AllocNew
  <2>2. /\ size' \in [Segment -> Nat] /\ size'[s] = NewBytes(Need(n))
        /\ \A t \in Segment : t # s => size'[t] = size[t]
    BY <1>1, <2>1, NewBytesFit
  <2>3. size[s] = 0 /\ Carve(Construct(mem, b, s, NewBytes(Need(n)), d), cache, d, b, n)
    BY <2>1
  <2>4. ~mem[b].locked /\ HandedOut(mem, size, size', b, n)
    BY ONLY <1>1, <2>2, <2>3, AllocFresh, b \in Fresh(mem), s \in Segment, d \in Device
  <2>5. b \in Block
    BY DEF Fresh
  <2> QED
    BY <2>4, <2>5
<1>4. CASE AllocRetried(d, n)
  <2> DEFINE m == TrimMem({d})
             c == TrimCache({d})
             z == TrimSize({d})
  <2>1. PICK b \in Fresh(mem), s \in Segment :
          /\ z[s] = 0
          /\ size' = [t \in Segment |-> IF t = s THEN NewBytes(Need(n)) ELSE z[t]]
          /\ Carve(Construct(m, b, s, NewBytes(Need(n)), d), c, d, b, n)
    BY <1>4 DEF AllocRetried
  <2>2. /\ Good(m, c, z) /\ \A o \in Block : Kept(mem, size, m, z, o)
    BY <1>1, TrimGood
  <2>3. b \in Fresh(m) /\ b \in Block /\ ~mem[b].locked
    BY DEF Fresh, TrimMem, Unborn
  <2> HIDE DEF m, c, z
  <2>4. z \in [Segment -> Nat]
    BY <2>2 DEF Good, GoodHeap
  <2>5. /\ size' \in [Segment -> Nat] /\ size'[s] = NewBytes(Need(n))
        /\ \A t \in Segment : t # s => size'[t] = z[t]
    BY <1>1, <2>1, <2>4, NewBytesFit
  <2>6. z[s] = 0 /\ Carve(Construct(m, b, s, NewBytes(Need(n)), d), c, d, b, n)
    BY <2>1
  <2>7. HandedOut(m, z, size', b, n)
    BY ONLY <1>1, <2>2, <2>3, <2>5, <2>6, AllocFresh, s \in Segment, d \in Device
  <2>8. \A o \in Block \ {b} : Kept(mem, size, mem', size', o)
    BY <2>2, <2>7 DEF HandedOut, Kept
  <2>9. HandedOut(mem, size, size', b, n)
    BY <2>7, <2>8 DEF HandedOut
  <2> QED
    BY <2>3, <2>9
<1> QED
  BY <1>2, <1>3, <1>4

\* A new allocator owns nothing.
LEMMA InvInit == Init => Inv
<1> SUFFICES ASSUME Init PROVE Inv
  OBVIOUS
<1>1. \A b \in Block : mem[b].seg = NULL /\ ~mem[b].locked /\ mem[b] \in Memory
  BY DEF Init, Unborn, Memory
<1>2. Alive(mem) = {}
  BY <1>1 DEF Alive, Disabled
<1>3. \A d \in Device, p \in Pool : cache[d][p] = {}
  BY DEF Init
<1>4. GoodHeap(mem, size)
  BY <1>1, <1>2 DEF GoodHeap, Linked, NoOverlap, Init
<1>5. CacheType(cache)
  BY DEF CacheType, Init
<1>6. Entries(mem, cache)
  BY <1>3 DEF Entries
<1>7. Good(mem, cache, size)
  BY <1>1, <1>2, <1>4, <1>5, <1>6 DEF Good, NoFreeNeighbours, OnePool, HeldAlive
<1>8. Served(mem, asked)
  BY <1>1 DEF Served
<1> QED
  BY <1>7, <1>8 DEF Inv, Init

\* Handing a block out keeps the invariant: the counter and the request follow the block.
LEMMA InvHandedOut ==
    ASSUME Inv, NEW b \in Block, NEW n \in Nat, HandedOut(mem, size, size', b, n)
    PROVE  Inv'
<1>1. /\ Good(mem', cache', size') /\ CounterType(counter')
      /\ asked' = [asked EXCEPT ![b] = n] /\ mem'[b].bytes >= n
      /\ \A o \in Block \ {b} : Kept(mem, size, mem', size', o)
  BY DEF HandedOut
<1>2. asked' \in [Block -> Nat] /\ asked'[b] = n /\ \A o \in Block \ {b} : asked'[o] = asked[o]
  BY <1>1 DEF Inv
<1>3. Served(mem', asked')
  BY <1>1, <1>2 DEF Served, Kept, Inv
<1>4. counter' \in [Pool -> [Device -> Int]]
  BY <1>1 DEF CounterType
<1> QED
  BY <1>1, <1>2, <1>3, <1>4 DEF Inv

\* What AllocFailed and FreeUnusedCaches do to everything but `used`.
Trimmed(D) ==
    /\ mem' = TrimMem(D) /\ cache' = TrimCache(D) /\ size' = TrimSize(D)
    /\ counter' = counter /\ asked' = asked

\* Freeing unused caches keeps the invariant and every block in use.
LEMMA InvTrimmed ==
    ASSUME Inv, NEW D, D \subseteq Device, Trimmed(D)
    PROVE  Inv' /\ \A o \in Block : Kept(mem, size, mem', size', o)
<1>1. /\ Good(TrimMem(D), TrimCache(D), TrimSize(D))
      /\ \A o \in Block : Kept(mem, size, TrimMem(D), TrimSize(D), o)
  BY TrimGood DEF Inv
<1>2. /\ Good(mem', cache', size')
      /\ \A o \in Block : Kept(mem, size, mem', size', o)
  BY <1>1 DEF Trimmed
<1>3. asked' = asked /\ counter' = counter
  BY DEF Trimmed
<1>4. Served(mem', asked')
  BY <1>2, <1>3 DEF Served, Kept, Inv
<1> QED
  BY <1>2, <1>3, <1>4 DEF Inv

\* Freeing a block keeps the invariant and every other block in use.
LEMMA InvFree ==
    ASSUME Inv, NEW b \in Block, Free(b)
    PROVE  /\ Inv' /\ ~mem'[b].locked /\ size' = size
           /\ \A o \in Block \ {b} : Kept(mem, size, mem', size', o) /\ asked'[o] = asked[o]
<1>1. /\ Good(mem', cache', size) /\ ~mem'[b].locked /\ mem[b].device_id \in Device
      /\ \A o \in Block \ {b} : Kept(mem, size, mem', size, o)
  BY FreeGood DEF Inv
<1>2. /\ size' = size
      /\ counter' = [counter EXCEPT ![PoolOf(mem[b].bytes)][mem[b].device_id] = @ - 1]
      /\ asked' = [asked EXCEPT ![b] = 0]
  BY DEF Free
<1>3. asked' \in [Block -> Nat] /\ \A o \in Block \ {b} : asked'[o] = asked[o]
  BY <1>2 DEF Inv
<1>4. counter' \in [Pool -> [Device -> Int]]
  BY <1>1, <1>2, PoolType, CounterStep DEF CounterType, Inv
<1>5. Served(mem', asked')
  BY <1>1, <1>3 DEF Served, Kept, Inv
<1> QED
  BY <1>1, <1>2, <1>3, <1>4, <1>5 DEF Inv

\* Every call keeps the invariant.
LEMMA InvNext == Inv /\ [Next]_vars => Inv'
<1> SUFFICES ASSUME Inv, [Next]_vars PROVE Inv'
  OBVIOUS
<1>1. ASSUME NEW d \in Device, NEW n \in Request,
             AllocCached(d, n) \/ AllocNew(d, n) \/ AllocRetried(d, n)
      PROVE  Inv'
  BY <1>1, AllocStep, InvHandedOut, SizeAssumption
<1>2. ASSUME NEW d \in Device, NEW n \in Request, AllocFailed(d, n)
      PROVE  Inv'
  <2>1. Trimmed({d}) /\ {d} \subseteq Device
    BY <1>2 DEF AllocFailed, Trimmed
  <2> QED
    BY <2>1, InvTrimmed
<1>3. ASSUME NEW b \in Block, Free(b)
      PROVE  Inv'
  BY <1>3, InvFree
<1>4. ASSUME NEW D, D \subseteq Device, FreeUnusedCaches(D)
      PROVE  Inv'
  <2>1. Trimmed(D)
    BY <1>4 DEF FreeUnusedCaches, Trimmed
  <2> QED
    BY <1>4, <2>1, InvTrimmed
<1>5. CASE UNCHANGED vars
  BY <1>5 DEF vars, Inv
<1> QED
  BY <1>1, <1>2, <1>3, <1>4, <1>5 DEF Next, Alloc

\* So it always holds.
LEMMA InvAlways == Spec => []Inv
<1> QED
  BY InvInit, InvNext, PTL DEF Spec

-----------------------------------------------------------------------------
(* What holds of every execution of the allocator. *)

\* The fields of the Memory objects, the pools and the counters keep their types: no
\* sequence of divide and try_merge calls computes a negative size or offset.
THEOREM TypesHold == Spec => []TypeOK
<1>1. Inv => TypeOK
  BY DEF Inv, Good, GoodHeap, CacheType, TypeOK
<1> QED
  BY <1>1, InvAlways, PTL

\* The live blocks of every segment tile it, in the order of their next_ links, whatever
\* was divided, freed, merged, trimmed and retried before.
THEOREM TilingHolds == Spec => []Tiling
<1>1. Inv => Tiling
  BY DEF Inv, Good, GoodHeap, Tiling
<1> QED
  BY <1>1, InvAlways, PTL

\* The pools hold exactly the live blocks nobody uses, under their current size: no block
\* can be handed out twice, and none is forgotten.
THEOREM CacheHolds == Spec => []CacheIsExact
<1>1. Inv => CacheIsExact
  BY DEF Inv, Good, CacheIsExact
<1> QED
  BY <1>1, InvAlways, PTL

\* free_impl leaves no two free neighbours, and a segment never mixes size classes.
THEOREM CoalescedHolds == Spec => []Coalesced
<1>1. Inv => Coalesced
  BY DEF Inv, Good, Coalesced
<1> QED
  BY <1>1, InvAlways, PTL

\* In a good heap, a block whose device has nothing in use is a whole segment.
LEMMA IdleIsWhole ==
    ASSUME Inv, NEW b \in Alive(mem),
           \A x \in Alive(mem) : mem[x].device_id = mem[b].device_id => ~mem[x].locked
    PROVE  mem[b].next = NULL /\ mem[b].prev = NULL /\ mem[b].bytes = size[mem[b].seg]
<1>1. GoodHeap(mem, size) /\ NoFreeNeighbours(mem)
  BY DEF Inv, Good
<1>2. /\ LinkedAt(mem, size, b) /\ mem[b].bytes \in Nat /\ mem[b].off \in Nat
      /\ mem[b].next # NULL => mem[b].next \in Alive(mem)
      /\ mem[b].prev # NULL => /\ mem[b].prev \in Alive(mem)
                               /\ mem[mem[b].prev].device_id = mem[b].device_id
  BY <1>1, LinkFacts
<1>3. mem[b].next = NULL
  BY <1>1, <1>2 DEF LinkedAt, NoFreeNeighbours
<1>4. mem[b].prev = NULL
  <2>1. SUFFICES ASSUME mem[b].prev # NULL PROVE FALSE
    OBVIOUS
  <2>2. mem[mem[b].prev].next = b /\ b # NULL
    BY <1>2, <2>1, NullAssumption DEF LinkedAt, Alive
  <2> QED
    BY <1>1, <1>2, <2>1, <2>2 DEF NoFreeNeighbours
<1> QED
  BY <1>2, <1>3, <1>4 DEF LinkedAt, End

\* Once every holder of a device's memory has freed it, one
\* free_unused_device_caches gives all of it back.
THEOREM IdleHolds == Spec => []IdleDeviceIsReclaimable
<1>1. Inv => IdleDeviceIsReclaimable
  <2> SUFFICES ASSUME Inv, NEW d \in Device,
                      \A x \in Alive(mem) : mem[x].device_id = d => ~InUse(x),
                      NEW b \in Alive(mem), mem[b].device_id = d
               PROVE  BytesActive(mem, b) = size[mem[b].seg]
    BY DEF IdleDeviceIsReclaimable
  <2>1. mem[b].next = NULL /\ mem[b].prev = NULL /\ mem[b].bytes = size[mem[b].seg]
    BY IdleIsWhole DEF InUse
  <2> QED
    BY <2>1 DEF BytesActive, Alive
<1> QED
  BY <1>1, InvAlways, PTL

\* When alloc gives up after its retry, whatever the device still has allocated is in a
\* segment with a block in use: there was nothing left to trim.
THEOREM ExhaustionHolds == Spec => ExhaustionIsReal
<1>1. ASSUME Inv, NEW d \in Device, NEW n \in Request, AllocFailed(d, n),
             NEW b \in Alive(mem'), mem'[b].device_id = d
      PROVE  \E c \in Alive(mem') : mem'[c].seg = mem'[b].seg /\ mem'[c].locked
  <2> DEFINE m == TrimMem({d})
  <2>1. /\ mem' = m /\ Good(mem, cache, size)
        /\ Good(m, TrimCache({d}), TrimSize({d}))
        /\ Alive(m) = Alive(mem) \ WholeIn(mem, cache, {d})
    BY <1>1, TrimGood DEF AllocFailed, Inv
  <2>2. m[b] = mem[b] /\ b \in Alive(mem) /\ b \in Block /\ b \notin Whole(mem, cache, d)
    BY <1>1, <2>1 DEF TrimMem, Alive, WholeIn
  <2> HIDE DEF m
  <2>3. /\ GoodHeap(m, TrimSize({d})) /\ NoFreeNeighbours(m) /\ b \in Alive(m)
        /\ Filed(mem, cache, b) /\ m[b].device_id = d
    BY <1>1, <2>1, <2>2 DEF Good
  <2>4. LinkedAt(m, TrimSize({d}), b) /\ b # NULL
        /\ (m[b].prev # NULL => m[b].prev \in Alive(m) /\ m[m[b].prev].seg = m[b].seg)
        /\ m[b].bytes > 0
    BY <2>3, LinkFacts, NullAssumption
  <2>5. CASE m[b].locked
    BY <2>1, <2>3, <2>5
  <2>6. CASE ~m[b].locked /\ m[b].next # NULL
    BY <2>1, <2>3, <2>4, <2>6 DEF LinkedAt, NoFreeNeighbours
  <2>7. CASE ~m[b].locked /\ m[b].prev # NULL
    <3>1. m[m[b].prev].next = b
      BY <2>4, <2>7 DEF LinkedAt
    <3> QED
      BY <2>1, <2>3, <2>4, <2>7, <3>1 DEF NoFreeNeighbours
  <2>8. CASE ~m[b].locked /\ m[b].next = NULL /\ m[b].prev = NULL
    <3>1. Key(mem, b) \in cache[d][PoolOf(mem[b].bytes)] /\ Key(mem, b)[2] = b
      BY <2>2, <2>3, <2>8 DEF Filed, Key
    <3>2. b \in CachedOn(cache, d)
      BY <2>2, <3>1, PoolType DEF CachedOn
    <3>3. BytesActive(mem, b) > 0
      BY <2>2, <2>4, <2>8 DEF BytesActive, Alive
    <3> QED
      BY <2>2, <3>2, <3>3 DEF Whole
  <2> QED
    BY <2>5, <2>6, <2>7, <2>8
<1>2. Inv => [\A d \in Device, n \in Request :
                AllocFailed(d, n) =>
                    \A b \in Alive(mem') : mem'[b].device_id = d =>
                        \E c \in Alive(mem') : mem'[c].seg = mem'[b].seg /\ mem'[c].locked]_vars
  BY <1>1
<1> QED
  BY <1>2, InvAlways, PTL DEF ExhaustionIsReal

-----------------------------------------------------------------------------
(* The allocator implements DeviceHeap. *)

HeldOK ==
    \A b \in Block :
        /\ mem[b].locked <=> Held[b] # NULL
        /\ mem[b].locked => /\ Held[b].seg = mem[b].seg /\ Held[b].off = mem[b].off
                            /\ Held[b].bytes = mem[b].bytes
                            /\ Held[b].asked = asked[b]

\* What the abstract heap holds is what the locked blocks span.
LEMMA HeldFacts == Inv => HeldOK
<1> SUFFICES ASSUME Inv, NEW b \in Block
             PROVE  /\ mem[b].locked <=> Held[b] # NULL
                    /\ mem[b].locked => /\ Held[b].seg = mem[b].seg
                                        /\ Held[b].off = mem[b].off
                                        /\ Held[b].bytes = mem[b].bytes
                                        /\ Held[b].asked = asked[b]
  BY DEF HeldOK
<1>1. CASE mem[b].locked
  <2>1. Held[b] = [seg |-> mem[b].seg, off |-> mem[b].off,
                   bytes |-> mem[b].bytes, asked |-> asked[b]]
    BY <1>1 DEF Held, InUse
  <2>2. b \in Alive(mem) /\ GoodHeap(mem, size) /\ asked[b] \in Nat
    BY <1>1 DEF Inv, Good, HeldAlive
  <2>3. mem[b].seg \in Segment /\ mem[b].off \in Nat /\ mem[b].bytes \in Nat
    BY <2>2, LinkFacts
  <2>4. Held[b] \in Region
    BY <2>1, <2>2, <2>3 DEF Region
  <2> QED
    BY <1>1, <2>1, <2>4, RegionAssumption
<1>2. CASE ~mem[b].locked
  BY <1>2 DEF Held, InUse
<1> QED
  BY <1>1, <1>2

\* A block that stays in use is the same region, in a segment that stays mapped.
LEMMA KeptRegion ==
    ASSUME Inv, NEW o \in Block, Kept(mem, size, mem', size', o), asked'[o] = asked[o]
    PROVE  /\ Held'[o] = Held[o]
           /\ Held[o] # NULL => size'[Held[o].seg] = size[Held[o].seg]
<1>1. CASE mem[o].locked
  <2>1. /\ mem'[o].locked /\ mem'[o].seg = mem[o].seg /\ mem'[o].off = mem[o].off
        /\ mem'[o].bytes = mem[o].bytes /\ size'[mem[o].seg] = size[mem[o].seg]
    BY <1>1 DEF Kept
  <2>2. Held'[o] = Held[o]
    BY <1>1, <2>1 DEF Held, InUse
  <2>3. Held[o].seg = mem[o].seg
    BY <1>1, HeldFacts DEF HeldOK
  <2> QED
    BY <2>1, <2>2, <2>3
<1>2. CASE ~mem[o].locked
  <2>1. ~mem'[o].locked
    BY <1>2 DEF Kept
  <2> QED
    BY <1>2, <2>1 DEF Held, InUse
<1> QED
  BY <1>1, <1>2

\* An allocation is a Grant of the abstract heap.
LEMMA GrantStep ==
    ASSUME Inv, Inv', NEW b \in Block, NEW n \in Request, ~mem[b].locked,
           HandedOut(mem, size, size', b, n)
    PROVE  Heap!Grant(b, n)
<1>1. /\ asked' = [asked EXCEPT ![b] = n] /\ mem'[b].locked /\ mem'[b].bytes >= n
      /\ Good(mem', cache', size')
      /\ \A o \in Block \ {b} : Kept(mem, size, mem', size', o)
  BY DEF HandedOut
<1>2. asked'[b] = n /\ \A o \in Block \ {b} : asked'[o] = asked[o]
  BY <1>1 DEF Inv
<1>3. \A o \in Block \ {b} :
         /\ Held'[o] = Held[o]
         /\ Held[o] # NULL => size'[Held[o].seg] = size[Held[o].seg]
  BY <1>1, <1>2, KeptRegion
<1>4. /\ Held[b] = NULL
      /\ Held = [x \in Block |-> Held[x]] /\ Held' = [x \in Block |-> Held'[x]]
  BY DEF Held, InUse
<1>5. HeldOK /\ HeldOK'
  BY HeldFacts, PTL
<1> DEFINE r == Held'[b]
<1>6. /\ r # NULL /\ r.seg = mem'[b].seg /\ r.off = mem'[b].off /\ r.bytes = mem'[b].bytes
      /\ r.asked = n
  BY <1>1, <1>2, <1>5 DEF HeldOK
<1>7. GoodHeap(mem', size') /\ HeldAlive(mem') /\ b \in Alive(mem')
  BY <1>1 DEF Good, HeldAlive
<1>8. /\ r.bytes >= n /\ r.bytes > 0 /\ r.seg \in Segment /\ r.off >= 0
      /\ r.off + r.bytes <= size'[r.seg]
  <2>1. /\ mem'[b].bytes > 0 /\ mem'[b].seg \in Segment /\ mem'[b].off \in Nat
        /\ LinkedAt(mem', size', b)
    BY <1>7, LinkFacts
  <2>2. mem'[b].off + mem'[b].bytes <= size'[mem'[b].seg]
    BY <2>1 DEF LinkedAt, End
  <2> QED
    BY <1>1, <1>6, <2>1, <2>2
<1>9. ASSUME NEW o \in Block, Held[o] # NULL
      PROVE  ~Heap!Overlap(r, Held[o])
  <2>1. o # b /\ Held'[o] = Held[o] /\ Held'[o] # NULL
    BY <1>3, <1>4, <1>9
  <2>2. /\ mem'[o].locked /\ Held[o].seg = mem'[o].seg /\ Held[o].off = mem'[o].off
        /\ Held[o].bytes = mem'[o].bytes
    BY <1>5, <1>9, <2>1 DEF HeldOK
  <2>3. Apart(mem', b, o)
    BY <1>7, <1>9, <2>1, <2>2 DEF GoodHeap, NoOverlap, HeldAlive
  <2>4. /\ mem'[b].off \in Nat /\ mem'[b].bytes \in Nat
        /\ mem'[o].off \in Nat /\ mem'[o].bytes \in Nat
    BY <1>7, <1>9, <2>2, LinkFacts DEF HeldAlive
  <2>5. mem'[b].seg = mem'[o].seg =>
           \/ mem'[b].off + mem'[b].bytes <= mem'[o].off
           \/ mem'[o].off + mem'[o].bytes <= mem'[b].off
    BY <2>3 DEF Apart, End
  <2> QED
    BY <1>6, <2>2, <2>4, <2>5 DEF Heap!Overlap
<1>10. Held' = [Held EXCEPT ![b] = r]
  BY <1>3, <1>4
<1> HIDE DEF r
<1>11. \A o \in Heap!Owners : o \in Block /\ o # b /\ Held[o] # NULL
  BY <1>4 DEF Heap!Owners
<1>12. Heap!Remap
  BY <1>3, <1>11 DEF Heap!Remap
<1>13. b \notin Heap!Owners
  BY <1>11
<1>14. r = Held'[b]
  BY DEF r
<1> QED
  BY <1>6, <1>8, <1>9, <1>10, <1>11, <1>12, <1>13, <1>14 DEF Heap!Grant

\* A free is a Return of the abstract heap.
LEMMA ReturnStep ==
    ASSUME Inv, Inv', NEW b \in Block, mem[b].locked, ~mem'[b].locked, size' = size,
           \A o \in Block \ {b} : Kept(mem, size, mem', size', o) /\ asked'[o] = asked[o]
    PROVE  Heap!Return(b)
<1>1. \A o \in Block \ {b} : Held'[o] = Held[o]
  BY KeptRegion
<1>2. /\ Held'[b] = NULL
      /\ Held = [x \in Block |-> Held[x]] /\ Held' = [x \in Block |-> Held'[x]]
  BY DEF Held, InUse
<1>3. Held[b] # NULL
  BY HeldFacts DEF HeldOK
<1>4. Held' = [Held EXCEPT ![b] = NULL]
  BY <1>1, <1>2
<1> QED
  BY <1>3, <1>4 DEF Heap!Return, Heap!Owners

\* Freeing unused caches is a Reclaim of the abstract heap.
LEMMA ReclaimStep ==
    ASSUME Inv, asked' = asked, \A o \in Block : Kept(mem, size, mem', size', o)
    PROVE  Heap!Reclaim
<1>1. \A o \in Block : /\ Held'[o] = Held[o]
                       /\ Held[o] # NULL => size'[Held[o].seg] = size[Held[o].seg]
  BY KeptRegion
<1>2. Held = [x \in Block |-> Held[x]] /\ Held' = [x \in Block |-> Held'[x]]
  BY DEF Held
<1>3. Held' = Held
  BY <1>1, <1>2
<1> QED
  BY <1>1, <1>3 DEF Heap!Reclaim, Heap!Remap, Heap!Owners

\* Every execution of the allocator is one of DeviceHeap: holders get mapped memory, as
\* large as they asked for and nobody else's, and keep it where it is until they free it.
THEOREM Refinement == Spec => ImplementsDeviceHeap
<1>1. Init => Heap!Init
  BY DEF Init, Heap!Init, Held, InUse, Unborn
<1>2. Inv /\ Inv' /\ [Next]_vars => [Heap!Next]_(Heap!vars)
  <2> SUFFICES ASSUME Inv, Inv', [Next]_vars
               PROVE  Heap!Next \/ UNCHANGED Heap!vars
    OBVIOUS
  <2>1. ASSUME NEW d \in Device, NEW n \in Request,
               AllocCached(d, n) \/ AllocNew(d, n) \/ AllocRetried(d, n)
        PROVE  Heap!Next
    BY <2>1, AllocStep, GrantStep DEF Heap!Next
  <2>2. ASSUME NEW D, D \subseteq Device, Trimmed(D)
        PROVE  Heap!Next
    BY <2>2, InvTrimmed, ReclaimStep DEF Heap!Next, Trimmed
  <2>3. ASSUME NEW d \in Device, NEW n \in Request, AllocFailed(d, n)
        PROVE  Heap!Next
    <3>1. Trimmed({d}) /\ {d} \subseteq Device
      BY <2>3 DEF AllocFailed, Trimmed
    <3> QED
      BY <2>2, <3>1
  <2>4. ASSUME NEW D, D \subseteq Device, FreeUnusedCaches(D)
        PROVE  Heap!Next
    <3>1. Trimmed(D)
      BY <2>4 DEF FreeUnusedCaches, Trimmed
    <3> QED
      BY <2>2, <2>4, <3>1
  <2>5. ASSUME NEW b \in Block, Free(b)
        PROVE  Heap!Next
    <3>1. mem[b].locked
      BY <2>5 DEF Free
    <3> QED
      BY <2>5, <3>1, InvFree, ReturnStep DEF Heap!Next
  <2>6. CASE UNCHANGED vars
    BY <2>6 DEF vars, Heap!vars, Held, InUse
  <2> QED
    BY <2>1, <2>3, <2>4, <2>5, <2>6 DEF Next, Alloc
<1> QED
  BY <1>1, <1>2, InvAlways, PTL DEF Spec, ImplementsDeviceHeap, Heap!Spec

-----------------------------------------------------------------------------
(* The books: device_memory_used_in_bytes_ and the counters. *)

\* The blocks of device d, and what they are worth together.
Owned(m, d) == {b \in Alive(m) : m[b].device_id = d}

Bytes(m) == [b \in Block |-> m[b].bytes]

Owns(m, d) == Total(Bytes(m), Owned(m, d))

\* The blocks counter[p][d] counts.
HeldBy(m, d, p) ==
    {b \in Alive(m) : m[b].locked /\ m[b].device_id = d /\ PoolOf(m[b].bytes) = p}

\* The books agree with the heap, which never has more than finitely many blocks.
Booked(m, u, q) ==
    /\ IsFiniteSet(Alive(m))
    /\ u = [d \in Device |-> Owns(m, d)]
    /\ q = [p \in Pool |-> [d \in Device |-> Cardinality(HeldBy(m, d, p))]]

\* A step of the heap that concerns neither.
SameBooks(m, a) ==
    /\ IsFiniteSet(Alive(a))
    /\ \A d \in Device : Owns(a, d) = Owns(m, d)
    /\ \A d \in Device, p \in Pool : HeldBy(a, d, p) = HeldBy(m, d, p)

\* The sum of UsedIsExact is Owns.
LEMMA OwnsIs ==
    ASSUME NEW m \in [Block -> Memory], IsFiniteSet(Alive(m)), NEW d
    PROVE  MapThenSumSet(LAMBDA b : m[b].bytes, Owned(m, d)) = Owns(m, d)
<1> DEFINE S == Owned(m, d)
           w == Bytes(m)
           e(h) == [T \in SUBSET S |->
                      IF T = {} THEN 0
                      ELSE m[CHOOSE x \in T : TRUE].bytes + h[T \ {CHOOSE x \in T : TRUE}]]
<1>1. IsFiniteSet(S) /\ S \subseteq Block /\ \A x \in S : w[x] = m[x].bytes /\ w[x] \in Int
  BY FS_Subset DEF Owned, Alive, Bytes, Memory
<1>2. PICK f : Additive(f, w, S)
  BY <1>1, AdditiveExists
<1>3. MapThenSumSet(LAMBDA b : m[b].bytes, S) = (CHOOSE h : h = e(h))[S]
  BY DEF MapThenSumSet, MapThenFoldSet
<1> HIDE DEF S, w
<1>4. f = e(f)
  <2>1. ASSUME NEW T \in SUBSET S, T # {}
        PROVE  f[T] = m[CHOOSE x \in T : TRUE].bytes + f[T \ {CHOOSE x \in T : TRUE}]
    <3> DEFINE x == CHOOSE y \in T : TRUE
    <3>1. x \in T
      BY <2>1
    <3> HIDE DEF x
    <3>2. T \ {x} \in SUBSET S /\ x \in S \ (T \ {x}) /\ (T \ {x}) \cup {x} = T
      BY <3>1
    <3>3. f[T] = f[T \ {x}] + w[x] /\ f[T \ {x}] \in Int /\ w[x] \in Int
      BY <1>1, <1>2, <3>2 DEF Additive
    <3>4. f[T] = m[x].bytes + f[T \ {x}]
      BY <1>1, <3>2, <3>3
    <3> QED BY <3>4 DEF x
  <2>2. f[{}] = 0 /\ DOMAIN f = SUBSET S /\ f = [T \in SUBSET S |-> f[T]]
    BY <1>2 DEF Additive
  <2> QED BY <2>1, <2>2
<1> DEFINE h == CHOOSE k : k = e(k)
<1>5. h = e(h)
  BY <1>4
<1> HIDE DEF h
<1>6. Recursion(h, w, S)
  <2>1. ASSUME NEW T \in SUBSET S, T # {}
        PROVE  m[CHOOSE x \in T : TRUE].bytes = w[CHOOSE x \in T : TRUE]
    BY <1>1, <2>1
  <2>2. h = [T \in SUBSET S |-> IF T = {} THEN 0
                            ELSE w[CHOOSE x \in T : TRUE] + h[T \ {CHOOSE x \in T : TRUE}]]
    BY <1>5, <2>1
  <2> QED BY <2>2 DEF Recursion
<1>7. h[S] = f[S] /\ Total(w, S) = f[S]
  BY <1>1, <1>2, <1>6, RecursionIsAdditive, TotalIs
<1> QED BY <1>3, <1>7 DEF h, S, w, Owns

\* The sum free_unused_device_caches deducts is what the blocks it takes are worth.
LEMMA FreedIs ==
    ASSUME NEW d \in Device, Good(mem, cache, size), IsFiniteSet(Alive(mem))
    PROVE  /\ FreedBytes(d) = Total(Bytes(mem), Whole(mem, cache, d))
           /\ Whole(mem, cache, d) \subseteq {b \in Owned(mem, d) : ~mem[b].locked}
<1> DEFINE S == Whole(mem, cache, d)
           w == Bytes(mem)
           e(h) == [T \in SUBSET S |->
                      IF T = {} THEN 0
                      ELSE BytesActive(mem, CHOOSE x \in T : TRUE)
                              + h[T \ {CHOOSE x \in T : TRUE}]]
<1>0. S \subseteq {b \in Owned(mem, d) : ~mem[b].locked}
  <2>1. ASSUME NEW b \in CachedOn(cache, d)
        PROVE  b \in Owned(mem, d) /\ ~mem[b].locked
    BY DEF CachedOn, Good, Entries, Owned
  <2> QED BY <2>1 DEF Whole
<1>1. /\ IsFiniteSet(S) /\ S \subseteq Block
      /\ \A x \in S : w[x] = BytesActive(mem, x) /\ w[x] \in Int
  <2>1. IsFiniteSet(S) /\ S \subseteq Alive(mem) /\ S \subseteq Block
    BY <1>0, FS_Subset DEF Owned, Alive
  <2>2. ASSUME NEW x \in S
        PROVE  w[x] = BytesActive(mem, x) /\ w[x] \in Int
    <3>1. x \in Block /\ mem[x] \in Memory /\ BytesActive(mem, x) > 0
      BY <2>1 DEF Whole, Good, GoodHeap
    <3>2. BytesActive(mem, x) = mem[x].bytes
      BY <3>1 DEF BytesActive
    <3> QED BY <3>1, <3>2 DEF Bytes, Memory
  <2> QED BY <2>1, <2>2
<1>2. PICK f : Additive(f, w, S)
  BY <1>1, AdditiveExists
<1>3. FreedBytes(d) = (CHOOSE h : h = e(h))[S]
  BY DEF FreedBytes, MapThenSumSet, MapThenFoldSet
<1> HIDE DEF S, w
<1>4. f = e(f)
  <2>1. ASSUME NEW T \in SUBSET S, T # {}
        PROVE  f[T] = BytesActive(mem, CHOOSE x \in T : TRUE) + f[T \ {CHOOSE x \in T : TRUE}]
    <3> DEFINE x == CHOOSE y \in T : TRUE
    <3>1. x \in T
      BY <2>1
    <3> HIDE DEF x
    <3>2. T \ {x} \in SUBSET S /\ x \in S \ (T \ {x}) /\ (T \ {x}) \cup {x} = T
      BY <3>1
    <3>3. f[T] = f[T \ {x}] + w[x] /\ f[T \ {x}] \in Int /\ w[x] \in Int
      BY <1>1, <1>2, <3>2 DEF Additive
    <3>4. f[T] = BytesActive(mem, x) + f[T \ {x}]
      BY <1>1, <3>2, <3>3
    <3> QED BY <3>4 DEF x
  <2>2. f[{}] = 0 /\ DOMAIN f = SUBSET S /\ f = [T \in SUBSET S |-> f[T]]
    BY <1>2 DEF Additive
  <2> QED BY <2>1, <2>2
<1> DEFINE h == CHOOSE k : k = e(k)
<1>5. h = e(h)
  BY <1>4
<1> HIDE DEF h
<1>6. Recursion(h, w, S)
  <2>1. ASSUME NEW T \in SUBSET S, T # {}
        PROVE  BytesActive(mem, CHOOSE x \in T : TRUE) = w[CHOOSE x \in T : TRUE]
    BY <1>1, <2>1
  <2>2. h = [T \in SUBSET S |-> IF T = {} THEN 0
                            ELSE w[CHOOSE x \in T : TRUE] + h[T \ {CHOOSE x \in T : TRUE}]]
    BY <1>5, <2>1
  <2> QED BY <2>2 DEF Recursion
<1>7. h[S] = f[S] /\ Total(w, S) = f[S]
  BY <1>1, <1>2, <1>6, RecursionIsAdditive, TotalIs
<1> QED BY <1>0, <1>3, <1>7 DEF h, S, w

\* A device owns finitely many blocks, each of an integer size.
LEMMA OwnedFacts ==
    ASSUME NEW m \in [Block -> Memory], IsFiniteSet(Alive(m)), NEW d
    PROVE  /\ IsFiniteSet(Owned(m, d)) /\ Owned(m, d) \subseteq Block
           /\ \A x \in Owned(m, d) : Bytes(m)[x] = m[x].bytes /\ Bytes(m)[x] \in Int
           /\ Owns(m, d) \in Int
<1>1. IsFiniteSet(Owned(m, d)) /\ Owned(m, d) \subseteq Block
  BY FS_Subset DEF Owned, Alive
<1>2. \A x \in Owned(m, d) : Bytes(m)[x] = m[x].bytes /\ Bytes(m)[x] \in Int
  BY <1>1 DEF Bytes, Memory
<1> QED BY <1>1, <1>2, TotalAdds DEF Owns

\* A device whose blocks keep their sizes owns what it did.
LEMMA OwnsSame ==
    ASSUME NEW m \in [Block -> Memory], NEW a \in [Block -> Memory],
           IsFiniteSet(Alive(m)), NEW d, Owned(a, d) = Owned(m, d),
           \A x \in Owned(m, d) : a[x].bytes = m[x].bytes
    PROVE  Owns(a, d) = Owns(m, d)
<1>1. /\ IsFiniteSet(Owned(m, d)) /\ Owned(m, d) \subseteq Block
      /\ \A x \in Owned(m, d) : Bytes(m)[x] = m[x].bytes /\ Bytes(m)[x] \in Int
  BY OwnedFacts
<1>2. \A x \in Owned(m, d) : Bytes(a)[x] = Bytes(m)[x]
  BY <1>1 DEF Bytes
<1> QED BY <1>1, <1>2, TotalSame DEF Owns

\* One more block is worth its size.
LEMMA OwnsMore ==
    ASSUME NEW m \in [Block -> Memory], NEW a \in [Block -> Memory],
           IsFiniteSet(Alive(m)), IsFiniteSet(Alive(a)),
           NEW d, NEW r, r \notin Owned(m, d), Owned(a, d) = Owned(m, d) \cup {r},
           \A x \in Owned(m, d) : a[x].bytes = m[x].bytes
    PROVE  Owns(a, d) = Owns(m, d) + a[r].bytes
<1>1. /\ IsFiniteSet(Owned(m, d)) /\ Owned(m, d) \subseteq Block
      /\ \A x \in Owned(m, d) : Bytes(m)[x] = m[x].bytes /\ Bytes(m)[x] \in Int
  BY OwnedFacts
<1>2. /\ IsFiniteSet(Owned(a, d)) /\ Owned(a, d) \subseteq Block
      /\ \A x \in Owned(a, d) : Bytes(a)[x] = a[x].bytes /\ Bytes(a)[x] \in Int
  BY OwnedFacts
<1>3. \A x \in Owned(m, d) : Bytes(a)[x] = Bytes(m)[x]
  BY <1>1 DEF Bytes
<1>4. Total(Bytes(a), Owned(m, d)) = Total(Bytes(m), Owned(m, d))
  BY <1>1, <1>3, TotalSame
<1>5. r \in Owned(a, d) /\ Owned(a, d) \ {r} = Owned(m, d)
  OBVIOUS
<1>6. Total(Bytes(a), Owned(a, d)) = Total(Bytes(a), Owned(a, d) \ {r}) + Bytes(a)[r]
  BY <1>2, <1>5, TotalAdds
<1> QED BY <1>2, <1>4, <1>5, <1>6 DEF Owns

\* A block in two pieces is worth what it was whole.
LEMMA OwnsPieces ==
    ASSUME NEW m \in [Block -> Memory], NEW a \in [Block -> Memory],
           IsFiniteSet(Alive(m)), IsFiniteSet(Alive(a)),
           NEW d, NEW b \in Owned(m, d), NEW r,
           r \notin Owned(m, d), Owned(a, d) = Owned(m, d) \cup {r},
           a[b].bytes + a[r].bytes = m[b].bytes,
           \A x \in Owned(m, d) \ {b} : a[x].bytes = m[x].bytes
    PROVE  Owns(a, d) = Owns(m, d)
<1> DEFINE S == Owned(m, d)
           U == Owned(a, d)
           R == Owned(m, d) \ {b}
<1>1. /\ IsFiniteSet(S) /\ S \subseteq Block
      /\ \A x \in S : Bytes(m)[x] = m[x].bytes /\ Bytes(m)[x] \in Int
  BY OwnedFacts
<1>2. /\ IsFiniteSet(U) /\ U \subseteq Block
      /\ \A x \in U : Bytes(a)[x] = a[x].bytes /\ Bytes(a)[x] \in Int
  BY OwnedFacts
<1>3. /\ r \in U /\ U \ {r} = S /\ b \in S /\ R \subseteq S /\ S \subseteq U
      /\ \A x \in R : a[x].bytes = m[x].bytes
      /\ S \ {b} = R
  OBVIOUS
<1>4. Owns(m, d) = Total(Bytes(m), S) /\ Owns(a, d) = Total(Bytes(a), U)
  BY DEF Owns
<1>5. IsFiniteSet(R)
  BY <1>1, <1>3, FS_Subset
<1> HIDE DEF S, U, R
<1>6. Total(Bytes(m), S) = Total(Bytes(m), R) + m[b].bytes
  BY <1>1, <1>3, TotalAdds
<1>7. Total(Bytes(a), U) = Total(Bytes(a), S) + a[r].bytes
  BY <1>2, <1>3, TotalAdds
<1>8. Total(Bytes(a), S) = Total(Bytes(a), R) + a[b].bytes
  <2>1. \A x \in S : Bytes(a)[x] \in Int
    BY <1>2, <1>3
  <2>2. IsFiniteSet(S) /\ b \in S
    BY <1>1, <1>3
  <2>3. Total(Bytes(a), S) = Total(Bytes(a), S \ {b}) + Bytes(a)[b]
    BY ONLY <2>1, <2>2, TotalAdds
  <2> QED BY <1>2, <1>3, <2>3
<1>9. Total(Bytes(a), R) = Total(Bytes(m), R) /\ Total(Bytes(m), R) \in Int
  <2>1. \A x \in R : Bytes(m)[x] \in Int /\ Bytes(a)[x] = Bytes(m)[x]
    BY <1>1, <1>2, <1>3
  <2> QED BY <1>5, <2>1, TotalSame, TotalAdds
<1>10. a[b].bytes \in Int /\ a[r].bytes \in Int /\ m[b].bytes \in Int
  BY <1>1, <1>2, <1>3
<1> QED BY <1>4, <1>6, <1>7, <1>8, <1>9, <1>10

-----------------------------------------------------------------------------

\* Dividing a block nobody uses changes no book.
LEMMA DivideBooks ==
    ASSUME NEW m, NEW z, GoodHeap(m, z), IsFiniteSet(Alive(m)),
           NEW b \in Alive(m), ~m[b].locked, NEW r \in Fresh(m),
           NEW start \in Nat, 0 < start, start < m[b].bytes
    PROVE  SameBooks(m, Divide(m, b, r, start))
<1> DEFINE a == Divide(m, b, r, start)
<1>1. GoodHeap(a, z) /\ Alive(a) = Alive(m) \cup {r} /\ r \notin Alive(m)
  BY DivideGood
<1>2. m \in [Block -> Memory] /\ b \in Block /\ r \in Block /\ b # r
  BY <1>1 DEF GoodHeap, Alive, Fresh
<1>3. /\ a \in [Block -> Memory]
      /\ \A x \in Block :
            /\ a[x].bytes = IF x = b THEN start
                            ELSE IF x = r THEN m[b].bytes - start ELSE m[x].bytes
            /\ a[x].locked = (x # r /\ m[x].locked)
            /\ a[x].device_id = IF x = r THEN m[b].device_id ELSE m[x].device_id
  BY <1>2, DivideFields
<1> HIDE DEF a
<1>4. IsFiniteSet(Alive(a))
  BY <1>1, FS_AddElement
<1>5. ASSUME NEW d \in Device
      PROVE  Owns(a, d) = Owns(m, d)
  <2>1. r \notin Owned(m, d) /\ Owned(m, d) \subseteq Alive(m) /\ Alive(m) \subseteq Block
    BY <1>1 DEF Owned, Alive
  <2>2. CASE m[b].device_id = d
    <3>1. b \in Owned(m, d) /\ Owned(a, d) = Owned(m, d) \cup {r}
      BY <1>1, <1>2, <1>3, <2>1, <2>2 DEF Owned
    <3>2. a[b].bytes + a[r].bytes = m[b].bytes
      BY <1>2, <1>3 DEF Memory
    <3>3. \A x \in Owned(m, d) \ {b} : a[x].bytes = m[x].bytes
      BY <1>3, <2>1
    <3> QED BY <1>2, <1>3, <1>4, <2>1, <3>1, <3>2, <3>3, OwnsPieces
  <2>3. CASE m[b].device_id # d
    <3>1. Owned(a, d) = Owned(m, d) /\ b \notin Owned(m, d)
      BY <1>1, <1>2, <1>3, <2>1, <2>3 DEF Owned
    <3>2. \A x \in Owned(m, d) : a[x].bytes = m[x].bytes
      BY <1>3, <2>1, <3>1
    <3> QED BY <1>2, <1>3, <3>1, <3>2, OwnsSame
  <2> QED BY <2>2, <2>3
<1>6. \A d \in Device, p \in Pool : HeldBy(a, d, p) = HeldBy(m, d, p)
  <2>1. Alive(m) \subseteq Block
    BY DEF Alive
  <2>2. \A x \in Alive(m) : x # b /\ x # r =>
           a[x].bytes = m[x].bytes /\ (a[x].locked <=> m[x].locked)
              /\ a[x].device_id = m[x].device_id
    BY <1>3, <2>1
  <2>3. ~a[b].locked /\ ~a[r].locked
    BY <1>2, <1>3
  <2> QED BY <1>1, <2>2, <2>3 DEF HeldBy
<1> QED BY <1>4, <1>5, <1>6 DEF SameBooks, a

\* Merging a block nobody uses with a neighbour changes no book.
LEMMA MergeBooks ==
    ASSUME NEW m, NEW z, GoodHeap(m, z), IsFiniteSet(Alive(m)),
           NEW b \in Alive(m), ~m[b].locked,
           NEW from, from = m[b].next \/ from = m[b].prev
    PROVE  SameBooks(m, TryMerge(m, b, from))
<1>1. CASE from = NULL \/ m[from].locked
  BY <1>1 DEF TryMerge, SameBooks
<1>2. CASE from # NULL /\ ~m[from].locked
  <2> DEFINE a == TryMerge(m, b, from)
  <2>1. /\ GoodHeap(a, z)
        /\ Alive(a) = Alive(m) \ {from} /\ from \in Alive(m) /\ from # b
        /\ m[from].device_id = m[b].device_id
        /\ \A x \in Block : a[x].locked = m[x].locked /\ a[x].device_id = m[x].device_id
        /\ \A x \in Block \ {b} : a[x].bytes = m[x].bytes
    BY <1>2, MergeFacts
  <2>2. /\ m \in [Block -> Memory] /\ a \in [Block -> Memory]
        /\ b \in Block /\ from \in Block /\ Alive(m) \subseteq Block
    BY <2>1 DEF GoodHeap, Alive
  <2>3. a[b].bytes = m[b].bytes + m[from].bytes
    <3>1. CASE m[b].next = from
      BY <1>2, <2>1, <2>2, <3>1, MergeNextFields
    <3>2. CASE m[b].next # from
      <4>1. m[b].prev = from
        BY <3>2
      <4>2. m[from].prev \in Block \cup {NULL} /\ a = PrevMerged(m, b, from, m[from].prev)
        BY <1>2, <2>1, <2>2, <3>2, <4>1, MergePrevFields
      <4>3. TakesOver(m, b, from, m[from].prev, a)
        BY <2>1, <2>2, <4>2, PrevMergedTakesOver
      <4> QED BY <2>2, <4>3 DEF TakesOver
    <3> QED BY <3>1, <3>2
  <2> HIDE DEF a
  <2>4. IsFiniteSet(Alive(a))
    BY <2>1, FS_RemoveElement
  <2>5. ASSUME NEW d \in Device
        PROVE  Owns(a, d) = Owns(m, d)
    <3>1. from \notin Owned(a, d) /\ Owned(a, d) \subseteq Alive(m)
      BY <2>1 DEF Owned
    <3>2. CASE m[b].device_id = d
      <4>1. b \in Owned(a, d) /\ Owned(m, d) = Owned(a, d) \cup {from}
        BY <2>1, <2>2, <3>2 DEF Owned
      <4>2. m[b].bytes + m[from].bytes = a[b].bytes
        BY <2>3
      <4>3. \A x \in Owned(a, d) \ {b} : m[x].bytes = a[x].bytes
        BY <2>1, <2>2, <3>1
      <4> QED BY <2>2, <2>4, <3>1, <4>1, <4>2, <4>3, OwnsPieces
    <3>3. CASE m[b].device_id # d
      <4>1. Owned(a, d) = Owned(m, d) /\ b \notin Owned(m, d)
        BY <2>1, <2>2, <3>3 DEF Owned
      <4>2. \A x \in Owned(m, d) : a[x].bytes = m[x].bytes
        BY <2>1, <2>2, <3>1, <4>1
      <4> QED BY <2>2, <4>1, <4>2, OwnsSame
    <3> QED BY <3>2, <3>3
  <2>6. \A d \in Device, p \in Pool : HeldBy(a, d, p) = HeldBy(m, d, p)
    <3>1. \A x \in Alive(m) : x # b /\ x # from =>
             a[x].bytes = m[x].bytes /\ a[x].locked = m[x].locked
                /\ a[x].device_id = m[x].device_id
      BY <2>1, <2>2
    <3>2. ~a[b].locked
      BY <2>1, <2>2
    <3> QED BY <1>2, <2>1, <3>1, <3>2 DEF HeldBy
  <2> QED BY <2>4, <2>5, <2>6 DEF SameBooks, a
<1> QED BY <1>1, <1>2

\* What dies with its last shared_ptr was in no book.
LEMMA CollectBooks ==
    ASSUME NEW m \in [Block -> Memory], IsFiniteSet(Alive(m)), NEW c
    PROVE  SameBooks(m, Collect(m, c))
<1> DEFINE a == Collect(m, c)
<1>1. Unborn \in Memory /\ Unborn.seg = NULL
  BY DEF Unborn, Memory
<1>2. a \in [Block -> Memory]
  BY <1>1 DEF Collect
<1>3. \A x \in Block : a[x] = IF Disabled(m, x) /\ x \notin Cached(c) THEN Unborn ELSE m[x]
  BY DEF Collect
<1> HIDE DEF a
<1>4. Alive(a) = Alive(m) /\ \A x \in Alive(m) : a[x] = m[x]
  BY <1>1, <1>3 DEF Alive, Disabled
<1>5. \A d \in Device : Owned(a, d) = Owned(m, d) /\ Owned(m, d) \subseteq Alive(m)
  BY <1>4 DEF Owned
<1>6. \A d \in Device : Owns(a, d) = Owns(m, d)
  BY <1>2, <1>4, <1>5, OwnsSame
<1>7. \A d \in Device, p \in Pool : HeldBy(a, d, p) = HeldBy(m, d, p)
  BY <1>4 DEF HeldBy
<1> QED BY <1>4, <1>6, <1>7 DEF SameBooks, a

\* A new allocation adds its size to its device.
LEMMA ConstructBooks ==
    ASSUME NEW m, NEW z, GoodHeap(m, z), IsFiniteSet(Alive(m)),
           NEW b \in Fresh(m), NEW s \in Segment, z[s] = 0,
           NEW n \in Nat, n > 0, NEW d \in Device,
           NEW y \in [Segment -> Nat], y[s] = n, \A t \in Segment : t # s => y[t] = z[t]
    PROVE  LET a == Construct(m, b, s, n, d) IN
           /\ IsFiniteSet(Alive(a))
           /\ \A e \in Device : Owns(a, e) = IF e = d THEN Owns(m, e) + n ELSE Owns(m, e)
           /\ \A e \in Device, p \in Pool : HeldBy(a, e, p) = HeldBy(m, e, p)
<1> DEFINE a == Construct(m, b, s, n, d)
<1>1. /\ GoodHeap(a, y) /\ Alive(a) = Alive(m) \cup {b} /\ b \notin Alive(m)
      /\ a[b] = Piece(n, s, 0, d)
      /\ \A x \in Block \ {b} : a[x] = m[x]
  BY ConstructGood
<1> HIDE DEF a
<1>2. /\ m \in [Block -> Memory] /\ a \in [Block -> Memory]
      /\ b \in Block /\ Alive(m) \subseteq Block
  BY <1>1 DEF GoodHeap, Alive, Fresh
<1>3. a[b].bytes = n /\ a[b].device_id = d /\ ~a[b].locked
  BY <1>1 DEF Piece
<1>4. IsFiniteSet(Alive(a))
  BY <1>1, FS_AddElement
<1>5. \A x \in Alive(m) : a[x] = m[x]
  BY <1>1, <1>2
<1>6. ASSUME NEW e \in Device
      PROVE  Owns(a, e) = IF e = d THEN Owns(m, e) + n ELSE Owns(m, e)
  <2>1. b \notin Owned(m, e) /\ \A x \in Owned(m, e) : a[x].bytes = m[x].bytes
    BY <1>1, <1>5 DEF Owned
  <2>2. CASE e = d
    <3>1. Owned(a, e) = Owned(m, e) \cup {b}
      BY <1>1, <1>3, <1>5, <2>2 DEF Owned
    <3> QED BY <1>2, <1>3, <1>4, <2>1, <2>2, <3>1, OwnsMore
  <2>3. CASE e # d
    <3>1. Owned(a, e) = Owned(m, e)
      BY <1>1, <1>3, <1>5, <2>3 DEF Owned
    <3> QED BY <1>2, <2>1, <2>3, <3>1, OwnsSame
  <2> QED BY <2>2, <2>3
<1>7. \A e \in Device, p \in Pool : HeldBy(a, e, p) = HeldBy(m, e, p)
  BY <1>1, <1>3, <1>5 DEF HeldBy
<1> QED BY <1>4, <1>6, <1>7 DEF a

\* Trimming takes from the devices it trims what it deducts, and no block in use.
LEMMA TrimBooks ==
    ASSUME Good(mem, cache, size), IsFiniteSet(Alive(mem)), NEW D, D \subseteq Device
    PROVE  LET a == TrimMem(D) IN
           /\ IsFiniteSet(Alive(a))
           /\ \A d \in Device :
                 Owns(a, d) = IF d \in D THEN Owns(mem, d) - FreedBytes(d) ELSE Owns(mem, d)
           /\ \A d \in Device, p \in Pool : HeldBy(a, d, p) = HeldBy(mem, d, p)
<1> DEFINE a == TrimMem(D)
           W == WholeIn(mem, cache, D)
<1>1. /\ Good(a, TrimCache(D), TrimSize(D))
      /\ Alive(a) = Alive(mem) \ W
  BY TrimGood
<1>2. \A x \in Block \ W : a[x] = mem[x]
  BY DEF TrimMem
<1>3. \A d \in D : Whole(mem, cache, d) \subseteq W
  BY DEF WholeIn
<1>4. \A w \in W : \E d \in D : w \in Whole(mem, cache, d)
  BY DEF WholeIn
<1>5. \A d \in Device : Whole(mem, cache, d) \subseteq {b \in Owned(mem, d) : ~mem[b].locked}
  BY FreedIs
<1> HIDE DEF a, W
<1>6. /\ mem \in [Block -> Memory] /\ a \in [Block -> Memory] /\ Alive(mem) \subseteq Block
      /\ \A x \in Alive(mem) \ W : a[x] = mem[x]
  BY <1>1, <1>2 DEF Good, GoodHeap, Alive
<1>7. IsFiniteSet(Alive(a))
  BY <1>1, FS_Difference
<1>8. \A w \in W : w \in Alive(mem) /\ ~mem[w].locked
  BY <1>4, <1>5 DEF Owned
<1>9. ASSUME NEW d \in Device
      PROVE  Owns(a, d) = IF d \in D THEN Owns(mem, d) - FreedBytes(d) ELSE Owns(mem, d)
  <2> DEFINE S == Owned(mem, d)
             T == Whole(mem, cache, d)
  <2>1. Owned(a, d) = S \ W
    BY <1>1, <1>6 DEF Owned
  <2>2. CASE d \in D
    <3>1. S \ W = S \ T
      <4>1. \A w \in W : w \in S => w \in T
        BY <1>4, <1>5 DEF Owned
      <4> QED BY <1>3, <2>2, <4>1
    <3>2. /\ IsFiniteSet(S) /\ S \subseteq Block /\ T \subseteq S
          /\ \A x \in S : Bytes(mem)[x] \in Int
      BY <1>5, <1>6, OwnedFacts
    <3>3. /\ IsFiniteSet(S \ T) /\ S \ T \subseteq S
          /\ \A x \in S \ T : Bytes(a)[x] = Bytes(mem)[x]
      <4>1. S \ T \subseteq Alive(mem) \ W
        BY <3>1 DEF Owned
      <4> QED BY <1>6, <3>2, <4>1, FS_Difference DEF Bytes
    <3>4. Owns(mem, d) = Total(Bytes(mem), S) /\ FreedBytes(d) = Total(Bytes(mem), T)
      BY FreedIs DEF Owns
    <3>5. Owns(a, d) = Total(Bytes(a), S \ T)
      BY <2>1, <3>1 DEF Owns
    <3>6. IsFiniteSet(T) /\ \A x \in T : Bytes(mem)[x] \in Int
      BY <3>2, FS_Subset
    <3> HIDE DEF S, T
    <3>7. Total(Bytes(mem), S) = Total(Bytes(mem), S \ T) + Total(Bytes(mem), T)
      BY <3>2, TotalSplit
    <3> DEFINE R == S \ T
    <3>8. IsFiniteSet(R) /\ \A x \in R : Bytes(mem)[x] \in Int /\ Bytes(a)[x] = Bytes(mem)[x]
      BY <3>2, <3>3
    <3> HIDE DEF R
    <3>9. Total(Bytes(a), R) = Total(Bytes(mem), R) /\ Total(Bytes(mem), R) \in Int
      BY <3>8, TotalSame, TotalAdds
    <3>10. Total(Bytes(mem), T) \in Int
      BY <3>6, TotalAdds
    <3> QED BY <2>2, <3>4, <3>5, <3>7, <3>9, <3>10 DEF R
  <2>3. CASE d \notin D
    <3>1. S \ W = S
      BY <1>4, <1>5, <2>3 DEF Owned
    <3>2. Owned(a, d) = Owned(mem, d) /\ \A x \in Owned(mem, d) : a[x].bytes = mem[x].bytes
      <4>1. Owned(mem, d) \subseteq Alive(mem) \ W
        BY <3>1 DEF Owned
      <4> QED BY <1>6, <2>1, <3>1, <4>1
    <3> QED BY <1>6, <2>3, <3>2, OwnsSame
  <2> QED BY <2>2, <2>3
<1>10. \A d \in Device, p \in Pool : HeldBy(a, d, p) = HeldBy(mem, d, p)
  BY <1>1, <1>6, <1>8 DEF HeldBy
<1> QED BY <1>7, <1>9, <1>10 DEF a

-----------------------------------------------------------------------------

\* Locking a block enters it in the book of its device and pool.
LEMMA LockBooks ==
    ASSUME NEW m, NEW z, GoodHeap(m, z), IsFiniteSet(Alive(m)),
           NEW b \in Alive(m), NEW v \in BOOLEAN
    PROVE  LET a == SetLock(m, b, v) IN
           /\ IsFiniteSet(Alive(a))
           /\ \A d \in Device : Owns(a, d) = Owns(m, d)
           /\ \A d \in Device, p \in Pool :
                 HeldBy(a, d, p) =
                    IF v /\ m[b].device_id = d /\ PoolOf(m[b].bytes) = p
                    THEN HeldBy(m, d, p) \cup {b} ELSE HeldBy(m, d, p) \ {b}
<1> DEFINE a == SetLock(m, b, v)
<1>1. m \in [Block -> Memory] /\ b \in Block /\ Alive(m) \subseteq Block
  BY DEF GoodHeap, Alive
<1>2. GoodHeap(a, z) /\ Alive(a) = Alive(m)
  BY <1>1, SetLockGood
<1>3. /\ a[b].locked = v
      /\ \A x \in Block \ {b} : a[x] = m[x]
      /\ \A x \in Block : a[x].bytes = m[x].bytes /\ a[x].device_id = m[x].device_id
  <2>1. Marked(m, b, v, a)
    BY <1>1, SetLockFields
  <2> QED BY <2>1 DEF Marked
<1> HIDE DEF a
<1>4. a \in [Block -> Memory]
  BY <1>2 DEF GoodHeap
<1>5. \A d \in Device : Owned(a, d) = Owned(m, d) /\ Owned(m, d) \subseteq Block
  BY <1>1, <1>2, <1>3 DEF Owned
<1>6. \A d \in Device : Owns(a, d) = Owns(m, d)
  BY <1>1, <1>3, <1>4, <1>5, OwnsSame
<1>7. ASSUME NEW d \in Device, NEW p \in Pool
      PROVE  HeldBy(a, d, p) =
                IF v /\ m[b].device_id = d /\ PoolOf(m[b].bytes) = p
                THEN HeldBy(m, d, p) \cup {b} ELSE HeldBy(m, d, p) \ {b}
  <2>1. \A x \in Alive(m) : x # b => (x \in HeldBy(a, d, p) <=> x \in HeldBy(m, d, p))
    BY <1>1, <1>2, <1>3 DEF HeldBy
  <2>2. b \in HeldBy(a, d, p) <=> v /\ m[b].device_id = d /\ PoolOf(m[b].bytes) = p
    BY <1>1, <1>2, <1>3 DEF HeldBy
  <2>3. HeldBy(a, d, p) \subseteq Alive(m) /\ HeldBy(m, d, p) \subseteq Alive(m)
    BY <1>2 DEF HeldBy
  <2> QED BY <2>1, <2>2, <2>3
<1> QED BY <1>2, <1>6, <1>7 DEF a

\* Counters are given by their entries.
LEMMA CounterIs ==
    ASSUME NEW q, CounterType(q), NEW m,
           \A r \in Pool, e \in Device : q[r][e] = Cardinality(HeldBy(m, e, r))
    PROVE  q = [r \in Pool |-> [e \in Device |-> Cardinality(HeldBy(m, e, r))]]
<1>1. ASSUME NEW r \in Pool
      PROVE  q[r] = [e \in Device |-> Cardinality(HeldBy(m, e, r))]
  BY DEF CounterType
<1> QED BY <1>1 DEF CounterType

\* The tail of alloc, counted.
LEMMA CarveBooks ==
    ASSUME NEW m, NEW c, NEW z, NEW b, GoodBut(m, c, z, b), NoFreeNeighbours(m),
           NEW n \in Nat, NEW d \in Device, m[b].device_id = d,
           m[b].bytes >= Need(n), PoolOf(m[b].bytes) = PoolOf(Need(n)),
           NEW u, Booked(m, u, counter), CounterType(counter), Carve(m, c, d, b, n)
    PROVE  Booked(mem', u, counter')
<1>1. /\ GoodHeap(m, z) /\ b \in Alive(m) /\ ~m[b].locked /\ IsFiniteSet(Alive(m))
      /\ b \in Block /\ m \in [Block -> Memory]
  BY DEF GoodBut, Loose, Booked, GoodHeap, Alive
<1>2. ASSUME NEW a, GoodHeap(a, z), b \in Alive(a), ~a[b].locked, SameBooks(m, a),
             a[b].device_id = d, Hand(a, b, n)
      PROVE  Booked(mem', u, counter')
  <2> DEFINE p == PoolOf(a[b].bytes)
  <2>1. p \in Pool
    BY PoolType
  <2>2. /\ mem' = SetLock(a, b, TRUE)
        /\ counter' = [counter EXCEPT ![p][d] = @ + 1]
    BY <1>2 DEF Hand
  <2>3. IsFiniteSet(Alive(a))
    BY <1>2 DEF SameBooks
  <2>4. /\ IsFiniteSet(Alive(mem'))
        /\ \A e \in Device : Owns(mem', e) = Owns(a, e)
        /\ \A e \in Device, r \in Pool :
              HeldBy(mem', e, r) = IF a[b].device_id = e /\ p = r
                                   THEN HeldBy(a, e, r) \cup {b} ELSE HeldBy(a, e, r) \ {b}
    <3>1. LET h == SetLock(a, b, TRUE) IN
          /\ IsFiniteSet(Alive(h))
          /\ \A e \in Device : Owns(h, e) = Owns(a, e)
          /\ \A e \in Device, r \in Pool :
                HeldBy(h, e, r) = IF TRUE /\ a[b].device_id = e /\ PoolOf(a[b].bytes) = r
                                  THEN HeldBy(a, e, r) \cup {b} ELSE HeldBy(a, e, r) \ {b}
      BY <1>2, <2>3, LockBooks, TRUE \in BOOLEAN
    <3> QED BY <2>2, <3>1
  <2> HIDE DEF p
  <2>5. \A e \in Device, r \in Pool : b \notin HeldBy(a, e, r) /\ IsFiniteSet(HeldBy(a, e, r))
    BY <1>2, <2>3, FS_Subset DEF HeldBy
  <2>6. \A e \in Device, r \in Pool :
           Cardinality(HeldBy(mem', e, r)) =
              IF e = d /\ r = p THEN Cardinality(HeldBy(a, e, r)) + 1
              ELSE Cardinality(HeldBy(a, e, r))
    <3> SUFFICES ASSUME NEW e \in Device, NEW r \in Pool
                 PROVE  Cardinality(HeldBy(mem', e, r)) =
                           IF e = d /\ r = p THEN Cardinality(HeldBy(a, e, r)) + 1
                           ELSE Cardinality(HeldBy(a, e, r))
      OBVIOUS
    <3>1. CASE e = d /\ r = p
      BY <1>2, <2>4, <2>5, <3>1, FS_AddElement
    <3>2. CASE ~(e = d /\ r = p)
      <4>1. HeldBy(mem', e, r) = HeldBy(a, e, r)
        BY <1>2, <2>4, <2>5, <3>2
      <4> QED BY <3>2, <4>1
    <3> QED BY <3>1, <3>2
  <2>7. \A e \in Device, r \in Pool : counter[r][e] = Cardinality(HeldBy(a, e, r))
    BY <1>2 DEF Booked, SameBooks
  <2>8. /\ CounterType(counter') /\ counter'[p][d] = counter[p][d] + 1
        /\ \A r \in Pool, e \in Device : ~(r = p /\ e = d) => counter'[r][e] = counter[r][e]
    <3>1. CounterType(counter')
      BY <2>1, <2>2, CounterStep
    <3>2. DOMAIN counter = Pool /\ \A r \in Pool : DOMAIN counter[r] = Device
      BY DEF CounterType
    <3> QED BY <2>1, <2>2, <3>1, <3>2
  <2>9. counter' = [r \in Pool |-> [e \in Device |-> Cardinality(HeldBy(mem', e, r))]]
    BY <2>1, <2>6, <2>7, <2>8, CounterIs
  <2>10. u = [e \in Device |-> Owns(mem', e)]
    BY <1>2, <2>4 DEF Booked, SameBooks
  <2> QED BY <2>4, <2>9, <2>10 DEF Booked
<1>3. CASE KeepWhole(m, c, d, b, n)
  <2>1. Hand(m, b, n)
    BY <1>3 DEF KeepWhole
  <2>2. SameBooks(m, m)
    BY <1>1 DEF SameBooks
  <2> QED BY <1>1, <1>2, <2>1, <2>2
<1>4. CASE Split(m, c, d, b, n)
  <2>1. PICK r \in Fresh(m) : Hand(Divide(m, b, r, Need(n)), b, n)
    BY <1>4 DEF Split
  <2> DEFINE start == Need(n)
             a == Divide(m, b, r, start)
  <2>2. start \in Nat /\ 0 < start /\ PoolOf(start) \in Pool
    BY NeedBound, PoolType
  <2>3. m[b].bytes - start >= SplitAt(PoolOf(start)) /\ PoolOf(m[b].bytes) = PoolOf(start)
    BY <1>4 DEF Split
  <2>4. Hand(a, b, n)
    BY <2>1
  <2> HIDE DEF start
  <2>5. start < m[b].bytes
    BY <1>1, <2>2, <2>3, SizeAssumption DEF SplitAt, Pool, Memory
  <2>6. GoodBut(a, Insert(c, d, PoolOf(start), Key(a, r)), z, b) /\ a[b].device_id = d
    BY <2>2, <2>3, SplitGood
  <2>7. SameBooks(m, a)
    BY <1>1, <2>2, <2>5, DivideBooks
  <2>8. GoodHeap(a, z) /\ b \in Alive(a) /\ ~a[b].locked
    BY <2>6 DEF GoodBut, Loose
  <2> HIDE DEF a
  <2> QED BY <1>2, <2>4, <2>6, <2>7, <2>8
<1> QED BY <1>3, <1>4 DEF Carve

\* Trimming, counted.
LEMMA TrimmedBooks ==
    ASSUME Inv, Booked(mem, used, counter), NEW D, D \subseteq Device
    PROVE  Booked(TrimMem(D), TrimUsed(D), counter)
<1> DEFINE a == TrimMem(D)
<1>1. Good(mem, cache, size) /\ IsFiniteSet(Alive(mem))
  BY DEF Inv, Booked
<1>2. /\ IsFiniteSet(Alive(a))
      /\ \A d \in Device :
            Owns(a, d) = IF d \in D THEN Owns(mem, d) - FreedBytes(d) ELSE Owns(mem, d)
      /\ \A d \in Device, p \in Pool : HeldBy(a, d, p) = HeldBy(mem, d, p)
  BY <1>1, TrimBooks
<1> HIDE DEF a
<1>3. TrimUsed(D) = [d \in Device |-> Owns(a, d)]
  <2>1. TrimUsed(D) = [d \in Device |-> IF d \in D THEN used[d] - FreedBytes(d) ELSE used[d]]
    BY DEF TrimUsed
  <2>2. \A d \in Device : used[d] = Owns(mem, d)
    BY DEF Booked
  <2> QED BY <1>2, <2>1, <2>2
<1>4. counter = [p \in Pool |-> [d \in Device |-> Cardinality(HeldBy(a, d, p))]]
  BY <1>2 DEF Booked
<1> QED BY <1>2, <1>3, <1>4 DEF Booked, a

\* What is owned is an integer for every device.
LEMMA BookedType ==
    ASSUME NEW m \in [Block -> Memory], NEW u, NEW q, Booked(m, u, q)
    PROVE  u \in [Device -> Int]
  BY OwnedFacts DEF Booked

\* A new block of a heap m that is counted but for what it adds.
LEMMA FreshBooks ==
    ASSUME NEW m, NEW c, NEW z, Good(m, c, z), NEW u, Booked(m, u, counter),
           NEW d \in Device, NEW n \in Nat, CounterType(counter),
           NEW b \in Fresh(m), NEW s \in Segment, z[s] = 0,
           NEW y \in [Segment -> Nat], y[s] = NewBytes(Need(n)),
           \A t \in Segment : t # s => y[t] = z[t],
           used' \in [Device -> Int], used'[d] = u[d] + NewBytes(Need(n)),
           \A e \in Device : e # d => used'[e] = u[e],
           Carve(Construct(m, b, s, NewBytes(Need(n)), d), c, d, b, n)
    PROVE  Booked(mem', used', counter')
<1> DEFINE w == NewBytes(Need(n))
           a == Construct(m, b, s, w, d)
<1>1. w \in Nat /\ w >= Need(n) /\ w > 0 /\ PoolOf(w) = PoolOf(Need(n))
  BY NewBytesFit
<1>2. /\ Carve(a, c, d, b, n) /\ y[s] = w
      /\ used' = [e \in Device |-> IF e = d THEN Owns(m, e) + w ELSE Owns(m, e)]
  BY DEF Booked
<1> HIDE DEF w
<1>3. /\ GoodBut(a, c, y, b) /\ a[b] = Piece(w, s, 0, d) /\ NoFreeNeighbours(a)
  BY <1>1, <1>2, NewBlock
<1>4. GoodHeap(m, z) /\ IsFiniteSet(Alive(m))
  BY DEF Good, Booked
<1>5. /\ IsFiniteSet(Alive(a))
      /\ \A e \in Device : Owns(a, e) = IF e = d THEN Owns(m, e) + w ELSE Owns(m, e)
      /\ \A e \in Device, p \in Pool : HeldBy(a, e, p) = HeldBy(m, e, p)
  BY <1>1, <1>2, <1>4, ConstructBooks
<1> HIDE DEF a
<1>6. a[b].bytes = w /\ a[b].device_id = d
  BY <1>3 DEF Piece
<1>7. Booked(a, used', counter)
  <2>2. used' = [e \in Device |-> Owns(a, e)]
    BY <1>2, <1>5
  <2>3. counter = [p \in Pool |-> [e \in Device |-> Cardinality(HeldBy(a, e, p))]]
    BY <1>5 DEF Booked
  <2> QED BY <1>5, <2>2, <2>3 DEF Booked
<1> QED BY <1>1, <1>2, <1>3, <1>6, <1>7, CarveBooks

\* A request that is served, counted.
LEMMA AllocBooks ==
    ASSUME Inv, Booked(mem, used, counter), NEW d \in Device, NEW n \in Request,
           AllocCached(d, n) \/ AllocNew(d, n) \/ AllocRetried(d, n)
    PROVE  Booked(mem', used', counter')
<1>1. /\ Good(mem, cache, size) /\ CounterType(counter) /\ n \in Nat
      /\ size \in [Segment -> Nat] /\ NoFreeNeighbours(mem) /\ IsFiniteSet(Alive(mem))
      /\ mem \in [Block -> Memory]
  BY SizeAssumption DEF Inv, CounterType, Good, GoodHeap, Booked
<1>3. Booked(mem, used, counter)
  OBVIOUS
<1>4. CASE AllocCached(d, n)
  <2>1. PICK k \in LowerBound(cache[d][PoolOf(Need(n))], Need(n)) :
          /\ Carve(mem, Erase(cache, d, PoolOf(Need(n)), k), d, k[2], n)
          /\ used' = used
    BY <1>4 DEF AllocCached, Candidates
  <2> DEFINE p == PoolOf(Need(n))
             e == Erase(cache, d, p, k)
             b == k[2]
  <2>2. p \in Pool /\ Need(n) \in Nat
    BY <1>1, PoolType, NeedBound
  <2>3. k \in LowerBound(cache[d][p], Need(n)) /\ Carve(mem, e, d, b, n)
    BY <2>1
  <2>4. p = PoolOf(Need(n))
    OBVIOUS
  <2> HIDE DEF p
  <2>5. /\ GoodBut(mem, e, size, b) /\ mem[b].device_id = d
        /\ mem[b].bytes >= Need(n) /\ PoolOf(mem[b].bytes) = p
    BY <1>1, <2>2, <2>3, TakeCached
  <2> HIDE DEF e, b
  <2>6. Booked(mem', used, counter')
    BY <1>1, <2>3, <2>4, <2>5, CarveBooks
  <2> QED BY <2>1, <2>6
<1>5. CASE AllocNew(d, n)
  <2>1. PICK b \in Fresh(mem), s \in Segment :
          /\ size[s] = 0
          /\ size' = [size EXCEPT ![s] = NewBytes(Need(n))]
          /\ used' = [used EXCEPT ![d] = @ + NewBytes(Need(n))]
          /\ Carve(Construct(mem, b, s, NewBytes(Need(n)), d), cache, d, b, n)
    BY <1>5 DEF AllocNew
  <2>2. /\ size' \in [Segment -> Nat] /\ size'[s] = NewBytes(Need(n))
        /\ \A t \in Segment : t # s => size'[t] = size[t]
    BY <1>1, <2>1, NewBytesFit
  <2>3. /\ used' \in [Device -> Int] /\ used'[d] = used[d] + NewBytes(Need(n))
        /\ \A e \in Device : e # d => used'[e] = used[e]
    <3>1. used \in [Device -> Int] /\ NewBytes(Need(n)) \in Int
      BY <1>1, BookedType, NewBytesFit
    <3> QED BY <2>1, <3>1
  <2>4. size[s] = 0 /\ Carve(Construct(mem, b, s, NewBytes(Need(n)), d), cache, d, b, n)
    BY <2>1
  <2> QED
    BY ONLY <1>1, <1>3, <2>2, <2>3, <2>4, FreshBooks, b \in Fresh(mem), s \in Segment, d \in Device
<1>6. CASE AllocRetried(d, n)
  <2> DEFINE m == TrimMem({d})
             c == TrimCache({d})
             z == TrimSize({d})
  <2>1. PICK b \in Fresh(mem), s \in Segment :
          /\ z[s] = 0
          /\ size' = [t \in Segment |-> IF t = s THEN NewBytes(Need(n)) ELSE z[t]]
          /\ used' = [used EXCEPT ![d] = TrimUsed({d})[d] + NewBytes(Need(n))]
          /\ Carve(Construct(m, b, s, NewBytes(Need(n)), d), c, d, b, n)
    BY <1>6 DEF AllocRetried
  <2>2. Good(m, c, z)
    BY <1>1, TrimGood
  <2>3. b \in Fresh(m)
    BY DEF Fresh, TrimMem, Unborn
  <2>4. Booked(m, TrimUsed({d}), counter)
    BY TrimmedBooks, {d} \subseteq Device
  <2> DEFINE u == TrimUsed({d})
  <2>5. /\ used' \in [Device -> Int] /\ used'[d] = u[d] + NewBytes(Need(n))
        /\ \A e \in Device : e # d => used'[e] = u[e]
    <3>1. /\ used \in [Device -> Int] /\ u \in [Device -> Int] /\ NewBytes(Need(n)) \in Int
      <4>1. m \in [Block -> Memory]
        BY <2>2 DEF Good, GoodHeap
      <4>2. Booked(m, u, counter)
        BY <2>4
      <4> HIDE DEF u, m
      <4>3. u \in [Device -> Int]
        BY <4>1, <4>2, BookedType
      <4> QED BY <1>1, <1>3, <4>3, BookedType, NewBytesFit
    <3>2. \A e \in Device : e # d => u[e] = used[e]
      BY DEF TrimUsed
    <3> HIDE DEF u
    <3>3. used' = [used EXCEPT ![d] = u[d] + NewBytes(Need(n))]
      BY <2>1 DEF u
    <3> QED BY <3>1, <3>2, <3>3
  <2> HIDE DEF u
  <2> HIDE DEF m, c, z
  <2>6. z \in [Segment -> Nat]
    BY <2>2 DEF Good, GoodHeap
  <2>7. /\ size' \in [Segment -> Nat] /\ size'[s] = NewBytes(Need(n))
        /\ \A t \in Segment : t # s => size'[t] = z[t]
    BY <1>1, <2>1, <2>6, NewBytesFit
  <2>8. Booked(m, u, counter)
    BY <2>4 DEF u
  <2>10. z[s] = 0 /\ Carve(Construct(m, b, s, NewBytes(Need(n)), d), c, d, b, n)
    BY <2>1
  <2> QED
    BY ONLY <1>1, <2>2, <2>3, <2>5, <2>7, <2>8, <2>10, FreshBooks, s \in Segment, d \in Device
<1> QED BY <1>4, <1>5, <1>6

\* Freeing a block, counted.
LEMMA FreeBooks ==
    ASSUME Inv, Booked(mem, used, counter), NEW b \in Block, Free(b)
    PROVE  Booked(mem', used', counter')
<1> DEFINE d    == mem[b].device_id
           pool == PoolOf(mem[b].bytes)
           open == SetLock(mem, b, FALSE)
           n    == open[b].next
           m1   == TryMerge(open, b, n)
           p    == m1[b].prev
           m2   == TryMerge(m1, b, p)
<1>1. /\ mem[b].locked /\ used' = used
      /\ mem' = Collect(m2, cache')
      /\ counter' = [counter EXCEPT ![pool][d] = @ - 1]
  BY DEF Free
<1>2. /\ Good(mem, cache, size) /\ pool \in Pool /\ IsFiniteSet(Alive(mem))
      /\ CounterType(counter)
  BY PoolType DEF Inv, Booked, CounterType
<1>3. GoodHeap(mem, size) /\ b \in Alive(mem)
  BY <1>1, <1>2 DEF Good, HeldAlive
<1>4. /\ GoodBut(open, cache, size, b) /\ NoFreeBut(open, b)
      /\ open[b].device_id = d /\ PoolOf(open[b].bytes) = pool
  BY <1>1, <1>2, UnlockGood
<1>5. /\ IsFiniteSet(Alive(open))
      /\ \A e \in Device : Owns(open, e) = Owns(mem, e)
      /\ \A e \in Device, q \in Pool : HeldBy(open, e, q) = HeldBy(mem, e, q) \ {b}
  <2>1. LET h == SetLock(mem, b, FALSE) IN
        /\ IsFiniteSet(Alive(h))
        /\ \A e \in Device : Owns(h, e) = Owns(mem, e)
        /\ \A e \in Device, q \in Pool :
              HeldBy(h, e, q) = IF FALSE /\ mem[b].device_id = e /\ PoolOf(mem[b].bytes) = q
                                THEN HeldBy(mem, e, q) \cup {b} ELSE HeldBy(mem, e, q) \ {b}
    BY <1>2, <1>3, LockBooks, FALSE \in BOOLEAN
  <2> QED BY <2>1
<1> HIDE DEF open
<1>6. GoodHeap(open, size) /\ b \in Alive(open) /\ ~open[b].locked /\ d \in Device
  BY <1>4 DEF GoodBut, Loose
<1>7. SameBooks(open, m1)
  BY <1>5, <1>6, MergeBooks
<1>8. GoodBut(m1, TryEraseCache(cache, m1, d, pool, n), size, b)
  <2>1. Merged(open, cache, size, b, n, m1, TryEraseCache(cache, m1, d, pool, n))
    BY <1>2, <1>4, MergeStep
  <2> QED BY <2>1 DEF Merged
<1> HIDE DEF m1, n
<1>9. GoodHeap(m1, size) /\ b \in Alive(m1) /\ ~m1[b].locked
  BY <1>8 DEF GoodBut, Loose
<1>10. SameBooks(m1, m2)
  BY <1>7, <1>9, MergeBooks DEF SameBooks
<1>11. m2 \in [Block -> Memory]
  <2>1. CASE p = NULL \/ m1[p].locked
    BY <1>9, <2>1 DEF TryMerge, GoodHeap
  <2>2. CASE p # NULL /\ ~m1[p].locked
    BY <1>9, <2>2, MergeFacts DEF GoodHeap
  <2> QED BY <2>1, <2>2
<1> HIDE DEF m2, p
<1>12. SameBooks(m2, mem')
  BY <1>1, <1>10, <1>11, CollectBooks DEF SameBooks
<1>13. /\ IsFiniteSet(Alive(mem'))
       /\ \A e \in Device : Owns(mem', e) = Owns(mem, e)
       /\ \A e \in Device, q \in Pool : HeldBy(mem', e, q) = HeldBy(mem, e, q) \ {b}
  BY <1>5, <1>7, <1>10, <1>12 DEF SameBooks
<1>14. ASSUME NEW e \in Device, NEW q \in Pool
       PROVE  Cardinality(HeldBy(mem', e, q)) =
                 IF q = pool /\ e = d THEN counter[q][e] - 1 ELSE counter[q][e]
  <2>1. /\ IsFiniteSet(HeldBy(mem, e, q))
        /\ counter[q][e] = Cardinality(HeldBy(mem, e, q))
        /\ b \in HeldBy(mem, e, q) <=> q = pool /\ e = d
    BY <1>1, <1>2, <1>3, FS_Subset DEF HeldBy, Booked
  <2>2. CASE q = pool /\ e = d
    <3>1. Cardinality(HeldBy(mem, e, q) \ {b}) = Cardinality(HeldBy(mem, e, q)) - 1
      BY <2>1, <2>2, FS_RemoveElement
    <3>2. Cardinality(HeldBy(mem, e, q)) \in Nat
      BY <2>1, FS_CardinalityType
    <3> QED BY <1>13, <2>1, <2>2, <3>1, <3>2
  <2>3. CASE ~(q = pool /\ e = d)
    <3>1. HeldBy(mem, e, q) \ {b} = HeldBy(mem, e, q)
      BY <2>1, <2>3
    <3> QED BY <1>13, <2>1, <2>3, <3>1
  <2> QED BY <2>2, <2>3
<1>15. /\ CounterType(counter') /\ counter'[pool][d] = counter[pool][d] - 1
       /\ \A q \in Pool, e \in Device : ~(q = pool /\ e = d) => counter'[q][e] = counter[q][e]
  <2>1. counter' = [counter EXCEPT ![pool][d] = @ - 1]
    BY <1>1
  <2> HIDE DEF pool, d
  <2>2. CounterType(counter')
    BY <1>2, <1>6, <2>1, CounterStep
  <2>3. DOMAIN counter = Pool /\ \A r \in Pool : DOMAIN counter[r] = Device
    BY <1>2 DEF CounterType
  <2> QED BY <1>2, <1>6, <2>1, <2>2, <2>3
<1> HIDE DEF pool, d
<1>16. counter' = [q \in Pool |-> [e \in Device |-> Cardinality(HeldBy(mem', e, q))]]
  BY <1>2, <1>6, <1>14, <1>15, CounterIs
<1>17. used' = [e \in Device |-> Owns(mem', e)]
  BY <1>1, <1>13 DEF Booked
<1> QED BY <1>13, <1>16, <1>17 DEF Booked

\* The books stay right.
LEMMA BookedAlways == Spec => [](Inv /\ Booked(mem, used, counter))
<1>1. Init => Inv /\ Booked(mem, used, counter)
  <2> SUFFICES ASSUME Init PROVE Booked(mem, used, counter)
    BY InvInit
  <2>1. Alive(mem) = {}
    BY DEF Init, Unborn, Alive, Disabled
  <2>2. \A d \in Device : Owned(mem, d) = {} /\ \A p \in Pool : HeldBy(mem, d, p) = {}
    BY <2>1 DEF Owned, HeldBy
  <2>3. IsFiniteSet({}) /\ Cardinality({}) = 0
    BY FS_EmptySet
  <2>4. \A d \in Device : Owns(mem, d) = 0
    BY <2>2, <2>3, TotalAdds DEF Owns
  <2> QED BY <2>1, <2>2, <2>3, <2>4 DEF Booked, Init
<1>2. Inv /\ Booked(mem, used, counter) /\ [Next]_vars => (Inv /\ Booked(mem, used, counter))'
  <2> SUFFICES ASSUME Inv, Booked(mem, used, counter), [Next]_vars
               PROVE  Booked(mem', used', counter')
    BY InvNext
  <2>1. ASSUME NEW d \in Device, NEW n \in Request,
               AllocCached(d, n) \/ AllocNew(d, n) \/ AllocRetried(d, n)
        PROVE  Booked(mem', used', counter')
    BY <2>1, AllocBooks
  <2>2. ASSUME NEW d \in Device, NEW n \in Request, AllocFailed(d, n)
        PROVE  Booked(mem', used', counter')
    <3>1. {d} \subseteq Device
      OBVIOUS
    <3>2. mem' = TrimMem({d}) /\ used' = TrimUsed({d}) /\ counter' = counter
      BY <2>2 DEF AllocFailed
    <3> QED BY <3>1, <3>2, TrimmedBooks
  <2>3. ASSUME NEW b \in Block, Free(b)
        PROVE  Booked(mem', used', counter')
    BY <2>3, FreeBooks
  <2>4. ASSUME NEW D, D \subseteq Device, FreeUnusedCaches(D)
        PROVE  Booked(mem', used', counter')
    <3>1. mem' = TrimMem(D) /\ used' = TrimUsed(D) /\ counter' = counter
      BY <2>4 DEF FreeUnusedCaches
    <3> QED BY <2>4, <3>1, TrimmedBooks
  <2>5. CASE UNCHANGED vars
    BY <2>5 DEF vars
  <2> QED BY <2>1, <2>2, <2>3, <2>4, <2>5 DEF Next, Alloc
<1> QED BY <1>1, <1>2, PTL DEF Spec

\* device_memory_used_in_bytes_ is the sum of the live blocks of the device, and every
\* counter the number of blocks in use, whatever was divided, merged, trimmed or retried.
THEOREM UsedHolds == Spec => []UsedIsExact
<1>1. Inv /\ Booked(mem, used, counter) => UsedIsExact
  <2> SUFFICES ASSUME Inv, Booked(mem, used, counter) PROVE UsedIsExact
    OBVIOUS
  <2>1. mem \in [Block -> Memory] /\ IsFiniteSet(Alive(mem))
    BY DEF Inv, Good, GoodHeap, Booked
  <2>2. \A d \in Device : MapThenSumSet(LAMBDA b : mem[b].bytes, Owned(mem, d)) = Owns(mem, d)
    BY <2>1, OwnsIs
  <2>3. used = [d \in Device |-> MapThenSumSet(LAMBDA b : mem[b].bytes, Owned(mem, d))]
    BY <2>2 DEF Booked
  <2>4. counter = [p \in Pool |-> [d \in Device |-> Cardinality({b \in Alive(mem) :
                     InUse(b) /\ mem[b].device_id = d /\ PoolOf(mem[b].bytes) = p})]]
    BY DEF Booked, HeldBy, InUse
  <2> QED BY <2>3, <2>4 DEF UsedIsExact, Owned
<1> QED BY <1>1, BookedAlways, PTL

=============================================================================
