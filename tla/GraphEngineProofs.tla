-------------------------- MODULE GraphEngineProofs --------------------------
(***************************************************************************)
(* Proofs about GraphEngine, for all graphs that are built without         *)
(* auto-forward and any number of calls: the loop of backward runs a       *)
(* function once, and after all the functions that depend on its outputs;  *)
(* when forward returns, what was asked for can be read; and when it was   *)
(* told to clear buffers, nothing is left that could have been cleared.    *)
(*                                                                         *)
(* The loop takes the open function of the highest rank first.  So what    *)
(* has to be known is that ranks grow along the graph, where a backward    *)
(* may go: connect and forward count them differently, every forward       *)
(* counts those it visits anew, and the other calls go in between.         *)
(*                                                                         *)
(* Forward clears an input at the visit that exhausts its references, and  *)
(* the array goes with it for all that share it.  So what has to be known  *)
(* is who shares an array, and that the visits counted are those of the    *)
(* functions that this forward has executed.                               *)
(***************************************************************************)
EXTENDS GraphEngine, FoldProofs, SequenceTheorems

(***************************************************************************)
(* The graph.                                                              *)
(***************************************************************************)
\* The functions that compute inputs of f in graph r.
Parents(r, f) == {k \in DOMAIN r.kind : Range(r.outs[k]) \cap Range(r.ins[f]) # {}}

\* What holds f and, with a function, its parents.
Downward(r, S) == \A k \in S : Parents(r, k) \subseteq S
ConeOf(r, f) == {k \in DOMAIN r.kind :
                    \A S \in SUBSET DOMAIN r.kind : f \in S /\ Downward(r, S) => k \in S}

\* Functions are numbered, and parents come first.
LEMMA GraphFacts ==
    ASSUME g \in Graphs
    PROVE  /\ \E n \in Nat : Fn = 1 .. n
           /\ Fn \subseteq Nat /\ 0 \notin Fn
           /\ DOMAIN g.ins = Fn /\ DOMAIN g.outs = Fn
           /\ g.all \in Seq(Range(g.all))
           /\ \A f \in Fn : In(f) \in Seq(Ins(f)) /\ Out(f) \in Seq(Outs(f))
           /\ \A f \in Fn : Ins(f) \subseteq Var
           /\ \A f, k \in Fn : Outs(f) \cap Outs(k) # {} => f = k
           /\ \A f \in Fn : \A k \in Parents(g, f) : k \in Fn /\ k < f
<1>1. Len(g.kind) \in Nat /\ Fn = 1 .. Len(g.kind)
  BY GraphsAssumption DEF Fn
<1>2. \A f \in Fn : \A k \in Parents(g, f) : k \in Fn /\ k < f
  BY GraphsAssumption DEF Fn, Parents
<1>3. \A f, k \in Fn : Outs(f) \cap Outs(k) # {} => f = k
  BY GraphsAssumption DEF Fn, Outs, Out
<1>4. \A f \in Fn : In(f) \in Seq(Ins(f)) /\ Out(f) \in Seq(Outs(f))
  BY GraphsAssumption DEF Fn, Outs, Out, Ins, In
<1>5. DOMAIN g.ins = Fn /\ DOMAIN g.outs = Fn /\ g.all \in Seq(Range(g.all))
  BY GraphsAssumption DEF Fn
<1>6. \A f \in Fn : Ins(f) \subseteq Var
  BY DEF Var
<1> QED BY <1>1, <1>2, <1>3, <1>4, <1>5, <1>6

\* The function that computes a variable.
LEMMA ParentFacts ==
    ASSUME g \in Graphs
    PROVE  /\ \A v : Parent(v) = 0 \/ (Parent(v) \in Fn /\ v \in Outs(Parent(v)))
           /\ \A f \in Fn : \A v \in Outs(f) : Parent(v) = f
           /\ \A f \in Fn : Parents(g, f) = {Parent(v) : v \in Ins(f)} \ {0}
           /\ \A f \in Fn : Parents(g, f) = {Parent(v) : v \in Ins(f) \ Leaves}
<1>1. \A v : Parent(v) = 0 \/ (Parent(v) \in Fn /\ v \in Outs(Parent(v)))
  BY DEF Parent
<1>2. \A f \in Fn : \A v \in Outs(f) : Parent(v) = f
  <2> SUFFICES ASSUME NEW f \in Fn, NEW v \in Outs(f) PROVE Parent(v) = f
    OBVIOUS
  <2>1. Parent(v) \in Fn /\ v \in Outs(Parent(v))
    BY DEF Parent
  <2> QED BY <2>1, GraphFacts
<1>3. ASSUME NEW f \in Fn PROVE Parents(g, f) = {Parent(v) : v \in Ins(f)} \ {0}
  <2>1. ASSUME NEW k \in Parents(g, f) PROVE k # 0 /\ \E v \in Ins(f) : k = Parent(v)
    <3>1. k \in Fn /\ k # 0
      BY <2>1, GraphFacts
    <3>2. PICK v \in Ins(f) : v \in Outs(k)
      BY <2>1, <3>1 DEF Parents, Ins, Outs, In, Out
    <3> QED BY <3>1, <3>2, <1>2
  <2>2. ASSUME NEW v \in Ins(f), Parent(v) # 0 PROVE Parent(v) \in Parents(g, f)
    BY <2>2, <1>1 DEF Parents, Ins, Outs, In, Out, Fn
  <2> QED BY <2>1, <2>2
<1>4. ASSUME NEW f \in Fn PROVE Parents(g, f) = {Parent(v) : v \in Ins(f) \ Leaves}
  <2>1. Ins(f) \subseteq Var
    BY GraphFacts
  <2>2. \A v \in Ins(f) : v \in Leaves <=> Parent(v) = 0
    BY <2>1 DEF Leaves
  <2> QED BY <2>2, <1>3
<1> QED BY <1>1, <1>2, <1>3, <1>4

\* What closed sets of functions a cone lies in, and that cones are closed themselves.
LEMMA ConeOfFacts ==
    ASSUME g \in Graphs, NEW f \in Fn
    PROVE  /\ ConeOf(g, f) \subseteq Fn
           /\ f \in ConeOf(g, f)
           /\ \A S \in SUBSET Fn : f \in S /\ Downward(g, S) => ConeOf(g, f) \subseteq S
           /\ \A k \in ConeOf(g, f) : Parents(g, k) \subseteq ConeOf(g, f)
           /\ \A k \in Parents(g, f) : ConeOf(g, k) \subseteq ConeOf(g, f)
<1>1. ConeOf(g, f) \subseteq Fn /\ f \in ConeOf(g, f)
  BY DEF ConeOf, Fn
<1>2. \A h \in Fn : \A S \in SUBSET Fn : h \in S /\ Downward(g, S) => ConeOf(g, h) \subseteq S
  BY DEF ConeOf, Fn
<1>3. ASSUME NEW k \in ConeOf(g, f), NEW p \in Parents(g, k) PROVE p \in ConeOf(g, f)
  <2>1. p \in Fn
    BY <1>1, <1>3, GraphFacts
  <2>2. \A S \in SUBSET Fn : f \in S /\ Downward(g, S) => p \in S
    BY <1>3, <1>2 DEF Downward
  <2> QED BY <2>1, <2>2 DEF ConeOf, Fn
<1>4. ASSUME NEW k \in Parents(g, f) PROVE ConeOf(g, k) \subseteq ConeOf(g, f)
  <2>1. k \in ConeOf(g, f) /\ k \in Fn
    BY <1>1, <1>3, GraphFacts
  <2>2. Downward(g, ConeOf(g, f))
    BY <1>3 DEF Downward
  <2> QED BY <2>1, <2>2, <1>1, <1>2
<1> QED BY <1>1, <1>2, <1>3, <1>4

\* The equation Cone is defined by.
ConeEquation(C) ==
    C = [f \in Fn |-> {f} \cup UNION {C[Parent(v)] : v \in Ins(f) \ Leaves}]

\* The closed sets solve the equation.
LEMMA ConeSolves ==
    ASSUME g \in Graphs
    PROVE  ConeEquation([f \in Fn |-> ConeOf(g, f)])
<1> DEFINE C == [f \in Fn |-> ConeOf(g, f)]
<1>1. ASSUME NEW f \in Fn
      PROVE  C[f] = {f} \cup UNION {C[Parent(v)] : v \in Ins(f) \ Leaves}
  <2> DEFINE S == {f} \cup UNION {C[k] : k \in Parents(g, f)}
  <2>1. S = {f} \cup UNION {C[Parent(v)] : v \in Ins(f) \ Leaves}
    BY ParentFacts
  <2>2. Parents(g, f) \subseteq Fn
    BY GraphFacts
  <2>3. S \subseteq ConeOf(g, f)
    <3>1. f \in ConeOf(g, f) /\ \A k \in Parents(g, f) : ConeOf(g, k) \subseteq ConeOf(g, f)
      BY ConeOfFacts
    <3>2. \A k \in Parents(g, f) : C[k] = ConeOf(g, k)
      BY <2>2
    <3> HIDE DEF C
    <3> QED BY <3>1, <3>2
  <2>4. Downward(g, S)
    <3> SUFFICES ASSUME NEW k \in S, NEW p \in Parents(g, k) PROVE p \in S
      BY DEF Downward
    <3>1. CASE k = f
      BY <3>1, <2>2, ConeOfFacts
    <3>2. ASSUME NEW q \in Parents(g, f), k \in C[q] PROVE p \in S
      <4>1. q \in Fn /\ k \in ConeOf(g, q)
        BY <3>2, <2>2
      <4>2. p \in ConeOf(g, q)
        BY <4>1, ConeOfFacts
      <4> QED BY <4>1, <4>2, <3>2
    <3> QED BY <3>1, <3>2
  <2>5. S \in SUBSET Fn /\ f \in S
    BY <2>3, ConeOfFacts
  <2>6. ConeOf(g, f) \subseteq S
    BY <2>4, <2>5, ConeOfFacts
  <2> QED BY <2>1, <2>3, <2>6
<1> QED BY <1>1 DEF ConeEquation

\* The equation has one solution.
LEMMA ConeUnique ==
    ASSUME g \in Graphs, NEW C, NEW D, ConeEquation(C), ConeEquation(D)
    PROVE  C = D
<1> DEFINE A == {f \in Fn : C[f] # D[f]}
<1>1. SUFFICES A = {}
  BY DEF ConeEquation
<1>2. SUFFICES ASSUME A # {} PROVE FALSE
  OBVIOUS
<1>3. A \in SUBSET Nat
  BY GraphFacts
<1>4. PICK f \in A : \A k \in A : f <= k
  BY <1>2, <1>3, LeastNatural
<1>5. \A k \in Parents(g, f) : C[k] = D[k]
  <2> SUFFICES ASSUME NEW k \in Parents(g, f) PROVE k \notin A /\ k \in Fn
    OBVIOUS
  <2>1. k \in Fn /\ k < f /\ f \in Nat
    BY GraphFacts
  <2> QED BY <2>1, <1>4, <1>3
<1>6. \A v \in Ins(f) \ Leaves : C[Parent(v)] = D[Parent(v)]
  BY <1>5, ParentFacts
<1>7. {C[Parent(v)] : v \in Ins(f) \ Leaves} = {D[Parent(v)] : v \in Ins(f) \ Leaves}
  BY <1>6
<1>8. C[f] = D[f]
  BY <1>7 DEF ConeEquation
<1> QED BY <1>8

\* Cone is the least set that holds a function and the parents of its functions.
LEMMA ConeIs ==
    ASSUME g \in Graphs
    PROVE  \A f \in Fn : Cone[f] = ConeOf(g, f)
<1>1. Cone = CHOOSE C : ConeEquation(C)
  BY DEF Cone, ConeEquation
<1>2. ConeEquation(Cone)
  BY <1>1, ConeSolves
<1>3. Cone = [f \in Fn |-> ConeOf(g, f)]
  BY <1>2, ConeSolves, ConeUnique
<1> QED BY <1>3

(***************************************************************************)
(* Ranks.                                                                  *)
(***************************************************************************)
Rank == [f \in Fn |-> fn[f].rank]

\* The functions of S have run after their parents since these were connected, so their ranks are
\* those that visit_function_recursive counts.
Settled(r, h, S) ==
    \A f \in S :
        /\ Parents(r, f) \subseteq S
        /\ h[f] \in 1 .. f
        /\ h[f] = 1 + Max({0} \cup {h[k] : k \in Parents(r, f)})

\* A parent has a lower rank.
LEMMA ParentsLower ==
    ASSUME g \in Graphs, NEW h, NEW S \in SUBSET Fn, Settled(g, h, S), NEW f \in S, NEW k \in Parents(g, f)
    PROVE  k \in S /\ h[k] \in Nat /\ h[f] \in Nat /\ h[k] < h[f]
<1> DEFINE A == {0} \cup {h[p] : p \in Parents(g, f)}
<1>1. f \in Nat /\ \A p \in Parents(g, f) : p \in Fn /\ p < f /\ p \in Nat
  BY GraphFacts
<1>2. \A p \in Parents(g, f) : p \in S /\ h[p] \in 1 .. p
  BY DEF Settled
<1>3. A \in SUBSET Nat /\ A # {} /\ \A a \in A : a <= f
  BY <1>1, <1>2
<1>4. Max(A) \in A /\ Max(A) >= h[k]
  BY <1>1, <1>3, MaxIs
<1>5. h[f] = 1 + Max(A)
  BY DEF Settled
<1>6. Max(A) \in Nat /\ h[k] \in Nat /\ k \in S
  <2>1. Max(A) \in Nat
    <3> HIDE DEF A
    <3> QED BY <1>3, <1>4
  <2>2. k \in Nat /\ k \in S /\ h[k] \in 1 .. k
    BY <1>1, <1>2
  <2> QED BY <2>1, <2>2
<1> DEFINE m == Max(A)
<1> HIDE DEF m
<1>7. m \in Nat /\ m >= h[k] /\ h[f] = 1 + m
  BY <1>4, <1>5, <1>6 DEF m
<1> QED BY <1>6, <1>7

\* Whatever a function depends on has a lower rank.
LEMMA ConeLower ==
    ASSUME g \in Graphs, NEW h, NEW S \in SUBSET Fn, Settled(g, h, S), NEW f \in S, NEW k \in Cone[f]
    PROVE  k \in S /\ (k = f \/ (h[k] \in Nat /\ h[f] \in Nat /\ h[k] < h[f]))
<1> DEFINE T == {j \in S : j = f \/ (h[j] \in Nat /\ h[f] \in Nat /\ h[j] < h[f])}
<1>1. Downward(g, T)
  <2> SUFFICES ASSUME NEW j \in T, NEW p \in Parents(g, j) PROVE p \in T
    BY DEF Downward
  <2>1. p \in S /\ h[p] \in Nat /\ h[j] \in Nat /\ h[p] < h[j]
    BY ParentsLower
  <2> QED BY <2>1
<1>2. f \in Fn /\ T \in SUBSET Fn /\ f \in T
  OBVIOUS
<1> HIDE DEF T
<1>3. Cone[f] \subseteq T
  BY <1>1, <1>2, ConeOfFacts, ConeIs
<1> QED BY <1>3 DEF T

\* When a function runs after its parents it joins them, and ranks counted before stay.
LEMMA Settle ==
    ASSUME g \in Graphs, NEW h, NEW S \in SUBSET Fn, Settled(g, h, S), NEW f \in Fn,
           Parents(g, f) \subseteq S, NEW e,
           \A k \in Fn : e[k] = IF k = f THEN 1 + Max({0} \cup {h[p] : p \in Parents(g, f)}) ELSE h[k]
    PROVE  Settled(g, e, S \cup {f})
<1> DEFINE A == {0} \cup {h[p] : p \in Parents(g, f)}
<1>1. f \in Nat /\ \A p \in Parents(g, f) : p \in Fn /\ p < f /\ p \in Nat
  BY GraphFacts
<1>2. \A p \in Parents(g, f) : p \in S /\ h[p] \in 1 .. p
  BY DEF Settled
<1>3. A \in SUBSET Nat /\ A # {} /\ \A a \in A : a <= f - 1
  <2>1. f >= 1
    BY GraphFacts
  <2> QED BY <1>1, <1>2, <2>1
<1>4. Max(A) \in A
  <2>1. f - 1 \in Nat
    BY GraphFacts
  <2> HIDE DEF A
  <2> QED BY <1>3, <2>1, MaxIs
<1>5. e[f] = 1 + Max(A)
  OBVIOUS
<1>6. e[f] \in 1 .. f
  <2> DEFINE m == Max(A)
  <2>1. m \in Nat /\ m <= f - 1
    <3> HIDE DEF A
    <3> QED BY <1>3, <1>4
  <2>2. e[f] = 1 + m
    BY <1>5
  <2> HIDE DEF m
  <2> QED BY <1>1, <2>1, <2>2
<1>7. f \in S => h[f] = 1 + Max(A)
  BY DEF Settled
<1>8. \A k \in S : e[k] = h[k]
  BY <1>5, <1>7
<1>9. ASSUME NEW k \in S \cup {f}
      PROVE  /\ Parents(g, k) \subseteq S
             /\ e[k] \in 1 .. k
             /\ e[k] = 1 + Max({0} \cup {e[p] : p \in Parents(g, k)})
  <2>1. Parents(g, k) \subseteq S
    BY DEF Settled
  <2>2. {e[p] : p \in Parents(g, k)} = {h[p] : p \in Parents(g, k)}
    BY <2>1, <1>8
  <2>3. CASE k = f
    BY <2>1, <2>2, <2>3, <1>5, <1>6
  <2>4. CASE k # f
    BY <2>1, <2>2, <2>4, <1>8 DEF Settled
  <2> QED BY <2>3, <2>4
<1> QED BY <1>9 DEF Settled

(***************************************************************************)
(* The order in which backward opens functions: a fold over the inputs of  *)
(* the function it has run, so its recursion is solved step by step.       *)
(***************************************************************************)
Opened(f, ids, v) ==
    IF Parent(v) \in Below(f) \ Range(ids) /\ NeedGrad(v) THEN Append(ids, Parent(v)) ELSE ids

Opening(f, n, h) ==
    h = [T \in SUBSET (1 .. n) |-> IF T = {} THEN bwd.ids
                                   ELSE Opened(f, h[T \ {Max(T)}], In(f)[Max(T)])]

\* The recursion has a solution.
LEMMA OpeningExists ==
    ASSUME NEW f, NEW n \in Nat
    PROVE  \E h : Opening(f, n, h)
<1> DEFINE A == {m \in Nat : ~ \E h : Opening(f, m, h)}
<1>1. SUFFICES ASSUME A # {} PROVE FALSE
  OBVIOUS
<1>2. PICK m \in A : \A k \in A : m <= k
  BY <1>1, LeastNatural
<1>3. m # 0
  <2>1. Opening(f, 0, [T \in SUBSET (1 .. 0) |-> bwd.ids])
    <3>1. \A T \in SUBSET (1 .. 0) : T = {}
      OBVIOUS
    <3> QED BY <3>1 DEF Opening
  <2> QED BY <2>1
<1>4. m \in Nat /\ m - 1 \in Nat /\ m - 1 \notin A
  <2>1. m \in Nat /\ m - 1 \in Nat
    BY <1>3
  <2> HIDE DEF A
  <2> QED BY <2>1, <1>2
<1>5. PICK h : Opening(f, m - 1, h)
  BY <1>4
<1> DEFINE e == [T \in SUBSET (1 .. m) |-> IF T = {} THEN bwd.ids
                                           ELSE IF m \in T THEN Opened(f, h[T \ {m}], In(f)[m])
                                           ELSE h[T]]
<1>6. \A T \in SUBSET (1 .. (m - 1)) : T \in SUBSET (1 .. m) /\ m \notin T /\ e[T] = h[T]
  <2> SUFFICES ASSUME NEW T \in SUBSET (1 .. (m - 1))
               PROVE  T \in SUBSET (1 .. m) /\ m \notin T /\ e[T] = h[T]
    OBVIOUS
  <2>1. T \in SUBSET (1 .. m) /\ m \notin T
    BY <1>4
  <2>2. T = {} => h[T] = bwd.ids
    BY <1>5 DEF Opening
  <2> QED BY <2>1, <2>2
<1>7. ASSUME NEW T \in SUBSET (1 .. m), T # {}
      PROVE  e[T] = Opened(f, e[T \ {Max(T)}], In(f)[Max(T)])
  <2>1. Max(T) \in T /\ \A k \in T : Max(T) >= k
    <3>1. T \in SUBSET Nat /\ \A k \in T : k <= m
      BY <1>4
    <3> QED BY <1>4, <1>7, <3>1, MaxIs
  <2>2. CASE m \in T
    <3>1. Max(T) = m
      <4> DEFINE x == Max(T)
      <4>1. x \in T /\ x >= m
        BY <2>1, <2>2
      <4> HIDE DEF x
      <4>2. x \in 1 .. m
        BY <4>1
      <4>3. x = m
        BY <4>1, <4>2, <1>4
      <4> QED BY <4>3 DEF x
    <3>2. T \ {m} \in SUBSET (1 .. (m - 1))
      BY <1>4
    <3>3. e[T] = Opened(f, h[T \ {m}], In(f)[m])
      BY <2>2
    <3> HIDE DEF e
    <3> QED BY <3>1, <3>2, <3>3, <1>6
  <2>3. CASE m \notin T
    <3>1. T \in SUBSET (1 .. (m - 1)) /\ T \ {Max(T)} \in SUBSET (1 .. (m - 1))
      <4>1. \A k \in T : k \in 1 .. m /\ k # m
        BY <2>3
      <4>2. \A k \in T : k \in 1 .. (m - 1)
        BY <4>1, <1>4
      <4> QED BY <4>2
    <3>2. h[T] = Opened(f, h[T \ {Max(T)}], In(f)[Max(T)])
      BY <1>5, <1>7, <3>1 DEF Opening
    <3> HIDE DEF e
    <3> QED BY <3>1, <3>2, <1>6
  <2> QED BY <2>2, <2>3
<1>8. Opening(f, m, e)
  <2>1. e = [T \in SUBSET (1 .. m) |-> IF T = {} THEN bwd.ids
                                       ELSE Opened(f, e[T \ {Max(T)}], In(f)[Max(T)])]
    BY <1>7
  <2> HIDE DEF e
  <2> QED BY <2>1 DEF Opening
<1> QED BY <1>8

\* So a fold is its last step.
LEMMA KnownIs ==
    ASSUME NEW f, In(f) \in Seq(Ins(f))
    PROVE  \E h : Opening(f, Len(In(f)), h) /\ Known(f) = h[1 .. Len(In(f))]
<1> DEFINE n == Len(In(f))
<1>1. n \in Nat /\ DOMAIN In(f) = 1 .. n
  OBVIOUS
<1> DEFINE h == CHOOSE k : Opening(f, n, k)
<1>2. Opening(f, n, h)
  BY <1>1, OpeningExists
<1>3. Known(f) = h[1 .. n]
  BY <1>1 DEF Known, FoldLeft, MapThenFoldSet, Opening, Opened
<1> QED BY <1>2, <1>3

\* What is known stays known, and every function to visit next is.
LEMMA KnownHolds ==
    ASSUME g \in Graphs, NEW f \in Fn, bwd.ids \in Seq(Fn)
    PROVE  /\ Known(f) \in Seq(Fn)
           /\ Range(bwd.ids) \subseteq Range(Known(f))
           /\ Below(f) \subseteq Range(Known(f))
<1> DEFINE n == Len(In(f))
<1>1. In(f) \in Seq(Ins(f)) /\ n \in Nat /\ DOMAIN In(f) = 1 .. n
  BY GraphFacts
<1>2. PICK h : Opening(f, n, h) /\ Known(f) = h[1 .. n]
  BY <1>1, KnownIs
<1> DEFINE P(m) == /\ h[1 .. m] \in Seq(Fn)
                   /\ Range(bwd.ids) \subseteq Range(h[1 .. m])
                   /\ \A i \in 1 .. m : NeedGrad(In(f)[i]) /\ Parent(In(f)[i]) # 0
                                            => Parent(In(f)[i]) \in Range(h[1 .. m])
           A == {m \in 0 .. n : ~P(m)}
<1>3. A = {}
  <2> SUFFICES ASSUME A # {} PROVE FALSE
    OBVIOUS
  <2>1. A \in SUBSET Nat
    BY <1>1
  <2>2. PICK m \in A : \A k \in A : m <= k
    BY <2>1, LeastNatural
  <2>3. P(0)
    <3>1. h[{}] = bwd.ids /\ 1 .. 0 = {}
      BY <1>1, <1>2 DEF Opening
    <3> QED BY <3>1
  <2>4. m # 0 /\ m \in 1 .. n /\ m - 1 \in 0 .. n
    BY <2>3, <1>1
  <2>5. P(m - 1)
    <3>1. m - 1 \notin A
      <4> HIDE DEF A
      <4> QED BY <2>1, <2>2, <2>4
    <3> QED BY <2>4, <3>1
  <2>6. Max(1 .. m) = m
    <3>1. m \in Nat /\ m \in 1 .. m
      BY <2>4, <1>1
    <3> DEFINE T == 1 .. m
               x == Max(T)
    <3>2. T \in SUBSET Nat /\ T # {} /\ (\A k \in T : k <= m)
      <4>1. T # {}
        BY <3>1
      <4>2. \A k \in T : k \in Nat /\ k <= m
        BY <3>1
      <4> QED BY <4>1, <4>2
    <3>3. x \in T /\ \A k \in T : x >= k
      <4> HIDE DEF T
      <4> QED BY <3>1, <3>2, MaxIs
    <3> HIDE DEF x
    <3>4. x = m
      BY <3>1, <3>3
    <3> QED BY <3>4 DEF x
  <2> DEFINE s == h[1 .. (m - 1)]
             v == In(f)[m]
  <2>7. h[1 .. m] = Opened(f, s, v)
    <3>1. 1 .. m \in SUBSET (1 .. n) /\ 1 .. m # {} /\ (1 .. m) \ {m} = 1 .. (m - 1)
      BY <2>4, <1>1
    <3> QED BY <1>2, <2>6, <3>1 DEF Opening
  <2>8. Parent(v) = 0 \/ Parent(v) \in Fn
    BY ParentFacts
  <2>9. NeedGrad(v) /\ Parent(v) # 0 => Parent(v) \in Below(f)
    BY <2>4, <1>1 DEF Below, Needing
  <2> HIDE DEF P, A, n
  <2>10. s \in Seq(Fn) /\ Range(bwd.ids) \subseteq Range(s)
         /\ \A i \in 1 .. (m - 1) : NeedGrad(In(f)[i]) /\ Parent(In(f)[i]) # 0
                                        => Parent(In(f)[i]) \in Range(s)
    BY <2>5 DEF P
  <2>11. h[1 .. m] \in Seq(Fn) /\ Range(s) \subseteq Range(h[1 .. m])
         /\ (NeedGrad(v) /\ Parent(v) # 0 => Parent(v) \in Range(h[1 .. m]))
    <3> HIDE DEF s, v
    <3>1. CASE Parent(v) \in Below(f) \ Range(s) /\ NeedGrad(v)
      <4>1. h[1 .. m] = Append(s, Parent(v))
        BY <2>7, <3>1 DEF Opened
      <4>2. Parent(v) \in Fn
        BY <2>8, <3>1 DEF Below
      <4>3. Append(s, Parent(v)) \in Seq(Fn) /\ s \in Seq(Fn)
        BY <4>2, <2>10
      <4>4. Range(Append(s, Parent(v))) = Range(s) \cup {Parent(v)}
        <5> DEFINE t == Append(s, Parent(v))
        <5>1. t \in Seq(Fn) /\ DOMAIN t = 1 .. (Len(s) + 1) /\ Len(s) \in Nat
              /\ DOMAIN s = 1 .. Len(s) /\ t[Len(s) + 1] = Parent(v)
              /\ \A i \in 1 .. Len(s) : t[i] = s[i]
          BY <4>2, <2>10
        <5> HIDE DEF t
        <5>2. \A i \in DOMAIN t : t[i] \in Range(s) \cup {Parent(v)}
          BY <5>1 DEF Range
        <5>3. Parent(v) \in Range(t) /\ Range(s) \subseteq Range(t)
          BY <5>1 DEF Range
        <5>4. Range(t) = Range(s) \cup {Parent(v)}
          BY <5>2, <5>3 DEF Range
        <5> QED BY <5>4 DEF t
      <4> QED BY <4>1, <4>3, <4>4
    <3>2. CASE ~(Parent(v) \in Below(f) \ Range(s) /\ NeedGrad(v))
      <4>1. h[1 .. m] = s
        BY <2>7, <3>2 DEF Opened
      <4> QED BY <4>1, <3>2, <2>9, <2>10
    <3> QED BY <3>1, <3>2
  <2>12. ASSUME NEW i \in 1 .. m, NeedGrad(In(f)[i]), Parent(In(f)[i]) # 0
         PROVE  Parent(In(f)[i]) \in Range(h[1 .. m])
    <3>1. CASE i = m
      BY <3>1, <2>11, <2>12
    <3>2. CASE i \in 1 .. (m - 1)
      BY <3>2, <2>10, <2>11, <2>12
    <3>3. m \in Nat
      BY <2>1
    <3> QED BY <3>1, <3>2, <3>3
  <2>13. P(m)
    BY <2>10, <2>11, <2>12 DEF P
  <2> QED BY <2>2, <2>13 DEF A
<1>4. P(n)
  <2>1. n \in 0 .. n
    BY <1>1
  <2> HIDE DEF P, n
  <2> QED BY <2>1, <1>3
<1>5. Below(f) \subseteq Range(Known(f))
  <2> SUFFICES ASSUME NEW k \in Below(f) PROVE k \in Range(Known(f))
    OBVIOUS
  <2>1. PICK i \in 1 .. n : NeedGrad(In(f)[i]) /\ k = Parent(In(f)[i]) /\ k # 0
    BY <1>1 DEF Below, Needing
  <2> QED BY <1>2, <1>4, <2>1
<1> QED BY <1>2, <1>4, <1>5

(***************************************************************************)
(* The invariant.                                                          *)
(***************************************************************************)
\* The records and sequences the engine works with.
Types ==
    /\ g \in Graphs
    /\ Built \subseteq Fn
    /\ built \in Nat
    /\ DOMAIN fn = Fn
    /\ \A f \in Fn : DOMAIN fn[f] = {"rank", "need", "armed", "mask"}
    /\ \A v \in Var : DOMAIN va[v] = {"rank", "state", "refs", "prohibit"}
    /\ at \in {"idle", "forward", "backward"}
    /\ DOMAIN fwd = {"stack", "closed", "seen", "keep", "inplaced", "clear", "tidy", "again",
                     "roots", "wanted", "pinned"}
    /\ DOMAIN bwd = {"root", "clear", "initial", "open", "ids", "cur", "next", "seen", "keepdata",
                     "keepgrad", "bak", "done"}

\* Parent in graph r.
Source(r, v) ==
    IF \E f \in DOMAIN r.kind : v \in Range(r.outs[f])
    THEN CHOOSE f \in DOMAIN r.kind : v \in Range(r.outs[f]) ELSE 0

Computed(r, b) == {v \in UNION {Range(r.outs[f]) : f \in DOMAIN r.kind} : Source(r, v) \in 1 .. b}

OnStack(c) == {c.stack[i][1] : i \in DOMAIN c.stack}

\* In a forward c, the functions closed have run, but for those the recursion is in: these go down
\* along the inputs, and those of their parents that come before the next input are closed.
ForwardOK(r, b, c, S) ==
    /\ c.again = FALSE
    /\ c.roots \in Seq(Computed(r, b))
    /\ c.closed \subseteq 1 .. b
    /\ c.closed \ OnStack(c) \subseteq S
    /\ c.stack \in Seq((1 .. b) \X (Nat \ {0}))
    /\ \A i \in DOMAIN c.stack : c.stack[i][1] \in c.closed
    /\ \A i, j \in DOMAIN c.stack : i < j => c.stack[j][1] < c.stack[i][1]
    /\ \A i \in DOMAIN c.stack : \A n \in DOMAIN r.ins[c.stack[i][1]] :
          n < c.stack[i][2] => Source(r, r.ins[c.stack[i][1]][n]) \in c.closed \cup {0}

\* In a backward w nothing is executed anew, and the function picked is of the highest rank.
BackwardOK(r, c, w, h, S) ==
    /\ c.again = TRUE
    /\ w.open \subseteq S
    /\ w.cur # 0 => w.cur \in w.open /\ \A k \in w.open : h[k] <= h[w.cur]
    /\ w.ids \in Seq(DOMAIN r.kind)
    /\ w.open \subseteq Range(w.ids)

\* All there is to a state, given the functions that have run.
Good(S) ==
    /\ S \subseteq 1 .. built
    /\ Settled(g, Rank, S)
    /\ trained \subseteq S
    /\ at = "idle" => fwd.stack = <<>>
    /\ at = "forward" => ForwardOK(g, built, fwd, S)
    /\ at = "backward" => BackwardOK(g, fwd, bwd, Rank, S)

IInv == Types /\ (\E S \in SUBSET Fn : Good(S)) /\ ConsumersFirst

\* A program that has not begun.
LEMMA InitGood == Init => IInv
<1> SUFFICES ASSUME Init PROVE IInv
  OBVIOUS
<1>1. g \in Graphs /\ built = 0 /\ at = "idle" /\ trained = {} /\ fwd.stack = <<>>
  BY DEF Init, NoForward, Callback
<1>2. Built = {}
  BY <1>1 DEF Built
<1>3. Types
  BY <1>1, <1>2 DEF Init, Types, NoForward, Callback, NoBackward
<1>4. Good({})
  BY <1>1 DEF Good, Settled
<1> QED BY <1>1, <1>3, <1>4 DEF IInv, ConsumersFirst

\* The graph stays, and so does what depends on it.
LEMMA GraphStays ==
    ASSUME g' = g
    PROVE  Fn' = Fn /\ Var' = Var /\ (\A v : Parent(v)' = Parent(v)) /\ Cone' = Cone
<1>1. Fn' = Fn /\ Var' = Var /\ (\A v : Parent(v)' = Parent(v))
  BY DEF Fn, Var, Parent, Ins, In, Outs, Out
<1>2. Cone' = Cone
  BY DEF Cone, Fn, Parent, Outs, Out, Ins, In, Leaves, Var
<1> QED BY <1>1, <1>2

\* Source is Parent.
LEMMA SourceIs == \A v : Parent(v) = Source(g, v)
BY DEF Parent, Source, Fn, Outs, Out

\* Ranks that stay.
LEMMA SettledStays ==
    ASSUME NEW r, NEW h, NEW e, NEW S, Settled(r, h, S), \A f \in S : e[f] = h[f]
    PROVE  Settled(r, e, S)
<1> SUFFICES ASSUME NEW f \in S
             PROVE  /\ Parents(r, f) \subseteq S
                    /\ e[f] \in 1 .. f
                    /\ e[f] = 1 + Max({0} \cup {e[k] : k \in Parents(r, f)})
  BY DEF Settled
<1>1. Parents(r, f) \subseteq S
  BY DEF Settled
<1>2. {e[k] : k \in Parents(r, f)} = {h[k] : k \in Parents(r, f)}
  BY <1>1
<1> QED BY <1>1, <1>2 DEF Settled

(***************************************************************************)
(* The program's calls.                                                    *)
(***************************************************************************)
\* A function that is connected has not run.
LEMMA ConnectGood ==
    ASSUME IInv, Connect, ~g.auto
    PROVE  IInv'
<1>1. PICK S \in SUBSET Fn : Good(S)
  BY DEF IInv
<1>2. g' = g /\ at = "idle" /\ at' = "idle" /\ fwd' = fwd /\ bwd' = bwd /\ trained' = trained
      /\ built' = built + 1 /\ built + 1 \in Fn /\ Fn' = Fn
  BY GraphStays DEF Connect
<1>3. Types'
  <2>1. DOMAIN fn' = Fn /\ \A f \in Fn : DOMAIN fn'[f] = {"rank", "need", "armed", "mask"}
    BY DEF Connect, IInv, Types
  <2>2. Built' \subseteq Fn' /\ built' \in Nat
    BY <1>2 DEF IInv, Types, Built
  <2>3. Var' = Var /\ \A v \in Var : DOMAIN va'[v] = {"rank", "state", "refs", "prohibit"}
    BY <1>2, GraphStays DEF Connect, IInv, Types
  <2> QED BY <1>2, <2>1, <2>2, <2>3 DEF IInv, Types
<1>4. \A f \in S : Rank'[f] = Rank[f]
  <2> SUFFICES ASSUME NEW f \in S PROVE Rank'[f] = Rank[f]
    OBVIOUS
  <2>1. f # built + 1
    BY <1>1 DEF Good, IInv, Types
  <2> QED BY <1>2, <2>1 DEF Rank, Connect, IInv, Types
<1>5. Good(S)'
  <2>1. Settled(g', Rank', S)
    BY <1>1, <1>2, <1>4, SettledStays DEF Good
  <2>2. S \subseteq 1 .. built'
    BY <1>1, <1>2 DEF Good, IInv, Types
  <2> QED BY <1>1, <1>2, <2>1, <2>2 DEF Good
<1> QED BY <1>2, <1>3, <1>5 DEF IInv, ConsumersFirst

\* Calls that return at once forget at most what may be differentiated.
LEMMA SettersGood ==
    ASSUME IInv, UNCHANGED <<g, built, fn, va, at, fwd, bwd>>, at = "idle", trained' \subseteq trained
    PROVE  IInv'
<1>1. PICK S \in SUBSET Fn : Good(S)
  BY DEF IInv
<1>2. Types' /\ Fn' = Fn /\ Rank' = Rank
  BY GraphStays DEF IInv, Types, Built, Rank
<1>3. Good(S)'
  BY <1>1, <1>2 DEF Good
<1> QED BY <1>2, <1>3 DEF IInv, ConsumersFirst

\* A forward begins with nothing closed.
LEMMA StartForwardGood ==
    ASSUME IInv, NEW roots \in Seq(Computed(g, built)), NEW c, NEW t, NEW pinned,
           StartForward(roots, c, t, pinned)
    PROVE  IInv'
<1>1. PICK S \in SUBSET Fn : Good(S)
  BY DEF IInv
<1>2. UNCHANGED <<g, built, fn, va, bwd, trained>> /\ at' = "forward"
  BY DEF StartForward
<1>3. /\ DOMAIN fwd' = DOMAIN fwd
      /\ fwd'.stack = <<>> /\ fwd'.closed = {} /\ fwd'.again = FALSE /\ fwd'.roots = roots
  BY DEF StartForward, Callback, IInv, Types
<1>4. Types' /\ Fn' = Fn /\ Rank' = Rank
  BY <1>2, <1>3, GraphStays DEF IInv, Types, Built, Rank
<1>5. ForwardOK(g', built', fwd', S)
  BY <1>2, <1>3 DEF ForwardOK
<1>6. Good(S)'
  BY <1>1, <1>2, <1>4, <1>5 DEF Good
<1> QED BY <1>2, <1>4, <1>6 DEF IInv, ConsumersFirst

\* The two ways to begin one.
LEMMA ForwardGood ==
    ASSUME IInv, NEW r, NEW c, NEW t, Forward(r, c, t) \/ ForwardAll(c, t)
    PROVE  IInv'
<1>1. \A v : Parent(v) \in Built => v \in Computed(g, built)
  <2> SUFFICES ASSUME NEW v, Parent(v) \in Built PROVE v \in Computed(g, built)
    OBVIOUS
  <2>1. Parent(v) \in Fn /\ v \in Outs(Parent(v))
    BY ParentFacts, GraphFacts DEF IInv, Types
  <2> QED BY <2>1, SourceIs DEF Computed, Fn, Outs, Out, Built
<1>2. CASE Forward(r, c, t)
  <2>1. <<r>> \in Seq(Computed(g, built))
    BY <1>1, <1>2 DEF Forward
  <2> QED BY <1>2, <2>1, StartForwardGood DEF Forward
<1>3. CASE ForwardAll(c, t)
  <2>1. g.all \in Seq(Range(g.all)) /\ \A i \in DOMAIN g.all : g.all[i] \in Computed(g, built)
    BY <1>1, <1>3, GraphFacts DEF ForwardAll, IInv, Types
  <2>2. g.all \in Seq(Computed(g, built))
    BY <2>1
  <2> QED BY <1>3, <2>2, StartForwardGood DEF ForwardAll
<1> QED BY <1>2, <1>3

\* A sequence of one element.
LEMMA OneElement == ASSUME NEW T, NEW x \in T PROVE <<x>> \in Seq(T) /\ x \in Range(<<x>>)
<1>1. <<x>> \in Seq(T) /\ 1 \in DOMAIN <<x>> /\ <<x>>[1] = x
  OBVIOUS
<1> QED BY <1>1 DEF Range

\* A backward begins with one open function, all of whose cone has run.
LEMMA BackwardGood ==
    ASSUME IInv, NEW r, NEW c, NEW ci, Backward(r, c, ci)
    PROVE  IInv'
<1>1. PICK S \in SUBSET Fn : Good(S)
  BY DEF IInv
<1>2. UNCHANGED <<g, built, fn, va, trained>> /\ at' = "backward"
  BY DEF Backward
<1> DEFINE f == Parent(r)
<1>3. f \in Fn /\ Cone[f] \subseteq trained
  BY DEF Backward, IInv, Types
<1>4. f \in S
  <2>1. g \in Graphs /\ trained \subseteq S
    BY <1>1 DEF IInv, Types, Good
  <2> HIDE DEF f
  <2>2. f \in Cone[f]
    BY <1>3, <2>1, ConeIs, ConeOfFacts
  <2> QED BY <1>3, <2>1, <2>2
<1>5. /\ DOMAIN fwd' = DOMAIN fwd
      /\ fwd'.stack = <<>> /\ fwd'.closed = {} /\ fwd'.again = TRUE
  BY DEF Backward, Callback, IInv, Types
<1>6. /\ DOMAIN bwd' = DOMAIN bwd
      /\ bwd'.open = {f} /\ bwd'.ids = <<f>> /\ bwd'.cur = 0 /\ bwd'.done = {}
  BY DEF Backward, NoBackward, IInv, Types
<1>7. Types' /\ Fn' = Fn /\ Rank' = Rank
  BY <1>2, <1>5, <1>6, GraphStays DEF IInv, Types, Built, Rank
<1> HIDE DEF f
<1>8. BackwardOK(g', fwd', bwd', Rank', S)
  <2>1. <<f>> \in Seq(DOMAIN g.kind)
    <3>1. f \in DOMAIN g.kind
      BY <1>3 DEF Fn
    <3> QED BY <3>1, OneElement
  <2>2. f \in Range(<<f>>)
    BY <1>3, OneElement
  <2> QED BY <1>2, <1>4, <1>5, <1>6, <2>1, <2>2 DEF BackwardOK
<1>9. Good(S)'
  BY <1>1, <1>2, <1>7, <1>8 DEF Good
<1> QED BY <1>6, <1>7, <1>9 DEF IInv, ConsumersFirst

(***************************************************************************)
(* The recursion of a forward.                                             *)
(***************************************************************************)
\* A step of a forward that leaves the ranks alone.
LEMMA ForwardStays ==
    ASSUME IInv, UNCHANGED <<g, built, fn, va, at, bwd, trained>>, at = "forward", DOMAIN fwd' = DOMAIN fwd,
           \A S \in SUBSET Fn : ForwardOK(g, built, fwd, S) => ForwardOK(g, built, fwd', S)
    PROVE  IInv'
<1>1. PICK S \in SUBSET Fn : Good(S)
  BY DEF IInv
<1>2. Types' /\ Fn' = Fn /\ Rank' = Rank
  BY GraphStays DEF IInv, Types, Built, Rank
<1>3. Good(S)'
  BY <1>1, <1>2 DEF Good
<1> QED BY <1>2, <1>3 DEF IInv, ConsumersFirst

\* The recursion begins with the function that computes the next root.
LEMMA EnterRootGood ==
    ASSUME IInv, EnterRoot
    PROVE  IInv'
<1> DEFINE p == Parent(Head(fwd.roots))
<1>1. at = "forward" /\ UNCHANGED <<g, built, fn, va, at, bwd, trained>>
      /\ fwd.stack = <<>> /\ fwd.roots # <<>>
  BY DEF EnterRoot
<1>2. DOMAIN fwd' = DOMAIN fwd
  BY DEF EnterRoot, Callback, IInv, Types
<1>3. ASSUME NEW S \in SUBSET Fn, ForwardOK(g, built, fwd, S)
      PROVE  ForwardOK(g, built, fwd', S)
  <2>1. fwd.roots \in Seq(Computed(g, built)) /\ fwd.closed \subseteq 1 .. built
        /\ fwd.closed \ OnStack(fwd) \subseteq S /\ fwd.again = FALSE
    BY <1>3 DEF ForwardOK
  <2>2. Tail(fwd.roots) \in Seq(Computed(g, built)) /\ Head(fwd.roots) \in Computed(g, built)
    BY <1>1, <2>1
  <2>3. p \in 1 .. built
    BY <2>2, SourceIs DEF Computed
  <2>4. fwd.closed \subseteq S
    BY <1>1, <2>1 DEF OnStack
  <2>5. CASE p \in fwd.closed
    <3>1. fwd'.roots = Tail(fwd.roots) /\ fwd'.stack = fwd.stack /\ fwd'.closed = fwd.closed
          /\ fwd'.again = FALSE
      BY <2>1, <2>5 DEF EnterRoot, IInv, Types
    <3>2. OnStack(fwd') = OnStack(fwd)
      BY <3>1 DEF OnStack
    <3> QED BY <1>3, <2>2, <3>1, <3>2 DEF ForwardOK
  <2>6. CASE p \notin fwd.closed
    <3>1. fwd'.roots = Tail(fwd.roots) /\ fwd'.stack = <<<<p, 1>>>>
          /\ fwd'.closed = fwd.closed \cup {p} /\ fwd'.again = FALSE
      BY <2>6 DEF EnterRoot, Callback
    <3> HIDE DEF p
    <3>2. <<<<p, 1>>>> \in Seq((1 .. built) \X (Nat \ {0})) /\ DOMAIN <<<<p, 1>>>> = {1}
          /\ <<<<p, 1>>>>[1] = <<p, 1>>
      BY <2>3
    <3>3. OnStack(fwd') = {p}
      BY <3>1, <3>2 DEF OnStack
    <3>4. fwd'.stack \in Seq((1 .. built) \X (Nat \ {0})) /\ DOMAIN fwd'.stack = {1} /\ fwd'.stack[1] = <<p, 1>>
      BY <3>1, <3>2
    <3>5. \A n \in DOMAIN g.ins[p] : ~(n < 1)
      <4>1. In(p) \in Seq(Ins(p))
        BY <2>3, GraphFacts DEF IInv, Types, Built
      <4> QED BY <4>1 DEF In
    <3> QED BY <2>2, <2>3, <2>1, <2>4, <3>1, <3>3, <3>4, <3>5 DEF ForwardOK
  <2> QED BY <2>5, <2>6
<1> QED BY <1>1, <1>2, <1>3, ForwardStays

\* All of a sequence but its last element.
LEMMA FrontKeeps ==
    ASSUME NEW F, NEW q \in Seq(F), Len(q) # 0
    PROVE  /\ Front(q) \in Seq(F) /\ Len(Front(q)) = Len(q) - 1
           /\ \A j \in 1 .. (Len(q) - 1) : Front(q)[j] = q[j]
<1> DEFINE m == Len(q) - 1
<1>1. m \in Nat /\ \A j \in 1 .. m : q[j] \in F
  OBVIOUS
<1>2. Front(q) = SubSeq(q, 1, m)
  BY DEF Front
<1> HIDE DEF m
<1>3. /\ SubSeq(q, 1, m) \in Seq(F)
      /\ Len(SubSeq(q, 1, m)) = IF 1 <= m THEN m - 1 + 1 ELSE 0
      /\ \A j \in 1 .. m - 1 + 1 : SubSeq(q, 1, m)[j] = q[1 + j - 1]
  BY <1>1, SubSeqProperties
<1>4. Len(Front(q)) = m /\ \A j \in 1 .. m : Front(q)[j] = q[j]
  BY <1>1, <1>2, <1>3
<1> QED BY <1>2, <1>3, <1>4 DEF m

\* What is on top of the stack is the function with the lowest number there.
LEMMA TopFacts ==
    ASSUME IInv, at = "forward", NEW S \in SUBSET Fn, ForwardOK(g, built, fwd, S), fwd.stack # <<>>
    PROVE  /\ Len(fwd.stack) \in Nat \ {0} /\ DOMAIN fwd.stack = 1 .. Len(fwd.stack)
           /\ Top = fwd.stack[Len(fwd.stack)] /\ Top = <<Top[1], Top[2]>>
           /\ Top[1] \in fwd.closed /\ Top[1] \in 1 .. built /\ Top[1] \in Fn /\ Top[2] \in Nat \ {0}
           /\ \A k \in OnStack(fwd) : k \in Fn /\ (k = Top[1] \/ Top[1] < k)
           /\ In(Top[1]) \in Seq(Ins(Top[1]))
           /\ \A n \in DOMAIN In(Top[1]) : n < Top[2] => Parent(In(Top[1])[n]) \in fwd.closed \cup {0}
<1> DEFINE n == Len(fwd.stack)
<1>1. fwd.stack \in Seq((1 .. built) \X (Nat \ {0})) /\ n \in Nat \ {0} /\ DOMAIN fwd.stack = 1 .. n
  BY DEF ForwardOK
<1>2. Top = fwd.stack[n] /\ n \in DOMAIN fwd.stack
  BY <1>1 DEF Top, Last
<1>3. Top \in (1 .. built) \X (Nat \ {0})
  BY <1>1, <1>2
<1>4. Top[1] \in fwd.closed /\ Top[1] \in 1 .. built /\ Top[1] \in Fn /\ Top[2] \in Nat \ {0}
  BY <1>2, <1>3 DEF ForwardOK, IInv, Types, Built
<1>5. ASSUME NEW k \in OnStack(fwd) PROVE k \in Fn /\ (k = Top[1] \/ Top[1] < k)
  <2>1. PICK i \in DOMAIN fwd.stack : k = fwd.stack[i][1]
    BY DEF OnStack
  <2>2. k \in Fn
    BY <1>1, <2>1 DEF IInv, Types, Built
  <2>3. i = n \/ i < n
    BY <1>1
  <2>4. i < n => Top[1] < k
    BY <1>2, <2>1 DEF ForwardOK
  <2> QED BY <1>2, <2>1, <2>2, <2>3, <2>4
<1>6. In(Top[1]) \in Seq(Ins(Top[1]))
  BY <1>4, GraphFacts DEF IInv, Types
<1>7. \A m \in DOMAIN In(Top[1]) : m < Top[2] => Parent(In(Top[1])[m]) \in fwd.closed \cup {0}
  BY <1>2, SourceIs DEF ForwardOK, In
<1> QED BY <1>1, <1>2, <1>3, <1>4, <1>5, <1>6, <1>7

\* The recursion goes down to a function that is not closed.
LEMMA DescendGood ==
    ASSUME IInv, Descend
    PROVE  IInv'
<1> DEFINE f == Top[1]
           i == Min(Pending)
           p == Parent(In(f)[i])
<1>1. UNCHANGED <<g, built, fn, va, at, bwd, trained>> /\ fwd.stack # <<>> /\ Pending # {}
  BY DEF Descend
<1>2. /\ DOMAIN fwd' = DOMAIN fwd
      /\ fwd'.closed = fwd.closed \cup {p}
      /\ fwd'.stack = Append(Append(Front(fwd.stack), <<f, i + 1>>), <<p, 1>>)
      /\ fwd'.again = fwd.again /\ fwd'.roots = fwd.roots
  BY DEF Descend, IInv, Types
<1>3. CASE at = "backward"
  <2>1. PICK S \in SUBSET Fn : Good(S)
    BY DEF IInv
  <2>2. Types' /\ Fn' = Fn /\ Rank' = Rank
    BY <1>1, <1>2, GraphStays DEF IInv, Types, Built, Rank
  <2>3. Good(S)'
    BY <1>1, <1>2, <1>3, <2>1, <2>2 DEF Good, BackwardOK
  <2>4. ConsumersFirst'
    BY <1>1, GraphStays DEF IInv, ConsumersFirst
  <2> QED BY <2>2, <2>3, <2>4 DEF IInv
<1>4. CASE at = "forward"
  <2>1. ASSUME NEW S \in SUBSET Fn, ForwardOK(g, built, fwd, S)
        PROVE  ForwardOK(g, built, fwd', S)
    <3> DEFINE n == Len(fwd.stack)
    <3>1. n \in Nat \ {0} /\ DOMAIN fwd.stack = 1 .. n
          /\ f \in fwd.closed /\ f \in 1 .. built /\ f \in Fn /\ Top[2] \in Nat \ {0}
          /\ \A k \in OnStack(fwd) : k \in Fn /\ (k = f \/ f < k)
          /\ In(f) \in Seq(Ins(f))
          /\ \A m \in DOMAIN In(f) : m < Top[2] => Parent(In(f)[m]) \in fwd.closed \cup {0}
      BY <1>1, <1>4, <2>1, TopFacts
    <3>2. /\ fwd.again = FALSE /\ fwd.roots \in Seq(Computed(g, built)) /\ fwd.closed \subseteq 1 .. built
          /\ fwd.stack \in Seq((1 .. built) \X (Nat \ {0}))
      BY <2>1 DEF ForwardOK
    <3>a. \A m \in DOMAIN In(f) : m < Top[2] => Parent(In(f)[m]) \in fwd.closed \cup {0}
      BY <1>1, <1>4, <2>1, TopFacts
    <3>b. DOMAIN In(f) \subseteq Nat
      <4>1. In(f) \in Seq(Ins(f))
        BY <1>1, <1>4, <2>1, TopFacts
      <4> QED BY <4>1
    <3>3. Pending \in SUBSET Nat
      BY <3>1 DEF Pending
    <3>4. i \in Pending /\ \A k \in Pending : i <= k
      BY <1>1, <3>3, MinIs
    <3>5. i \in Nat /\ i \in DOMAIN In(f) /\ i >= Top[2] /\ p # 0 /\ p \notin fwd.closed
      <4>1. i \in Top[2] .. Len(In(f)) /\ Descends(In(f)[i])
        BY <3>4 DEF Pending
      <4>2. Len(In(f)) \in Nat /\ DOMAIN In(f) = 1 .. Len(In(f)) /\ Top[2] \in Nat \ {0}
        BY <3>1
      <4>3. p # 0 /\ p \notin fwd.closed
        BY <4>1 DEF Descends
      <4> HIDE DEF f, i, p
      <4> QED BY <4>1, <4>2, <4>3
    <3>6. \A m \in DOMAIN In(f) : m < i => Parent(In(f)[m]) \in fwd.closed \cup {0}
      <4> SUFFICES ASSUME NEW m \in DOMAIN In(f), m < i
                   PROVE  Parent(In(f)[m]) \in fwd.closed \cup {0}
        OBVIOUS
      <4>1. m \notin Pending /\ m \in Nat
        BY <3>1, <3>4, <3>5
      <4> HIDE DEF i, p
      <4>2. CASE m < Top[2]
        BY <3>a, <4>2
      <4>3. CASE m >= Top[2]
        <5>1. m \in Top[2] .. Len(In(f)) /\ In(Top[1]) = In(f)
          BY <3>1, <4>1, <4>3
        <5>2. ~Descends(In(f)[m])
          BY <4>1, <5>1 DEF Pending
        <5> QED BY <3>2, <5>2 DEF Descends
      <4> QED BY <3>1, <4>1, <4>2, <4>3
    <3>7. p \in Fn /\ p < f /\ p \in 1 .. built
      <4>1. In(f)[i] \in Ins(f)
        BY <3>5 DEF Ins, Range
      <4>2. p \in Parents(g, f)
        BY <3>1, <3>5, <4>1, ParentFacts DEF IInv, Types
      <4>3. p \in Nat /\ p # 0 /\ p < f /\ p \in Fn
        BY <3>1, <4>2, GraphFacts DEF IInv, Types
      <4> QED BY <3>1, <4>3 DEF IInv, Types
    <3> HIDE DEF f, i, p, n
    <3> DEFINE s == fwd.stack
               t == fwd'.stack
    <3>8. /\ t \in Seq((1 .. built) \X (Nat \ {0})) /\ DOMAIN t = 1 .. (n + 1)
          /\ t[n + 1] = <<p, 1>> /\ t[n] = <<f, i + 1>>
          /\ \A j \in 1 .. (n - 1) : t[j] = s[j]
      <4> DEFINE u == Append(Front(s), <<f, i + 1>>)
      <4>1. Front(s) \in Seq((1 .. built) \X (Nat \ {0})) /\ Len(Front(s)) = n - 1
            /\ \A j \in 1 .. (n - 1) : Front(s)[j] = s[j]
        <5> DEFINE Frames == (1 .. built) \X (Nat \ {0})
        <5>1. s \in Seq(Frames) /\ Len(s) = n /\ Len(s) # 0
          BY <3>1, <3>2
        <5> HIDE DEF s, Frames
        <5>2. /\ Front(s) \in Seq(Frames) /\ Len(Front(s)) = Len(s) - 1
              /\ \A j \in 1 .. (Len(s) - 1) : Front(s)[j] = s[j]
          BY <5>1, FrontKeeps
        <5> QED BY <5>1, <5>2 DEF Frames
      <4>2. <<f, i + 1>> \in (1 .. built) \X (Nat \ {0}) /\ <<p, 1>> \in (1 .. built) \X (Nat \ {0})
        BY <3>1, <3>5, <3>7
      <4>3. u \in Seq((1 .. built) \X (Nat \ {0})) /\ Len(u) = n /\ u[n] = <<f, i + 1>>
            /\ \A j \in 1 .. (n - 1) : u[j] = s[j]
        BY <4>1, <4>2, <3>1
      <4> HIDE DEF u
      <4>4. t = Append(u, <<p, 1>>)
        BY <1>2 DEF u
      <4> QED BY <4>2, <4>3, <4>4, <3>1
    <3>9. s[n][1] = f /\ n \in DOMAIN s
      BY <3>1 DEF f, n, Top, Last
    <3> HIDE DEF s, t
    <3>10. \A j \in DOMAIN s : s[j][1] \in OnStack(fwd)
      BY DEF OnStack, s
    <3>11. \A j \in 1 .. n : t[j][1] = s[j][1]
      <4> SUFFICES ASSUME NEW j \in 1 .. n PROVE t[j][1] = s[j][1]
        OBVIOUS
      <4>1. CASE j = n
        BY <3>8, <3>9, <4>1
      <4>2. CASE j \in 1 .. (n - 1)
        BY <3>8, <4>2
      <4> QED BY <3>1, <4>1, <4>2
    <3>12. OnStack(fwd) \subseteq OnStack(fwd')
      <4> SUFFICES ASSUME NEW j \in 1 .. n PROVE s[j][1] \in OnStack(fwd')
        BY <3>1 DEF OnStack, s
      <4>1. j \in DOMAIN t /\ t[j][1] = s[j][1]
        BY <3>1, <3>8, <3>11
      <4> QED BY <4>1 DEF OnStack, t
    <3>13. p \in OnStack(fwd')
      <4>1. n + 1 \in DOMAIN t /\ t[n + 1][1] = p
        BY <3>1, <3>8
      <4> QED BY <4>1 DEF OnStack, t
    <3>14. fwd'.closed \ OnStack(fwd') \subseteq S
      <4>1. fwd.closed \ OnStack(fwd) \subseteq S
        BY <2>1 DEF ForwardOK
      <4> QED BY <1>2, <3>12, <3>13, <4>1
    <3>15. ASSUME NEW j \in DOMAIN t PROVE t[j][1] \in fwd'.closed
      <4>1. CASE j = n + 1
        BY <1>2, <3>8, <4>1
      <4>2. CASE j \in 1 .. n
        <5>1. s[j][1] \in fwd.closed
          BY <2>1, <3>1, <4>2 DEF ForwardOK, s
        <5> QED BY <1>2, <3>11, <4>2, <5>1
      <4> QED BY <3>1, <3>8, <4>1, <4>2
    <3>16. ASSUME NEW j \in DOMAIN t, NEW k \in DOMAIN t, j < k PROVE t[k][1] < t[j][1]
      <4>1. j \in 1 .. n
        BY <3>1, <3>8, <3>16
      <4>2. CASE k = n + 1
        <5>1. t[j][1] = s[j][1] /\ s[j][1] \in OnStack(fwd)
          BY <4>1, <3>1, <3>10, <3>11 DEF s
        <5>2. t[j][1] \in Nat /\ (t[j][1] = f \/ f < t[j][1])
          BY <5>1, <3>1, GraphFacts DEF IInv, Types
        <5>3. t[k][1] = p /\ p \in Nat /\ f \in Nat
          BY <4>2, <3>1, <3>7, <3>8
        <5> QED BY <3>7, <5>2, <5>3
      <4>3. CASE k \in 1 .. n
        <5>1. s[k][1] < s[j][1]
          BY <2>1, <3>1, <3>16, <4>1, <4>3 DEF ForwardOK, s
        <5> QED BY <3>11, <4>1, <4>3, <5>1
      <4> QED BY <3>1, <3>8, <4>2, <4>3
    <3>17. ASSUME NEW j \in DOMAIN t, NEW m \in DOMAIN g.ins[t[j][1]], m < t[j][2]
           PROVE  Source(g, g.ins[t[j][1]][m]) \in fwd'.closed \cup {0}
      <4>1. CASE j = n + 1
        <5>1. t[j] = <<p, 1>>
          BY <3>8, <4>1
        <5>2. In(p) \in Seq(Ins(p))
          BY <3>7, GraphFacts DEF IInv, Types
        <5> QED BY <3>17, <5>1, <5>2 DEF In
      <4>2. CASE j = n
        <5>1. t[j] = <<f, i + 1>>
          BY <3>8, <4>2
        <5>2. m \in DOMAIN In(f) /\ m < i + 1 /\ m \in Nat
          <6>1. m \in DOMAIN In(f) /\ m < i + 1
            BY <3>17, <5>1 DEF In
          <6> QED BY <6>1, <3>b
        <5>3. CASE m = i
          BY <5>1, <5>3, <1>2, SourceIs DEF In, p
        <5>4. CASE m < i
          BY <5>1, <5>2, <5>4, <3>6, <1>2, SourceIs DEF In
        <5> QED BY <3>5, <5>2, <5>3, <5>4
      <4>3. CASE j \in 1 .. (n - 1)
        <5>1. t[j] = s[j] /\ j \in DOMAIN s
          <6>1. j \in 1 .. n
            BY <3>1, <4>3
          <6> QED BY <3>1, <3>8, <4>3, <6>1 DEF s
        <5>2. Source(g, g.ins[s[j][1]][m]) \in fwd.closed \cup {0}
          BY <2>1, <3>17, <5>1 DEF ForwardOK, s
        <5> QED BY <1>2, <5>1, <5>2
      <4>4. j = n + 1 \/ j = n \/ j \in 1 .. (n - 1)
        <5>1. j \in 1 .. (n + 1) /\ n \in Nat
          BY <3>1, <3>8
        <5> QED BY <5>1
      <4> QED BY <4>1, <4>2, <4>3, <4>4
    <3>18. fwd'.closed \subseteq 1 .. built
      BY <1>2, <3>2, <3>7
    <3> QED BY <1>2, <3>2, <3>8, <3>14, <3>15, <3>16, <3>17, <3>18 DEF ForwardOK, t
  <2> QED BY <1>1, <1>2, <1>4, <2>1, ForwardStays
<1>5. at # "idle"
  BY <1>1 DEF IInv, Good
<1> QED BY <1>3, <1>4, <1>5 DEF IInv, Types

\* Outputs of visit_function_recursive: the function on top has run, and the recursion goes on.
LEMMA ReturnedFacts ==
    ASSUME NEW f, NEW needs, Types
    PROVE  /\ DOMAIN Returned(f, needs) = DOMAIN fwd
           /\ Returned(f, needs).stack = Front(fwd.stack)
           /\ Returned(f, needs).closed = fwd.closed
           /\ Returned(f, needs).roots = fwd.roots
           /\ Returned(f, needs).again = fwd.again
BY DEF Returned, Types

\* A function that runs has run after its parents.
LEMMA ExecuteGood ==
    ASSUME IInv, Execute
    PROVE  IInv'
<1>0. PICK f : f = Top[1]
  OBVIOUS
<1>1. UNCHANGED <<g, built, at, bwd, trained>> /\ fwd.stack # <<>> /\ Pending = {} /\ ~fwd.again
  BY DEF Execute
<1>2. PICK S \in SUBSET Fn : Good(S)
  BY DEF IInv
<1>3. at = "forward" /\ ForwardOK(g, built, fwd, S)
  BY <1>1, <1>2 DEF Good, BackwardOK, IInv, Types
<1>4. /\ f \in 1 .. built /\ f \in Fn /\ Top[2] \in Nat \ {0}
      /\ \A k \in OnStack(fwd) : k \in Fn /\ (k = f \/ f < k)
  BY <1>0, <1>1, <1>3, TopFacts
<1>5. \A m \in DOMAIN In(f) : m < Top[2] => Parent(In(f)[m]) \in fwd.closed \cup {0}
  BY <1>0, <1>1, <1>3, TopFacts
<1>6. Len(In(f)) \in Nat /\ DOMAIN In(f) = 1 .. Len(In(f))
  <2>1. In(f) \in Seq(Ins(f))
    BY <1>0, <1>1, <1>3, TopFacts
  <2> QED BY <2>1
<1>7. PICK n \in Nat \ {0} : /\ n = Len(fwd.stack) /\ DOMAIN fwd.stack = 1 .. n
                            /\ fwd.stack[n][1] = f
  BY <1>0, <1>1, <1>3, TopFacts
\* All parents have run.
<1>8. Parents(g, f) \subseteq S
  <2> SUFFICES ASSUME NEW k \in Parents(g, f) PROVE k \in S
    OBVIOUS
  <2>1. k \in Fn /\ k < f /\ k # 0
    BY <1>4, GraphFacts DEF IInv, Types
  <2>2. PICK m \in DOMAIN In(f) : k = Parent(In(f)[m])
    BY <1>4, ParentFacts DEF IInv, Types, Ins, Range
  <2>3. k \in fwd.closed
    <3>1. CASE m < Top[2]
      BY <1>5, <2>1, <2>2, <3>1
    <3>2. CASE m >= Top[2]
      <4>1. m \in Top[2] .. Len(In(f))
        BY <1>4, <1>6, <3>2
      <4>2. ~Descends(In(f)[m])
        BY <1>0, <1>1, <4>1 DEF Pending
      <4> QED BY <1>1, <2>1, <2>2, <4>2 DEF Descends
    <3> QED BY <1>4, <1>6, <3>1, <3>2
  <2>4. k \notin OnStack(fwd)
    <3>1. k \in Nat /\ f \in Nat
      BY <1>4, <2>1, GraphFacts DEF IInv, Types
    <3> QED BY <1>4, <2>1, <3>1
  <2> QED BY <1>3, <2>3, <2>4 DEF ForwardOK
\* So its rank is one more than theirs.
<1>9. \A k \in Fn : Rank'[k] = IF k = f THEN 1 + Max({0} \cup {Rank[p] : p \in Parents(g, f)})
                               ELSE Rank[k]
  <2> DEFINE A == {0} \cup {Rank[p] : p \in Parents(g, f)}
             B == {0} \cup {Visited(v).rank : v \in Ins(f)}
  <2>1. ASSUME NEW v \in Ins(f)
        PROVE  Visited(v).rank = IF Parent(v) = 0 THEN 0 ELSE Rank[Parent(v)]
    <3>1. Parent(v) = 0 \/ Parent(v) \in Fn
      BY ParentFacts DEF IInv, Types
    <3>2. "rank" \in DOMAIN va[v]
      BY <1>4, GraphFacts DEF IInv, Types
    <3> QED BY <3>1, <3>2 DEF Visited, Rank
  <2>2. B = A
    BY <2>1, <1>4, ParentFacts DEF IInv, Types
  <2>3. fn'[f].rank = 1 + Max(B) /\ \A k \in Fn : k # f => fn'[k] = fn[k]
    BY <1>0, <1>4 DEF Execute, IInv, Types
  <2>4. Fn' = Fn
    BY <1>1, GraphStays
  <2> HIDE DEF A, B
  <2> QED BY <2>2, <2>3, <2>4 DEF Rank, A
<1>10. Settled(g, Rank', S \cup {f})
  <2>1. Settled(g, Rank, S)
    BY <1>2 DEF Good
  <2> QED BY <1>4, <1>8, <1>9, <2>1, Settle DEF IInv, Types
\* The recursion is back where it came from.
<1>11. /\ DOMAIN fwd' = DOMAIN fwd /\ fwd'.closed = fwd.closed /\ fwd'.stack = Front(fwd.stack)
       /\ fwd'.again = fwd.again /\ fwd'.roots = fwd.roots
  BY <1>0, ReturnedFacts DEF Execute, IInv
<1>12. Types'
  <2>1. DOMAIN fn' = Fn /\ \A k \in Fn : DOMAIN fn'[k] = {"rank", "need", "armed", "mask"}
    BY <1>0, <1>4 DEF Execute, IInv, Types
  <2>2. DOMAIN va' = Var /\ \A v \in Var : DOMAIN va'[v] = DOMAIN va[v]
    BY DEF Execute, Visited
  <2> QED BY <1>1, <1>11, <2>1, <2>2, GraphStays DEF IInv, Types, Built
<1>13. ForwardOK(g, built, fwd', S \cup {f})
  <2> DEFINE s == fwd.stack
             t == fwd'.stack
  <2>1. s \in Seq((1 .. built) \X (Nat \ {0}))
    BY <1>3 DEF ForwardOK
  <2>2. /\ t \in Seq((1 .. built) \X (Nat \ {0})) /\ DOMAIN t = 1 .. (n - 1)
        /\ \A j \in 1 .. (n - 1) : t[j] = s[j]
    <3>1. /\ Front(s) \in Seq((1 .. built) \X (Nat \ {0})) /\ Len(Front(s)) = n - 1
          /\ \A j \in 1 .. (n - 1) : Front(s)[j] = s[j]
      <4> HIDE DEF s
      <4>1. n = Len(s)
        BY <1>7 DEF s
      <4> QED BY <2>1, <4>1 DEF Front
    <3>2. t = Front(s)
      BY <1>11
    <3> HIDE DEF s, t
    <3> QED BY <3>1, <3>2
  <2>3. \A j \in DOMAIN t : j \in DOMAIN s /\ t[j] = s[j]
    <3>1. DOMAIN s = 1 .. n
      BY <1>7
    <3> HIDE DEF s, t
    <3> QED BY <2>2, <3>1
  <2>4. OnStack(fwd) \subseteq OnStack(fwd') \cup {f}
    <3> SUFFICES ASSUME NEW j \in 1 .. n PROVE s[j][1] \in OnStack(fwd') \cup {f}
      BY <1>7 DEF OnStack
    <3>1. CASE j = n
      BY <1>7, <3>1
    <3>2. CASE j \in 1 .. (n - 1)
      <4>1. j \in DOMAIN t /\ t[j][1] = s[j][1]
        BY <2>2, <3>2
      <4> QED BY <4>1 DEF OnStack
    <3> QED BY <3>1, <3>2
  <2>5. fwd'.closed \ OnStack(fwd') \subseteq S \cup {f}
    <3>1. fwd.closed \ OnStack(fwd) \subseteq S
      BY <1>3 DEF ForwardOK
    <3> QED BY <1>11, <2>4, <3>1
  <2> HIDE DEF s, t
  <2>6. \A j \in DOMAIN t : t[j][1] \in fwd'.closed
    BY <1>3, <1>11, <2>3 DEF ForwardOK, s
  <2>7. \A j, k \in DOMAIN t : j < k => t[k][1] < t[j][1]
    BY <1>3, <2>3 DEF ForwardOK, s
  <2>8. \A j \in DOMAIN t : \A m \in DOMAIN g.ins[t[j][1]] :
           m < t[j][2] => Source(g, g.ins[t[j][1]][m]) \in fwd'.closed \cup {0}
    BY <1>3, <1>11, <2>3 DEF ForwardOK, s
  <2>9. fwd'.again = FALSE /\ fwd'.roots \in Seq(Computed(g, built)) /\ fwd'.closed \subseteq 1 .. built
    BY <1>3, <1>11 DEF ForwardOK
  <2> QED BY <2>2, <2>5, <2>6, <2>7, <2>8, <2>9 DEF ForwardOK, t
<1>14. Good(S \cup {f})'
  <2>1. S \cup {f} \subseteq 1 .. built /\ trained \subseteq S \cup {f}
    BY <1>2, <1>4 DEF Good
  <2> QED BY <1>1, <1>3, <1>10, <1>13, <2>1 DEF Good
<1>15. S \cup {f} \in SUBSET Fn'
  BY <1>1, <1>4, GraphStays
<1> QED BY <1>1, <1>3, <1>12, <1>14, <1>15 DEF IInv, ConsumersFirst

\* A forward that ends has run what it closed.
LEMMA EndForwardGood ==
    ASSUME IInv, EndForward
    PROVE  IInv'
<1>1. PICK S \in SUBSET Fn : Good(S)
  BY DEF IInv
<1>2. UNCHANGED <<g, built, fn, va, bwd>> /\ at = "forward" /\ at' = "idle" /\ fwd.stack = <<>>
      /\ fwd' = NoForward
  BY DEF EndForward
<1>3. DOMAIN fwd' = DOMAIN fwd /\ fwd'.stack = <<>>
  BY <1>2 DEF NoForward, Callback, IInv, Types
<1>4. Types' /\ Fn' = Fn /\ Rank' = Rank
  BY <1>2, <1>3, GraphStays DEF IInv, Types, Built, Rank
<1>5. fwd.closed \subseteq S
  BY <1>1, <1>2 DEF Good, ForwardOK, OnStack
<1>6. trained' \subseteq S
  BY <1>1, <1>5 DEF EndForward, Good
<1>7. Good(S)'
  BY <1>1, <1>2, <1>3, <1>4, <1>6 DEF Good
<1> QED BY <1>2, <1>4, <1>7 DEF IInv, ConsumersFirst

(***************************************************************************)
(* The loop of a backward.                                                 *)
(***************************************************************************)
\* A step of a backward that leaves the ranks and what is open alone.
LEMMA BackwardStays ==
    ASSUME IInv, UNCHANGED <<g, built, va, at, trained>>, at = "backward", Fn' = Fn,
           DOMAIN fn' = DOMAIN fn,
           \A f \in Fn : DOMAIN fn'[f] = DOMAIN fn[f] /\ fn'[f].rank = fn[f].rank,
           DOMAIN fwd' = DOMAIN fwd, DOMAIN bwd' = DOMAIN bwd, fwd'.again = fwd.again,
           bwd'.open = bwd.open, bwd'.done = bwd.done, bwd'.ids = bwd.ids, bwd'.cur = bwd.cur
    PROVE  IInv'
<1>1. PICK S \in SUBSET Fn : Good(S)
  BY DEF IInv
<1>2. Types'
  BY GraphStays DEF IInv, Types, Built
<1>3. Rank' = Rank
  BY DEF Rank
<1>4. Good(S)'
  BY <1>1, <1>3 DEF Good, BackwardOK
<1>5. ConsumersFirst'
  BY GraphStays DEF IInv, ConsumersFirst
<1> QED BY <1>2, <1>4, <1>5 DEF IInv

\* A function that is run again keeps its rank.
LEMMA RecomputeGood ==
    ASSUME IInv, Recompute \/ StartRecompute
    PROVE  IInv'
<1>1. PICK S \in SUBSET Fn : Good(S)
  BY DEF IInv
<1>2. UNCHANGED <<g, built, va, at, trained>> /\ Fn' = Fn
  BY GraphStays DEF Recompute, StartRecompute
<1>3. CASE Recompute
  <2>1. at = "backward"
    BY <1>1, <1>3 DEF Recompute, IInv, Types, Good, ForwardOK
  <2>2. /\ DOMAIN fn' = DOMAIN fn
        /\ \A f \in Fn : DOMAIN fn'[f] = DOMAIN fn[f] /\ fn'[f].rank = fn[f].rank
    BY <1>3 DEF Recompute, IInv, Types
  <2>3. DOMAIN fwd' = DOMAIN fwd /\ fwd'.again = fwd.again /\ bwd' = bwd
    BY <1>3, ReturnedFacts DEF Recompute, IInv
  <2> QED BY <1>2, <2>1, <2>2, <2>3, BackwardStays
<1>4. CASE StartRecompute
  <2>1. at = "backward" /\ fn' = fn
    BY <1>4 DEF StartRecompute, Working
  <2>2. DOMAIN fwd' = DOMAIN fwd /\ fwd'.again = fwd.again
    BY <1>4 DEF StartRecompute, IInv, Types
  <2>3. /\ DOMAIN bwd' = DOMAIN bwd /\ bwd'.open = bwd.open /\ bwd'.done = bwd.done
        /\ bwd'.ids = bwd.ids /\ bwd'.cur = bwd.cur
    BY <1>4 DEF StartRecompute, IInv, Types
  <2> QED BY <1>2, <2>1, <2>2, <2>3, BackwardStays
<1> QED BY <1>3, <1>4

\* A backward that returns, or is left by an exception.
LEMMA LeaveGood ==
    ASSUME IInv, RecomputeFails \/ EndBackward
    PROVE  IInv'
<1>1. PICK S \in SUBSET Fn : Good(S)
  BY DEF IInv
<1>2. UNCHANGED <<g, built, fn, va>> /\ at' = "idle" /\ trained' \subseteq trained
      /\ fwd' = NoForward /\ bwd' = NoBackward
  BY DEF RecomputeFails, EndBackward
<1>3. DOMAIN fwd' = DOMAIN fwd /\ DOMAIN bwd' = DOMAIN bwd /\ fwd'.stack = <<>>
  BY <1>2 DEF NoForward, Callback, NoBackward, IInv, Types
<1>4. Types' /\ Fn' = Fn /\ Rank' = Rank
  BY <1>2, <1>3, GraphStays DEF IInv, Types, Built, Rank
<1>5. Good(S)'
  BY <1>1, <1>2, <1>3, <1>4 DEF Good
<1> QED BY <1>2, <1>4, <1>5 DEF IInv, ConsumersFirst

\* Of the open functions there is one to take first.
LEMMA FirstIs ==
    ASSUME IInv, at = "backward", bwd.open # {}
    PROVE  First \in bwd.open /\ \A k \in bwd.open : Rank[k] <= Rank[First]
<1>1. PICK S \in SUBSET Fn : Good(S)
  BY DEF IInv
<1>2. bwd.open \subseteq S /\ bwd.ids \in Seq(Fn) /\ bwd.open \subseteq Range(bwd.ids)
  BY <1>1 DEF Good, BackwardOK, Fn
<1>3. PICK n \in Nat : Fn = 1 .. n
  BY GraphFacts DEF IInv, Types
<1>4. \A f \in bwd.open : f \in Fn /\ fn[f].rank = Rank[f] /\ Rank[f] \in Nat /\ Rank[f] <= n
  <2> SUFFICES ASSUME NEW f \in bwd.open
               PROVE  f \in Fn /\ fn[f].rank = Rank[f] /\ Rank[f] \in Nat /\ Rank[f] <= n
    OBVIOUS
  <2>1. f \in S /\ f \in 1 .. n /\ Rank[f] \in 1 .. f
    BY <1>1, <1>2, <1>3 DEF Good, Settled
  <2> QED BY <1>3, <2>1 DEF Rank
<1> DEFINE A == {Rank[f] : f \in bwd.open}
           m == Max(A)
           T == {f \in bwd.open : Rank[f] = m}
<1>5. m \in A /\ \A k \in A : m >= k
  <2>1. A \in SUBSET Nat /\ A # {} /\ \A k \in A : k <= n
    BY <1>4
  <2> HIDE DEF A
  <2> QED BY <1>3, <2>1, MaxIs
<1>6. \A f \in bwd.open : Id(f) \in Nat
  <2> SUFFICES ASSUME NEW f \in bwd.open PROVE Id(f) \in Nat
    OBVIOUS
  <2>1. \E i \in DOMAIN bwd.ids : bwd.ids[i] = f
    BY <1>2 DEF Range
  <2>2. Id(f) \in DOMAIN bwd.ids
    BY <2>1 DEF Id
  <2> QED BY <1>2, <2>2
<1> DEFINE I == {Id(f) : f \in T}
<1>7. PICK f \in T : \A k \in T : Id(f) <= Id(k)
  <2>1. I \in SUBSET Nat /\ I # {}
    BY <1>5, <1>6
  <2>2. PICK i \in I : \A j \in I : i <= j
    <3> HIDE DEF I
    <3> QED BY <2>1, LeastNatural
  <2> QED BY <2>2
<1>8. \A k \in bwd.open : Rank[f] >= Rank[k] /\ Rank[f] \in Nat /\ Rank[k] \in Nat
  BY <1>4, <1>5, <1>7
<1>9. ASSUME NEW k \in bwd.open PROVE Before(f, k)
  <2>1. f \in bwd.open /\ fn[f].rank = Rank[f] /\ fn[k].rank = Rank[k]
    BY <1>4
  <2>2. CASE Rank[k] = Rank[f]
    <3>1. k \in T
      BY <2>2
    <3> QED BY <1>7, <2>1, <2>2, <3>1 DEF Before
  <2>3. CASE Rank[k] # Rank[f]
    BY <1>8, <2>1, <2>3 DEF Before
  <2> QED BY <2>2, <2>3
<1>10. First \in bwd.open /\ \A k \in bwd.open : Before(First, k)
  BY <1>9 DEF First
<1>11. ASSUME NEW k \in bwd.open PROVE Rank[k] <= Rank[First]
  <2>1. fn[k].rank = Rank[k] /\ fn[First].rank = Rank[First] /\ Rank[k] \in Nat /\ Rank[First] \in Nat
    BY <1>4, <1>10
  <2>2. Rank[First] > Rank[k] \/ Rank[First] = Rank[k]
    BY <1>10, <2>1 DEF Before
  <2> QED BY <2>1, <2>2
<1> QED BY <1>10, <1>11

\* Taking the next function.
LEMMA PickGood ==
    ASSUME IInv, Pick
    PROVE  IInv'
<1>1. PICK S \in SUBSET Fn : Good(S)
  BY DEF IInv
<1>2. UNCHANGED <<g, built, fn, va, at, trained>> /\ at = "backward" /\ bwd.cur = 0 /\ bwd.open # {}
  BY DEF Pick
<1>3. BackwardOK(g, fwd, bwd, Rank, S)
  BY <1>1, <1>2 DEF Good
<1>4. Fn' = Fn /\ Rank' = Rank /\ Cone' = Cone
  BY <1>2, GraphStays DEF Rank
<1>5. /\ DOMAIN fwd' = DOMAIN fwd /\ DOMAIN bwd' = DOMAIN bwd /\ fwd'.again = fwd.again
      /\ bwd'.open \subseteq bwd.open /\ bwd'.done = bwd.done /\ bwd'.ids = bwd.ids
      /\ bwd'.cur = 0 \/ (bwd'.cur = First /\ bwd'.open = bwd.open)
  <2>1. CASE fn[First].need
    <3>1. bwd' = [bwd EXCEPT !.cur = First, !.next = 1] /\ fwd' = [fwd EXCEPT !.closed = {}]
      BY <2>1 DEF Pick
    <3> QED BY <3>1 DEF IInv, Types
  <2>2. CASE ~fn[First].need
    <3>1. bwd' = [bwd EXCEPT !.open = @ \ {First}] /\ fwd' = fwd
      BY <2>2 DEF Pick, PassOver
    <3> QED BY <1>2, <3>1 DEF IInv, Types
  <2> QED BY <2>1, <2>2
<1>6. bwd'.cur # 0 => bwd'.cur \in bwd'.open /\ \A k \in bwd'.open : Rank[k] <= Rank[bwd'.cur]
  BY <1>2, <1>5, FirstIs
<1>7. BackwardOK(g', fwd', bwd', Rank', S)
  BY <1>2, <1>3, <1>4, <1>5, <1>6 DEF BackwardOK
<1>8. Types'
  BY <1>2, <1>5, GraphStays DEF IInv, Types, Built
<1>9. Good(S)'
  BY <1>1, <1>2, <1>4, <1>7 DEF Good
<1>10. ConsumersFirst'
  BY <1>2, <1>4, <1>5 DEF IInv, ConsumersFirst
<1> QED BY <1>4, <1>8, <1>9, <1>10 DEF IInv

\* Running it opens parents of it, which are no part of what is done, and depend on nothing that is.
LEMMA RunBackwardGood ==
    ASSUME IInv, RunBackward
    PROVE  IInv'
<1>0. PICK f : f = bwd.cur
  OBVIOUS
<1>1. PICK S \in SUBSET Fn : Good(S)
  BY DEF IInv
<1>2. UNCHANGED <<g, built, va, at, fwd, trained>> /\ at = "backward" /\ f # 0
  BY <1>0 DEF RunBackward, Working
<1>3. BackwardOK(g, fwd, bwd, Rank, S) /\ Settled(g, Rank, S)
  BY <1>1, <1>2 DEF Good
<1>4. f \in bwd.open /\ f \in S /\ f \in Fn /\ \A k \in bwd.open : Rank[k] <= Rank[f]
  BY <1>0, <1>2, <1>3 DEF BackwardOK
<1>5. Fn' = Fn /\ Cone' = Cone
  BY <1>2, GraphStays
<1>6. /\ DOMAIN bwd' = DOMAIN bwd /\ bwd'.cur = 0 /\ bwd'.done = bwd.done \cup {f}
      /\ bwd'.open = (bwd.open \ {f}) \cup Below(f) /\ bwd'.ids = Known(f)
  BY <1>0 DEF RunBackward, IInv, Types
<1>7. /\ DOMAIN fn' = DOMAIN fn
      /\ \A k \in Fn : DOMAIN fn'[k] = DOMAIN fn[k] /\ fn'[k].rank = fn[k].rank
  BY <1>0 DEF RunBackward, IInv, Types
<1>8. Rank' = Rank
  BY <1>5, <1>7 DEF Rank
<1>9. Below(f) \subseteq Parents(g, f)
  <2> SUFFICES ASSUME NEW k \in Below(f) PROVE k \in Parents(g, f)
    OBVIOUS
  <2>1. PICK i \in DOMAIN In(f) : k = Parent(In(f)[i]) /\ k # 0
    BY DEF Below, Needing
  <2>2. In(f)[i] \in Ins(f)
    BY DEF Ins, Range
  <2> QED BY <1>4, <2>1, <2>2, ParentFacts DEF IInv, Types
<1>10. Below(f) \subseteq S
  BY <1>3, <1>4, <1>9 DEF Settled
<1>11. BackwardOK(g', fwd', bwd', Rank', S)
  <2>1. bwd.ids \in Seq(Fn) /\ bwd.open \subseteq Range(bwd.ids) /\ bwd.open \subseteq S
        /\ fwd.again = TRUE
    BY <1>3 DEF BackwardOK, Fn
  <2>2. /\ Known(f) \in Seq(Fn)
        /\ Range(bwd.ids) \subseteq Range(Known(f))
        /\ Below(f) \subseteq Range(Known(f))
    BY <1>4, <2>1, KnownHolds DEF IInv, Types
  <2> QED BY <1>2, <1>6, <1>10, <2>1, <2>2 DEF BackwardOK, Fn
<1>12. Types'
  BY <1>2, <1>5, <1>6, <1>7, GraphStays DEF IInv, Types, Built
<1>13. Good(S)'
  BY <1>1, <1>2, <1>8, <1>11 DEF Good
<1>14. ASSUME NEW d \in bwd'.done, NEW k \in bwd'.open PROVE d \notin Cone[k]
  <2>1. CASE k \in Below(f) /\ d # f
    <3>1. Cone[k] \subseteq Cone[f]
      <4>1. k \in Fn
        BY <1>10, <2>1
      <4> QED BY <1>4, <1>9, <2>1, <4>1, ConeIs, ConeOfFacts DEF IInv, Types
    <3>2. d \notin Cone[f]
      BY <1>2, <1>4, <1>6, <1>14, <2>1 DEF IInv, ConsumersFirst
    <3> QED BY <3>1, <3>2
  <2>2. CASE k \in bwd.open \ {f} /\ d # f
    BY <1>2, <1>6, <1>14, <2>2 DEF IInv, ConsumersFirst
  <2>3. CASE k \in bwd.open \ {f} /\ d = f
    <3>1. k \in S /\ Rank[k] <= Rank[f] /\ k # f
      BY <1>3, <1>4, <2>3 DEF BackwardOK
    <3> SUFFICES ASSUME f \in Cone[k] PROVE FALSE
      BY <2>3
    <3>2. Rank[f] \in Nat /\ Rank[k] \in Nat /\ Rank[f] < Rank[k]
      BY <1>3, <3>1, ConeLower DEF IInv, Types
    <3> QED BY <3>1, <3>2
  <2>4. CASE k \in Below(f) /\ d = f
    <3>1. k \in S /\ Rank[k] \in Nat /\ Rank[f] \in Nat /\ Rank[k] < Rank[f]
      BY <1>3, <1>4, <1>9, <2>4, ParentsLower DEF IInv, Types
    <3> SUFFICES ASSUME f \in Cone[k] PROVE FALSE
      BY <2>4
    <3>2. f = k \/ Rank[f] < Rank[k]
      BY <1>3, <3>1, ConeLower DEF IInv, Types
    <3> QED BY <3>1, <3>2
  <2> QED BY <1>6, <2>1, <2>2, <2>3, <2>4
<1>15. ConsumersFirst'
  BY <1>5, <1>14 DEF ConsumersFirst
<1> QED BY <1>5, <1>12, <1>13, <1>15 DEF IInv

(***************************************************************************)
(* All steps.                                                              *)
(***************************************************************************)
\* A step of the program or of the engine keeps the invariant.
LEMMA NextGood ==
    ASSUME \A r \in Graphs : ~r.auto, IInv, [Next]_vars
    PROVE  IInv'
<1>1. ASSUME UNCHANGED vars PROVE IInv'
  <2>1. UNCHANGED <<g, built, fn, va, at, fwd, bwd, trained>>
    BY <1>1 DEF vars
  <2>2. Types' /\ Fn' = Fn /\ Rank' = Rank /\ Cone' = Cone
    BY <2>1, GraphStays DEF IInv, Types, Built, Rank
  <2>3. \A S \in SUBSET Fn : Good(S) => Good(S)'
    BY <2>1, <2>2 DEF Good
  <2> QED BY <2>1, <2>2, <2>3 DEF IInv, ConsumersFirst
<1>2. ASSUME Program PROVE IInv'
  <2>1. ASSUME Connect PROVE IInv'
    <3>1. ~g.auto
      BY DEF IInv, Types
    <3> QED BY <2>1, <3>1, ConnectGood
  <2>2. ASSUME NEW r \in g.roots, NEW c \in BOOLEAN, NEW t \in BOOLEAN, Forward(r, c, t)
        PROVE  IInv'
    BY <2>2, ForwardGood
  <2>3. ASSUME NEW c \in BOOLEAN, NEW t \in BOOLEAN, ForwardAll(c, t) PROVE IInv'
    BY <2>3, ForwardGood
  <2>4. ASSUME NEW r \in g.roots, NEW c \in BOOLEAN, NEW ci \in BOOLEAN, Backward(r, c, ci)
        PROVE  IInv'
    BY <2>4, BackwardGood
  <2>5. ASSUME NEW v \in g.switch, NEW b \in {"true", "false"}, SetNeedGrad(v, b) PROVE IInv'
    <3>1. UNCHANGED <<g, built, fn, va, at, fwd, bwd>> /\ at = "idle" /\ trained' \subseteq trained
      BY <2>5 DEF SetNeedGrad, Call
    <3> QED BY <3>1, SettersGood
  <2>6. ASSUME ZeroGrad PROVE IInv'
    <3>1. UNCHANGED <<g, built, fn, va, at, fwd, bwd>> /\ at = "idle" /\ trained' \subseteq trained
      BY <2>6 DEF ZeroGrad, Call
    <3> QED BY <3>1, SettersGood
  <2> QED BY <1>2, <2>1, <2>2, <2>3, <2>4, <2>5, <2>6 DEF Program
<1>3. ASSUME Engine PROVE IInv'
  BY <1>3, EnterRootGood, DescendGood, ExecuteGood, EndForwardGood, PickGood, RecomputeGood,
     LeaveGood, RunBackwardGood DEF Engine
<1> QED BY <1>1, <1>2, <1>3 DEF Next

\* In a graph built without auto-forward the loop of visit_function_backward runs every function
\* once, after all that depend on its outputs, whatever was connected, forwarded, recomputed and
\* switched on or off before.
THEOREM ConsumersHold == (\A r \in Graphs : ~r.auto) => (Spec => []ConsumersFirst)
<1> SUFFICES ASSUME \A r \in Graphs : ~r.auto PROVE Spec => []ConsumersFirst
  OBVIOUS
<1>1. Init => IInv
  BY InitGood
<1>2. IInv /\ [Next]_vars => IInv'
  BY NextGood
<1>3. IInv => ConsumersFirst
  BY DEF IInv
<1> QED BY <1>1, <1>2, <1>3, PTL DEF Spec

-----------------------------------------------------------------------------
(***************************************************************************)
(* Arrays that are shared.                                                 *)
(***************************************************************************)
\* Variables, and where they come from.
LEMMA VarFacts ==
    ASSUME g \in Graphs
    PROVE  /\ \A f \in Fn : Ins(f) \subseteq Var /\ Outs(f) \subseteq Var
           /\ \A v : Parent(v) # 0 => v \in Var /\ v \notin Leaves
           /\ \A v \in Var : v \in Leaves <=> Parent(v) = 0
           /\ \A v : Parent(v) \in Nat
           /\ \A f \in Fn : \A v \in Ins(f) : Parent(v) < f
           /\ \A f \in Fn : \A i \in DOMAIN In(f) : In(f)[i] \in Ins(f)
           /\ \A f \in Fn : \A v \in Ins(f) : \E i \in DOMAIN In(f) : In(f)[i] = v
<1>1. \A f \in Fn : Ins(f) \subseteq Var /\ Outs(f) \subseteq Var
  BY DEF Var
<1>2. \A v : Parent(v) # 0 => v \in Var /\ v \notin Leaves
  BY <1>1, ParentFacts DEF Leaves
<1>3. \A v \in Var : v \in Leaves <=> Parent(v) = 0
  BY DEF Leaves
<1>4. \A v : Parent(v) \in Nat
  BY ParentFacts, GraphFacts
<1>5. ASSUME NEW f \in Fn, NEW v \in Ins(f) PROVE Parent(v) < f
  <2>1. CASE Parent(v) = 0
    <3>1. f \in Nat /\ f # 0
      BY GraphFacts
    <3> QED BY <2>1, <3>1
  <2>2. CASE Parent(v) # 0
    <3>1. Parent(v) \in Parents(g, f)
      BY <2>2, ParentFacts
    <3> QED BY <3>1, GraphFacts
  <2> QED BY <2>1, <2>2
<1>6. \A f \in Fn : \A i \in DOMAIN In(f) : In(f)[i] \in Ins(f)
  BY DEF Ins, Range
<1>7. \A f \in Fn : \A v \in Ins(f) : \E i \in DOMAIN In(f) : In(f)[i] = v
  BY DEF Ins, Range
<1> QED BY <1>1, <1>2, <1>3, <1>4, <1>5, <1>6, <1>7

\* A function in place has one input and one output.
LEMMA ViewFacts ==
    ASSUME g \in Graphs, NEW f \in Fn, Inplace(f) # {}
    PROVE  /\ Inplace(f) = {<<1, 1>>} /\ DOMAIN In(f) = {1} /\ DOMAIN Out(f) = {1}
           /\ Ins(f) = {In(f)[1]} /\ Outs(f) = {Out(f)[1]}
<1>1. Inplace(f) = {<<1, 1>>} /\ Len(In(f)) = 1 /\ Len(Out(f)) = 1
  BY InplaceAssumption DEF Inplace, In, Out, Fn
<1>2. In(f) \in Seq(Ins(f)) /\ Out(f) \in Seq(Outs(f))
  BY GraphFacts
<1>3. DOMAIN In(f) = {1} /\ DOMAIN Out(f) = {1}
  <2>1. DOMAIN In(f) = 1 .. 1 /\ DOMAIN Out(f) = 1 .. 1
    BY <1>1, <1>2
  <2> QED BY <2>1
<1> QED BY <1>1, <1>3 DEF Ins, Outs, Range

\* v shares the array of its base.
Viewed(v) == Parent(v) # 0 /\ Inplace(Parent(v)) # {}
Base(v) == In(Parent(v))[1]

\* The right-hand side of the definition of ArrayOf.
Under(A, v) ==
    LET f    == Parent(v)
        over == IF f = 0 THEN {} ELSE {d \in Inplace(f) : Out(f)[d[2]] = v}
    IN  IF over = {} THEN v ELSE A[In(f)[(CHOOSE d \in over : TRUE)[1]]]

\* The base is computed before what shares its array.
LEMMA BaseFacts ==
    ASSUME g \in Graphs, NEW v, Viewed(v)
    PROVE  /\ Parent(v) \in Fn /\ Base(v) \in Var /\ Base(v) \in Ins(Parent(v))
           /\ Parent(Base(v)) < Parent(v) /\ v = Out(Parent(v))[1] /\ v \in Var
<1>1. Parent(v) \in Fn /\ v \in Outs(Parent(v))
  BY ParentFacts DEF Viewed
<1>2. Base(v) \in Ins(Parent(v)) /\ v = Out(Parent(v))[1]
  BY <1>1, ViewFacts DEF Viewed, Base
<1> QED BY <1>1, <1>2, VarFacts

\* What the definition says of a variable.
LEMMA UnderIs ==
    ASSUME g \in Graphs, NEW A, NEW v
    PROVE  Under(A, v) = IF Viewed(v) THEN A[Base(v)] ELSE v
<1>1. CASE Parent(v) = 0
  BY <1>1 DEF Under, Viewed
<1>2. CASE Parent(v) # 0 /\ Inplace(Parent(v)) = {}
  BY <1>2 DEF Under, Viewed
<1>3. CASE Viewed(v)
  <2> DEFINE over == {d \in Inplace(Parent(v)) : Out(Parent(v))[d[2]] = v}
  <2>1. over = {<<1, 1>>}
    BY <1>3, BaseFacts, ViewFacts DEF Viewed
  <2>2. (CHOOSE d \in over : TRUE) = <<1, 1>>
    BY <2>1
  <2>3. over # {} /\ (CHOOSE d \in over : TRUE)[1] = 1
    BY <2>1, <2>2
  <2>4. Under(A, v) = IF over = {} THEN v ELSE A[In(Parent(v))[(CHOOSE d \in over : TRUE)[1]]]
    BY <1>3 DEF Under, Viewed
  <2> HIDE DEF over
  <2> QED BY <1>3, <2>3, <2>4 DEF Base
<1> QED BY <1>1, <1>2, <1>3 DEF Viewed

\* A solution, variable by variable in the order in which they are computed.
LEMMA ArrayExists ==
    ASSUME g \in Graphs
    PROVE  \E A : A = [v \in Var |-> Under(A, v)]
<1> DEFINE G == {n \in Nat : \E A : \A v \in Var : Parent(v) <= n => A[v] = Under(A, v)}
<1>1. 0 \in G
  <2> DEFINE A == [v \in Var |-> v]
  <2>1. \A v \in Var : Parent(v) <= 0 => A[v] = Under(A, v)
    <3> SUFFICES ASSUME NEW v \in Var, Parent(v) <= 0 PROVE A[v] = Under(A, v)
      OBVIOUS
    <3>1. ~Viewed(v)
      BY VarFacts DEF Viewed
    <3> QED BY <3>1, UnderIs
  <2> HIDE DEF A
  <2> QED BY <2>1
<1>2. ASSUME NEW n \in G PROVE n + 1 \in G
  <2>1. PICK A : \A v \in Var : Parent(v) <= n => A[v] = Under(A, v)
    OBVIOUS
  <2> DEFINE B == [v \in Var |-> IF Parent(v) = n + 1 THEN Under(A, v) ELSE A[v]]
  <2>2. ASSUME NEW v \in Var, Parent(v) <= n + 1 PROVE B[v] = Under(B, v)
    <3>1. Parent(v) \in Nat /\ n \in Nat
      BY VarFacts
    <3>2. B[v] = Under(A, v)
      BY <2>1, <2>2, <3>1
    <3>3. ASSUME Viewed(v) PROVE B[Base(v)] = A[Base(v)]
      <4>1. Base(v) \in Var /\ Parent(Base(v)) < Parent(v) /\ Parent(Base(v)) \in Nat
        BY <3>3, BaseFacts, VarFacts
      <4>2. Parent(Base(v)) # n + 1
        BY <2>2, <3>1, <4>1
      <4> QED BY <4>1, <4>2
    <3> HIDE DEF B
    <3> QED BY <3>2, <3>3, UnderIs
  <2> HIDE DEF B
  <2>3. \E C : \A v \in Var : Parent(v) <= n + 1 => C[v] = Under(C, v)
    BY <2>2
  <2> QED BY <2>3
<1>3. Nat \subseteq G
  <2> HIDE DEF G
  <2> QED BY <1>1, <1>2, SetByNumbers
<1>4. PICK n \in Nat : Fn = 1 .. n
  BY GraphFacts
<1>5. PICK A : \A v \in Var : Parent(v) <= n => A[v] = Under(A, v)
  BY <1>3
<1> DEFINE B == [v \in Var |-> A[v]]
<1>6. ASSUME NEW v \in Var PROVE B[v] = Under(B, v)
  <2>1. Parent(v) <= n
    <3>1. Parent(v) = 0 \/ Parent(v) \in 1 .. n
      BY <1>4, ParentFacts
    <3> QED BY <3>1
  <2>2. B[v] = Under(A, v)
    BY <1>5, <2>1
  <2>3. Viewed(v) => B[Base(v)] = A[Base(v)]
    BY BaseFacts
  <2> HIDE DEF B
  <2> QED BY <2>2, <2>3, UnderIs
<1>7. B = [v \in Var |-> Under(B, v)]
  <2>1. DOMAIN B = Var /\ B = [v \in Var |-> B[v]]
    OBVIOUS
  <2> HIDE DEF B
  <2> QED BY <1>6, <2>1
<1> QED BY <1>7

\* The array of a variable is its own or that of its base.
LEMMA ArrayIs ==
    ASSUME g \in Graphs
    PROVE  \A v \in Var : ArrayOf[v] = IF Viewed(v) THEN ArrayOf[Base(v)] ELSE v
<1>1. ArrayOf = CHOOSE A : A = [v \in Var |-> Under(A, v)]
  BY DEF ArrayOf, Under
<1>2. ArrayOf = [v \in Var |-> Under(ArrayOf, v)]
  BY <1>1, ArrayExists
<1>3. \A v \in Var : ArrayOf[v] = Under(ArrayOf, v)
  BY <1>2
<1> QED BY <1>3, UnderIs

\* An array that is not the variable's own is that of an input some function is in place with,
\* which has been computed no later.
LEMMA Borrowed ==
    ASSUME g \in Graphs, NEW w \in Var
    PROVE  /\ ArrayOf[w] \in Var
           /\ ArrayOf[w] # w =>
                \E k \in Fn : k <= Parent(w) /\ Inplace(k) # {} /\ In(k)[1] = ArrayOf[w]
<1> DEFINE Q(u) == /\ ArrayOf[u] \in Var
                   /\ ArrayOf[u] # u =>
                        \E k \in Fn : k <= Parent(u) /\ Inplace(k) # {} /\ In(k)[1] = ArrayOf[u]
           A == {n \in Nat : \E u \in Var : Parent(u) = n /\ ~Q(u)}
<1>1. SUFFICES ASSUME A # {} PROVE FALSE
  BY VarFacts
<1>2. PICK n \in A : \A k \in A : n <= k
  BY <1>1, LeastNatural
<1>3. PICK u \in Var : Parent(u) = n /\ ~Q(u)
  OBVIOUS
<1>4. Viewed(u) /\ ArrayOf[u] = ArrayOf[Base(u)]
  <2>1. ~Viewed(u) => Q(u)
    BY ArrayIs
  <2> QED BY <1>3, <2>1, ArrayIs
<1>5. Base(u) \in Var /\ Parent(Base(u)) < n /\ Parent(Base(u)) \in Nat /\ n \in Nat
      /\ n \in Fn /\ Fn \subseteq Nat
  BY <1>3, <1>4, BaseFacts, VarFacts, GraphFacts
<1>6. Q(Base(u))
  <2>1. Parent(Base(u)) \notin A
    BY <1>2, <1>5
  <2> QED BY <1>5, <2>1
<1>7. CASE ArrayOf[u] = Base(u)
  <2>1. n \in Fn /\ n <= Parent(u) /\ Inplace(n) # {} /\ In(n)[1] = ArrayOf[u]
    BY <1>3, <1>4, <1>5, <1>7 DEF Viewed, Base
  <2> QED BY <1>3, <1>6, <1>4, <2>1
<1>8. CASE ArrayOf[u] # Base(u)
  <2>1. PICK k \in Fn : k <= Parent(Base(u)) /\ Inplace(k) # {} /\ In(k)[1] = ArrayOf[u]
    BY <1>4, <1>6, <1>8
  <2>2. k <= Parent(u)
    BY <1>3, <1>5, <2>1
  <2> QED BY <1>3, <1>4, <1>6, <2>1, <2>2
<1> QED BY <1>7, <1>8

-----------------------------------------------------------------------------
(***************************************************************************)
(* What forward clears.                                                    *)
(***************************************************************************)
\* The places where functions of S have v as an input.
SlotsIn(v, f) == {<<f, i>> : i \in {j \in DOMAIN In(f) : In(f)[j] = v}}
Slots(v, S) == UNION {SlotsIn(v, k) : k \in S}

\* The engine counts references right, and it protects the variables that share the array
\* of a leaf, so that no leaf is ever cleared.
Referred ==
    /\ \A v \in Var : IsFiniteSet(Slots(v, Built)) /\ va[v].refs = Cardinality(Slots(v, Built))
    /\ \A v \in Leaves : data[v] = "live" /\ va[v].rank = 0
    /\ \A v \in Var : Parent(v) \in Built /\ ArrayOf[v] \in Leaves => va[v].prohibit
    /\ \A v \in Var : va[v].prohibit => Shared(v)

\* A variable the program waits for, or that a function of S reads, made S execute k.
Caused(k, S) == \E v \in Outs(k) : v \in fwd.wanted \/ \E c \in S : v \in Ins(c)

\* The count of the visits of v by the functions M of a callback.
Turn(v, M) ==
    LET n == Cardinality(Slots(v, M)) IN IF n = va[v].refs THEN 0 ELSE n

\* A forward that has executed the functions M in the callback of this root, and the functions O in
\* those of earlier roots.
Executed(M, O) ==
    /\ M \cup O = fwd.closed \ OnStack(fwd) /\ M \cap O = {}
    /\ \A k \in M \cup O : Parents(g, k) \subseteq M \cup O
    /\ \A k \in O : Caused(k, O)
    /\ \A k \in fwd.closed : Caused(k, fwd.closed)

Asked ==
    /\ IsFiniteSet(fwd.wanted)
    /\ \A w \in fwd.wanted : Parent(w) \in Built
                             /\ (w \in Range(fwd.roots) \/ Parent(w) \in fwd.closed)
    /\ Range(fwd.roots) \subseteq fwd.wanted
    /\ fwd.pinned = fwd.wanted
       \/ \E r : fwd.wanted = {r} /\ \A k \in fwd.closed : k <= Parent(r)
    /\ fwd.closed # {} => \E w \in fwd.wanted : Parent(w) \in fwd.closed

\* What its callback remembers.
Noted(M) ==
    /\ \A v \in Var : va[v].refs > 1 => fwd.seen[v] = Turn(v, M)
    /\ \A k \in M : Inplace(k) # {} => Ins(k) \cup Outs(k) \subseteq fwd.inplaced
    /\ \A v \in fwd.inplaced : Shared(v)

\* What is still needed is there, and with clear_buffer what is not has gone.
Results(D) ==
    \A v \in Var : Parent(v) \in D =>
        Live(v) \/ (v \notin fwd.wanted /\ Consumers(v) \cap Built \subseteq D)

Gone(M) ==
    fwd.clear => \A v \in Var \ Leaves :
        LET users == Consumers(v) \cap Built IN
        users # {} /\ users \subseteq M /\ ~Persistent(v) /\ ~Shared(v)
            /\ (\A f \in users : ~Shields(f)) => Cleared(v)

Run(M, O) ==
    /\ Executed(M, O) /\ Asked /\ Noted(M) /\ Results(M \cup O) /\ Gone(M)
    /\ (\E r : fwd.wanted = {r}) => O = {}

\* In a backward the recursion is in functions that are connected.
Recalled ==
    at = "backward" => fwd.stack \in Seq((1 .. built) \X (Nat \ {0})) /\ bwd.next \in Nat \ {0}

KeptInv ==
    /\ IInv /\ Referred /\ Recalled
    /\ at = "forward" => \E M, O \in SUBSET Fn : Run(M, O)

-----------------------------------------------------------------------------
(* Visits.                                                                  *)

\* The inputs of one function.
LEMMA SlotsOne ==
    ASSUME g \in Graphs, NEW f \in Fn, NEW v
    PROVE  /\ IsFiniteSet(SlotsIn(v, f)) /\ Cardinality(SlotsIn(v, f)) = Occurrences(v, f)
           /\ Occurrences(v, f) \in Nat
           /\ v \notin Ins(f) => SlotsIn(v, f) = {} /\ Occurrences(v, f) = 0
           /\ v \in Ins(f) => SlotsIn(v, f) # {} /\ Occurrences(v, f) >= 1
           /\ IsFiniteSet({j \in DOMAIN In(f) : In(f)[j] = v})
<1> DEFINE P == {j \in DOMAIN In(f) : In(f)[j] = v}
           F == [i \in P |-> <<f, i>>]
<1>1. Len(In(f)) \in Nat /\ DOMAIN In(f) = 1 .. Len(In(f))
  BY GraphFacts
<1>2. IsFiniteSet(P)
  <2>1. IsFiniteSet(1 .. Len(In(f))) /\ P \subseteq 1 .. Len(In(f))
    BY <1>1, FS_Interval
  <2> QED BY <2>1, FS_Subset
<1>3. F \in Bijection(P, SlotsIn(v, f))
  <2>1. F \in [P -> SlotsIn(v, f)]
    BY DEF SlotsIn
  <2>2. \A a, b \in P : F[a] = F[b] => a = b
    OBVIOUS
  <2>3. \A s \in SlotsIn(v, f) : \E a \in P : F[a] = s
    BY DEF SlotsIn
  <2> HIDE DEF F, P
  <2> QED BY <2>1, <2>2, <2>3 DEF Bijection, Injection, Surjection, IsInjective
<1>4. IsFiniteSet(SlotsIn(v, f)) /\ Cardinality(SlotsIn(v, f)) = Cardinality(P)
  <2> HIDE DEF F, P
  <2>1. ExistsBijection(P, SlotsIn(v, f))
    BY <1>3 DEF ExistsBijection
  <2> QED BY <1>2, <2>1, FS_Bijection
<1>5. Occurrences(v, f) = Cardinality(P) /\ Occurrences(v, f) \in Nat
  BY <1>2, FS_CardinalityType DEF Occurrences
<1>6. ASSUME v \notin Ins(f) PROVE SlotsIn(v, f) = {} /\ Occurrences(v, f) = 0
  <2>1. P = {}
    BY <1>6, VarFacts
  <2>2. SlotsIn(v, f) = {}
    BY <2>1 DEF SlotsIn
  <2> QED BY <2>1, <2>2, <1>5, FS_EmptySet
<1>7. ASSUME v \in Ins(f) PROVE SlotsIn(v, f) # {} /\ Occurrences(v, f) >= 1
  <2>1. P # {}
    BY <1>7, VarFacts
  <2>2. SlotsIn(v, f) # {}
    BY <2>1 DEF SlotsIn
  <2> HIDE DEF P
  <2>3. Cardinality(P) # 0
    BY <1>2, <2>1, FS_EmptySet
  <2> QED BY <2>2, <2>3, <1>5
<1> QED BY <1>2, <1>4, <1>5, <1>6, <1>7

\* One function more.
LEMMA SlotsMore ==
    ASSUME g \in Graphs, NEW f \in Fn, NEW v, NEW S, f \notin S, IsFiniteSet(Slots(v, S))
    PROVE  /\ IsFiniteSet(Slots(v, S \cup {f}))
           /\ Cardinality(Slots(v, S \cup {f})) = Cardinality(Slots(v, S)) + Occurrences(v, f)
           /\ v \notin Ins(f) => Slots(v, S \cup {f}) = Slots(v, S)
<1>1. Slots(v, S \cup {f}) = Slots(v, S) \cup SlotsIn(v, f)
  BY DEF Slots
<1>2. Slots(v, S) \cap SlotsIn(v, f) = {}
  BY DEF Slots, SlotsIn
<1>3. Cardinality(Slots(v, S) \cap SlotsIn(v, f)) = 0
  BY <1>2, FS_EmptySet
<1>4. IsFiniteSet(SlotsIn(v, f)) /\ Cardinality(SlotsIn(v, f)) = Occurrences(v, f)
      /\ Occurrences(v, f) \in Nat /\ (v \notin Ins(f) => SlotsIn(v, f) = {})
  BY SlotsOne
<1>5. /\ IsFiniteSet(Slots(v, S) \cup SlotsIn(v, f))
      /\ Cardinality(Slots(v, S) \cup SlotsIn(v, f)) =
            Cardinality(Slots(v, S)) + Cardinality(SlotsIn(v, f))
               - Cardinality(Slots(v, S) \cap SlotsIn(v, f))
  BY <1>4, FS_Union
<1>6. Cardinality(Slots(v, S)) \in Nat
  BY FS_CardinalityType
<1>7. Cardinality(Slots(v, S \cup {f})) = Cardinality(Slots(v, S)) + Occurrences(v, f)
  <2>1. PICK a, b, c, d \in Int : /\ a = Cardinality(Slots(v, S)) /\ b = Cardinality(SlotsIn(v, f))
                                  /\ c = Cardinality(Slots(v, S) \cap SlotsIn(v, f))
                                  /\ d = Cardinality(Slots(v, S) \cup SlotsIn(v, f))
    BY ONLY <1>3, <1>4, <1>5, <1>6, FS_CardinalityType
  <2>2. d = a + b /\ c = 0
    BY ONLY <1>3, <1>5, <2>1
  <2>3. Cardinality(Slots(v, S \cup {f})) = d
    BY <1>1, <2>1
  <2> QED BY ONLY <1>4, <2>1, <2>2, <2>3
<1>8. IsFiniteSet(Slots(v, S \cup {f}))
  BY <1>1, <1>5
<1>9. v \notin Ins(f) => Slots(v, S \cup {f}) = Slots(v, S)
  BY <1>1, <1>4
<1> QED BY <1>7, <1>8, <1>9

\* Fewer functions.
LEMMA SlotsFewer ==
    ASSUME g \in Graphs, NEW T \in SUBSET Fn, NEW S \in SUBSET T, NEW v, IsFiniteSet(Slots(v, T))
    PROVE  /\ IsFiniteSet(Slots(v, S)) /\ Cardinality(Slots(v, S)) \in Nat
           /\ Cardinality(Slots(v, S)) <= Cardinality(Slots(v, T))
           /\ Cardinality(Slots(v, S)) = Cardinality(Slots(v, T)) <=>
                \A k \in T : v \in Ins(k) => k \in S
<1>1. Slots(v, S) \subseteq Slots(v, T)
  BY DEF Slots
<1>2. /\ IsFiniteSet(Slots(v, S)) /\ Cardinality(Slots(v, S)) \in Nat
      /\ Cardinality(Slots(v, S)) <= Cardinality(Slots(v, T))
      /\ Cardinality(Slots(v, T)) = Cardinality(Slots(v, S)) => Slots(v, T) = Slots(v, S)
  BY <1>1, FS_Subset, FS_CardinalityType
<1>3. ASSUME Slots(v, T) = Slots(v, S), NEW k \in T, v \in Ins(k)
      PROVE  k \in S
  <2>1. PICK s \in SlotsIn(v, k) : TRUE
    BY <1>3, SlotsOne
  <2>2. s \in Slots(v, S)
    BY <1>3, <2>1 DEF Slots
  <2>3. PICK j \in S : s \in SlotsIn(v, j)
    BY <2>2 DEF Slots
  <2>4. j = k
    BY <2>1, <2>3 DEF SlotsIn
  <2> QED BY <2>3, <2>4
<1>4. ASSUME \A k \in T : v \in Ins(k) => k \in S
      PROVE  Slots(v, T) = Slots(v, S)
  <2>1. \A k \in T \ S : SlotsIn(v, k) = {}
    BY <1>4, SlotsOne
  <2> QED BY <1>1, <2>1 DEF Slots
<1> QED BY <1>2, <1>3, <1>4

\* Visits of one function.
LEMMA VisitsAre ==
    ASSUME g \in Graphs, NEW f \in Fn, NEW i \in DOMAIN In(f)
    PROVE  /\ Visits(f, i) \in 1 .. Occurrences(In(f)[i], f)
           /\ (\A j \in DOMAIN In(f) : In(f)[j] = In(f)[i] => j <= i) =>
                Visits(f, i) = Occurrences(In(f)[i], f)
<1> DEFINE v == In(f)[i]
           P == {j \in DOMAIN In(f) : In(f)[j] = v}
           R == {j \in 1 .. i : In(f)[j] = v}
<1>1. Len(In(f)) \in Nat /\ DOMAIN In(f) = 1 .. Len(In(f)) /\ i \in Nat
  BY GraphFacts
<1>2. IsFiniteSet(P)
  BY SlotsOne
<1>3. R \subseteq P /\ i \in R
  BY <1>1
<1>4. Occurrences(v, f) = Cardinality(P) /\ Visits(f, i) = Cardinality(R)
  BY DEF Occurrences, Visits
<1>5. ASSUME \A j \in DOMAIN In(f) : In(f)[j] = v => j <= i PROVE P = R
  BY <1>1, <1>3, <1>5
<1> HIDE DEF v, P, R
<1>6. IsFiniteSet(R) /\ Cardinality(R) <= Cardinality(P) /\ Cardinality(R) # 0
      /\ Cardinality(R) \in Nat /\ Cardinality(P) \in Nat
  BY <1>2, <1>3, FS_Subset, FS_EmptySet, FS_CardinalityType
<1> QED BY <1>4, <1>5, <1>6 DEF v

\* A remainder of a number up to the divisor.
LEMMA Remainder ==
    ASSUME NEW n \in Nat \ {0}, NEW x \in 0 .. n
    PROVE  x % n = IF x = n THEN 0 ELSE x
<1>1. CASE x = n
  <2>1. x = 1 * n + 0
    BY <1>1
  <2> QED BY <1>1, <2>1
<1>2. CASE x < n
  BY <1>2
<1> QED BY <1>1, <1>2

\* The visits of an input by the functions that have run and by the one that runs.
LEMMA Counting ==
    ASSUME g \in Graphs, Built \subseteq Fn, Referred, NEW M \in SUBSET Built, Noted(M),
           NEW f \in Built, f \notin M, NEW v \in Ins(f)
    PROVE  LET m == Cardinality(Slots(v, M))
               o == Occurrences(v, f)
               r == va[v].refs
           IN  /\ m \in Nat /\ o \in Nat \ {0} /\ r \in Nat /\ m + o <= r
               /\ r > 1 => fwd.seen[v] = m
               /\ m + o = r <=> Consumers(v) \cap Built \subseteq M \cup {f}
               /\ Cardinality(Slots(v, M \cup {f})) = m + o
<1> DEFINE m == Cardinality(Slots(v, M))
           o == Occurrences(v, f)
           r == va[v].refs
           n == Cardinality(Slots(v, M \cup {f}))
<1>1. v \in Var /\ f \in Fn
  BY VarFacts
<1>2. IsFiniteSet(Slots(v, Built)) /\ r = Cardinality(Slots(v, Built))
  BY <1>1 DEF Referred
<1>3. r \in Nat
  BY <1>2, FS_CardinalityType
<1>4. m \in Nat /\ IsFiniteSet(Slots(v, M))
  BY <1>2, SlotsFewer
<1>5. o \in Nat \ {0}
  <2>1. o \in Nat /\ o >= 1
    BY <1>1, SlotsOne
  <2> QED BY <2>1
<1>6. n = m + o
  BY <1>1, <1>4, SlotsMore
<1>7. n <= r /\ (n = r <=> \A k \in Built : v \in Ins(k) => k \in M \cup {f})
  <2>1. M \cup {f} \in SUBSET Built
    OBVIOUS
  <2>2. /\ Cardinality(Slots(v, M \cup {f})) <= Cardinality(Slots(v, Built))
        /\ Cardinality(Slots(v, M \cup {f})) = Cardinality(Slots(v, Built)) <=>
                \A k \in Built : v \in Ins(k) => k \in M \cup {f}
    <3>1. PICK N : N = M \cup {f}
      OBVIOUS
    <3>2. /\ Cardinality(Slots(v, N)) <= Cardinality(Slots(v, Built))
          /\ Cardinality(Slots(v, N)) = Cardinality(Slots(v, Built)) <=>
                \A k \in Built : v \in Ins(k) => k \in N
      <4>1. N \in SUBSET Built /\ Built \in SUBSET Fn /\ IsFiniteSet(Slots(v, Built))
        BY <1>2, <2>1, <3>1
      <4> QED BY <4>1, SlotsFewer, Zenon
    <3> QED BY <3>1, <3>2
  <2> QED BY <1>2, <2>2
<1>8. (\A k \in Built : v \in Ins(k) => k \in M \cup {f}) <=> Consumers(v) \cap Built \subseteq M \cup {f}
  BY DEF Consumers
<1>9. r > 1 => fwd.seen[v] = m
  <2>1. r > 1 => fwd.seen[v] = IF m = r THEN 0 ELSE m
    BY <1>1 DEF Noted, Turn
  <2> HIDE DEF m, o, r, n
  <2> QED BY <2>1, <1>3, <1>4, <1>5, <1>6, <1>7
<1> HIDE DEF m, o, r, n
<1>10. /\ m \in Nat /\ o \in Nat \ {0} /\ r \in Nat /\ m + o <= r
       /\ r > 1 => fwd.seen[v] = m
       /\ m + o = r <=> Consumers(v) \cap Built \subseteq M \cup {f}
       /\ n = m + o
  BY <1>3, <1>4, <1>5, <1>6, <1>7, <1>8, <1>9
<1> QED BY <1>10 DEF m, o, r, n

\* A visit is the last one if no function that is connected is left to visit the variable.
LEMMA LastVisitIs ==
    ASSUME g \in Graphs, Built \subseteq Fn, Referred, NEW M \in SUBSET Built, Noted(M),
           NEW f \in Built, f \notin M, NEW i \in DOMAIN In(f)
    PROVE  /\ LastVisit(f, i) => Consumers(In(f)[i]) \cap Built \subseteq M \cup {f}
           /\ /\ Consumers(In(f)[i]) \cap Built \subseteq M \cup {f}
              /\ \A j \in DOMAIN In(f) : In(f)[j] = In(f)[i] => j <= i
              => LastVisit(f, i)
<1> DEFINE v == In(f)[i]
           m == Cardinality(Slots(v, M))
           o == Occurrences(v, f)
           r == va[v].refs
           k == Visits(f, i)
           Over == Consumers(v) \cap Built \subseteq M \cup {f}
<1>1. v \in Ins(f) /\ f \in Fn
  BY VarFacts
<1>2. /\ m \in Nat /\ o \in Nat \ {0} /\ r \in Nat /\ m + o <= r
      /\ r > 1 => fwd.seen[v] = m
      /\ m + o = r <=> Over
  <2> HIDE DEF v
  <2> QED BY <1>1, Counting
<1>3. k \in 1 .. o /\ ((\A j \in DOMAIN In(f) : In(f)[j] = v => j <= i) => k = o)
  BY <1>1, VisitsAre
<1>4. LastVisit(f, i) <=> r < 2 \/ (fwd.seen[v] + k) % r = 0
  BY DEF LastVisit
<1> HIDE DEF v, m, o, r, k, Over
<1>5. CASE r < 2
  BY <1>2, <1>4, <1>5 DEF v, Over
<1>6. CASE r >= 2
  <2>1. LastVisit(f, i) <=> (m + k) % r = 0
    BY <1>2, <1>4, <1>6
  <2>2. m + k \in 1 .. r /\ (m + k = r => m + o = r)
    BY <1>2, <1>3
  <2>3. (m + k) % r = IF m + k = r THEN 0 ELSE m + k
    <3>1. r \in Nat \ {0} /\ m + k \in 0 .. r
      BY <1>2, <1>6, <2>2
    <3> QED BY <3>1, Remainder
  <2>4. LastVisit(f, i) <=> m + k = r
    BY <1>2, <1>6, <2>1, <2>2, <2>3
  <2> QED BY <1>2, <1>3, <2>2, <2>4 DEF v, Over
<1> QED BY <1>2, <1>5, <1>6

\* The count goes on.
LEMMA SeenIs ==
    ASSUME g \in Graphs, Built \subseteq Fn, Referred, NEW M \in SUBSET Built, Noted(M),
           NEW f \in Built, f \notin M, NEW v \in Var, va[v].refs > 1
    PROVE  SeenAfter(f)[v] = Turn(v, M \cup {f})
<1> DEFINE m == Cardinality(Slots(v, M))
           o == Occurrences(v, f)
           r == va[v].refs
           n == Cardinality(Slots(v, M \cup {f}))
<1>1. CASE v \in Ins(f)
  <2>1. /\ m \in Nat /\ o \in Nat \ {0} /\ r \in Nat /\ m + o <= r
        /\ fwd.seen[v] = m /\ n = m + o
    <3>1. /\ m \in Nat /\ o \in Nat \ {0} /\ r \in Nat /\ m + o <= r
          /\ r > 1 => fwd.seen[v] = m
          /\ m + o = r <=> Consumers(v) \cap Built \subseteq M \cup {f}
          /\ n = m + o
      BY ONLY <1>1, g \in Graphs, Built \subseteq Fn, Referred, M \in SUBSET Built, Noted(M), f \in Built, f \notin M, Counting
    <3> HIDE DEF m, o, n
    <3> QED BY <3>1
  <2>2. SeenAfter(f)[v] = (fwd.seen[v] + o) % r
    BY <1>1 DEF SeenAfter
  <2>3. Turn(v, M \cup {f}) = IF n = r THEN 0 ELSE n
    BY DEF Turn
  <2>a. r > 1
    OBVIOUS
  <2> HIDE DEF m, o, r, n
  <2>4. (m + o) % r = IF m + o = r THEN 0 ELSE m + o
    <3>1. r \in Nat \ {0} /\ m + o \in 0 .. r
      BY <2>1, <2>a
    <3> QED BY <3>1, Remainder
  <2> QED BY <2>1, <2>2, <2>3, <2>4
<1>2. CASE v \notin Ins(f)
  <2>1. SeenAfter(f)[v] = Turn(v, M)
    BY <1>2 DEF SeenAfter, Noted
  <2>2. f \in Fn /\ IsFiniteSet(Slots(v, M))
    BY SlotsFewer DEF Referred
  <2>3. Slots(v, M \cup {f}) = Slots(v, M)
    BY <1>2, <2>2, SlotsMore
  <2> QED BY <2>1, <2>3 DEF Turn
<1> QED BY <1>1, <1>2

-----------------------------------------------------------------------------
(* Leaves. *)

\* What a function writes is not a leaf, and what is there is not lost by reading it.
LEMMA LiveStays ==
    ASSUME g \in Graphs, NEW f \in Fn, NEW a \in Var, data[a] = "live",
           a \in Outs(f) => ReadAll(f)
    PROVE  AfterForward(f)[a] = "live"
BY DEF AfterForward, AfterRead

\* Clearing inputs does not touch the leaves.
LEMMA LeavesKept ==
    ASSUME g \in Graphs, Built \subseteq Fn, built \in Nat, Referred, NEW f \in Built, NEW needs,
           NEW v \in Leaves
    PROVE  ClearInputs(f, needs, AfterForward(f))[v] = "live"
<1>1. v \in Var /\ f \in Fn /\ v \notin Outs(f)
  <2>1. v \in Var /\ f \in Fn /\ Parent(v) = 0
    BY DEF Leaves
  <2> QED BY <2>1, ParentFacts, GraphFacts
<1>2. AfterForward(f)[v] = "live"
  BY <1>1, LiveStays DEF Referred
<1>3. ASSUME NEW j \in DOMAIN In(f), Clears(f, j, needs), ArrayOf[In(f)[j]] = v
      PROVE  FALSE
  <2>1. In(f)[j] \in Ins(f) /\ In(f)[j] \in Var
    BY <1>1, VarFacts
  <2>2. In(f)[j] \notin Leaves /\ ~va[In(f)[j]].prohibit
    BY <1>3 DEF Clears
  <2>3. Parent(In(f)[j]) # 0 /\ Parent(In(f)[j]) < f /\ Parent(In(f)[j]) \in Nat
    BY <1>1, <2>1, <2>2, VarFacts
  <2>4. Parent(In(f)[j]) \in Built
    BY <2>3 DEF Built
  <2> QED BY <1>3, <2>1, <2>2, <2>4 DEF Referred
<1> QED BY <1>1, <1>2, <1>3 DEF ClearInputs

-----------------------------------------------------------------------------
(* References and leaves from step to step. *)

\* What depends on the graph alone.
LEMMA GraphKeeps ==
    ASSUME g' = g
    PROVE  /\ Fn' = Fn /\ Var' = Var /\ Leaves' = Leaves /\ ArrayOf' = ArrayOf
           /\ \A v : Parent(v)' = Parent(v) /\ Shared(v)' = Shared(v) /\ Consumers(v)' = Consumers(v)
           /\ \A f : Ins(f)' = Ins(f) /\ Outs(f)' = Outs(f) /\ Inplace(f)' = Inplace(f)
                     /\ Shields(f)' = Shields(f)
           /\ \A v, S : Slots(v, S)' = Slots(v, S)
<1>1. Fn' = Fn /\ Var' = Var /\ Leaves' = Leaves
      /\ \A f : In(f)' = In(f) /\ Out(f)' = Out(f) /\ Ins(f)' = Ins(f) /\ Outs(f)' = Outs(f)
                /\ Inplace(f)' = Inplace(f) /\ Shields(f)' = Shields(f)
  BY DEF Fn, Var, Leaves, Parent, Ins, In, Outs, Out, Inplace, Shields
<1>2. \A v : Parent(v)' = Parent(v) /\ Consumers(v)' = Consumers(v)
  BY GraphStays DEF Consumers, Fn, Ins, In
<1>3. ArrayOf' = ArrayOf
  BY DEF ArrayOf, Fn, Var, Parent, Ins, In, Outs, Out, Inplace
<1>4. \A v : Shared(v)' = Shared(v)
  BY DEF Shared, IsInplace, Fn, In, Ins, Outs, Out, Inplace
<1>5. \A v, S : Slots(v, S)' = Slots(v, S)
  BY DEF Slots, SlotsIn, In
<1> QED BY <1>1, <1>2, <1>3, <1>4, <1>5

\* A step that leaves the references and the leaves alone.
LEMMA ReferredStays ==
    ASSUME Referred, UNCHANGED <<g, built>>,
           \A v \in Var : va'[v].refs = va[v].refs /\ va'[v].prohibit = va[v].prohibit,
           \A v \in Leaves : va'[v].rank = 0 /\ data'[v] = "live"
    PROVE  Referred'
<1>1. Built' = Built
  BY DEF Built
<1>2. \A v : Slots(v, Built)' = Slots(v, Built)
  BY <1>1, GraphKeeps DEF Slots, SlotsIn, In
<1>3. /\ Fn' = Fn /\ Var' = Var /\ Leaves' = Leaves /\ ArrayOf' = ArrayOf
      /\ \A v : Parent(v)' = Parent(v) /\ Shared(v)' = Shared(v)
  BY GraphKeeps
<1> QED BY <1>1, <1>2, <1>3 DEF Referred

\* No function refers to a variable before it is connected.
LEMMA ConnectReferred ==
    ASSUME IInv, Referred, Connect
    PROVE  Referred'
<1> DEFINE f == built + 1
           bound == \E v \in Ins(f) : va[v].rank = 0 \/ v \in g.persistent \/ va[v].prohibit
           top == Max({0} \cup {va[v].rank : v \in Ins(f)}) + 1
           need == \E v \in Ins(f) : NeedGrad(v)
           bar == bound /\ Inplace(f) # {}
<1>1. g \in Graphs /\ built \in Nat /\ Built \subseteq Fn /\ g' = g /\ built' = f /\ f \in Fn
  BY DEF Connect, IInv, Types
<1>2. /\ Fn' = Fn /\ Var' = Var /\ Leaves' = Leaves /\ ArrayOf' = ArrayOf
      /\ \A v : Parent(v)' = Parent(v) /\ Shared(v)' = Shared(v)
  BY <1>1, GraphKeeps
<1>3. Built' = Built \cup {f} /\ f \notin Built
  BY <1>1 DEF Built
<1>4. \A v : Slots(v, Built)' = Slots(v, Built \cup {f})
  BY <1>1, <1>3, GraphKeeps DEF Slots, SlotsIn, In
<1>5. \A v \in Outs(f) : v \in Var /\ Parent(v) = f /\ v \notin Leaves
  BY <1>1, ParentFacts, VarFacts, GraphFacts
<1>6. ASSUME NEW v \in Var
      PROVE  va'[v] = IF v \in Outs(f)
                      THEN [rank |-> top, state |-> need, refs |-> 0, prohibit |-> bar]
                      ELSE [va[v] EXCEPT !.refs = @ + Occurrences(v, f)]
  BY <1>6 DEF Connect
<1>7. \A v \in Var : DOMAIN va[v] = {"rank", "state", "refs", "prohibit"}
  BY DEF IInv, Types
<1> HIDE DEF top, need, bar, f
<1>8. ASSUME NEW v \in Outs(f)
      PROVE  v \in Var /\ va'[v].refs = 0 /\ (va'[v].prohibit <=> bound /\ Inplace(f) # {})
  <2>1. va'[v] = [rank |-> top, state |-> need, refs |-> 0, prohibit |-> bar]
    BY <1>5, <1>6
  <2>2. va'[v].refs = 0 /\ va'[v].prohibit = bar
    BY <2>1
  <2>3. bar <=> bound /\ Inplace(f) # {}
    BY DEF bar
  <2> HIDE DEF bound
  <2> QED BY <1>5, <2>2, <2>3
<1> HIDE DEF bound
<1>9. ASSUME NEW v \in Var, v \notin Outs(f)
      PROVE  /\ va'[v].refs = va[v].refs + Occurrences(v, f)
             /\ va'[v].prohibit = va[v].prohibit /\ va'[v].rank = va[v].rank
  BY <1>6, <1>7, <1>9
<1>10. ASSUME NEW v \in Var
       PROVE  /\ IsFiniteSet(Slots(v, Built \cup {f}))
              /\ va'[v].refs = Cardinality(Slots(v, Built \cup {f}))
  <2>1. IsFiniteSet(Slots(v, Built)) /\ va[v].refs = Cardinality(Slots(v, Built))
    BY DEF Referred
  <2>2. CASE v \notin Outs(f)
    <3>1. /\ IsFiniteSet(Slots(v, Built \cup {f}))
          /\ Cardinality(Slots(v, Built \cup {f})) = Cardinality(Slots(v, Built)) + Occurrences(v, f)
      BY <1>1, <1>3, <2>1, SlotsMore
    <3> QED BY <1>9, <2>1, <2>2, <3>1
  <2>3. CASE v \in Outs(f)
    <3>1. \A k \in Built \cup {f} : v \notin Ins(k)
      <4>1. \A k \in Built \cup {f} : k \in Fn /\ k \in Nat /\ k <= f /\ f \in Nat
        BY <1>1 DEF Built, f
      <4>2. Parent(v) = f
        BY <1>5, <2>3
      <4> QED BY <1>1, <4>1, <4>2, VarFacts
    <3>2. \A k \in Built \cup {f} : SlotsIn(v, k) = {}
      BY <1>1, <3>1, SlotsOne
    <3>3. Slots(v, Built \cup {f}) = {}
      BY <3>2 DEF Slots
    <3> QED BY <1>8, <2>3, <3>3, FS_EmptySet
  <2> QED BY <2>2, <2>3
<1>11. ASSUME NEW v \in Leaves PROVE data'[v] = "live" /\ va'[v].rank = 0
  <2>1. v \in Var /\ v \notin Outs(f) /\ data[v] = "live" /\ va[v].rank = 0
    BY <1>5 DEF Leaves, Referred
  <2>2. data' = AfterForward(f) \/ data' = data
    BY DEF Connect, f
  <2>3. AfterForward(f)[v] = "live"
    BY <1>1, <2>1, LiveStays
  <2> QED BY <1>9, <2>1, <2>2, <2>3
<1>12. ASSUME NEW v \in Var, Parent(v) \in Built \cup {f}, ArrayOf[v] \in Leaves
       PROVE  va'[v].prohibit
  <2>1. CASE Parent(v) \in Built
    <3>1. v \notin Outs(f)
      BY <1>3, <1>5, <2>1
    <3> QED BY <1>9, <1>12, <2>1, <3>1 DEF Referred
  <2>2. CASE Parent(v) = f
    <3>1. f # 0 /\ f \in Nat
      BY <1>1, GraphFacts
    <3>2. v \in Outs(f) /\ v \notin Leaves
      BY <1>1, <1>5, <2>2, <3>1, ParentFacts
    <3>3. Viewed(v) /\ ArrayOf[Base(v)] \in Leaves
      BY <1>1, <1>12, <3>2, ArrayIs
    <3>4. Base(v) \in Ins(f) /\ Base(v) \in Var /\ Parent(Base(v)) < f /\ Inplace(f) # {}
      BY <1>1, <2>2, <3>3, BaseFacts DEF Viewed
    <3>5. bound
      <4>1. CASE Base(v) \in Leaves
        BY <3>4, <4>1 DEF bound, Referred
      <4>2. CASE Base(v) \notin Leaves
        <5>1. Parent(Base(v)) \in Nat /\ Parent(Base(v)) # 0
          BY <1>1, <3>4, <4>2, VarFacts
        <5>2. Parent(Base(v)) \in Built
          BY <1>1, <3>1, <3>4, <5>1 DEF Built, f
        <5> QED BY <3>3, <3>4, <5>2 DEF bound, Referred
      <4> QED BY <4>1, <4>2
    <3> QED BY <1>8, <3>2, <3>4, <3>5
  <2> QED BY <1>12, <2>1, <2>2
<1>13. ASSUME NEW v \in Var, va'[v].prohibit PROVE Shared(v)
  <2>1. CASE v \notin Outs(f)
    BY <1>9, <1>13, <2>1 DEF Referred
  <2>2. CASE v \in Outs(f)
    <3>1. Inplace(f) # {}
      BY <1>8, <1>13, <2>2
    <3>2. 1 \in DOMAIN In(f) /\ <<1, 1>> \in Inplace(f)
      BY <1>1, <3>1, ViewFacts
    <3> QED BY <1>1, <2>2, <3>2 DEF Shared, IsInplace
  <2> QED BY <2>1, <2>2
<1> QED BY <1>2, <1>3, <1>4, <1>10, <1>11, <1>12, <1>13 DEF Referred

\* The functions the recursion s is in.
Running(s) == {s[i][1] : i \in DOMAIN s}

Down(s, a, b) == Append(Append(Front(s), a), b)

\* Going down to another function.
LEMMA Pushed ==
    ASSUME NEW F, NEW s \in Seq(F), s # <<>>, NEW a \in F, NEW b \in F,
           a[1] = Last(s)[1]
    PROVE  /\ Down(s, a, b) \in Seq(F)
           /\ Running(Down(s, a, b)) = Running(s) \cup {b[1]}
<1> DEFINE n == Len(s)
           e == Front(s)
           u == Append(e, a)
           t == Append(u, b)
<1>1. n \in Nat \ {0} /\ DOMAIN s = 1 .. n /\ Last(s) = s[n]
  BY DEF Last
<1>2. e \in Seq(F) /\ Len(e) = n - 1 /\ \A j \in 1 .. (n - 1) : e[j] = s[j]
  BY <1>1, FrontKeeps
<1>a. t = Down(s, a, b)
  BY DEF Down
<1> HIDE DEF n, e
<1>3. u \in Seq(F) /\ Len(u) = n /\ u[n] = a /\ \A j \in 1 .. (n - 1) : u[j] = s[j]
  BY <1>1, <1>2
<1> HIDE DEF u
<1>4. t \in Seq(F) /\ DOMAIN t = 1 .. (n + 1) /\ t[n + 1] = b /\ t[n] = a
      /\ \A j \in 1 .. (n - 1) : t[j] = s[j]
  BY <1>1, <1>3
<1> HIDE DEF t
<1>5. ASSUME NEW j \in 1 .. n PROVE t[j][1] = s[j][1]
  <2>1. CASE j = n
    BY <1>1, <1>4, <2>1
  <2>2. CASE j \in 1 .. (n - 1)
    BY <1>4, <2>2
  <2>3. j = n \/ j \in 1 .. (n - 1)
    BY <1>1
  <2> QED BY <2>1, <2>2, <2>3
<1>6. \A j \in 1 .. (n + 1) : j \in 1 .. n \/ j = n + 1
  BY <1>1
<1>7. \A j \in 1 .. n : j \in 1 .. (n + 1)
  BY <1>1
<1>8. n + 1 \in 1 .. (n + 1)
  BY <1>1
<1>9. {t[i][1] : i \in DOMAIN t} = {s[i][1] : i \in DOMAIN s} \cup {b[1]}
  BY <1>1, <1>4, <1>5, <1>6, <1>7, <1>8
<1> QED BY <1>a, <1>4, <1>9 DEF Running

\* Coming back from the one on top, which is there once.
LEMMA Popped ==
    ASSUME NEW F, NEW s \in Seq(F), s # <<>>
    PROVE  /\ Front(s) \in Seq(F)
           /\ (\A i, j \in DOMAIN s : i < j => s[j][1] # s[i][1]) =>
                Running(Front(s)) = Running(s) \ {Last(s)[1]}
<1> DEFINE n == Len(s)
           t == Front(s)
<1>1. n \in Nat \ {0} /\ DOMAIN s = 1 .. n /\ Last(s) = s[n]
  BY DEF Last
<1>2. t \in Seq(F) /\ DOMAIN t = 1 .. (n - 1) /\ \A j \in 1 .. (n - 1) : t[j] = s[j]
  <2>1. Front(s) \in Seq(F) /\ Len(Front(s)) = n - 1 /\ \A j \in 1 .. (n - 1) : Front(s)[j] = s[j]
    BY <1>1, FrontKeeps
  <2> HIDE DEF n
  <2> QED BY <2>1, <1>1
<1> HIDE DEF n, t
<1>3. ASSUME \A i, j \in DOMAIN s : i < j => s[j][1] # s[i][1]
      PROVE  Running(t) = Running(s) \ {Last(s)[1]}
  <2>1. \A j \in 1 .. n : j \in 1 .. (n - 1) \/ j = n
    BY <1>1
  <2>2. \A j \in 1 .. (n - 1) : j \in 1 .. n /\ s[j][1] # s[n][1]
    <3>1. \A j \in 1 .. (n - 1) : j \in 1 .. n /\ j < n
      BY <1>1
    <3>2. n \in DOMAIN s
      BY <1>1
    <3> QED BY <1>1, <1>3, <3>1, <3>2
  <2> QED BY <1>1, <1>2, <2>1, <2>2 DEF Running
<1> QED BY <1>2, <1>3 DEF t

\* What is on top of the recursion.
LEMMA TopIs ==
    ASSUME IInv, Recalled, fwd.stack # <<>>
    PROVE  /\ g \in Graphs /\ Built \subseteq Fn /\ built \in Nat
           /\ fwd.stack \in Seq((1 .. built) \X (Nat \ {0}))
           /\ Top[1] \in Built /\ Top[1] \in Fn /\ Top[2] \in Nat \ {0}
           /\ Top[1] \in OnStack(fwd)
           /\ In(Top[1]) \in Seq(Ins(Top[1]))
           /\ at = (IF fwd.again THEN "backward" ELSE "forward")
<1>1. PICK S \in SUBSET Fn : Good(S)
  BY DEF IInv
<1>2. g \in Graphs /\ Built \subseteq Fn /\ built \in Nat
  BY DEF IInv, Types
<1>3. at # "idle" /\ (at = "forward" => ForwardOK(g, built, fwd, S))
      /\ (at = "backward" => fwd.again = TRUE)
  BY <1>1 DEF Good, BackwardOK
<1>4. fwd.stack \in Seq((1 .. built) \X (Nat \ {0}))
  BY <1>3 DEF Recalled, ForwardOK, IInv, Types
<1>5. at = (IF fwd.again THEN "backward" ELSE "forward")
  BY <1>3 DEF ForwardOK, IInv, Types
<1>6. Len(fwd.stack) \in DOMAIN fwd.stack /\ Top = fwd.stack[Len(fwd.stack)]
  BY <1>4 DEF Top, Last
<1>7. Top \in (1 .. built) \X (Nat \ {0})
  BY <1>4, <1>6
<1>8. Top[1] \in Built /\ Top[2] \in Nat \ {0}
  BY <1>7 DEF Built
<1>9. Top[1] \in OnStack(fwd)
  BY <1>6 DEF OnStack
<1> QED BY <1>2, <1>4, <1>5, <1>8, <1>9, GraphFacts

\* The next function of a recursion.
LEMMA NextDown ==
    ASSUME IInv, Recalled, Descend
    PROVE  LET f == Top[1]
               i == Min(Pending)
               p == Parent(In(f)[i])
           IN  /\ i \in DOMAIN In(f) /\ p \in Fn /\ p < f /\ p \in Built /\ p \notin fwd.closed
               /\ fwd'.stack \in Seq((1 .. built) \X (Nat \ {0}))
               /\ OnStack(fwd') = OnStack(fwd) \cup {p}
<1> DEFINE f == Top[1]
           i == Min(Pending)
           p == Parent(In(f)[i])
           F == (1 .. built) \X (Nat \ {0})
<1>1. /\ g \in Graphs /\ Built \subseteq Fn /\ built \in Nat /\ fwd.stack \in Seq(F)
      /\ f \in Built /\ f \in Fn /\ Top[2] \in Nat \ {0} /\ In(f) \in Seq(Ins(f))
      /\ fwd.stack # <<>> /\ Pending # {}
  BY TopIs DEF Descend
<1>2. Len(In(f)) \in Nat /\ DOMAIN In(f) = 1 .. Len(In(f)) /\ Pending \in SUBSET Nat
  BY <1>1 DEF Pending
<1>3. i \in Pending
  BY <1>1, <1>2, MinIs
<1>4. i \in DOMAIN In(f) /\ i \in Nat /\ Descends(In(f)[i])
  <2>1. i \in Top[2] .. Len(In(f)) /\ Descends(In(f)[i])
    BY <1>3 DEF Pending
  <2> HIDE DEF i, f
  <2> QED BY <1>1, <1>2, <2>1
<1>5. p # 0 /\ p \notin fwd.closed /\ In(f)[i] \in Ins(f)
  BY <1>1, <1>4, VarFacts DEF Descends
<1>6. p \in Nat /\ p < f /\ p \in Fn
  BY <1>1, <1>5, VarFacts, ParentFacts
<1>7. p \in Built
  BY <1>1, <1>5, <1>6 DEF Built
<1>8. fwd'.stack = Append(Append(Front(fwd.stack), <<f, i + 1>>), <<p, 1>>)
  BY DEF Descend, IInv, Types
<1>9. <<f, i + 1>> \in F /\ <<p, 1>> \in F
  BY <1>1, <1>4, <1>7 DEF Built
<1>10. Last(fwd.stack)[1] = f
  BY DEF Top
<1> HIDE DEF f, i, p
<1>11. /\ fwd'.stack \in Seq(F)
       /\ Running(fwd'.stack) = Running(fwd.stack) \cup {p}
  <2> DEFINE a == <<f, i + 1>>
             b == <<p, 1>>
             s == fwd.stack
  <2>1. s \in Seq(F) /\ s # <<>> /\ a \in F /\ b \in F /\ a[1] = Last(s)[1]
    BY <1>1, <1>9, <1>10
  <2>2. fwd'.stack = Append(Append(Front(s), a), b)
    BY <1>8
  <2> HIDE DEF a, b, s, F
  <2>3. PICK t : t = fwd'.stack
    OBVIOUS
  <2>4. t = Down(s, a, b)
    BY <2>2, <2>3 DEF Down
  <2>5. t \in Seq(F) /\ Running(t) = Running(s) \cup {b[1]}
    BY ONLY <2>1, <2>4, Pushed
  <2> QED BY <2>1, <2>3, <2>5 DEF b, s
<1>12. OnStack(fwd') = OnStack(fwd) \cup {p}
  BY <1>11 DEF OnStack, Running
<1> QED BY <1>4, <1>5, <1>6, <1>7, <1>11, <1>12 DEF f, i, p

\* Running a function keeps the references.
LEMMA ExecuteReferred ==
    ASSUME IInv, Referred, Recalled, Execute
    PROVE  Referred'
<1>1. PICK f : f = Top[1]
  OBVIOUS
<1>2. PICK needs : needs = \E v \in Ins(f) : VisitedNeed(v)
  OBVIOUS
<1>3. /\ g \in Graphs /\ Built \subseteq Fn /\ built \in Nat /\ f \in Built
  BY <1>1, TopIs DEF Execute
<1>4. /\ UNCHANGED <<g, built>>
      /\ va' = [v \in Var |-> IF v \in Ins(f) THEN Visited(v) ELSE va[v]]
      /\ data' = ClearInputs(f, needs, AfterForward(f))
  BY <1>1, <1>2 DEF Execute
<1>5. \A v \in Var : va'[v].refs = va[v].refs /\ va'[v].prohibit = va[v].prohibit
  <2>1. \A v \in Var : DOMAIN va[v] = {"rank", "state", "refs", "prohibit"}
    BY DEF IInv, Types
  <2> QED BY <1>4, <2>1 DEF Visited
<1>6. ASSUME NEW v \in Leaves PROVE va'[v].rank = 0
  <2>1. v \in Var /\ Parent(v) = 0 /\ va[v].rank = 0 /\ "rank" \in DOMAIN va[v]
    BY DEF Leaves, IInv, Types, Referred
  <2> QED BY <1>4, <2>1 DEF Visited
<1>7. \A v \in Leaves : data'[v] = "live"
  BY <1>3, <1>4, LeavesKept
<1> QED BY <1>4, <1>5, <1>6, <1>7, ReferredStays

\* So does recomputing one.
LEMMA RecomputeReferred ==
    ASSUME IInv, Referred, Recalled, Recompute
    PROVE  Referred'
<1>1. PICK f : f = Top[1]
  OBVIOUS
<1>2. /\ g \in Graphs /\ Built \subseteq Fn /\ built \in Nat /\ f \in Built
  BY <1>1, TopIs DEF Recompute
<1>3. UNCHANGED <<g, built, va>> /\ data' = ClearInputs(f, fn[f].need, AfterForward(f))
  BY <1>1 DEF Recompute
<1>4. \A v \in Leaves : data'[v] = "live"
  BY <1>2, <1>3, LeavesKept
<1>5. \A v \in Leaves : va'[v].rank = 0
  BY <1>3 DEF Referred
<1> QED BY <1>3, <1>4, <1>5, ReferredStays

\* The function backward is about to run is connected.
LEMMA CurrentIs ==
    ASSUME IInv, Working
    PROVE  g \in Graphs /\ bwd.cur \in Fn /\ bwd.cur \in Built /\ built \in Nat /\ Built \subseteq Fn
<1>1. PICK S \in SUBSET Fn : Good(S)
  BY DEF IInv
<1>2. bwd.cur \in S
  BY <1>1 DEF Good, BackwardOK, Working
<1>3. S \subseteq 1 .. built
  BY <1>1 DEF Good
<1> QED BY <1>2, <1>3 DEF IInv, Types, Built

\* And backward clears no leaf, because it leaves the outputs of functions in place.
LEMMA RunBackwardReferred ==
    ASSUME IInv, Referred, RunBackward
    PROVE  Referred'
<1>1. PICK f : f = bwd.cur
  OBVIOUS
<1>2. g \in Graphs /\ f \in Fn
  BY <1>1, CurrentIs DEF RunBackward
<1>3. /\ UNCHANGED <<g, built, va>>
      /\ data' = [a \in Var |-> IF \E v \in ClearedData(f) : ArrayOf[v] = a THEN "cleared"
                                ELSE AfterRead(Reads(f))[a]]
  BY <1>1 DEF RunBackward
<1>4. ASSUME NEW v \in ClearedData(f) PROVE ArrayOf[v] \notin Leaves
  <2>1. v \in Outs(f) /\ \A d \in Inplace(f) : v # Out(f)[d[2]]
    BY DEF ClearedData
  <2>2. Inplace(f) = {}
    <3> SUFFICES ASSUME Inplace(f) # {} PROVE FALSE
      OBVIOUS
    <3>1. Inplace(f) = {<<1, 1>>} /\ Outs(f) = {Out(f)[1]}
      BY <1>2, ViewFacts
    <3>2. <<1, 1>> \in Inplace(f) /\ v = Out(f)[1]
      BY <2>1, <3>1
    <3> QED BY <2>1, <3>2
  <2>3. Parent(v) = f /\ f # 0 /\ v \in Var
    BY <1>2, <2>1, ParentFacts, GraphFacts, VarFacts
  <2>4. ArrayOf[v] = v
    BY <1>2, <2>2, <2>3, ArrayIs DEF Viewed
  <2> QED BY <1>2, <2>3, <2>4, VarFacts
<1>5. ASSUME NEW a \in Leaves PROVE data'[a] = "live" /\ va'[a].rank = 0
  <2>1. a \in Var /\ data[a] = "live" /\ va[a].rank = 0
    BY DEF Leaves, Referred
  <2>2. AfterRead(Reads(f))[a] = "live"
    BY <2>1 DEF AfterRead
  <2> QED BY <1>3, <1>4, <2>1, <2>2
<1> QED BY <1>3, <1>5, ReferredStays

\* All the other steps leave the data and the references alone.
LEMMA ReferredNext ==
    ASSUME IInv, Referred, Recalled, [Next]_vars
    PROVE  Referred'
<1>1. ASSUME UNCHANGED <<g, built, va, data>> PROVE Referred'
  <2>1. \A v \in Leaves : va'[v].rank = 0 /\ data'[v] = "live"
    BY <1>1 DEF Referred
  <2> QED BY <1>1, <2>1, ReferredStays
<1>2. ASSUME Program PROVE Referred'
  <2>1. CASE Connect
    BY <2>1, ConnectReferred
  <2>2. CASE ~Connect
    <3>1. UNCHANGED <<g, built, va, data>>
      BY <1>2, <2>2 DEF Program, Forward, ForwardAll, StartForward, Backward, SetNeedGrad, ZeroGrad
    <3> QED BY <1>1, <3>1
  <2> QED BY <2>1, <2>2
<1>3. ASSUME Engine PROVE Referred'
  <2>1. CASE Execute \/ Recompute \/ RunBackward
    BY <2>1, ExecuteReferred, RecomputeReferred, RunBackwardReferred
  <2>2. CASE ~(Execute \/ Recompute \/ RunBackward)
    <3>1. UNCHANGED <<g, built, va, data>>
      BY <1>3, <2>2 DEF Engine, EnterRoot, Descend, EndForward, Pick, StartRecompute,
                        RecomputeFails, EndBackward
    <3> QED BY <1>1, <3>1
  <2> QED BY <2>1, <2>2
<1>4. ASSUME UNCHANGED vars PROVE Referred'
  <2>1. UNCHANGED <<g, built, va, data>>
    BY <1>4 DEF vars
  <2> QED BY <1>1, <2>1
<1> QED BY <1>2, <1>3, <1>4 DEF Next

\* A program that has not begun has references to nothing.
LEMMA ReferredInit == Init => Referred
<1> SUFFICES ASSUME Init PROVE Referred
  OBVIOUS
<1>1. g \in Graphs /\ Built = {}
  BY DEF Init, Built
<1>2. \A v \in Var : Slots(v, Built) = {}
  BY <1>1 DEF Slots
<1>3. \A v \in Var : va[v].refs = 0 /\ va[v].rank = 0 /\ va[v].prohibit = FALSE
  BY DEF Init
<1>4. \A v \in Leaves : v \in Var /\ data[v] = "live"
  BY DEF Init, Leaves
<1> QED BY <1>1, <1>2, <1>3, <1>4, FS_EmptySet DEF Referred

\* What is recomputed was computed by a function that is connected.
LEMMA TargetIs ==
    ASSUME IInv, Recalled, StartRecompute
    PROVE  LET n == Min(ToRecompute)
           IN  n \in Nat /\ Parent(Targets(bwd.cur)[n]) \in Built
<1> DEFINE f == bwd.cur
           n == Min(ToRecompute)
           v == Targets(f)[n]
<1>1. g \in Graphs /\ f \in Fn /\ f \in Built /\ built \in Nat /\ Built \subseteq Fn /\ at = "backward"
  BY CurrentIs DEF StartRecompute, Working
<1>2. bwd.next \in Nat \ {0}
  BY <1>1 DEF Recalled
<1>3. ToRecompute \in SUBSET Nat /\ ToRecompute # {}
  BY <1>2 DEF ToRecompute, StartRecompute
<1>4. n \in ToRecompute
  BY <1>3, MinIs
<1>5. n \in bwd.next .. Len(Targets(f)) /\ NeedRecompute(f, n)
  BY <1>4 DEF ToRecompute
<1> HIDE DEF n
<1>6. In(f) \in Seq(Ins(f)) /\ Out(f) \in Seq(Outs(f)) /\ f \in Nat
  BY <1>1, GraphFacts
<1>7. CASE n <= Len(Out(f))
  <2>1. n \in DOMAIN Out(f) /\ v = Out(f)[n]
    BY <1>2, <1>5, <1>6, <1>7 DEF Targets
  <2>2. v \in Outs(f)
    BY <2>1 DEF Outs, Range
  <2>3. Parent(v) = f
    BY <1>1, <2>2, ParentFacts
  <2> QED BY <1>1, <1>2, <1>5, <2>3 DEF n
<1>8. CASE ~(n <= Len(Out(f)))
  <2>1. Parent(v) # 0 /\ v \in InputsUsed(f, Needing(f))
    BY <1>5, <1>8 DEF NeedRecompute
  <2>2. n - Len(Out(f)) \in DOMAIN In(f) /\ v = In(f)[n - Len(Out(f))]
    BY <1>2, <1>5, <1>6, <1>8 DEF Targets
  <2>3. v \in Ins(f)
    BY <2>2 DEF Ins, Range
  <2>4. Parent(v) \in Nat /\ Parent(v) < f
    BY <1>1, <2>3, VarFacts
  <2>5. Parent(v) \in Built
    BY <1>1, <2>1, <2>4 DEF Built
  <2> QED BY <1>2, <1>5, <2>5 DEF n
<1> QED BY <1>7, <1>8

\* The recursion of a recomputation stays among the connected functions.
LEMMA RecalledNext ==
    ASSUME IInv, Recalled, [Next]_vars
    PROVE  Recalled'
<1> DEFINE F == (1 .. built) \X (Nat \ {0})
           F1 == (1 .. built') \X (Nat \ {0})
<1>1. ASSUME at' # "backward" PROVE Recalled'
  BY <1>1 DEF Recalled
<1>2. ASSUME UNCHANGED <<built, at>>, fwd'.stack = fwd.stack, bwd'.next = bwd.next PROVE Recalled'
  BY <1>2 DEF Recalled
<1>3. ASSUME built' = built, fwd'.stack \in Seq(F), bwd'.next \in Nat \ {0} PROVE Recalled'
  BY <1>3 DEF Recalled
<1>4. ASSUME NEW r, NEW c, NEW ci, Backward(r, c, ci) PROVE Recalled'
  <2>1. fwd'.stack = <<>> /\ bwd'.next = 1 /\ built' = built
    BY <1>4 DEF Backward, Callback, NoBackward
  <2>2. fwd'.stack \in Seq(F)
    BY <2>1
  <2> QED BY <1>3, <2>1, <2>2
<1>5. ASSUME Program PROVE Recalled'
  <2>1. CASE \E r \in g.roots, c, ci \in BOOLEAN : Backward(r, c, ci)
    BY <1>4, <2>1
  <2>2. CASE ~ \E r \in g.roots, c, ci \in BOOLEAN : Backward(r, c, ci)
    <3>1. at' # "backward"
      BY <1>5, <2>2 DEF Program, Connect, Forward, ForwardAll, StartForward, SetNeedGrad, ZeroGrad, Call
    <3> QED BY <1>1, <3>1
  <2> QED BY <2>1, <2>2
<1>6. ASSUME Descend PROVE Recalled'
  <2>1. fwd'.stack \in Seq(F) /\ built' = built /\ bwd' = bwd /\ at' = at
    BY <1>6, NextDown DEF Descend
  <2> QED BY <2>1 DEF Recalled
<1>7. ASSUME Pick PROVE Recalled'
  <2>1. built' = built /\ at = "backward" /\ fwd'.stack = fwd.stack /\ (bwd'.next = 1 \/ bwd'.next = bwd.next)
    BY <1>7 DEF Pick, PassOver, IInv, Types
  <2> QED BY <1>3, <2>1 DEF Recalled
<1>8. ASSUME StartRecompute PROVE Recalled'
  <2>1. PICK n, p : n = Min(ToRecompute) /\ p = Parent(Targets(bwd.cur)[n])
    OBVIOUS
  <2>2. n \in Nat /\ p \in 1 .. built
    BY <1>8, <2>1, TargetIs DEF Built
  <2>3. fwd'.stack = <<<<p, 1>>>> /\ bwd'.next = n + 1 /\ built' = built
    BY <1>8, <2>1 DEF StartRecompute, IInv, Types
  <2>4. <<<<p, 1>>>> \in Seq(F)
    BY <2>2
  <2> QED BY <1>3, <2>2, <2>3, <2>4
<1>9. ASSUME Recompute PROVE Recalled'
  <2>1. fwd.stack \in Seq(F) /\ fwd.stack # <<>>
    BY <1>9, TopIs DEF Recompute
  <2>2. Front(fwd.stack) \in Seq(F)
    <3> HIDE DEF F
    <3> QED BY <2>1, Popped
  <2>3. fwd'.stack \in Seq(F) /\ built' = built /\ bwd' = bwd /\ at' = at
    BY <1>9, <2>2, ReturnedFacts DEF Recompute, IInv
  <2> QED BY <2>3 DEF Recalled
<1>10. ASSUME Engine PROVE Recalled'
  <2>1. ASSUME EnterRoot \/ EndForward \/ RecomputeFails \/ EndBackward \/ Execute PROVE Recalled'
    <3>1. CASE Execute
      <4>1. at = "forward" /\ at' = at
        BY <3>1, TopIs DEF Execute
      <4> QED BY <1>1, <4>1
    <3>2. CASE ~Execute
      <4>1. at' # "backward"
        BY <2>1, <3>2 DEF EnterRoot, EndForward, RecomputeFails, EndBackward
      <4> QED BY <1>1, <4>1
    <3> QED BY <3>1, <3>2
  <2>2. ASSUME RunBackward PROVE Recalled'
    <3>1. UNCHANGED <<built, at>> /\ fwd' = fwd /\ bwd'.next = bwd.next
      BY <2>2 DEF RunBackward, IInv, Types
    <3> QED BY <1>2, <3>1
  <2> QED BY <1>6, <1>7, <1>8, <1>9, <1>10, <2>1, <2>2 DEF Engine
<1>11. ASSUME UNCHANGED vars PROVE Recalled'
  <2>1. UNCHANGED <<built, at, fwd, bwd>>
    BY <1>11 DEF vars
  <2> QED BY <1>2, <2>1
<1> QED BY <1>5, <1>10, <1>11 DEF Next

-----------------------------------------------------------------------------
(* The steps of a forward that run no function. *)

\* Where neither the data nor what is asked for changes, what was there still is.
LEMMA RunStays ==
    ASSUME UNCHANGED <<g, built, va, data>>, fwd'.wanted = fwd.wanted
    PROVE  /\ \A D : Results(D) => Results(D)'
           /\ \A k, D : Caused(k, D) => Caused(k, D)'
           /\ \A M : Noted(M) /\ fwd'.seen = fwd.seen /\ fwd'.inplaced = fwd.inplaced => Noted(M)'
           /\ \A M : Gone(M) /\ fwd'.clear = fwd.clear /\ fwd'.pinned = fwd.pinned => Gone(M)'
           /\ \A k : Parents(g, k)' = Parents(g, k)
<1>1. /\ Fn' = Fn /\ Var' = Var /\ Leaves' = Leaves /\ ArrayOf' = ArrayOf /\ Built' = Built
      /\ \A v : Parent(v)' = Parent(v) /\ Shared(v)' = Shared(v) /\ Consumers(v)' = Consumers(v)
      /\ \A f : Ins(f)' = Ins(f) /\ Outs(f)' = Outs(f) /\ Inplace(f)' = Inplace(f)
                /\ Shields(f)' = Shields(f)
      /\ \A v, S : Slots(v, S)' = Slots(v, S)
  BY GraphKeeps DEF Built
<1>2. \A v : Live(v)' = Live(v) /\ Cleared(v)' = Cleared(v)
  BY <1>1 DEF Live, Cleared, DataOf
<1>3. \A D : Results(D) => Results(D)'
  BY <1>1, <1>2 DEF Results
<1>4. \A k, D : Caused(k, D) => Caused(k, D)'
  BY <1>1 DEF Caused
<1>5. \A M : Noted(M) /\ fwd'.seen = fwd.seen /\ fwd'.inplaced = fwd.inplaced => Noted(M)'
  <2>1. \A v, M : Turn(v, M)' = Turn(v, M)
    BY <1>1 DEF Turn
  <2> QED BY <1>1, <2>1 DEF Noted
<1>6. \A M : Gone(M) /\ fwd'.clear = fwd.clear /\ fwd'.pinned = fwd.pinned => Gone(M)'
  <2> SUFFICES ASSUME NEW M, Gone(M), fwd'.clear = fwd.clear, fwd'.pinned = fwd.pinned
               PROVE  Gone(M)'
    OBVIOUS
  <2>1. \A v : Persistent(v)' = Persistent(v)
    BY DEF Persistent
  <2> QED BY <1>1, <1>2, <2>1 DEF Gone
<1>7. \A k : Parents(g, k)' = Parents(g, k)
  BY DEF Parents
<1> QED BY <1>3, <1>4, <1>5, <1>6, <1>7

\* A callback that begins has nothing to remember.
LEMMA NothingNoted ==
    ASSUME UNCHANGED <<g, built>>, \A v \in Var : fwd'.seen[v] = 0, fwd'.inplaced = {}
    PROVE  Noted({})' /\ Gone({})'
<1>1. Var' = Var /\ \A v, S : Slots(v, S)' = Slots(v, S)
  BY GraphKeeps
<1>2. \A v \in Var : Turn(v, {})' = 0
  <2>1. \A v : Slots(v, {}) = {}
    BY DEF Slots
  <2>2. \A v : Cardinality(Slots(v, {})') = 0
    BY <1>1, <2>1, FS_EmptySet
  <2> QED BY <2>2 DEF Turn
<1>3. Noted({})'
  BY <1>1, <1>2 DEF Noted
<1>4. Gone({})'
  BY DEF Gone
<1> QED BY <1>3, <1>4

\* A forward begins.
LEMMA StartRun ==
    ASSUME IInv, NEW roots, NEW c, NEW t, NEW pinned, StartForward(roots, c, t, pinned),
           IsFiniteSet(Range(roots)),
           \A i \in DOMAIN roots : Parent(roots[i]) \in Built,
           pinned = Range(roots) \/ \E r : Range(roots) = {r}
    PROVE  Run({}, {})'
<1>1. UNCHANGED <<g, built>>
  BY DEF StartForward
<1>2. /\ fwd'.stack = <<>> /\ fwd'.closed = {} /\ fwd'.roots = roots /\ fwd'.wanted = Range(roots)
      /\ fwd'.pinned = pinned /\ fwd'.inplaced = {} /\ \A v \in Var : fwd'.seen[v] = 0
  BY DEF StartForward, Callback
<1>3. /\ Var' = Var /\ Built' = Built /\ \A v : Parent(v)' = Parent(v)
  BY <1>1, GraphKeeps DEF Built
<1>4. Executed({}, {})'
  BY <1>2 DEF Executed
<1>5. Asked'
  <2>1. \A w \in Range(roots) : Parent(w) \in Built
    BY DEF Range
  <2> QED BY <1>2, <1>3, <2>1 DEF Asked
<1>6. Noted({})' /\ Gone({})'
  BY <1>1, <1>2, NothingNoted
<1>7. Results({} \cup {})'
  BY DEF Results
<1> QED BY <1>4, <1>5, <1>6, <1>7 DEF Run

\* The two ways to begin.
LEMMA ForwardRun ==
    ASSUME IInv, NEW r, NEW c, NEW t, Forward(r, c, t) \/ ForwardAll(c, t)
    PROVE  Run({}, {})'
<1>1. CASE Forward(r, c, t)
  <2>1. DOMAIN <<r>> = {1} /\ <<r>>[1] = r
    OBVIOUS
  <2>2. Range(<<r>>) = {r} /\ \A i \in DOMAIN <<r>> : Parent(<<r>>[i]) \in Built
    BY <1>1, <2>1 DEF Forward, Range
  <2>3. IsFiniteSet(Range(<<r>>))
    BY <2>2, FS_Singleton
  <2> QED BY <1>1, <2>2, <2>3, StartRun DEF Forward
<1>2. CASE ForwardAll(c, t)
  <2>1. Len(g.all) \in Nat /\ DOMAIN g.all = 1 .. Len(g.all)
    BY GraphFacts DEF IInv, Types
  <2>2. IsFiniteSet(DOMAIN g.all)
    <3>1. IsFiniteSet(1 .. Len(g.all))
      BY <2>1, FS_Interval
    <3> QED BY <2>1, <3>1
  <2>3. [i \in DOMAIN g.all |-> g.all[i]] \in Surjection(DOMAIN g.all, Range(g.all))
    BY DEF Surjection, Range
  <2>4. IsFiniteSet(Range(g.all))
    BY <2>2, <2>3, FS_Surjection
  <2> QED BY <1>2, <2>4, StartRun DEF ForwardAll
<1> QED BY <1>1, <1>2

\* The next root is there already, or a new callback begins, for which all that has been executed
\* was executed in others.
LEMMA EnterRootRun ==
    ASSUME IInv, NEW M \in SUBSET Fn, NEW O \in SUBSET Fn, Run(M, O), EnterRoot
    PROVE  \E M1, O1 \in SUBSET Fn : Run(M1, O1)'
<1>1. PICK r : r = Head(fwd.roots)
  OBVIOUS
<1>2. PICK p : p = Parent(r)
  OBVIOUS
<1>3. UNCHANGED <<g, built, va, data>> /\ fwd.stack = <<>> /\ fwd.roots # <<>> /\ at = "forward"
  BY DEF EnterRoot
<1>4. PICK S \in SUBSET Fn : ForwardOK(g, built, fwd, S)
  BY <1>3 DEF IInv, Good
<1>5. fwd.roots \in Seq(Computed(g, built)) /\ g \in Graphs
  BY <1>4 DEF ForwardOK, IInv, Types
<1>6. r \in Range(fwd.roots) /\ r \in fwd.wanted
  <2>1. 1 \in DOMAIN fwd.roots /\ r = fwd.roots[1]
    BY <1>1, <1>3, <1>5
  <2>2. r \in Range(fwd.roots)
    BY <2>1 DEF Range
  <2> QED BY <2>2 DEF Run, Asked
<1>7. \A w \in Range(fwd.roots) : w = r \/ w \in Range(Tail(fwd.roots))
  <2> SUFFICES ASSUME NEW i \in DOMAIN fwd.roots, i # 1
               PROVE  fwd.roots[i] \in Range(Tail(fwd.roots))
    BY <1>1, <1>3, <1>5 DEF Range
  <2>1. i - 1 \in DOMAIN Tail(fwd.roots) /\ Tail(fwd.roots)[i - 1] = fwd.roots[i]
    BY <1>3, <1>5
  <2> QED BY <2>1 DEF Range
<1>8. Range(Tail(fwd.roots)) \subseteq Range(fwd.roots)
  <2> SUFFICES ASSUME NEW i \in DOMAIN Tail(fwd.roots)
               PROVE  Tail(fwd.roots)[i] \in Range(fwd.roots)
    BY DEF Range
  <2>1. i + 1 \in DOMAIN fwd.roots /\ Tail(fwd.roots)[i] = fwd.roots[i + 1]
    BY <1>3, <1>5
  <2> QED BY <2>1 DEF Range
<1>9. Fn' = Fn /\ Var' = Var /\ Built' = Built /\ \A v : Parent(v)' = Parent(v)
  BY <1>3, GraphKeeps DEF Built
<1>10. M \cup O = fwd.closed
  <2>1. OnStack(fwd) = {}
    BY <1>3 DEF OnStack
  <2> QED BY <2>1 DEF Run, Executed
<1>11. fwd'.wanted = fwd.wanted
  BY DEF EnterRoot, IInv, Types, Callback
<1>12. /\ Results(M \cup O)' /\ \A k : Parents(g, k)' = Parents(g, k)
       /\ \A k, D : Caused(k, D) => Caused(k, D)'
  <2>1. Results(M \cup O)
    BY DEF Run
  <2> QED BY <1>3, <1>11, <2>1, RunStays
<1>13. CASE p \in fwd.closed
  <2>1. fwd' = [fwd EXCEPT !.roots = Tail(@)]
    BY <1>1, <1>2, <1>13 DEF EnterRoot
  <2>2. /\ fwd'.roots = Tail(fwd.roots) /\ fwd'.closed = fwd.closed /\ fwd'.stack = fwd.stack
        /\ fwd'.seen = fwd.seen /\ fwd'.inplaced = fwd.inplaced /\ fwd'.pinned = fwd.pinned
        /\ fwd'.clear = fwd.clear
    BY <2>1 DEF IInv, Types
  <2>3. Executed(M, O)'
    <3>1. OnStack(fwd') = OnStack(fwd)
      BY <2>2 DEF OnStack
    <3> QED BY <1>12, <2>2, <3>1 DEF Run, Executed
  <2>4. Asked'
    BY <1>2, <1>6, <1>7, <1>8, <1>9, <1>11, <1>13, <2>2 DEF Run, Asked
  <2>5. Noted(M)' /\ Gone(M)'
    <3>1. Noted(M) /\ Gone(M)
      BY DEF Run
    <3> QED BY <1>3, <1>11, <2>2, <3>1, RunStays
  <2>6. Run(M, O)'
    BY <1>11, <1>12, <2>3, <2>4, <2>5 DEF Run
  <2> QED BY <2>6
<1>14. CASE p \notin fwd.closed
  <2>0. PICK C, C1, Z : C = fwd.closed /\ C1 = fwd'.closed /\ Z = {}
    OBVIOUS
  <2>1. /\ fwd'.roots = Tail(fwd.roots) /\ C1 = C \cup {p}
        /\ fwd'.stack = <<<<p, 1>>>> /\ fwd'.inplaced = {} /\ fwd'.pinned = fwd.pinned
        /\ \A v \in Var : fwd'.seen[v] = 0
    BY <1>1, <1>2, <1>14, <2>0 DEF EnterRoot, Callback
  <2>2. Executed(Z, C)'
    <3>1. OnStack(fwd') = {p}
      <4>1. DOMAIN <<<<p, 1>>>> = {1} /\ <<<<p, 1>>>>[1] = <<p, 1>>
        OBVIOUS
      <4> QED BY <2>1, <4>1 DEF OnStack
    <3>2. r \in Outs(p)
      <4>1. p \in Built
        BY <1>2, <1>6 DEF Run, Asked
      <4> QED BY <1>2, <1>5, <4>1, ParentFacts, GraphFacts DEF IInv, Types
    <3>3. Caused(p, C1)
      BY <1>6, <3>2 DEF Caused
    <3>4. \A k \in C : Caused(k, C1) /\ Caused(k, C)
      BY <2>0, <2>1 DEF Run, Executed, Caused
    <3>5. \A k \in C1 : Caused(k, C1)'
      BY <1>12, <2>1, <3>3, <3>4
    <3>6. \A k \in C : Caused(k, C)' /\ Parents(g, k)' \subseteq C
      BY <1>10, <1>12, <2>0, <3>4 DEF Run, Executed
    <3>7. Z \cup C = fwd'.closed \ OnStack(fwd') /\ Z \cap C = {} /\ Z \cup C = C
      BY <1>14, <2>0, <2>1, <3>1
    <3> QED BY <2>0, <3>5, <3>6, <3>7 DEF Executed
  <2>3. Asked'
    <3>1. \A w \in fwd.wanted : Parent(w) \in Built /\ (w \in Range(fwd'.roots) \/ Parent(w) \in C1)
      BY <1>2, <1>7, <2>0, <2>1 DEF Run, Asked
    <3>2. Range(fwd'.roots) \subseteq fwd.wanted
      BY <1>8, <2>1 DEF Run, Asked
    <3>3. fwd.pinned = fwd.wanted \/ \E w : fwd.wanted = {w} /\ \A k \in C1 : k <= Parent(w)
      <4>1. CASE fwd.pinned = fwd.wanted
        BY <4>1
      <4>2. CASE \E w : fwd.wanted = {w} /\ \A k \in C : k <= Parent(w)
        <5>1. PICK w : fwd.wanted = {w} /\ \A k \in C : k <= Parent(w)
          BY <4>2
        <5>2. w = r /\ p \in Nat /\ p <= p
          BY <1>2, <1>5, <1>6, <5>1, VarFacts
        <5> QED BY <1>2, <2>1, <5>1, <5>2
      <4> QED BY <2>0, <4>1, <4>2 DEF Run, Asked
    <3>4. \E w \in fwd.wanted : Parent(w) \in C1
      BY <1>2, <1>6, <2>1
    <3>5. IsFiniteSet(fwd.wanted)
      BY DEF Run, Asked
    <3> QED BY <1>9, <1>11, <2>0, <2>1, <3>1, <3>2, <3>3, <3>4, <3>5 DEF Asked
  <2>4. Noted(Z)' /\ Gone(Z)'
    BY <1>3, <2>0, <2>1, NothingNoted
  <2>5. Results(Z \cup C)'
    <3>1. Z \cup C = M \cup O
      BY <1>10, <2>0
    <3> QED BY <1>12, <3>1
  <2>6. ASSUME NEW w, fwd.wanted = {w} PROVE C = {}
    BY <1>2, <1>6, <1>14, <2>0, <2>6 DEF Run, Asked
  <2>7. Run(Z, C)'
    BY <1>11, <2>2, <2>3, <2>4, <2>5, <2>6 DEF Run
  <2>8. C \in SUBSET Fn /\ Z \in SUBSET Fn
    BY <1>10, <2>0
  <2> QED BY <2>7, <2>8
<1> QED BY <1>13, <1>14

\* A function is closed for the input of another one.
LEMMA DescendRun ==
    ASSUME IInv, Recalled, at = "forward", Descend, NEW M \in SUBSET Fn, NEW O \in SUBSET Fn, Run(M, O)
    PROVE  Run(M, O)'
<1>1. PICK f, i, p : f = Top[1] /\ i = Min(Pending) /\ p = Parent(In(f)[i])
  OBVIOUS
<1>2. /\ i \in DOMAIN In(f) /\ p \in Fn /\ p < f /\ p \in Built /\ p \notin fwd.closed
      /\ OnStack(fwd') = OnStack(fwd) \cup {p}
  BY <1>1, NextDown
<1>3. UNCHANGED <<g, built, va, data>> /\ g \in Graphs /\ f \in Fn /\ f \in OnStack(fwd)
      /\ fwd.stack # <<>>
  BY <1>1, TopIs DEF Descend
<1>4. PICK S \in SUBSET Fn : ForwardOK(g, built, fwd, S)
  BY DEF IInv, Good
<1>5. f \in fwd.closed
  BY <1>3, <1>4 DEF ForwardOK, OnStack
<1>6. /\ fwd'.closed = fwd.closed \cup {p} /\ fwd'.roots = fwd.roots /\ fwd'.seen = fwd.seen
      /\ fwd'.inplaced = fwd.inplaced /\ fwd'.pinned = fwd.pinned /\ fwd'.clear = fwd.clear
      /\ fwd'.wanted = fwd.wanted
  BY <1>1 DEF Descend, IInv, Types
<1>7. /\ Noted(M)' /\ Gone(M)' /\ Results(M \cup O)'
      /\ \A k : Parents(g, k)' = Parents(g, k)
      /\ \A k, D : Caused(k, D) => Caused(k, D)'
  <2>1. Noted(M) /\ Gone(M) /\ Results(M \cup O)
    BY DEF Run
  <2> QED BY <1>3, <1>6, <2>1, RunStays
<1>8. PICK C, C1 : C = fwd.closed /\ C1 = fwd'.closed
  OBVIOUS
<1>9. Executed(M, O)'
  <2>1. In(f)[i] \in Outs(p) /\ In(f)[i] \in Ins(f)
    BY <1>1, <1>2, <1>3, ParentFacts, VarFacts, GraphFacts
  <2>2. Caused(p, C1)
    BY <1>5, <1>6, <1>8, <2>1 DEF Caused
  <2>3. \A k \in C : Caused(k, C1)
    BY <1>6, <1>8 DEF Run, Executed, Caused
  <2>4. \A k \in C1 : Caused(k, C1)'
    BY <1>6, <1>7, <1>8, <2>2, <2>3
  <2>5. \A k \in O : Caused(k, O)'
    BY <1>7 DEF Run, Executed
  <2>6. M \cup O = fwd'.closed \ OnStack(fwd')
    BY <1>2, <1>6 DEF Run, Executed
  <2>7. M \cap O = {} /\ \A k \in M \cup O : Parents(g, k)' \subseteq M \cup O
    BY <1>7 DEF Run, Executed
  <2> QED BY <1>8, <2>4, <2>5, <2>6, <2>7 DEF Executed
<1>10. Asked'
  <2>1. Built' = Built /\ \A v : Parent(v)' = Parent(v)
    BY <1>3, GraphKeeps DEF Built
  <2>2. fwd.pinned = fwd.wanted \/ \E r : fwd.wanted = {r} /\ \A k \in C1 : k <= Parent(r)
    <3>1. ASSUME NEW r, \A k \in C : k <= Parent(r) PROVE \A k \in C1 : k <= Parent(r)
      <4>1. f <= Parent(r) /\ f \in Nat /\ p \in Nat /\ Parent(r) \in Nat
        BY <1>2, <1>3, <1>5, <1>8, <3>1, VarFacts, GraphFacts
      <4>2. p <= Parent(r)
        BY <1>2, <4>1
      <4> QED BY <1>6, <1>8, <3>1, <4>2
    <3> QED BY <1>8, <3>1 DEF Run, Asked
  <2> QED BY <1>5, <1>6, <1>8, <2>1, <2>2 DEF Run, Asked
<1> QED BY <1>6, <1>7, <1>9, <1>10 DEF Run

-----------------------------------------------------------------------------
(* Running a function. *)

\* The function that is about to run, in a forward that has executed M and O.
Ready(f, M, O) ==
    /\ g \in Graphs /\ Built \subseteq Fn /\ built \in Nat
    /\ f \in Built /\ f \in fwd.closed /\ f \notin M \cup O
    /\ M \subseteq Built /\ O \subseteq Built /\ M \cap O = {}
    /\ \A v \in Ins(f) : Parent(v) = 0 \/ Parent(v) \in M \cup O

\* All it reads has been computed.
LEMMA ExecuteReady ==
    ASSUME IInv, Recalled, Execute, NEW M \in SUBSET Fn, NEW O \in SUBSET Fn, Run(M, O)
    PROVE  /\ Ready(Top[1], M, O)
           /\ OnStack(fwd') = OnStack(fwd) \ {Top[1]}
<1>1. PICK f : f = Top[1]
  OBVIOUS
<1>2. /\ g \in Graphs /\ Built \subseteq Fn /\ built \in Nat /\ f \in Built /\ f \in Fn
      /\ at = "forward" /\ f \in OnStack(fwd) /\ fwd.stack # <<>> /\ Pending = {} /\ ~fwd.again
  BY <1>1, TopIs DEF Execute
<1>3. PICK S \in SUBSET Fn : ForwardOK(g, built, fwd, S)
  BY <1>2 DEF IInv, Good
<1>4. /\ f \in fwd.closed /\ Top[2] \in Nat \ {0}
      /\ \A k \in OnStack(fwd) : k \in Fn /\ (k = f \/ f < k)
  BY <1>1, <1>2, <1>3, TopFacts
<1>5. \A m \in DOMAIN In(f) : m < Top[2] => Parent(In(f)[m]) \in fwd.closed \cup {0}
  BY <1>1, <1>2, <1>3, TopFacts
<1>6. Len(In(f)) \in Nat /\ DOMAIN In(f) = 1 .. Len(In(f))
  BY <1>2, GraphFacts
<1>7. M \cup O = fwd.closed \ OnStack(fwd) /\ M \cap O = {}
  BY DEF Run, Executed
<1>8. fwd.closed \subseteq Built
  BY <1>3 DEF ForwardOK, Built
<1>9. ASSUME NEW v \in Ins(f), Parent(v) # 0 PROVE Parent(v) \in M \cup O
  <2>1. PICK m \in DOMAIN In(f) : v = In(f)[m]
    BY <1>2, VarFacts
  <2>2. Parent(v) \in fwd.closed
    <3>1. CASE m < Top[2]
      BY <1>5, <1>9, <2>1, <3>1
    <3>2. CASE m >= Top[2]
      <4>1. m \in Top[2] .. Len(In(f))
        BY <1>4, <1>6, <3>2
      <4>2. ~Descends(In(f)[m])
        BY <1>1, <1>2, <4>1 DEF Pending
      <4> QED BY <1>2, <1>9, <2>1, <4>2 DEF Descends
    <3> QED BY <1>4, <1>6, <3>1, <3>2
  <2>3. Parent(v) \notin OnStack(fwd)
    <3>1. Parent(v) \in Nat /\ f \in Nat /\ Parent(v) < f
      BY <1>2, VarFacts, GraphFacts
    <3> QED BY <1>4, <3>1
  <2> QED BY <1>7, <2>2, <2>3
<1>10. Ready(f, M, O)
  BY <1>2, <1>4, <1>7, <1>8, <1>9 DEF Ready
<1>11. OnStack(fwd') = OnStack(fwd) \ {f}
  <2>1. PICK s, F : s = fwd.stack /\ F = (1 .. built) \X (Nat \ {0})
    OBVIOUS
  <2>2. s \in Seq(F) /\ s # <<>> /\ \A i, j \in DOMAIN s : i < j => s[j][1] < s[i][1]
    BY <1>2, <1>3, <2>1 DEF ForwardOK
  <2>3. \A i, j \in DOMAIN s : i < j => s[j][1] # s[i][1]
    <3>1. \A i \in DOMAIN s : s[i][1] \in Nat
      <4>1. \A i \in DOMAIN s : s[i] \in F
        BY <2>2
      <4> QED BY <2>1, <4>1
    <3> QED BY <2>2, <3>1
  <2>4. Running(Front(s)) = Running(s) \ {Last(s)[1]}
    BY ONLY <2>2, <2>3, Popped
  <2>5. Last(s)[1] = f
    BY <1>1, <2>1 DEF Top
  <2>6. fwd'.stack = Front(s)
    BY <2>1, ReturnedFacts DEF Execute, IInv
  <2> QED BY <2>1, <2>4, <2>5, <2>6 DEF OnStack, Running
<1> QED BY <1>1, <1>10, <1>11

\* What it reads has not been cleared by the functions that read it before.
LEMMA ReadsLive ==
    ASSUME NEW f, NEW M, NEW O, Ready(f, M, O), Referred, Results(M \cup O)
    PROVE  ReadAll(f)
<1> SUFFICES ASSUME NEW v \in Ins(f) PROVE Live(v)
  BY DEF ReadAll
<1>1. v \in Var /\ f \in Fn /\ g \in Graphs
  BY VarFacts DEF Ready
<1>2. CASE Parent(v) = 0
  <2>1. v \in Leaves /\ ~Viewed(v)
    BY <1>1, <1>2 DEF Leaves, Viewed
  <2> QED BY <1>1, <2>1, ArrayIs DEF Live, DataOf, Referred
<1>3. CASE Parent(v) \in M \cup O
  <2>1. f \in Consumers(v) \cap Built /\ f \notin M \cup O
    BY <1>1 DEF Consumers, Ready
  <2> QED BY <1>1, <1>3, <2>1 DEF Results
<1> QED BY <1>2, <1>3 DEF Ready

\* What is cleared is an input nothing that is connected reads any more, nobody waits for, and no
\* other variable shares its array with.
LEMMA ClearedAlone ==
    ASSUME NEW f, NEW M, NEW O, Ready(f, M, O), Referred, Run(M, O),
           NEW i \in DOMAIN In(f), NEW needs, Clears(f, i, needs)
    PROVE  LET v == In(f)[i]
           IN  /\ Consumers(v) \cap Built \subseteq M \cup {f} /\ v \notin fwd.wanted
               /\ v \in Var /\ ArrayOf[v] = v
               /\ \A w \in Var : Parent(w) \in Built /\ ArrayOf[w] = v => w = v
<1>0. PICK v : v = In(f)[i]
  OBVIOUS
<1>1. /\ g \in Graphs /\ Built \subseteq Fn /\ built \in Nat /\ f \in Fn /\ f \in Built
      /\ v \in Ins(f) /\ v \in Var /\ f \notin M \cup O /\ M \subseteq Built /\ f \in fwd.closed
  BY <1>0, VarFacts DEF Ready
<1>2. /\ LastVisit(f, i) /\ v \notin Leaves /\ ~Persistent(v) /\ ~IsInplace(f, i)
      /\ v \notin fwd.inplaced
  BY <1>0 DEF Clears, Inplaced
<1>3. Consumers(v) \cap Built \subseteq M \cup {f}
  <2>1. Noted(M)
    BY DEF Run
  <2> QED BY <1>0, <1>1, <1>2, <2>1, LastVisitIs
<1>4. Parent(v) # 0 /\ Parent(v) \in M \cup O /\ Parent(v) \in Nat /\ Parent(v) < f /\ f \in Nat
  BY <1>1, <1>2, VarFacts, GraphFacts DEF Ready
<1>5. v \notin fwd.wanted
  <2>1. CASE fwd.pinned = fwd.wanted
    BY <1>2, <2>1 DEF Persistent
  <2>2. CASE \E r : fwd.wanted = {r} /\ \A k \in fwd.closed : k <= Parent(r)
    BY <1>1, <1>4, <2>2
  <2> QED BY <2>1, <2>2 DEF Run, Asked
<1>6. \A k \in M : Inplace(k) # {} => Ins(k) \cup Outs(k) \subseteq fwd.inplaced
  BY DEF Run, Noted
<1>7. ~Viewed(v)
  <2> SUFFICES ASSUME Viewed(v) PROVE FALSE
    OBVIOUS
  <2>1. PICK k : k = Parent(v)
    OBVIOUS
  <2>2. k \in Fn /\ Inplace(k) # {} /\ v = Out(k)[1] /\ Outs(k) = {Out(k)[1]}
    BY <1>1, <2>1, BaseFacts, ViewFacts DEF Viewed
  <2>3. CASE k \in M
    BY <1>2, <1>6, <2>2, <2>3
  <2>4. CASE k \in O
    <3>1. Caused(k, O)
      BY <2>4 DEF Run, Executed
    <3>2. PICK c \in O : v \in Ins(c)
      BY <1>5, <2>2, <3>1 DEF Caused
    <3>3. c \in Built /\ c \in Fn /\ c \notin M /\ c # f
      BY <3>2 DEF Ready
    <3>4. c \in Consumers(v) \cap Built
      BY <3>2, <3>3 DEF Consumers
    <3> QED BY <1>3, <3>3, <3>4
  <2> QED BY <1>4, <2>1, <2>3, <2>4
<1>8. ArrayOf[v] = v
  BY <1>1, <1>7, ArrayIs
<1>9. ASSUME NEW w \in Var, Parent(w) \in Built, ArrayOf[w] = v, w # v PROVE FALSE
  <2>1. PICK k \in Fn : k <= Parent(w) /\ Inplace(k) # {} /\ In(k)[1] = v
    BY <1>1, <1>9, Borrowed
  <2>2. k \in Built
    <3>1. k \in Nat /\ k # 0
      BY <1>1, GraphFacts
    <3> QED BY <1>1, <1>9, <2>1, <3>1 DEF Built
  <2>3. DOMAIN In(k) = {1} /\ Inplace(k) = {<<1, 1>>} /\ Ins(k) = {v}
    BY <1>1, <2>1, ViewFacts
  <2>4. k \in M \cup {f}
    BY <1>3, <2>2, <2>3 DEF Consumers
  <2>5. k # f
    <3> SUFFICES ASSUME k = f PROVE FALSE
      OBVIOUS
    <3>1. i = 1 /\ <<1, 1>> \in Inplace(f) /\ <<1, 1>>[1] = 1
      BY <2>3
    <3> QED BY <1>2, <3>1 DEF IsInplace
  <2> QED BY <1>2, <1>6, <2>1, <2>3, <2>4, <2>5
<1> QED BY <1>0, <1>1, <1>3, <1>5, <1>8, <1>9

\* Where forward does not clear an array, it holds what it held or what the function computed.
LEMMA Untouched ==
    ASSUME NEW f, NEW needs, NEW a \in Var,
           \A i \in DOMAIN In(f) : Clears(f, i, needs) => ArrayOf[In(f)[i]] # a
    PROVE  ClearInputs(f, needs, AfterForward(f))[a] = AfterForward(f)[a]
BY DEF ClearInputs

\* What is still needed is there.
LEMMA ResultsStay ==
    ASSUME NEW f, NEW M, NEW O, Ready(f, M, O), Referred, Run(M, O), NEW needs,
           UNCHANGED <<g, built>>, fwd'.wanted = fwd.wanted,
           data' = ClearInputs(f, needs, AfterForward(f))
    PROVE  Results((M \cup {f}) \cup O)'
<1>0. PICK D, D1 : D = M \cup O /\ D1 = (M \cup {f}) \cup O
  OBVIOUS
<1>1. /\ g \in Graphs /\ Built \subseteq Fn /\ f \in Fn /\ f \in Built /\ D1 \subseteq Built /\ f # 0
      /\ D1 = D \cup {f}
  BY <1>0, GraphFacts DEF Ready
<1>2. Results(D)
  BY <1>0 DEF Run
<1>3. ReadAll(f)
  BY <1>0, <1>2, ReadsLive
<1>4. Var' = Var /\ ArrayOf' = ArrayOf /\ Built' = Built
      /\ \A v : Parent(v)' = Parent(v) /\ Consumers(v)' = Consumers(v)
  BY GraphKeeps DEF Built
<1>5. ASSUME NEW v \in Var, Parent(v) \in D1
      PROVE  data'[ArrayOf[v]] = "live" \/ (v \notin fwd.wanted /\ Consumers(v) \cap Built \subseteq D1)
  <2>1. ArrayOf[v] \in Var
    BY <1>1, Borrowed
  <2>2. CASE \E i \in DOMAIN In(f) : Clears(f, i, needs) /\ ArrayOf[In(f)[i]] = ArrayOf[v]
    <3>1. PICK i \in DOMAIN In(f) : Clears(f, i, needs) /\ ArrayOf[In(f)[i]] = ArrayOf[v]
      BY <2>2
    <3>2. PICK u : u = In(f)[i]
      OBVIOUS
    <3>3. /\ Consumers(u) \cap Built \subseteq M \cup {f} /\ u \notin fwd.wanted
          /\ ArrayOf[u] = u
          /\ \A w \in Var : Parent(w) \in Built /\ ArrayOf[w] = u => w = u
      BY <3>1, <3>2, ClearedAlone
    <3>4. v = u
      BY <1>1, <1>5, <3>1, <3>2, <3>3
    <3> QED BY <1>0, <3>3, <3>4
  <2>3. CASE \A i \in DOMAIN In(f) : Clears(f, i, needs) => ArrayOf[In(f)[i]] # ArrayOf[v]
    <3>1. data'[ArrayOf[v]] = AfterForward(f)[ArrayOf[v]]
      BY <2>1, <2>3, Untouched
    <3>2. CASE Parent(v) \in D
      <4>1. CASE Live(v)
        <5>1. AfterForward(f)[ArrayOf[v]] = "live"
          BY <1>1, <1>3, <2>1, <4>1, LiveStays DEF Live, DataOf
        <5> QED BY <3>1, <5>1
      <4>2. CASE ~Live(v)
        BY <1>1, <1>2, <3>2, <4>2 DEF Results
      <4> QED BY <4>1, <4>2
    <3>3. CASE Parent(v) = f
      <4>1. v \in Outs(f)
        BY <1>1, <3>3, ParentFacts
      <4>2. CASE Inplace(f) = {}
        <5>1. ArrayOf[v] = v
          BY <1>1, <3>3, <4>2, ArrayIs DEF Viewed
        <5> QED BY <1>3, <3>1, <4>1, <4>2, <5>1 DEF AfterForward
      <4>3. CASE Inplace(f) # {}
        <5>1. Viewed(v) /\ ArrayOf[v] = ArrayOf[Base(v)] /\ Base(v) \in Ins(f)
          BY <1>1, <3>3, <4>3, ArrayIs, BaseFacts DEF Viewed
        <5>2. data[ArrayOf[v]] = "live"
          BY <1>3, <5>1 DEF ReadAll, Live, DataOf
        <5> QED BY <3>1, <4>3, <5>2 DEF AfterForward
      <4> QED BY <4>2, <4>3
    <3> QED BY <1>1, <1>5, <3>2, <3>3
  <2> QED BY <2>2, <2>3
<1>6. Results(D1)'
  BY <1>4, <1>5 DEF Results, Live, DataOf
<1> QED BY <1>0, <1>6

\* What nothing needs any more has gone.
LEMMA GoneStays ==
    ASSUME NEW f, NEW M, NEW O, Ready(f, M, O), Referred, Run(M, O), NEW needs,
           UNCHANGED <<g, built>>, fwd'.pinned = fwd.pinned, fwd'.clear = fwd.clear,
           data' = ClearInputs(f, needs, AfterForward(f))
    PROVE  Gone(M \cup {f})'
<1>0. PICK M1 : M1 = M \cup {f}
  OBVIOUS
<1>1. /\ g \in Graphs /\ Built \subseteq Fn /\ f \in Fn /\ f \in Built /\ M \subseteq Built /\ f # 0
      /\ f \notin M \cup O
  BY GraphFacts DEF Ready
<1>2. Noted(M) /\ Gone(M) /\ \A k \in M \cup O : Parents(g, k) \subseteq M \cup O
  BY DEF Run, Executed
<1>3. /\ Var' = Var /\ Leaves' = Leaves /\ ArrayOf' = ArrayOf /\ Built' = Built
      /\ \A v : Parent(v)' = Parent(v) /\ Shared(v)' = Shared(v) /\ Consumers(v)' = Consumers(v)
      /\ \A k : Shields(k)' = Shields(k)
      /\ \A v : Persistent(v)' = Persistent(v)
  BY GraphKeeps DEF Built, Persistent
<1>4. ASSUME fwd.clear, NEW v \in Var \ Leaves, Consumers(v) \cap Built # {},
             Consumers(v) \cap Built \subseteq M1, ~Persistent(v), ~Shared(v),
             \A k \in Consumers(v) \cap Built : ~Shields(k)
      PROVE  data'[ArrayOf[v]] = "cleared"
  <2>1. ArrayOf[v] \in Var
    BY <1>1, <1>4, Borrowed
  <2>2. \A k \in Fn : Inplace(k) # {} => v \notin Ins(k) \cup Outs(k)
    <3> SUFFICES ASSUME NEW k \in Fn, Inplace(k) # {}, v \in Ins(k) \cup Outs(k) PROVE FALSE
      OBVIOUS
    <3>1. 1 \in DOMAIN In(k) /\ <<1, 1>> \in Inplace(k) /\ <<1, 1>>[1] = 1 /\ Ins(k) = {In(k)[1]}
      BY <1>1, ViewFacts
    <3> QED BY <1>4, <3>1 DEF Shared, IsInplace
  <2>3. CASE v \in Ins(f)
    <3> DEFINE P == {j \in DOMAIN In(f) : In(f)[j] = v}
               i == Max(P)
    <3>1. Len(In(f)) \in Nat /\ DOMAIN In(f) = 1 .. Len(In(f))
      BY <1>1, GraphFacts
    <3>2. P \in SUBSET Nat /\ P # {} /\ \A j \in P : j <= Len(In(f))
      BY <1>1, <2>3, <3>1, VarFacts
    <3>3. i \in P /\ \A j \in P : i >= j
      <4> HIDE DEF P
      <4> QED BY <3>1, <3>2, MaxIs
    <3> HIDE DEF i
    <3>4. i \in DOMAIN In(f) /\ In(f)[i] = v /\ \A j \in DOMAIN In(f) : In(f)[j] = In(f)[i] => j <= i
      BY <3>1, <3>3
    <3>5. LastVisit(f, i)
      BY <1>0, <1>1, <1>2, <1>4, <3>4, LastVisitIs
    <3>6. ~Shields(f)
      BY <1>1, <1>4, <2>3 DEF Consumers
    <3>7. Inplace(f) = {}
      BY <1>1, <2>2, <2>3
    <3>8. ~IsInplace(f, i)
      BY <3>7 DEF IsInplace
    <3>9. ~va[v].prohibit
      BY <1>4 DEF Referred
    <3>10. v \notin Inplaced(f, i)
      <4>1. v \notin fwd.inplaced
        BY <1>2, <1>4 DEF Noted
      <4> QED BY <3>7, <4>1 DEF Inplaced
    <3>11. Clears(f, i, needs)
      BY <1>4, <3>4, <3>5, <3>6, <3>8, <3>9, <3>10 DEF Clears
    <3> QED BY <2>1, <3>4, <3>11 DEF ClearInputs
  <2>4. CASE v \notin Ins(f)
    <3>1. Consumers(v) \cap Built \subseteq M
      BY <1>0, <1>4, <2>4 DEF Consumers
    <3>2. data[ArrayOf[v]] = "cleared"
      BY <1>2, <1>4, <3>1 DEF Gone, Cleared, DataOf
    <3>3. ArrayOf[v] = v
      <4>1. ~Viewed(v)
        <5> SUFFICES ASSUME Viewed(v) PROVE FALSE
          OBVIOUS
        <5>1. Parent(v) \in Fn /\ v \in Outs(Parent(v)) /\ Inplace(Parent(v)) # {}
          BY <1>1, ParentFacts DEF Viewed
        <5> QED BY <2>2, <5>1
      <4> QED BY <1>1, <1>4, <4>1, ArrayIs
    <3>4. v \notin Outs(f)
      <4> SUFFICES ASSUME v \in Outs(f) PROVE FALSE
        OBVIOUS
      <4>1. Parent(v) = f
        BY <1>1, ParentFacts
      <4>2. PICK k \in Consumers(v) \cap Built : TRUE
        BY <1>4
      <4>3. k \in M /\ k \in Fn /\ v \in Ins(k)
        BY <3>1, <4>2 DEF Consumers
      <4>4. Parent(v) \in Parents(g, k)
        BY <1>1, <4>1, <4>3, ParentFacts
      <4> QED BY <1>1, <1>2, <4>1, <4>3, <4>4
    <3>5. \A u \in Ins(f) : ArrayOf[u] # v
      <4> SUFFICES ASSUME NEW u \in Ins(f), ArrayOf[u] = v PROVE FALSE
        OBVIOUS
      <4>1. u \in Var /\ u # v
        BY <1>1, <2>4, VarFacts
      <4>2. PICK k \in Fn : Inplace(k) # {} /\ In(k)[1] = v
        BY <1>1, <4>1, Borrowed
      <4>3. v \in Ins(k)
        BY <1>1, <4>2, ViewFacts
      <4> QED BY <2>2, <4>2, <4>3
    <3>6. AfterForward(f)[v] = "cleared"
      BY <1>4, <3>2, <3>3, <3>4, <3>5 DEF AfterForward, AfterRead
    <3> QED BY <1>4, <3>3, <3>6 DEF ClearInputs
  <2> QED BY <2>3, <2>4
<1>5. Gone(M1)'
  BY <1>3, <1>4 DEF Gone, Cleared, DataOf
<1> QED BY <1>0, <1>5

\* The callback remembers what it has visited and what was overwritten.
LEMMA NotedStays ==
    ASSUME NEW f, NEW M, NEW O, Ready(f, M, O), Referred, Noted(M),
           UNCHANGED <<g, built>>, \A v \in Var : va'[v].refs = va[v].refs,
           fwd'.seen = SeenAfter(f), fwd'.inplaced = Inplaced(f, Len(In(f)))
    PROVE  Noted(M \cup {f})'
<1>0. PICK M1 : M1 = M \cup {f}
  OBVIOUS
<1>1. /\ g \in Graphs /\ Built \subseteq Fn /\ f \in Fn /\ f \in Built /\ M \subseteq Built
      /\ f \notin M
  BY DEF Ready
<1>2. /\ Var' = Var /\ \A v : Shared(v)' = Shared(v)
      /\ \A k : Ins(k)' = Ins(k) /\ Outs(k)' = Outs(k) /\ Inplace(k)' = Inplace(k)
      /\ \A v, S : Slots(v, S)' = Slots(v, S)
  BY GraphKeeps
<1>3. ASSUME NEW v \in Var, va'[v].refs > 1 PROVE fwd'.seen[v] = Turn(v, M1)'
  <2>1. SeenAfter(f)[v] = Turn(v, M \cup {f})
    BY <1>1, <1>3, SeenIs
  <2>2. Turn(v, M1)' = Turn(v, M1)
    BY <1>2 DEF Turn
  <2> QED BY <1>0, <2>1, <2>2
<1>4. ASSUME Inplace(f) # {}
      PROVE  /\ Inplaced(f, Len(In(f))) = fwd.inplaced \cup {In(f)[1], Out(f)[1]}
             /\ Ins(f) = {In(f)[1]} /\ Outs(f) = {Out(f)[1]}
             /\ \A v \in {In(f)[1], Out(f)[1]} : Shared(v)
  <2>1. /\ Inplace(f) = {<<1, 1>>} /\ DOMAIN In(f) = {1} /\ Ins(f) = {In(f)[1]} /\ Outs(f) = {Out(f)[1]}
    BY <1>1, <1>4, ViewFacts
  <2>2. Len(In(f)) \in Nat /\ DOMAIN In(f) = 1 .. Len(In(f))
    BY <1>1, GraphFacts
  <2>3. 1 <= Len(In(f))
    BY <2>1, <2>2
  <2>4. {e \in Inplace(f) : e[1] <= Len(In(f))} = {<<1, 1>>}
    BY <2>1, <2>3
  <2> DEFINE U == {{In(f)[d[1]], Out(f)[d[2]]} : d \in {e \in Inplace(f) : e[1] <= Len(In(f))}}
  <2>5. Inplaced(f, Len(In(f))) = fwd.inplaced \cup {In(f)[1], Out(f)[1]}
    <3>1. U = {{In(f)[1], Out(f)[1]}}
      <4> DEFINE d == <<1, 1>>
      <4>1. d[1] = 1 /\ d[2] = 1
        OBVIOUS
      <4>2. {e \in Inplace(f) : e[1] <= Len(In(f))} = {d}
        BY <2>4
      <4> HIDE DEF d
      <4>3. U = {{In(f)[d[1]], Out(f)[d[2]]}}
        BY <4>2, Zenon
      <4> QED BY <4>1, <4>3
    <3>2. Inplaced(f, Len(In(f))) = fwd.inplaced \cup UNION U
      BY DEF Inplaced
    <3> HIDE DEF U
    <3> QED BY <3>1, <3>2
  <2>6. \A v \in {In(f)[1], Out(f)[1]} : Shared(v)
    <3>1. <<1, 1>> \in Inplace(f) /\ <<1, 1>>[1] = 1 /\ 1 \in DOMAIN In(f)
      BY <2>1
    <3>2. IsInplace(f, 1)
      BY <3>1 DEF IsInplace
    <3>3. \A v \in {In(f)[1], Out(f)[1]} : v \in {In(f)[1]} \cup Outs(f)
      BY <2>1
    <3> QED BY <1>1, <3>1, <3>2, <3>3 DEF Shared
  <2> QED BY <2>1, <2>5, <2>6
<1>5. Inplace(f) = {} => Inplaced(f, Len(In(f))) = fwd.inplaced
  BY DEF Inplaced
<1>6. \A k \in M1 : Inplace(k) # {} => Ins(k) \cup Outs(k) \subseteq fwd'.inplaced
  BY <1>0, <1>4, <1>5 DEF Noted
<1>7. \A v \in fwd'.inplaced : Shared(v)
  BY <1>4, <1>5 DEF Noted
<1>8. Noted(M1)'
  BY <1>2, <1>3, <1>6, <1>7 DEF Noted
<1> QED BY <1>0, <1>8

\* A forward that runs a function has executed it.
LEMMA ExecuteRun ==
    ASSUME IInv, Referred, Recalled, Execute, NEW M \in SUBSET Fn, NEW O \in SUBSET Fn, Run(M, O)
    PROVE  \E M1 \in SUBSET Fn : Run(M1, O)'
<1>1. PICK f, needs : f = Top[1] /\ needs = \E v \in Ins(f) : VisitedNeed(v)
  OBVIOUS
<1>2. Ready(f, M, O) /\ OnStack(fwd') = OnStack(fwd) \ {f}
  BY <1>1, ExecuteReady
<1>3. /\ UNCHANGED <<g, built>>
      /\ va' = [v \in Var |-> IF v \in Ins(f) THEN Visited(v) ELSE va[v]]
      /\ data' = ClearInputs(f, needs, AfterForward(f))
      /\ fwd' = Returned(f, needs)
  BY <1>1 DEF Execute
<1>4. /\ fwd'.closed = fwd.closed /\ fwd'.roots = fwd.roots /\ fwd'.wanted = fwd.wanted
      /\ fwd'.pinned = fwd.pinned /\ fwd'.clear = fwd.clear
      /\ fwd'.seen = SeenAfter(f) /\ fwd'.inplaced = Inplaced(f, Len(In(f)))
  BY <1>3 DEF Returned, IInv, Types
<1>5. \A v \in Var : va'[v].refs = va[v].refs
  <2>1. \A v \in Var : DOMAIN va[v] = {"rank", "state", "refs", "prohibit"}
    BY DEF IInv, Types
  <2> QED BY <1>3, <2>1 DEF Visited
<1>6. PICK M1 : M1 = M \cup {f}
  OBVIOUS
<1>7. Results(M1 \cup O)'
  BY <1>2, <1>3, <1>4, <1>6, ResultsStay
<1>8. Gone(M1)'
  BY <1>2, <1>3, <1>4, <1>6, GoneStays
<1>9. Noted(M1)'
  <2>1. Noted(M)
    BY DEF Run
  <2> QED BY <1>2, <1>3, <1>4, <1>5, <1>6, <2>1, NotedStays
<1>10. /\ Built' = Built /\ \A v : Parent(v)' = Parent(v)
       /\ \A k : Ins(k)' = Ins(k) /\ Outs(k)' = Outs(k) /\ Parents(g, k)' = Parents(g, k)
  BY <1>3, GraphKeeps DEF Built, Parents
<1>11. Executed(M1, O)'
  <2>1. \A k, D : Caused(k, D) => Caused(k, D)'
    BY <1>4, <1>10 DEF Caused
  <2>2. M1 \cup O = fwd'.closed \ OnStack(fwd') /\ M1 \cap O = {}
    BY <1>2, <1>4, <1>6 DEF Run, Executed, Ready
  <2>3. \A k \in M1 \cup O : Parents(g, k)' \subseteq M1 \cup O
    <3>1. Parents(g, f) \subseteq M \cup O
      BY <1>2, ParentFacts DEF Ready
    <3> QED BY <1>6, <1>10, <3>1 DEF Run, Executed
  <2>4. \A k \in O : Caused(k, O)'
    BY <2>1 DEF Run, Executed
  <2>5. PICK C : C = fwd.closed
    OBVIOUS
  <2>6. \A k \in C : Caused(k, C)'
    BY <2>1, <2>5 DEF Run, Executed
  <2>7. fwd'.closed = C
    BY <1>4, <2>5
  <2> QED BY <2>2, <2>3, <2>4, <2>6, <2>7 DEF Executed
<1>12. Asked'
  BY <1>4, <1>10 DEF Run, Asked
<1>13. (\E r : fwd'.wanted = {r}) => O = {}
  BY <1>4 DEF Run
<1>14. Run(M1, O)'
  BY <1>7, <1>8, <1>9, <1>11, <1>12, <1>13 DEF Run
<1>15. M1 \in SUBSET Fn
  BY <1>2, <1>6 DEF Ready
<1> QED BY <1>14, <1>15

-----------------------------------------------------------------------------
(* All steps. *)

\* Nothing happens.
LEMMA NothingRun ==
    ASSUME UNCHANGED vars, NEW M, NEW O, Run(M, O)
    PROVE  Run(M, O)'
<1>1. UNCHANGED <<g, built, va, data>> /\ fwd' = fwd
  BY DEF vars
<1>2. Noted(M)' /\ Gone(M)' /\ Results(M \cup O)' /\ \A k : Parents(g, k)' = Parents(g, k)
  <2>1. Noted(M) /\ Gone(M) /\ Results(M \cup O)
    BY DEF Run
  <2> QED BY <1>1, <2>1, RunStays
<1>3. Built' = Built /\ \A v : Parent(v)' = Parent(v)
  BY <1>1, GraphKeeps DEF Built
<1>4. Asked'
  BY <1>1, <1>3 DEF Run, Asked
<1>5. \A k, D : Caused(k, D) => Caused(k, D)'
  BY <1>1, RunStays
<1>6. PICK C : C = fwd.closed
  OBVIOUS
<1>7. Executed(M, O)'
  <2>1. \A k \in C : Caused(k, C)'
    BY <1>5, <1>6 DEF Run, Executed
  <2>2. OnStack(fwd') = OnStack(fwd)
    BY <1>1
  <2>3. /\ M \cup O = fwd'.closed \ OnStack(fwd') /\ M \cap O = {}
        /\ \A k \in M \cup O : Parents(g, k)' \subseteq M \cup O
        /\ \A k \in O : Caused(k, O)'
    BY <1>1, <1>2, <1>5, <2>2 DEF Run, Executed
  <2>4. fwd'.closed = C
    BY <1>1, <1>6
  <2> QED BY <2>1, <2>3, <2>4 DEF Executed
<1> QED BY <1>1, <1>2, <1>4, <1>7 DEF Run

\* The invariant holds in the beginning.
LEMMA KeptInit == Init => KeptInv
<1> SUFFICES ASSUME Init PROVE KeptInv
  OBVIOUS
<1>1. at = "idle"
  BY DEF Init
<1> QED BY <1>1, InitGood, ReferredInit DEF KeptInv, Recalled

\* A step of the program or of the engine keeps it.
LEMMA KeptNext ==
    ASSUME \A r \in Graphs : ~r.auto, KeptInv, [Next]_vars
    PROVE  KeptInv'
<1>1. IInv /\ Referred /\ Recalled
  BY DEF KeptInv
<1>2. IInv' /\ Referred' /\ Recalled'
  BY <1>1, NextGood, ReferredNext, RecalledNext
<1>3. g' = g
  BY DEF Next, Program, Engine, Connect, Forward, ForwardAll, StartForward, Backward, SetNeedGrad,
         ZeroGrad, EnterRoot, Descend, Execute, EndForward, Pick, StartRecompute, Recompute,
         RecomputeFails, RunBackward, EndBackward, vars
<1>4. Fn' = Fn
  BY <1>3, GraphKeeps
<1>5. ASSUME at = "forward" PROVE \E M, O \in SUBSET Fn : Run(M, O)
  BY <1>5 DEF KeptInv
<1> SUFFICES ASSUME at' = "forward" PROVE \E M, O \in SUBSET Fn : Run(M, O)'
  BY <1>2, <1>4 DEF KeptInv
<1>6. ASSUME Program PROVE \E M, O \in SUBSET Fn : Run(M, O)'
  <2>1. PICK r, c, t : Forward(r, c, t) \/ ForwardAll(c, t)
    BY <1>6 DEF Program, Connect, Backward, SetNeedGrad, ZeroGrad, Call
  <2>2. Run({}, {})'
    BY <1>1, <2>1, ForwardRun
  <2>3. PICK Z : Z = {}
    OBVIOUS
  <2>4. Run(Z, Z)' /\ Z \in SUBSET Fn
    BY <2>2, <2>3
  <2> QED BY <2>4
<1>7. ASSUME Engine PROVE \E M, O \in SUBSET Fn : Run(M, O)'
  <2>1. EnterRoot \/ Descend \/ Execute
    <3>1. ~Recompute
      <4> SUFFICES ASSUME Recompute PROVE FALSE
        OBVIOUS
      <4>1. at = "backward" /\ at' = at
        BY <1>1, TopIs DEF Recompute
      <4> QED BY <4>1
    <3>2. ~Pick /\ ~StartRecompute /\ ~RunBackward
      BY DEF Pick, StartRecompute, RunBackward, Working
    <3>3. ~EndForward /\ ~RecomputeFails /\ ~EndBackward
      BY DEF EndForward, RecomputeFails, EndBackward
    <3> QED BY <1>7, <3>1, <3>2, <3>3 DEF Engine
  <2>2. at = "forward"
    <3>1. Execute => at = "forward"
      BY <1>1, TopIs DEF Execute
    <3>2. EnterRoot \/ Descend => at = "forward"
      BY DEF EnterRoot, Descend
    <3> QED BY <2>1, <3>1, <3>2
  <2>3. PICK M \in SUBSET Fn, O \in SUBSET Fn : Run(M, O)
    BY <1>5, <2>2
  <2>4. CASE EnterRoot
    BY <1>1, <2>3, <2>4, EnterRootRun
  <2>5. CASE Descend
    BY <1>1, <2>2, <2>3, <2>5, DescendRun
  <2>6. CASE Execute
    BY <1>1, <2>3, <2>6, ExecuteRun
  <2> QED BY <2>1, <2>4, <2>5, <2>6
<1>8. ASSUME UNCHANGED vars PROVE \E M, O \in SUBSET Fn : Run(M, O)'
  <2>1. at = "forward"
    BY <1>8 DEF vars
  <2>2. PICK M \in SUBSET Fn, O \in SUBSET Fn : Run(M, O)
    BY <1>5, <2>1
  <2> QED BY <1>8, <2>2, NothingRun
<1> QED BY <1>6, <1>7, <1>8 DEF Next

\* A forward returns when there are no more roots and nothing is left to run.
LEMMA Returns ==
    ASSUME KeptInv, [Next]_vars, at = "forward", at' = "idle"
    PROVE  /\ g \in Graphs
           /\ \E M, O \in SUBSET Fn : Run(M, O) /\ M \cup O = fwd.closed
           /\ \A w \in fwd.wanted : w \in Var /\ Parent(w) \in fwd.closed
<1>1. EndForward
  <2>1. ~Program
    BY DEF Program, Connect, Forward, ForwardAll, StartForward, Backward, SetNeedGrad, ZeroGrad, Call
  <2>2. ~(UNCHANGED vars)
    BY DEF vars
  <2>3. ~RecomputeFails
    <3> SUFFICES ASSUME RecomputeFails PROVE FALSE
      OBVIOUS
    <3>1. at = "backward"
      BY TopIs DEF RecomputeFails, KeptInv
    <3> QED BY <3>1
  <2>4. Engine
    BY <2>1, <2>2 DEF Next
  <2> QED BY <2>3, <2>4 DEF Engine, EnterRoot, Descend, Execute, Pick, StartRecompute, Recompute,
                         RunBackward, EndBackward
<1>2. PICK M \in SUBSET Fn, O \in SUBSET Fn : Run(M, O)
  BY DEF KeptInv
<1>3. OnStack(fwd) = {} /\ Range(fwd.roots) = {}
  BY <1>1 DEF EndForward, OnStack, Range
<1>4. g \in Graphs /\ Built \subseteq Fn
  BY DEF KeptInv, IInv, Types
<1>5. M \cup O = fwd.closed
  BY <1>2, <1>3 DEF Run, Executed
<1>6. \A w \in fwd.wanted : w \in Var /\ Parent(w) \in fwd.closed
  <2>1. \A w \in fwd.wanted : Parent(w) \in Built /\ Parent(w) \in fwd.closed
    BY <1>2, <1>3 DEF Run, Asked
  <2>2. 0 \notin Fn
    BY <1>4, GraphFacts
  <2> QED BY <1>4, <2>1, <2>2, VarFacts
<1> QED BY <1>2, <1>4, <1>5, <1>6

\* Whatever graph a program builds without auto-forward, and whatever it called before, what forward
\* and forward_all were asked for is there when they return: nothing they clear on the way, for this
\* root or a later one, is its array.
THEOREM ResultsHold == (\A r \in Graphs : ~r.auto) => (Spec => ResultsKept)
<1> SUFFICES ASSUME \A r \in Graphs : ~r.auto PROVE Spec => ResultsKept
  OBVIOUS
<1>1. Init => KeptInv
  BY KeptInit
<1>2. KeptInv /\ [Next]_vars => KeptInv'
  BY KeptNext
<1>3. KeptInv /\ [Next]_vars => [at = "forward" /\ at' = "idle" => \A v \in fwd.wanted : Live(v)]_vars
  <2> SUFFICES ASSUME KeptInv, [Next]_vars, at = "forward", at' = "idle", NEW v \in fwd.wanted
               PROVE  Live(v)
    OBVIOUS
  <2>1. PICK M \in SUBSET Fn, O \in SUBSET Fn : Run(M, O) /\ M \cup O = fwd.closed
    BY Returns
  <2>2. v \in Var /\ Parent(v) \in M \cup O
    BY <2>1, Returns
  <2> QED BY <2>1, <2>2 DEF Run, Results
<1> QED BY <1>1, <1>2, <1>3, PTL DEF Spec, ResultsKept

\* And forward with clear_buffer leaves nothing behind that it could give back.
THEOREM ReleasesHold == (\A r \in Graphs : ~r.auto) => (Spec => ClearBufferReleases)
<1> SUFFICES ASSUME \A r \in Graphs : ~r.auto PROVE Spec => ClearBufferReleases
  OBVIOUS
<1>1. Init => KeptInv
  BY KeptInit
<1>2. KeptInv /\ [Next]_vars => KeptInv'
  BY KeptNext
<1>3. KeptInv /\ [Next]_vars =>
        [at = "forward" /\ at' = "idle" /\ fwd.clear /\ Cardinality(fwd.wanted) = 1 =>
             \A v \in Var \ Leaves : Released(v)]_vars
  <2> SUFFICES ASSUME KeptInv, [Next]_vars, at = "forward", at' = "idle", fwd.clear,
                      Cardinality(fwd.wanted) = 1, NEW v \in Var \ Leaves
               PROVE  Released(v)
    OBVIOUS
  <2>1. PICK M \in SUBSET Fn, O \in SUBSET Fn : Run(M, O) /\ M \cup O = fwd.closed
    BY Returns
  <2>2. \E r : fwd.wanted = {r}
    <3>1. IsFiniteSet(fwd.wanted)
      BY <2>1 DEF Run, Asked
    <3> QED BY <3>1, FS_Singleton
  <2>3. M = fwd.closed /\ Gone(M)
    BY <2>1, <2>2 DEF Run
  <2> QED BY <2>3 DEF Gone, Released
<1> QED BY <1>1, <1>2, <1>3, PTL DEF Spec, ClearBufferReleases
=============================================================================
