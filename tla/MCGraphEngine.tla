--------------------------- MODULE MCGraphEngine ---------------------------
(* Small graphs for the engine of GraphEngine. *)
EXTENDS GraphEngine, FunctionKinds

\* A graph with leaves x (data) and w (a parameter) and no flags set.
Graph(kind, ins, outs, roots) ==
    [kind |-> kind, ins |-> ins, outs |-> outs, roots |-> roots, all |-> <<>>,
     need |-> {"w"}, switch |-> {}, persistent |-> {}, recompute |-> {}, auto |-> FALSE]

Intermediates(r) == UNION {Range(r.outs[f]) : f \in DOMAIN r.outs}

Recomputed(r) == [r EXCEPT !.recompute = Intermediates(r)]

\* A branch that joins again, and a function with one variable as both its inputs.
Residual ==
    Graph(<<Mul2, ReLU, Add2, Mul2>>,
          <<<<"x", "w">>, <<"h">>, <<"h", "a">>, <<"s", "s">>>>,
          <<<<"h">>, <<"a">>, <<"s">>, <<"y">>>>, {"s", "y"})

\* An in-place function on a branching variable, its output persistent.
View ==
    [Graph(<<Mul2, Reshape, Mul2, Add2>>,
           <<<<"x", "w">>, <<"h">>, <<"u", "w">>, <<"m", "h">>>>,
           <<<<"h">>, <<"u">>, <<"m">>, <<"y">>>>, {"u", "y"})
     EXCEPT !.persistent = {"u"}]

\* The same beside a function that leaves the view alone.
Side ==
    [Graph(<<Mul2, Reshape, ReLU>>,
           <<<<"x", "w">>, <<"h">>, <<"h">>>>,
           <<<<"h">>, <<"u">>, <<"y">>>>, {"u", "y"})
     EXCEPT !.persistent = {"u"}]

\* A view of a view that is persistent, and one that is not.
Views ==
    [Graph(<<Mul2, Reshape, Reshape, Mul2>>,
           <<<<"x", "w">>, <<"h">>, <<"u">>, <<"v", "w">>>>,
           <<<<"h">>, <<"u">>, <<"v">>, <<"y">>>>, {"v", "y"})
     EXCEPT !.persistent = {"v"}]

\* A function with two outputs, the second of which its backward reads.
Normalized ==
    Graph(<<Mul2, BatchNormalization, ReLU, Mul2>>,
          <<<<"x", "w">>, <<"h", "x">>, <<"n">>, <<"a", "m">>>>,
          <<<<"h">>, <<"n", "m">>, <<"a">>, <<"y">>>>, {"n", "y"})

\* A random function between two uses of its input.
Augmented ==
    Graph(<<Mul2, RandomFlip, Add2, ReLU, AveragePooling>>,
          <<<<"x", "w">>, <<"h">>, <<"d", "h">>, <<"s">>, <<"a">>>>,
          <<<<"h">>, <<"d">>, <<"s">>, <<"a">>, <<"y">>>>, {"y"})

\* Two heads on one body, asked for together or apart, and switched off.
Heads ==
    [Graph(<<Mul2, ReLU, Mul2, Mul2>>,
           <<<<"x", "w">>, <<"h">>, <<"a", "w">>, <<"a", "b">>>>,
           <<<<"h">>, <<"a">>, <<"y">>, <<"z">>>>, {"y", "z"})
     EXCEPT !.need = {"w", "b"}, !.all = <<"h", "y", "z">>, !.switch = {"a", "w"}]

\* The heads collected by Sink.
Collected ==
    [Graph(<<Mul2, ReLU, Mul2, Sink>>,
           <<<<"x", "w">>, <<"h">>, <<"h", "w">>, <<"y", "z">>>>,
           <<<<"h">>, <<"y">>, <<"z">>, <<"t">>>>, {"t"})
     EXCEPT !.persistent = {"z"}]

\* Two branches, of which one is switched off.
Diamond ==
    [Graph(<<Mul2, ReLU, ReLU, Add2>>,
           <<<<"x", "w">>, <<"h">>, <<"h">>, <<"a", "b">>>>,
           <<<<"h">>, <<"a">>, <<"b">>, <<"y">>>>, {"y"})
     EXCEPT !.switch = {"a"}]

\* Recomputing a leads over the random function, whose output is not to be recomputed.
Unarmed == [Augmented EXCEPT !.recompute = {"a"}]

MCGraphs ==
    {Residual, View, Side, Views, Normalized, Augmented, Unarmed, Heads, Diamond, Collected}
    \cup {Recomputed(r) : r \in {Residual, Normalized, Augmented, Heads}}

\* average_pooling is recomputed, the relu it pools is not.
PartlyRecomputed ==
    [Graph(<<Mul2, ReLU, AveragePooling, Mul2>>,
           <<<<"x", "w">>, <<"h">>, <<"a">>, <<"p", "w">>>>,
           <<<<"h">>, <<"a">>, <<"p">>, <<"y">>>>, {"y"})
     EXCEPT !.recompute = {"p"}]

MCPartlyRecomputed == {PartlyRecomputed}

DroppedOut ==
    Graph(<<Mul2, Dropout, AveragePooling>>, <<<<"x", "w">>, <<"h">>, <<"d">>>>,
          <<<<"h">>, <<"d">>, <<"y">>>>, {"y"})

MCDroppedOut == {DroppedOut}

\* Built with auto-forward, and forward called on a part of it as well.
Grown ==
    [Graph(<<Mul2, ReLU, ReLU, Add2>>,
           <<<<"x", "w">>, <<"h">>, <<"a">>, <<"a", "b">>>>,
           <<<<"h">>, <<"a">>, <<"b">>, <<"y">>>>, {"a", "y"})
     EXCEPT !.auto = TRUE]

MCGrown == {Grown}
=============================================================================
