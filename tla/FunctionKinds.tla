--------------------------- MODULE FunctionKinds ---------------------------
(***************************************************************************)
(* What the functions of small graphs answer to the virtual methods of     *)
(* include/nbla/function.hpp the engine asks.  Positions count from 1.     *)
(*   depin       <<i, j>>: the gradient of input i reads the data of       *)
(*               input j                                                   *)
(*   depout      <<i, o>>: it reads the data of output o                   *)
(*   inplace     <<i, o>>: output o shares the array of input i, unmodified *)
(*   overwrites  inputs whose data forward writes                          *)
(*   shields     the inputs must not be cleared                            *)
(*   random      forward's result depends on a random state                *)
(*   mask        backward reads, and drops, a buffer of the function's own *)
(***************************************************************************)
Plain == [depin |-> {}, depout |-> {}, inplace |-> {}, overwrites |-> {},
          shields |-> FALSE, random |-> FALSE, mask |-> FALSE]

Add2 == Plain

AveragePooling == Plain

Mul2 == [Plain EXCEPT !.depin = {1, 2} \X {1, 2}]

ReLU == [Plain EXCEPT !.depout = {<<1, 1>>}]

\* With inplace, the default.
Reshape == [Plain EXCEPT !.depout = {<<1, 1>>}, !.inplace = {<<1, 1>>}]

\* In training mode; the second input is the running mean, the second output the mean.
BatchNormalization ==
    [Plain EXCEPT !.depin = {<<1, 1>>}, !.depout = {1, 2} \X {2}, !.overwrites = {2}]

RandomFlip == [Plain EXCEPT !.random = TRUE]

Dropout == [Plain EXCEPT !.random = TRUE, !.mask = TRUE]

Sink == [Plain EXCEPT !.shields = TRUE]

=============================================================================
