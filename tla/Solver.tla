------------------------------- MODULE Solver -------------------------------
(* The parameters and states of a Solver (src/nbla/solver.cpp) and what its    *)
(* calls do to the gradients. A gradient is the set of the contributions added *)
(* up in it, each with the power of two it is multiplied by; zeroing is the    *)
(* note of SyncedArray::zero that nothing was written since.                   *)
EXTENDS Integers

CONSTANTS
    Keys,       \* names of parameters; the variable under a name stays the same
    MaxExp      \* 2^MaxExp is the greatest power of two a float holds (127)

ASSUME SolverAssumption == MaxExp \in Nat

\* The contribution of weight decay, of no batch.
Decay == [rank |-> 0, attempt |-> 0, index |-> 0, exp |-> 0]

Zeroed == [zeroing |-> TRUE, terms |-> {}, finite |-> TRUE]

\* A solver without parameters; rate is the weight decay kept for the next update.
NewSolver == [params |-> {}, states |-> [k \in {} |-> {}], rate |-> FALSE]

---------------------------------------------------------------------------
\* A state is what its momentum was made of: the updates since it was created. set_state_impl
\* inserts, so a state that is there is kept.
WithStates(states, keys) ==
    [k \in DOMAIN states \cup keys |-> IF k \in DOMAIN states THEN states[k] ELSE {}]

WithoutStates(states, keys) == [k \in DOMAIN states \ keys |-> states[k]]

Without(S, keys) ==
    [params |-> S.params \ keys, states |-> WithoutStates(S.states, keys), rate |-> S.rate]

\* Mutant: the states outlive their parameters.
WithoutParameters(S, keys) ==
    [params |-> S.params \ keys, states |-> S.states, rate |-> S.rate]

RemoveParameters(S, keys) == Without(S, keys)

ClearParameters(S) == Without(S, S.params)

\* The parameters found that keep their state.
Retained(S, keys, reset, retain) == IF ~reset /\ retain THEN keys \cap S.params ELSE {}

SetParameters(S, keys, reset, retain) ==
    LET left == IF reset THEN ClearParameters(S) ELSE S
        anew == keys \ Retained(S, keys, reset, retain)
        kept == WithoutStates(left.states, anew \cap left.params)
    IN  [params |-> left.params \cup anew, states |-> WithStates(kept, anew), rate |-> left.rate]

---------------------------------------------------------------------------
\* "The gradient is not computed. Skip."
Computed(S, g) == {k \in S.params : ~g[k].zeroing}

ZeroGrad(S, g) == [k \in Keys |-> IF k \in S.params THEN Zeroed ELSE g[k]]

CheckInfOrNanGrad(S, g) == \E k \in Computed(S, g) : ~g[k].finite

Scaled(c, e) == [rank |-> c.rank, attempt |-> c.attempt, index |-> c.index, exp |-> c.exp + e]

\* By 2^e as a float: beyond 2^MaxExp that is infinite, and so is the product.
ScaleGrad(S, g, e) ==
    [k \in Keys |->
        IF k \in Computed(S, g)
        THEN [zeroing |-> FALSE,
              terms |-> {Scaled(c, e) : c \in g[k].terms},
              finite |-> g[k].finite /\ e <= MaxExp]
        ELSE g[k]]

\* Added to the gradients, or kept for the update if the solver has it fused.
DecayedGrad(S, g, fused) ==
    [k \in Keys |->
        IF ~fused /\ k \in Computed(S, g)
        THEN [zeroing |-> FALSE, terms |-> g[k].terms \cup {Decay}, finite |-> g[k].finite]
        ELSE g[k]]
DecayRate(S, fused) == [params |-> S.params, states |-> S.states, rate |-> S.rate \/ fused]

\* What the update of an attempt does to the states, and to the data of the parameters: a record
\* of the gradient, and of the updates the momentum consists of.
UpdateStates(S, g, attempt) ==
    [params |-> S.params,
     states |-> [k \in DOMAIN S.states |->
                    IF k \in Computed(S, g) THEN S.states[k] \cup {attempt} ELSE S.states[k]],
     rate |-> FALSE]

UpdateData(S, g, attempt, data) ==
    [k \in Keys |->
        IF k \in Computed(S, g)
        THEN data[k] \cup {[attempt |-> attempt,
                            terms |-> g[k].terms \cup (IF S.rate THEN {Decay} ELSE {}),
                            finite |-> g[k].finite,
                            momentum |-> S.states[k] \cup {attempt}]}
        ELSE data[k]]
=============================================================================
