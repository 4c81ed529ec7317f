-------------------------- MODULE ComputationGraph --------------------------
(***************************************************************************)
(* The graph a program builds from functions and variables                 *)
(* (CgFunction and CgVariable of include/nbla/computation_graph), and the  *)
(* gradient that backward is expected to find for it.                      *)
(*                                                                         *)
(* A function is the number it is connected as, so its inputs are outputs  *)
(* of lower numbers or leaves.  What the engine asks a function about      *)
(* itself is its kind (the virtual methods of include/nbla/function.hpp).  *)
(***************************************************************************)
EXTENDS Integers, Sequences, FiniteSets, FiniteSetsExt, SequencesExt

CONSTANTS Graphs    \* the graphs programs build

\* A variable is computed by one function at most, and connected after it was computed.
ASSUME GraphsAssumption ==
    \A r \in Graphs :
        /\ r.kind \in Seq(Range(r.kind))
        /\ DOMAIN r.ins = DOMAIN r.kind /\ DOMAIN r.outs = DOMAIN r.kind
        /\ r.all \in Seq(Range(r.all))
        /\ \A f \in DOMAIN r.kind :
              /\ r.ins[f] \in Seq(Range(r.ins[f]))
              /\ r.outs[f] \in Seq(Range(r.outs[f]))
              /\ \A k \in DOMAIN r.kind :
                    /\ Range(r.outs[k]) \cap Range(r.outs[f]) # {} => k = f
                    /\ Range(r.outs[k]) \cap Range(r.ins[f]) # {} => k < f

\* The functions that answer INPLACE_NOT_MODIFY, Reshape and Unlink, have one input and one output.
ASSUME InplaceAssumption ==
    \A r \in Graphs : \A f \in DOMAIN r.kind :
        r.kind[f].inplace # {} =>
            r.kind[f].inplace = {<<1, 1>>} /\ Len(r.ins[f]) = 1 /\ Len(r.outs[f]) = 1

VARIABLE g          \* the one this program builds

Fn == DOMAIN g.kind
In(f) == g.ins[f]
Out(f) == g.outs[f]

Ins(f) == Range(In(f))
Outs(f) == Range(Out(f))
Var == UNION {Ins(f) \cup Outs(f) : f \in Fn}

\* The function that computes v, or 0.
Parent(v) ==
    IF \E f \in Fn : v \in Outs(f) THEN CHOOSE f \in Fn : v \in Outs(f) ELSE 0

Leaves == {v \in Var : Parent(v) = 0}

Occurrences(v, f) == Cardinality({i \in DOMAIN In(f) : In(f)[i] = v})

(***************************************************************************)
(* A kind.  Positions of inputs and outputs are written i, j and o.        *)
(***************************************************************************)
\* Data the gradients of the inputs `is` need: grad_depends_input_data(i, j) and
\* grad_depends_output_data(i, o).
InputsUsed(f, is) == {In(f)[j] : j \in {d[2] : d \in {e \in g.kind[f].depin : e[1] \in is}}}
OutputsUsed(f, is) == {Out(f)[o] : o \in {d[2] : d \in {e \in g.kind[f].depout : e[1] \in is}}}

\* inplace_data(i) is INPLACE_NOT_MODIFY and inplace_data_with(i) is o.
Inplace(f) == g.kind[f].inplace
IsInplace(f, i) == \E d \in Inplace(f) : d[1] = i

\* prohibit_clear_input_buffers, which only Sink sets; its backward fills the input
\* gradients with one.
Shields(f) == g.kind[f].shields

\* need_setup_recompute: a random function reproduces its last output only if told to
\* remember the random state.
Random(f) == g.kind[f].random

\* A function whose backward reads a buffer of its own, and drops it.
Masks(f) == g.kind[f].mask

(***************************************************************************)
(* Sharing.  The output of an in-place function has the SyncedArray of the *)
(* input it is in place with.                                              *)
(***************************************************************************)
ArrayOf[v \in Var] ==
    LET f    == Parent(v)
        over == IF f = 0 THEN {} ELSE {d \in Inplace(f) : Out(f)[d[2]] = v}
    IN  IF over = {} THEN v ELSE ArrayOf[In(f)[(CHOOSE d \in over : TRUE)[1]]]

(***************************************************************************)
(* What a root depends on.                                                 *)
(***************************************************************************)
Cone[f \in Fn] == {f} \cup UNION {Cone[Parent(v)] : v \in Ins(f) \ Leaves}

Consumers(v) == {f \in Fn : v \in Ins(f)}

(***************************************************************************)
(* The reference gradient.  Every function adds the sum of its output      *)
(* gradients to each input, so the gradient of a variable is the number of *)
(* paths to it from the root: an engine that runs a function twice, too    *)
(* early, or accumulates where it should overwrite finds another number.   *)
(* No path leads through a variable whose need_grad was set to false.      *)
(***************************************************************************)
PathsFrom(root, flag) ==
    LET paths[f \in Fn] ==
            IF f = Parent(root) THEN 1
            ELSE MapThenSumSet(
                     LAMBDA k : paths[k] * MapThenSumSet(LAMBDA v : Occurrences(v, k),
                                                         {v \in Outs(f) : flag[v] # "false"}),
                     {k \in Fn : k > f})
    IN  paths

Gradient(root, flag, leaf) ==
    IF flag[leaf] # "true" THEN 0
    ELSE LET paths == PathsFrom(root, flag) IN
         MapThenSumSet(LAMBDA f : paths[f] * Occurrences(leaf, f), Fn)

=============================================================================
