---------------------------- MODULE GraphEngine ----------------------------
(***************************************************************************)
(* The engine that executes a computation graph                            *)
(* (src/nbla/computation_graph): a program connects functions, calls       *)
(* forward, forward_all and backward on variables in any order, and the    *)
(* engine decides in which order functions run, when the data of a         *)
(* variable may be cleared, what has to be recomputed, and whether a       *)
(* function overwrites or accumulates a gradient.                          *)
(*                                                                         *)
(* Data is abstracted to whether it is what forward computed; gradients    *)
(* are numbers of paths (see ComputationGraph).  A call is carried out in  *)
(* steps, one function at a time, as the recursion of                      *)
(* visit_function_recursive and the loop of visit_function_backward do.    *)
(***************************************************************************)
EXTENDS ComputationGraph

CONSTANTS MaxCalls      \* bound: calls of forward, backward and setters after a connect

VARIABLES
    built,      \* functions connected so far
    fn,         \* CgFunction: rank_, need_grad_, and what its Function remembers
    va,         \* CgVariable: rank_, need_grad_state_, reference count, prohibit_clear_data_
    flag,       \* need_grad_, set by the program or "none"
    data,       \* each variable's data: a fresh array is "none", what forward computed "live",
                \* what was given back "cleared", what was computed from other than live "junk"
    grad,       \* the gradient of each variable
    at,         \* the call in progress
    fwd,        \* its ForwardCallback and the recursion it is called from
    bwd,        \* its BackwardCallback and the loop it is called from
    failed,     \* a call has thrown
    calls,      \* calls so far
    due,        \* history: the gradient each leaf should have
    trained     \* history: functions whose last forward allows a backward

vars == <<g, built, fn, va, flag, data, grad, at, fwd, bwd, failed, calls, due, trained>>

Built == 1 .. built

Zero == [val |-> 0, ok |-> TRUE, zeroing |-> TRUE]
Fresh == [val |-> 0, ok |-> TRUE, zeroing |-> FALSE]
One == [val |-> 1, ok |-> TRUE, zeroing |-> FALSE]

NeedGrad(v) == IF flag[v] = "none" THEN va[v].state ELSE flag[v] = "true"

DataOf(v) == data[ArrayOf[v]]
Cleared(v) == DataOf(v) = "cleared"
Live(v) == DataOf(v) = "live"

\* Faulty: forward_all that does not protect the variables it was asked for.
PersistentOnly(v) == v \in g.persistent

\* forward_all makes its variables persistent while it runs.
Persistent(v) == v \in g.persistent \cup fwd.pinned

(***************************************************************************)
(* A ForwardCallback: how often each branching variable was visited, the   *)
(* variables backward will read or that were overwritten, those that share *)
(* an array, and the mode.  stack is the recursion of                      *)
(* visit_function_recursive, frames <<function, next input>>.              *)
(***************************************************************************)
Callback(c, t, again) ==
    [stack |-> <<>>, closed |-> {}, seen |-> [v \in Var |-> 0], keep |-> {}, inplaced |-> {},
     clear |-> c, tidy |-> t, again |-> again, roots |-> <<>>, wanted |-> {}, pinned |-> {}]

NoForward == Callback(FALSE, FALSE, FALSE)

NoBackward ==
    [root |-> 0, clear |-> FALSE, initial |-> FALSE, open |-> {}, ids |-> <<>>, cur |-> 0,
     next |-> 1, seen |-> {}, keepdata |-> {}, keepgrad |-> {}, bak |-> <<>>, done |-> {}]

(***************************************************************************)
(* Connecting the next function (connect).                                 *)
(***************************************************************************)
ReadAll(f) == \A v \in Ins(f) : Live(v)

\* An array that was never written, or was cleared, is allocated by the read.
AfterRead(vs) ==
    [a \in Var |-> IF data[a] \in {"none", "cleared"} /\ \E v \in vs : ArrayOf[v] = a
                   THEN "junk" ELSE data[a]]

\* forward_impl.  An in-place function that does not modify the data does nothing.
AfterForward(f) ==
    IF Inplace(f) # {} THEN data
    ELSE [a \in Var |-> IF a \in Outs(f)
                        THEN (IF ReadAll(f) THEN "live" ELSE "junk")
                        ELSE AfterRead(Ins(f))[a]]

Connect ==
    LET f == built + 1
        rank == Max({0} \cup {va[v].rank : v \in Ins(f)})
        bound == \E v \in Ins(f) : va[v].rank = 0 \/ v \in g.persistent \/ va[v].prohibit
        needs == \E v \in Ins(f) : NeedGrad(v)
    IN
    /\ at = "idle"
    /\ f \in Fn
    /\ built' = f
    /\ fn' = [fn EXCEPT ![f] = [rank |-> rank, need |-> needs, armed |-> FALSE, mask |-> g.auto]]
    /\ va' = [v \in Var |->
                IF v \in Outs(f)
                THEN [rank |-> rank + 1, state |-> needs, refs |-> 0,
                      prohibit |-> bound /\ Inplace(f) # {}]
                ELSE [va[v] EXCEPT !.refs = @ + Occurrences(v, f)]]
    /\ data' = IF g.auto THEN AfterForward(f) ELSE data
    /\ trained' = IF g.auto /\ Cone[f] \ {f} \subseteq trained THEN trained \cup {f} ELSE trained
    /\ UNCHANGED <<g, flag, grad, at, fwd, bwd, failed, calls, due>>

(***************************************************************************)
(* Starting a forward.                                                     *)
(***************************************************************************)
Call ==
    /\ at = "idle"
    /\ ~failed
    /\ calls < MaxCalls
    /\ calls' = calls + 1

StartForward(roots, c, t, pinned) ==
    /\ Call
    /\ at' = "forward"
    /\ fwd' = [Callback(c, t, FALSE) EXCEPT
                  !.roots = roots, !.wanted = Range(roots), !.pinned = pinned]
    /\ UNCHANGED <<g, built, fn, va, flag, data, grad, bwd, failed, due, trained>>

Forward(r, c, t) ==
    /\ Parent(r) \in Built
    /\ StartForward(<<r>>, c, t, {})

ForwardAll(c, t) ==
    /\ \A i \in DOMAIN g.all : Parent(g.all[i]) \in Built
    /\ g.all # <<>>
    /\ StartForward(g.all, c, t, Range(g.all))

\* CgVariable::forward for the next root: a new callback, the same closed list.
EnterRoot ==
    LET p == Parent(Head(fwd.roots)) IN
    /\ at = "forward"
    /\ fwd.stack = <<>>
    /\ fwd.roots # <<>>
    /\ fwd' = IF p \in fwd.closed
              THEN [fwd EXCEPT !.roots = Tail(@)]
              ELSE [Callback(fwd.clear, fwd.tidy, FALSE) EXCEPT
                       !.roots = Tail(fwd.roots), !.wanted = fwd.wanted, !.pinned = fwd.pinned,
                       !.closed = fwd.closed \cup {p}, !.stack = <<<<p, 1>>>>]
    /\ UNCHANGED <<g, built, fn, va, flag, data, grad, at, bwd, failed, calls, due, trained>>

(***************************************************************************)
(* visit_function_recursive.                                               *)
(***************************************************************************)
Top == Last(fwd.stack)

Descends(v) ==
    /\ Parent(v) # 0
    /\ Parent(v) \notin fwd.closed
    /\ fwd.again => Cleared(v)

\* Inputs of the function on top that its parents still have to be run for.
Pending == {i \in Top[2] .. Len(In(Top[1])) : Descends(In(Top[1])[i])}

Descend ==
    /\ fwd.stack # <<>>
    /\ Pending # {}
    /\ LET i == Min(Pending)
           p == Parent(In(Top[1])[i]) IN
       fwd' = [fwd EXCEPT !.closed = @ \cup {p},
                          !.stack = Append(Append(Front(@), <<Top[1], i + 1>>), <<p, 1>>)]
    /\ UNCHANGED <<g, built, fn, va, flag, data, grad, at, bwd, failed, calls, due, trained>>

\* Rank and need_grad_state of the inputs, taken over from their parents.
Visited(v) ==
    IF Parent(v) = 0
    THEN [va[v] EXCEPT !.rank = 0, !.state = FALSE]
    ELSE [va[v] EXCEPT !.rank = fn[Parent(v)].rank, !.state = fn[Parent(v)].need]

VisitedNeed(v) == IF flag[v] = "none" THEN Visited(v).state ELSE flag[v] = "true"

\* Visits of In(f)[i] by f up to position i.
Visits(f, i) == Cardinality({j \in 1 .. i : In(f)[j] = In(f)[i]})

\* check_last_visit, which forgets the count when it reaches the number of references.
LastVisit(f, i) ==
    LET v == In(f)[i] IN
    va[v].refs < 2 \/ (fwd.seen[v] + Visits(f, i)) % va[v].refs = 0

\* Faulty: the visits of earlier functions are not remembered.
SeenForgotten(f) == fwd.seen

SeenAfter(f) ==
    [v \in Var |-> IF v \in Ins(f) /\ va[v].refs > 1
                   THEN (fwd.seen[v] + Occurrences(v, f)) % va[v].refs ELSE fwd.seen[v]]

\* need_grad_variable_set_ and overwrite_variable_set_ once f's inputs up to i are looked at.
Kept(f, i, needs) ==
    LET before == {In(f)[j] : j \in 1 .. i}
        over   == {In(f)[j] : j \in g.kind[f].overwrites} IN
    IF needs
    THEN fwd.keep \cup OutputsUsed(f, DOMAIN In(f))
                  \cup ((InputsUsed(f, DOMAIN In(f)) \cup over) \cap before)
    ELSE fwd.keep

\* inplace_variable_set_ then.
Inplaced(f, i) ==
    fwd.inplaced \cup UNION {{In(f)[d[1]], Out(f)[d[2]]} : d \in {e \in Inplace(f) : e[1] <= i}}

\* get_clear_flags for input i: leaves (rank 0), persistent and in-place variables stay.
Clears(f, i, needs) ==
    LET v == In(f)[i] IN
    /\ LastVisit(f, i)
    /\ ~Shields(f)
    /\ v \notin Leaves
    /\ ~Persistent(v)
    /\ ~IsInplace(f, i)
    /\ ~va[v].prohibit
    /\ v \notin Inplaced(f, i)
    /\ \/ fwd.clear
       \/ ~fwd.again /\ v \in g.recompute
       \/ fwd.tidy /\ v \notin Kept(f, i, needs)

\* clear_inputs, after f has written m.
ClearInputs(f, needs, m) ==
    LET given == {In(f)[i] : i \in {j \in DOMAIN In(f) : Clears(f, j, needs)}} IN
    [a \in Var |-> IF \E v \in given : ArrayOf[v] = a THEN "cleared" ELSE m[a]]

Returned(f, needs) ==
    [fwd EXCEPT !.stack = Front(@), !.seen = SeenAfter(f),
                !.keep = Kept(f, Len(In(f)), needs), !.inplaced = Inplaced(f, Len(In(f)))]

\* Faulty: the random state is only remembered if forward clears what backward won't need.
ArmsIfTidy(f) == Random(f) /\ Outs(f) \cap g.recompute # {} /\ fwd.tidy

\* Whether forward calls setup_recompute.
Arms(f) == Random(f) /\ Outs(f) \cap g.recompute # {}

\* The end of visit_function_recursive: all inputs are there, and f is run.
Execute ==
    LET f     == Top[1]
        needs == \E v \in Ins(f) : VisitedNeed(v)
    IN
    /\ fwd.stack # <<>>
    /\ Pending = {}
    /\ ~fwd.again
    /\ va' = [v \in Var |-> IF v \in Ins(f) THEN Visited(v) ELSE va[v]]
    /\ fn' = [fn EXCEPT ![f] =
                [rank |-> 1 + Max({0} \cup {Visited(v).rank : v \in Ins(f)}), need |-> needs,
                 armed |-> @.armed \/ Arms(f), mask |-> TRUE]]
    /\ data' = ClearInputs(f, needs, AfterForward(f))
    /\ fwd' = Returned(f, needs)
    /\ UNCHANGED <<g, built, flag, grad, at, bwd, failed, calls, due, trained>>

\* The same for a recomputation: ranks and need_grad stay as forward left them.
Recompute ==
    LET f == Top[1] IN
    /\ fwd.stack # <<>>
    /\ Pending = {}
    /\ fwd.again
    /\ Random(f) => fn[f].armed
    /\ fn' = [fn EXCEPT ![f].armed = FALSE, ![f].mask = TRUE]
    /\ data' = ClearInputs(f, fn[f].need, AfterForward(f))
    /\ fwd' = Returned(f, fn[f].need)
    /\ UNCHANGED <<g, built, va, flag, grad, at, bwd, failed, calls, due, trained>>

EndForward ==
    /\ at = "forward"
    /\ fwd.stack = <<>>
    /\ fwd.roots = <<>>
    /\ at' = "idle"
    /\ fwd' = NoForward
    /\ trained' = IF fwd.clear THEN trained \ fwd.closed ELSE trained \cup fwd.closed
    /\ UNCHANGED <<g, built, fn, va, flag, data, grad, bwd, failed, calls, due>>

(***************************************************************************)
(* Starting a backward with an initial gradient, which is put in the place *)
(* of the root's; its siblings get zeros.  A program calls it after a      *)
(* forward that kept what it needs.                                        *)
(***************************************************************************)
Backward(r, c, ci) ==
    LET f == Parent(r) IN
    /\ f \in Built
    /\ Cone[f] \subseteq trained
    /\ Call
    /\ at' = "backward"
    /\ grad' = [v \in Var |-> IF v = r THEN One ELSE IF v \in Outs(f) THEN Zero ELSE grad[v]]
    /\ bwd' = [NoBackward EXCEPT !.root = r, !.clear = c, !.initial = ci, !.open = {f},
                                 !.ids = <<f>>, !.bak = [v \in Outs(f) |-> grad[v]]]
    /\ fwd' = Callback(FALSE, TRUE, TRUE)
    /\ UNCHANGED <<g, built, fn, va, flag, data, failed, due, trained>>

\* The open function of the highest rank, the one seen first if there are several.
Id(f) == CHOOSE i \in DOMAIN bwd.ids : bwd.ids[i] = f
\* Faulty: in the order they were opened.
BeforeAsSeen(f, k) == Id(f) <= Id(k)

Before(f, k) == fn[f].rank > fn[k].rank \/ (fn[f].rank = fn[k].rank /\ Id(f) <= Id(k))
First == CHOOSE f \in bwd.open : \A k \in bwd.open : Before(f, k)

\* Faulty: the loop goes on without taking the function out.
Stuck(f) == bwd

\* A function that needs no gradient is taken out and passed over.
PassOver(f) == [bwd EXCEPT !.open = @ \ {f}]

Pick ==
    /\ at = "backward"
    /\ bwd.cur = 0
    /\ bwd.open # {}
    /\ IF fn[First].need
       THEN /\ bwd' = [bwd EXCEPT !.cur = First, !.next = 1]
            /\ fwd' = [fwd EXCEPT !.closed = {}]
       ELSE /\ bwd' = PassOver(First)
            /\ UNCHANGED fwd
    /\ UNCHANGED <<g, built, fn, va, flag, data, grad, at, failed, calls, due, trained>>

(***************************************************************************)
(* Recomputation: the cleared outputs, then the cleared inputs, that the   *)
(* function's backward reads.                                              *)
(***************************************************************************)
Needing(f) == {j \in DOMAIN In(f) : NeedGrad(In(f)[j])}

Targets(f) == Out(f) \o In(f)

NeedRecompute(f, n) ==
    LET v == Targets(f)[n] IN
    /\ v \in g.recompute
    /\ Cleared(v)
    /\ IF n <= Len(Out(f)) THEN v \in OutputsUsed(f, Needing(f))
       ELSE Parent(v) # 0 /\ v \in InputsUsed(f, Needing(f))

ToRecompute == {n \in bwd.next .. Len(Targets(bwd.cur)) : NeedRecompute(bwd.cur, n)}

Working == at = "backward" /\ bwd.cur # 0 /\ fwd.stack = <<>>

StartRecompute ==
    /\ Working
    /\ ToRecompute # {}
    /\ LET n == Min(ToRecompute)
           p == Parent(Targets(bwd.cur)[n]) IN
       /\ fwd' = [fwd EXCEPT !.closed = @ \cup {p}, !.stack = <<<<p, 1>>>>]
       /\ bwd' = [bwd EXCEPT !.next = n + 1]
    /\ UNCHANGED <<g, built, fn, va, flag, data, grad, at, failed, calls, due, trained>>

\* An exception leaves backward through DestructorCallback, which puts the gradients back.
Restored == [v \in Var |-> IF v \in DOMAIN bwd.bak THEN bwd.bak[v] ELSE grad[v]]

RecomputeFails ==
    /\ fwd.stack # <<>>
    /\ Pending = {}
    /\ fwd.again
    /\ Random(Top[1]) /\ ~fn[Top[1]].armed
    /\ at' = "idle"
    /\ failed' = TRUE
    /\ grad' = Restored
    /\ fwd' = NoForward
    /\ bwd' = NoBackward
    /\ UNCHANGED <<g, built, fn, va, flag, data, calls, due, trained>>

(***************************************************************************)
(* BackwardCallback::operator() for the function picked.                   *)
(***************************************************************************)
\* Faulty: no regard to the function's own inputs.
FirstVisitOf(f, i) == In(f)[i] \notin bwd.seen

FirstVisit(f, i) == In(f)[i] \notin bwd.seen /\ \A j \in 1 .. i - 1 : In(f)[j] # In(f)[i]

\* get_accum: a gradient is overwritten if it is about to be zeroed and no other input
\* shares it, or if it is an intermediate one seen for the first time.
Accum(f, i) ==
    LET v == In(f)[i] IN
    /\ NeedGrad(v)
    /\ grad[v].zeroing => Occurrences(v, f) > 1
    /\ v \in Leaves \/ ~FirstVisit(f, i)

\* query_input_flags: the variables whose data and gradient must not be cleared.
SeenInputs(f) == bwd.seen \cup Ins(f)

KeepGrad(f) == bwd.keepgrad \cup (IF Shields(f) THEN Ins(f) ELSE {})

\* Faulty: without a look at what the output of an in-place function is marked as.
KeepDataUsed(f) ==
    bwd.keepdata \cup (IF Shields(f) THEN Ins(f) ELSE {})
                 \cup {In(f)[d[1]] : d \in {e \in Inplace(f) : Out(f)[e[2]] \notin bwd.seen}}

KeepData(f) ==
    bwd.keepdata \cup (IF Shields(f) THEN Ins(f) ELSE {})
                 \cup {In(f)[d[1]] : d \in
                         {e \in Inplace(f) : LET w == Out(f)[e[2]] IN
                             w \notin bwd.seen \/ w \in bwd.keepdata \/ w \in g.persistent}}

\* query_outputs_flags: outputs no function has used yet, and what may be cleared.
Unseen(f) == Outs(f) \ SeenInputs(f)

ClearedData(f) ==
    IF bwd.clear
    THEN Outs(f) \ (Unseen(f) \cup KeepData(f) \cup g.persistent
                              \cup {Out(f)[d[2]] : d \in Inplace(f)})
    ELSE {}

ClearedGrad(f) ==
    IF bwd.clear
    THEN Outs(f) \ ((IF bwd.initial THEN {} ELSE Unseen(f)) \cup KeepGrad(f) \cup g.persistent)
    ELSE {}

\* force_zero_grad_if_unseen.
OutGrad(f, v) ==
    IF v \in Unseen(f) /\ v \notin Outs(Parent(bwd.root)) THEN Zero ELSE grad[v]

Reads(f) == InputsUsed(f, Needing(f)) \cup OutputsUsed(f, Needing(f))

\* What f adds to an input, and whether all it is computed from was there.
Signal(f) == MapThenSumSet(LAMBDA v : OutGrad(f, v).val, Outs(f))

Sound(f) ==
    /\ \A v \in Outs(f) : OutGrad(f, v).ok
    /\ \A v \in Reads(f) : Live(v)
    /\ Masks(f) => fn[f].mask

\* Function::backward for input v: what is not accumulated is zeroed first, and the last
\* of several inputs that are the same variable wins if it overwrites.
InGrad(f, v) ==
    LET inputs == {i \in DOMAIN In(f) : In(f)[i] = v}
        resets == {i \in inputs : ~Accum(f, i)}
        from   == IF resets = {} THEN 0 ELSE Max(resets)
        added  == Signal(f) * Cardinality({i \in inputs : i >= from})
    IN  IF resets = {}
        THEN [val |-> grad[v].val + added, ok |-> grad[v].ok /\ Sound(f), zeroing |-> FALSE]
        ELSE [val |-> added, ok |-> Sound(f), zeroing |-> FALSE]

\* The gradients after f; Sink fills its inputs with one instead.
AfterBackward(f) ==
    [v \in Var |->
        IF v \in Outs(f)
        THEN IF v \in ClearedGrad(f) THEN [OutGrad(f, v) EXCEPT !.val = 0, !.ok = FALSE]
                                     ELSE OutGrad(f, v)
        ELSE IF v \notin Ins(f) THEN grad[v]
        ELSE IF Shields(f) THEN One
        ELSE IF NeedGrad(v) THEN InGrad(f, v)
        ELSE grad[v]]

\* The functions to visit next, in the order of f's inputs.
Below(f) == {Parent(In(f)[i]) : i \in Needing(f)} \ {0}

Known(f) ==
    FoldLeft(LAMBDA ids, v : IF Parent(v) \in Below(f) \ Range(ids) /\ NeedGrad(v)
                             THEN Append(ids, Parent(v)) ELSE ids,
             bwd.ids, In(f))

RunBackward ==
    LET f == bwd.cur IN
    /\ Working
    /\ ToRecompute = {}
    /\ grad' = AfterBackward(f)
    /\ data' = [a \in Var |-> IF \E v \in ClearedData(f) : ArrayOf[v] = a THEN "cleared"
                              ELSE AfterRead(Reads(f))[a]]
    /\ fn' = [fn EXCEPT ![f].mask = @ /\ ~Masks(f)]
    /\ bwd' = [bwd EXCEPT !.cur = 0, !.done = @ \cup {f},
                          !.open = (@ \ {f}) \cup Below(f), !.ids = Known(f),
                          !.seen = SeenInputs(f) \cup Outs(f),
                          !.keepdata = KeepData(f) \cup Unseen(f),
                          !.keepgrad = KeepGrad(f) \cup (IF bwd.initial THEN {} ELSE Unseen(f))]
    /\ UNCHANGED <<g, built, va, flag, at, fwd, failed, calls, due, trained>>

EndBackward ==
    /\ at = "backward"
    /\ bwd.cur = 0
    /\ bwd.open = {}
    /\ at' = "idle"
    /\ grad' = Restored
    /\ due' = [v \in Leaves |-> due[v] + Gradient(bwd.root, flag, v)]
    /\ trained' = IF bwd.clear THEN trained \ bwd.done ELSE trained
    /\ fwd' = NoForward
    /\ bwd' = NoBackward
    /\ UNCHANGED <<g, built, fn, va, flag, data, failed, calls>>

(***************************************************************************)
(* Setters of the program.  need_grad takes effect with the next forward.  *)
(***************************************************************************)
SetNeedGrad(v, b) ==
    /\ Call
    /\ flag[v] # b
    /\ flag' = [flag EXCEPT ![v] = b]
    /\ trained' = {f \in trained : \A k \in Cone[f] : v \notin Ins(k)}
    /\ UNCHANGED <<g, built, fn, va, data, grad, at, fwd, bwd, failed, due>>

\* zero() on the gradients of the parameters.
ZeroGrad ==
    /\ Call
    /\ grad' = [v \in Var |-> IF v \in Leaves /\ flag[v] = "true" THEN Zero ELSE grad[v]]
    /\ due' = [v \in Leaves |-> IF flag[v] = "true" THEN 0 ELSE due[v]]
    /\ UNCHANGED <<g, built, fn, va, flag, data, at, fwd, bwd, failed, trained>>

(***************************************************************************)
(* The specification.                                                      *)
(***************************************************************************)
Init ==
    /\ g \in Graphs
    /\ built = 0
    /\ fn = [f \in Fn |-> [rank |-> 0, need |-> FALSE, armed |-> FALSE, mask |-> FALSE]]
    /\ va = [v \in Var |-> [rank |-> 0, state |-> FALSE, refs |-> 0, prohibit |-> FALSE]]
    /\ flag = [v \in Var |-> IF v \in g.need THEN "true"
                             ELSE IF v \in Leaves THEN "false" ELSE "none"]
    /\ data = [v \in Var |-> IF v \in Leaves THEN "live" ELSE "none"]
    /\ grad = [v \in Var |-> Fresh]
    /\ at = "idle"
    /\ fwd = NoForward
    /\ bwd = NoBackward
    /\ failed = FALSE
    /\ calls = 0
    /\ due = [v \in Leaves |-> 0]
    /\ trained = {}

Program ==
    \/ Connect
    \/ \E r \in g.roots, c, t \in BOOLEAN : Forward(r, c, t)
    \/ \E c, t \in BOOLEAN : ForwardAll(c, t)
    \/ \E r \in g.roots, c, ci \in BOOLEAN : Backward(r, c, ci)
    \/ \E v \in g.switch, b \in {"true", "false"} : SetNeedGrad(v, b)
    \/ ZeroGrad

Engine ==
    \/ EnterRoot \/ Descend \/ Execute \/ EndForward
    \/ Pick \/ StartRecompute \/ Recompute \/ RecomputeFails \/ RunBackward \/ EndBackward

Next == Program \/ Engine

\* A call that was made is carried on with until it returns.
Spec == Init /\ [][Next]_vars /\ WF_vars(Engine)

(***************************************************************************)
(* What makes it correct.                                                  *)
(***************************************************************************)
\* After any sequence of calls every leaf holds the sum of the gradients of the backwards
\* since it was zeroed, computed from live data: get_accum never overwrites a gradient
\* another consumer has left nor adds to an old one, and no data a backward reads was
\* cleared by a forward, a recomputation or an earlier function of the backward.
GradientIsExact ==
    at = "idle" /\ ~failed =>
        \A v \in Leaves : grad[v].ok /\ grad[v].val = due[v]

\* visit_function_backward runs a function once, and only when no function that is still
\* to come depends on its outputs.
ConsumersFirst ==
    at = "backward" => \A f \in bwd.done, k \in bwd.open : f \notin Cone[k]

\* A variable forward or forward_all was asked for is live when the call returns, whatever
\* it shares an array with and whatever the later roots of forward_all clear.
ResultsKept ==
    [][at = "forward" /\ at' = "idle" => \A v \in fwd.wanted : Live(v)]_vars

\* forward with clear_buffer gives back every intermediate variable all consumers of which
\* it has run, unless it is persistent, shares its array or is an input of Sink.
Shared(v) == \E f \in Fn : \E i \in DOMAIN In(f) :
                IsInplace(f, i) /\ v \in {In(f)[i]} \cup Outs(f)

Released(v) ==
    LET users == Consumers(v) \cap Built IN
    users # {} /\ users \subseteq fwd.closed /\ ~Persistent(v) /\ ~Shared(v)
        /\ (\A f \in users : ~Shields(f)) => Cleared(v)

ClearBufferReleases ==
    [][at = "forward" /\ at' = "idle" /\ fwd.clear /\ Cardinality(fwd.wanted) = 1 =>
          \A v \in Var \ Leaves : Released(v)]_vars

\* The in-place functions between a variable and the one whose array it has.
InplacePath(v) ==
    IF Parent(v) = 0 THEN {}
    ELSE {f \in Cone[Parent(v)] : Inplace(f) # {} /\ \A w \in Outs(f) : ArrayOf[w] = ArrayOf[v]}

\* Whether clearing is up to a forward or a recomputation, or to a backward that came to v
\* through all of these: query_input_flags sees no others.
Reachable(v) == at = "backward" /\ fwd.stack = <<>> => InplacePath(v) \subseteq bwd.done

\* What a forward, a forward_all or a recomputation clears never takes the data of a persistent
\* variable with it, whatever shares an array with it; nor what a backward clears that has run
\* the in-place functions by which the variable got its array (get_clear_flags of the forward
\* callback, query_input_flags). A backward that does not run them may: see the README.
PersistentKept ==
    [][\A v \in g.persistent : Live(v) /\ Reachable(v) => data'[ArrayOf[v]] = "live"]_vars

\* Where all intermediate variables are recomputed or none is, recomputation never meets a
\* random function whose state forward did not remember, or that it has recomputed before.
RecomputeIsArmed == failed => g.recompute \notin {{}, Var \ Leaves}

\* A call returns: the recursion closes functions and the loop never reopens one.
EveryCallReturns == (at # "idle") ~> (at = "idle")

=============================================================================
