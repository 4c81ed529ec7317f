----------------------------- MODULE LossScaling -----------------------------
(* DynamicLossScalingUpdater (experimental/mixed_precision_training.py) on      *)
(* every rank of a training: a program calls update() and changes the           *)
(* parameters of the solver in between. A batch is the greatest scale with      *)
(* which its gradients are finite, and the parameters they reach.               *)
EXTENDS Solver, Sequences, FiniteSets

CONSTANTS
    Programs,           \* number of ranks, settings of the updater and calls of the program
    Batches,            \* what data_feeder may feed
    Scale,              \* the initial loss scale, 2^Scale (3)
    N,                  \* interval at which the scale grows (2000)
    MaxRecursiveCount   \* retries before an update is skipped (100)

ASSUME UpdaterAssumption ==
    /\ Scale \in Int /\ -MaxExp <= Scale
    /\ N \in Nat
    /\ MaxRecursiveCount \in Nat

ASSUME BatchAssumption ==
    \A b \in Batches : b.limit \in Int /\ b.limit <= MaxExp /\ b.touches \subseteq Keys

\* The calls of a program: update(), and those of the solver.
Calls ==
    [op : {"update", "clear"}]
        \cup [op : {"remove"}, keys : SUBSET Keys]
        \cup [op : {"set"}, keys : SUBSET Keys, reset : BOOLEAN, retain : BOOLEAN]

\* A feeder that raises does so in a process of its own: others would wait for it forever.
ASSUME ProgramAssumption ==
    \A c \in Programs :
        /\ c.size \in Nat \ {0}
        /\ c.accumGrad \in Nat \ {0}
        /\ c.weightDecay \in {"none", "plain", "fused"}
        /\ c.fails \in BOOLEAN
        /\ c.fails => c.size = 1
        /\ c.calls \in Seq(Calls)

VARIABLES
    conf,       \* the program
    at,         \* the call each rank is in, or makes next
    pc,         \* where it is in update()
    scale,      \* the loss scale is 2^scale
    counter,
    recursive,  \* _recursive_count
    log,        \* history: every attempt, its call, the updater as it began, and its batches
    solver,
    grad,       \* gradients of the parameters
    data        \* the parameters: the updates made to them

updater == <<scale, counter, recursive>>
memory == <<solver, grad, data>>
vars == <<conf, at, pc, updater, log, memory>>

Ranks == 1..conf.size
Call(r) == conf.calls[at[r]]
\* The number of the attempt a rank is in, or made last.
Attempt(r) == Len(log[r])

Init ==
    /\ conf \in Programs
    /\ at = [r \in Ranks |-> 1]
    /\ pc = [r \in Ranks |-> "idle"]
    /\ scale = [r \in Ranks |-> Scale]
    /\ counter = [r \in Ranks |-> 0]
    /\ recursive = [r \in Ranks |-> 0]
    /\ log = [r \in Ranks |-> <<>>]
    /\ solver = [r \in Ranks |-> NewSolver]
    /\ grad = [r \in Ranks |-> [k \in Keys |-> Zeroed]]
    /\ data = [r \in Ranks |-> [k \in Keys |-> {}]]

---------------------------------------------------------------------------
\* The calls of the solver between the updates.

Changed(S, c) ==
    CASE c.op = "set" -> SetParameters(S, c.keys, c.reset, c.retain)
      [] c.op = "remove" -> RemoveParameters(S, c.keys)
      [] c.op = "clear" -> ClearParameters(S)

ChangeParameters(r) ==
    /\ pc[r] = "idle"
    /\ at[r] \in DOMAIN conf.calls
    /\ Call(r).op # "update"
    /\ solver' = [solver EXCEPT ![r] = Changed(solver[r], Call(r))]
    /\ at' = [at EXCEPT ![r] = at[r] + 1]
    /\ UNCHANGED <<conf, pc, updater, log, grad, data>>

---------------------------------------------------------------------------
\* update()

\* It is called, by the program or by itself.
Begin(r) ==
    /\ \/ pc[r] = "again"
       \/ pc[r] = "idle" /\ at[r] \in DOMAIN conf.calls /\ Call(r).op = "update"
    /\ grad' = [grad EXCEPT ![r] = ZeroGrad(solver[r], grad[r])]
    /\ pc' = [pc EXCEPT ![r] = "feed"]
    /\ log' = [log EXCEPT ![r] =
                Append(log[r], [call |-> at[r], scale |-> scale[r], counter |-> counter[r],
                                recursive |-> recursive[r], batches |-> <<>>])]
    /\ UNCHANGED <<conf, at, updater, solver, data>>

Term(r, attempt, index, exp) == [rank |-> r, attempt |-> attempt, index |-> index, exp |-> exp]

\* What backward adds, beginning with a gradient of 2^scale.
Backward(g, b, term) ==
    [k \in Keys |->
        IF k \in b.touches
        THEN [zeroing |-> FALSE, terms |-> g[k].terms \cup {term},
              finite |-> g[k].finite /\ term.exp <= b.limit]
        ELSE g[k]]

Fed(r) == Len(log[r][Attempt(r)].batches)

\* data_feeder, forward and backward. Bound: whatever is fed, gradients are finite once the scale
\* has come down to the least that has an inverse; the code looks at neither.
FeedForwardBackward(r) ==
    /\ pc[r] = "feed"
    /\ \E b \in Batches :
        /\ scale[r] <= b.limit \/ -MaxExp < scale[r]
        /\ grad' = [grad EXCEPT ![r] =
                        Backward(grad[r], b, Term(r, Attempt(r), Fed(r) + 1, scale[r]))]
        /\ log' = [log EXCEPT ![r] =
                    [log[r] EXCEPT ![Attempt(r)] =
                        [log[r][Attempt(r)] EXCEPT
                            !.batches = Append(log[r][Attempt(r)].batches, b)]]]
    /\ pc' = [pc EXCEPT ![r] = IF Fed(r) + 1 < conf.accumGrad THEN "feed"
                               ELSE IF conf.size > 1 THEN "reduce" ELSE "check"]
    /\ UNCHANGED <<conf, at, updater, solver, data>>

\* data_feeder raises, and the exception leaves update(). How often it called itself stays.
FeederRaises(r) ==
    /\ conf.fails
    /\ pc[r] = "feed"
    /\ pc' = [pc EXCEPT ![r] = "idle"]
    /\ at' = [at EXCEPT ![r] = at[r] + 1]
    /\ UNCHANGED <<conf, updater, log, memory>>

\* Mutant: nothing is exchanged.
Unreduced(g) == g

\* comm.all_reduce(grads): every rank has the sum, and a gradient even if nobody had.
AllReduced(g) ==
    [r \in DOMAIN g |-> [k \in Keys |->
        [zeroing |-> FALSE,
         terms |-> UNION {g[s][k].terms : s \in DOMAIN g},
         finite |-> \A s \in DOMAIN g : g[s][k].finite]]]

AllReduce ==
    /\ \A r \in Ranks : pc[r] = "reduce"
    /\ grad' = AllReduced(grad)
    /\ pc' = [r \in Ranks |-> "check"]
    /\ UNCHANGED <<conf, at, updater, log, solver, data>>

\* An inf or a nan: again with a smaller scale and other data, or not at all.
Exhausted(count) == count > MaxRecursiveCount

\* Mutant: the updates before the overflow go on counting.
OverflowCounting(r) ==
    /\ pc[r] = "check"
    /\ CheckInfOrNanGrad(solver[r], grad[r])
    /\ scale' = [scale EXCEPT ![r] = scale[r] - 1]
    /\ IF Exhausted(recursive[r] + 1)
       THEN /\ recursive' = [recursive EXCEPT ![r] = 0]
            /\ pc' = [pc EXCEPT ![r] = "idle"]
            /\ at' = [at EXCEPT ![r] = at[r] + 1]
       ELSE /\ recursive' = [recursive EXCEPT ![r] = recursive[r] + 1]
            /\ pc' = [pc EXCEPT ![r] = "again"]
            /\ UNCHANGED at
    /\ UNCHANGED <<conf, log, memory, counter>>

Overflow(r) ==
    /\ pc[r] = "check"
    /\ CheckInfOrNanGrad(solver[r], grad[r])
    /\ scale' = [scale EXCEPT ![r] = scale[r] - 1]
    /\ counter' = [counter EXCEPT ![r] = 0]
    /\ IF Exhausted(recursive[r] + 1)
       THEN /\ recursive' = [recursive EXCEPT ![r] = 0]
            /\ pc' = [pc EXCEPT ![r] = "idle"]
            /\ at' = [at EXCEPT ![r] = at[r] + 1]
       ELSE /\ recursive' = [recursive EXCEPT ![r] = recursive[r] + 1]
            /\ pc' = [pc EXCEPT ![r] = "again"]
            /\ UNCHANGED at
    /\ UNCHANGED <<conf, log, memory>>

Grows(count) == count > N

\* The gradients are rescaled and decayed, the parameters updated, and the scale grows.
Update(r) ==
    /\ pc[r] = "check"
    /\ ~CheckInfOrNanGrad(solver[r], grad[r])
    /\ recursive' = [recursive EXCEPT ![r] = 0]
    /\ LET S == solver[r]
           fused == conf.weightDecay = "fused"
           rescaled == ScaleGrad(S, grad[r], -scale[r])
           decayed == IF conf.weightDecay = "none" THEN rescaled ELSE DecayedGrad(S, rescaled, fused)
           T == DecayRate(S, fused)
       IN  /\ grad' = [grad EXCEPT ![r] = decayed]
           /\ data' = [data EXCEPT ![r] = UpdateData(T, decayed, Attempt(r), data[r])]
           /\ solver' = [solver EXCEPT ![r] = UpdateStates(T, decayed, Attempt(r))]
    /\ IF Grows(counter[r])
       THEN scale' = [scale EXCEPT ![r] = scale[r] + 1] /\ counter' = [counter EXCEPT ![r] = 1]
       ELSE counter' = [counter EXCEPT ![r] = counter[r] + 1] /\ UNCHANGED scale
    /\ pc' = [pc EXCEPT ![r] = "idle"]
    /\ at' = [at EXCEPT ![r] = at[r] + 1]
    /\ UNCHANGED <<conf, log>>

Step(r) ==
    \/ ChangeParameters(r) \/ Begin(r) \/ FeedForwardBackward(r) \/ FeederRaises(r)
    \/ Overflow(r) \/ Update(r)

Next == AllReduce \/ \E r \in Ranks : Step(r)

\* A process that can go on does.
Spec == Init /\ [][Next]_vars /\ WF_vars(Next)

---------------------------------------------------------------------------
\* What the parameters should be, from the calls of the program, the batches and the scales alone.

\* The parameters registered when a program makes its i-th call.
Sets(j, k) == conf.calls[j].op = "set" /\ k \in conf.calls[j].keys
Drops(j, k) ==
    \/ conf.calls[j].op = "clear"
    \/ conf.calls[j].op = "remove" /\ k \in conf.calls[j].keys
    \/ conf.calls[j].op = "set" /\ conf.calls[j].reset /\ k \notin conf.calls[j].keys
Registered(k, i) ==
    \E j \in 1..(i - 1) : Sets(j, k) /\ \A m \in (j + 1)..(i - 1) : ~Drops(m, k)

\* The calls that give a parameter a new state.
Anew(j, k) ==
    /\ Sets(j, k)
    /\ conf.calls[j].reset \/ ~conf.calls[j].retain \/ ~Registered(k, j)

\* The batches of an attempt that reach a parameter.
Reaching(r, a, k) == {i \in DOMAIN log[r][a].batches : k \in log[r][a].batches[i].touches}

\* No gradient of a registered parameter overflows, on any rank.
Good(r, a) ==
    \A s \in Ranks : \A i \in DOMAIN log[s][a].batches :
        \/ log[r][a].scale <= log[s][a].batches[i].limit
        \/ \A k \in log[s][a].batches[i].touches : ~Registered(k, log[r][a].call)

\* The attempts a rank has fed and decided about.
Complete(r, a) == Len(log[r][a].batches) = conf.accumGrad
Decided(r) ==
    {a \in DOMAIN log[r] : Complete(r, a) /\ (a < Attempt(r) \/ pc[r] \in {"idle", "again"})}

\* The updates a parameter should have had; after an all_reduce, even without a gradient.
Due(r, k) ==
    {a \in Decided(r) :
        /\ Good(r, a)
        /\ Registered(k, log[r][a].call)
        /\ conf.size > 1 \/ Reaching(r, a, k) # {}}

\* What the batches of an attempt contribute on all ranks, multiplied by 2^exp.
Gathered(a, k, exp) == UNION {{Term(s, a, i, exp) : i \in Reaching(s, a, k)} : s \in Ranks}

\* The updates up to an attempt since the parameter was given its state.
Since(r, k, a) ==
    {b \in Due(r, k) : b <= a /\ ~\E j \in (log[r][b].call)..(log[r][a].call) : Anew(j, k)}

\* All gradients of the attempt, as if never scaled, and the decay; and the momentum.
Unscaled(r, k, a) ==
    [attempt |-> a,
     terms |-> Gathered(a, k, 0) \cup (IF conf.weightDecay = "none" THEN {} ELSE {Decay}),
     finite |-> TRUE,
     momentum |-> Since(r, k, a)]

\* The parameters are those of a training without scales that leaves out the attempts which
\* overflow: each update has the gradients of accum_grad batches of every rank, each once and
\* as they are, no infinite one, none of a batch that was tried before, and reaches every
\* registered parameter that has a gradient (update, Solver::update).
LearnsUnscaled ==
    \A r \in Ranks : \A k \in Keys : data[r][k] = {Unscaled(r, k, a) : a \in Due(r, k)}

\* Ranks that meet in all_reduce make the same attempt with the same scale, though each checks,
\* retries and skips by itself; after the same calls, they are the same.
RanksAgree ==
    \A r, s \in Ranks :
        /\ (pc[r] = "reduce" /\ pc[s] = "reduce")
                => Attempt(r) = Attempt(s) /\ scale[r] = scale[s]
        /\ (pc[r] = "idle" /\ pc[s] = "idle" /\ at[r] = at[s])
                => /\ <<scale[r], counter[r], recursive[r]>> = <<scale[s], counter[s], recursive[s]>>
                   /\ solver[r] = solver[s]
                   /\ data[r] = data[s]

\* The complete attempts from a to b, if all of them had the scale of the first.
Steady(r, a, b) == \A c \in a..b : log[r][c].scale = log[r][a].scale
Tried(r, a, b) == Cardinality({c \in a..b : Complete(r, c)})

\* The scale halves after an attempt that overflows, tried again or given up, and after no other;
\* it doubles, never more, and not before at least N attempts in a row have been fed whole and
\* decided with the scale it has, none of which overflowed ("Interval, the number of iterations
\* in training for increasing `loss scale`", update). How much later it may is not said.
ScaleIsEarned ==
    \A r \in Ranks :
        \A a \in 1..(Attempt(r) - 1) :
            LET next == log[r][a + 1].scale
                overflows == Complete(r, a) /\ ~Good(r, a)
            IN  /\ next \in {log[r][a].scale - 1, log[r][a].scale, log[r][a].scale + 1}
                /\ next < log[r][a].scale <=> overflows
                /\ next > log[r][a].scale =>
                        \E b \in 1..a : Steady(r, b, a) /\ Tried(r, b, a) >= N

\* Every program comes to its end, on all ranks: every update() returns, though it calls itself,
\* and no rank waits for gradients of one that has given up.
ProgramsEnd == <>(\A r \in Ranks : at[r] = Len(conf.calls) + 1)
=============================================================================
