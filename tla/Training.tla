------------------------------ MODULE Training ------------------------------
(* nnabla train (utils/cli/train.py): every rank runs the optimizers of the    *)
(* project over the iterations, adds up their cost, evaluates at the end of an *)
(* epoch; rank 1 (rank 0 of the code) keeps the best and the current           *)
(* parameters on disk. A job may die at any step and is started again with     *)
(* --resume.                                                                   *)
(* A loss, a gradient or an error is the token of the forward it comes from:   *)
(* <<iteration, turn, rank>>, and a sum of them a sequence of tokens.          *)
EXTENDS DatasetCache, SequencesExt

CONSTANTS
    Interval,       \* epochs between checkpoints with solver states (5)
    Early,          \* epochs that are all evaluated (5)
    Apart,          \* epochs after which a checkpoint is due however soon (10)
    MaxCrashes      \* bound: times the job dies

ASSUME TrainingConstants ==
    /\ Interval \in Nat \ {0}
    /\ Early \in Nat
    /\ Apart \in Nat
    /\ MaxCrashes \in Nat

\* A project has an epoch at least, and an error for each; what its file says of the
\* optimizers are numbers.
ASSUME ProjectAssumption ==
    \A c \in Scenarios :
        /\ c.maxEpoch \in Nat \ {0}
        /\ Len(c.opts) \in Nat /\ DOMAIN c.opts = 1..Len(c.opts)
        /\ \A epoch \in 1..c.maxEpoch : c.errors[epoch] \in Int
        /\ c.monitor.batches \in Nat
        /\ \A k \in DOMAIN c.opts :
                /\ {"start", "end", "interval"} \subseteq DOMAIN c.opts[k]
                /\ c.opts[k].start \in Int /\ c.opts[k].end \in Int /\ c.opts[k].interval \in Int

VARIABLES
    rank,       \* the state of _train on each rank
    disk,       \* checkpoints and monitoring report
    crashes     \* times the job died

vars == <<conf, cache, prep, asked, rank, disk, crashes>>

\* Iterations of the project are shared out among the ranks (_create_optimizer).
Shared(iter) == IF iter > 0 THEN (iter - 1) \div Size + 1 ELSE 0
Opt(turn) ==
    [conf.opts[turn] EXCEPT !.start = Shared(@), !.end = Shared(@), !.interval = Max({@, 1})]
Turns == DOMAIN conf.opts
MaxIteration == conf.maxEpoch * PerEpoch
EndsEpoch(iter) == iter % PerEpoch = PerEpoch - 1
Epoch(iter) == IF PerEpoch = 0 THEN 0 ELSE iter \div PerEpoch + 1
Active(o, iter) == /\ o.start = 0 \/ iter + 1 >= o.start
                   /\ o.end = 0 \/ iter + 1 <= o.end
Due(o, iter) == iter % o.interval = o.interval - 1

Token(iter, turn, r) == <<iter, turn, r>>
IsNan(sum) == \E k \in DOMAIN sum : sum[k] \in conf.nan
Concat(seqs) == FoldLeft(LAMBDA a, b : a \o b, <<>>, seqs)

Networks == {Opt(k).net : k \in Turns} \cup {conf.monitor.net}
Parameters == UNION {Opt(k).params : k \in Turns}

\* A process that has just started.
Fresh == [pc |-> "start", iter |-> 0, from |-> 0, turn |-> 1, first |-> TRUE,
          pending |-> 0, sumIteration |-> <<>>, sumEpoch |-> <<>>, numIteration |-> 0,
          held |-> [n \in Networks |-> <<>>], grads |-> [p \in Parameters |-> <<>>],
          applied |-> {}, states |-> {}, batch |-> 0, errors |-> <<>>, count |-> 0,
          average |-> <<>>, best |-> 0, judged |-> <<>>, saved |-> 0, then |-> ""]

Ended == {"done", "failed", "stopped", "broken"}

Init ==
    /\ conf \in Scenarios
    /\ PrepareInit
    /\ asked = [r \in Ranks |-> NoCall]
    /\ rank = [r \in Ranks |-> Fresh]
    /\ disk = [current |-> {}, best |-> {}, report |-> <<>>, newest |-> 0]
    /\ crashes = 0

At(r, pc) == rank[r].pc = pc
Same == UNCHANGED <<conf, cache, prep>>
Local == UNCHANGED <<conf, cache, prep, asked, disk, crashes>>

---------------------------------------------------------------------------
\* _get_current_parameter

\* Mutant: the epoch that was saved is trained again.
ResumedEarly(c) == (c.epoch - 1) * PerEpoch

Resumed(c) == c.epoch * PerEpoch

Latest(files) == CHOOSE c \in files : \A d \in files : d.epoch <= c.epoch

\* Training begins at the last checkpoint when it is resumed; an archive that was not
\* finished cannot be read.
Begin(r) ==
    /\ prep[r] \in {"opened", "opened in part"}
    /\ At(r, "start")
    /\ rank' = [rank EXCEPT ![r] =
                    IF crashes = 0 \/ disk.current = {} THEN [rank[r] EXCEPT !.pc = "turn"]
                    ELSE IF ~Latest(disk.current).whole THEN [rank[r] EXCEPT !.pc = "broken"]
                    ELSE LET c == Latest(disk.current)
                             iter == Resumed(c)
                         IN  [rank[r] EXCEPT !.pc = IF iter < MaxIteration THEN "turn" ELSE "done",
                                             !.iter = iter, !.from = iter,
                                             !.applied = c.applied, !.states = c.states]]
    /\ Local

\* "0 epoch learning": the parameters are only saved.
SaveUntrained(r) ==
    /\ prep[r] = "open"
    /\ PerEpoch = 0
    /\ At(r, "start")
    /\ rank' = [rank EXCEPT ![r] = [rank[r] EXCEPT !.pc = IF r = 1 THEN "best" ELSE "done",
                                                   !.then = "done"]]
    /\ Local

---------------------------------------------------------------------------
\* _update

NextTurn(R) == [R EXCEPT !.turn = R.turn + 1, !.pc = "turn"]

SkipOptimizer(r) ==
    /\ At(r, "turn")
    /\ rank[r].turn \in Turns
    /\ ~Active(Opt(rank[r].turn), rank[r].iter)
    /\ rank' = [rank EXCEPT ![r] = NextTurn(rank[r])]
    /\ Local

\* The loss of the optimizer that came before, now that its forward had time to finish.
Monitored(R) ==
    IF R.pending = 0 THEN R.sumIteration
    ELSE Append(R.sumIteration, R.held[Opt(R.pending).net])

\* It is added up, over all ranks, once an iteration.
MonitorLoss(r) ==
    LET R == rank[r]
        sums == R.pending # 0 /\ R.first
    IN  /\ At(r, "turn")
        /\ R.turn \in Turns
        /\ Active(Opt(R.turn), R.iter)
        /\ rank' = [rank EXCEPT ![r] =
                        [R EXCEPT !.sumIteration = Monitored(R),
                                  !.first = R.first /\ R.pending = 0,
                                  !.pc = IF sums THEN "sum cost" ELSE "step"]]
        /\ IF sums THEN Calls(r, <<"cost", R.iter, R.turn>>) ELSE UNCHANGED asked
        /\ Same /\ UNCHANGED <<disk, crashes>>

\* Mutant: nothing is added up at the end of an epoch.
SumsAtEndNever(R) == FALSE

SumsAtEnd(R) == EndsEpoch(R.iter) /\ R.pending # 0

\* At the end of an epoch the last loss is added up before the evaluation.
EndUpdate(r) ==
    LET R == rank[r]
        sums == SumsAtEnd(R)
    IN  /\ At(r, "turn")
        /\ R.turn \notin Turns
        /\ rank' = [rank EXCEPT ![r] =
                        IF sums THEN [R EXCEPT !.sumIteration = Monitored(R), !.pc = "sum cost"]
                                ELSE [R EXCEPT !.pc = "updated"]]
        /\ IF sums THEN Calls(r, <<"cost", R.iter, R.turn>>) ELSE UNCHANGED asked
        /\ Same /\ UNCHANGED <<disk, crashes>>

\* Mutant: each rank keeps its own cost.
ReducedCostAlone(r) == rank[r].sumIteration

ReducedCost(r) == Concat([s \in Ranks |-> rank[s].sumIteration])

SumCost ==
    /\ \E r \in Ranks : At(r, "sum cost") /\ AllIn(asked[r])
    /\ rank' = [r \in Ranks |->
                    LET R == rank[r]
                        ends == R.turn \notin Turns
                    IN  [R EXCEPT !.sumEpoch = @ \o ReducedCost(r),
                                  !.numIteration = @ + Size,
                                  !.sumIteration = <<>>,
                                  !.pending = IF ends THEN 0 ELSE @,
                                  !.pc = IF ends THEN "updated" ELSE "step"]]
    /\ AllReturn
    /\ Same /\ UNCHANGED <<disk, crashes>>

\* Mutant: the gradients are not zeroed.
GradBeforeUnzeroed(R, o, p) == R.grads[p]

GradBefore(R, o, p) == IF R.iter % o.interval = 0 THEN <<>> ELSE R.grads[p]

\* Forward, zero_grad at the first of update_interval iterations, backward.
Step(r) ==
    LET R == rank[r]
        o == Opt(R.turn)
        token == Token(R.iter, R.turn, r)
    IN  /\ At(r, "step")
        /\ rank' = [rank EXCEPT ![r] =
                        [R EXCEPT !.held[o.net] = token,
                                  !.grads = [p \in Parameters |->
                                    IF p \in o.params THEN Append(GradBefore(R, o, p), token) ELSE R.grads[p]],
                                  !.pc = IF Due(o, R.iter) THEN "reduce" ELSE "reserve"]]
        /\ IF Due(o, R.iter) THEN Calls(r, <<"grads", R.iter, R.turn>>) ELSE UNCHANGED asked
        /\ Same /\ UNCHANGED <<disk, crashes>>

\* all_reduce_callback: the backward of the last of them exchanges the gradients.
ReduceGradients ==
    /\ \E r \in Ranks : At(r, "reduce") /\ AllIn(asked[r])
    /\ LET all(p) == Concat([r \in Ranks |-> rank[r].grads[p]])
       IN  rank' = [r \in Ranks |->
                    [rank[r] EXCEPT
                        !.grads = [p \in Parameters |->
                            IF p \in Opt(rank[r].turn).params THEN all(p) ELSE @[p]],
                        !.pc = "apply"]]
    /\ AllReturn
    /\ Same /\ UNCHANGED <<disk, crashes>>

\* The update with them, and with it the next states of the solver.
ApplyUpdate(r) ==
    LET R == rank[r]
        update == [iter |-> R.iter, turn |-> R.turn, from |-> R.from,
                   grads |-> [p \in Opt(R.turn).params |-> R.grads[p]]]
    IN  /\ At(r, "apply")
        /\ rank' = [rank EXCEPT ![r] = [R EXCEPT !.applied = R.applied \cup {update},
                                                 !.states = R.states \cup {update},
                                                 !.pc = "reserve"]]
        /\ Local

ReserveLoss(r) ==
    /\ At(r, "reserve")
    /\ rank' = [rank EXCEPT ![r] = NextTurn([rank[r] EXCEPT !.pending = rank[r].turn])]
    /\ Local

---------------------------------------------------------------------------
\* _train, after _update

\* The next iteration, or the end; rank 1 then saves the last parameters once more.
NextIteration(R, r) ==
    IF R.iter + 1 < MaxIteration
    THEN [R EXCEPT !.pc = "turn", !.iter = R.iter + 1, !.turn = 1, !.first = TRUE, !.then = ""]
    ELSE [R EXCEPT !.pc = IF r = 1 THEN "unlink" ELSE "done", !.then = "done"]

Fail(r) ==
    /\ At(r, "updated")
    /\ \/ IsNan(rank[r].sumEpoch)
       \/ conf.limit = "estimate"
    /\ rank' = [rank EXCEPT ![r].pc = "failed"]
    /\ Local

Continue(r) ==
    /\ At(r, "updated")
    /\ ~IsNan(rank[r].sumEpoch)
    /\ ~EndsEpoch(rank[r].iter)
    /\ rank' = [rank EXCEPT ![r] = NextIteration(rank[r], r)]
    /\ Local

Evaluated(epoch) == epoch % conf.monitor.interval = 0 \/ epoch <= Early

\* Mutant: only rank 1 evaluates.
EvaluatesAlone(r, epoch) == Evaluated(epoch) /\ r = 1

Evaluates(r, epoch) == Evaluated(epoch)

\* The average cost of the epoch is the sum over its number of iterations.
EndEpoch(r) ==
    LET R == rank[r]
    IN  /\ At(r, "updated")
        /\ ~IsNan(R.sumEpoch)
        /\ EndsEpoch(R.iter)
        /\ rank' = [rank EXCEPT ![r] =
                        [R EXCEPT !.average = <<R.sumEpoch, R.numIteration>>,
                                  !.sumEpoch = <<>>, !.numIteration = 0,
                                  !.batch = 0,
                                  !.pc = IF Evaluates(r, Epoch(R.iter)) THEN "evaluate" ELSE "report"]]
        /\ Local

---------------------------------------------------------------------------
\* _evaluate

\* Mutant: also before the first.
SumsErrorAlways(R) == TRUE

SumsError(R) == R.count > 0 \/ R.batch = conf.monitor.batches

\* The error of the batch before is added up, but for the first.
MonitorError(r) ==
    LET R == rank[r]
        sums == SumsError(R)
    IN  /\ At(r, "evaluate")
        /\ rank' = [rank EXCEPT ![r].pc = IF sums THEN "sum error" ELSE "forward"]
        /\ IF sums THEN Calls(r, <<"error", R.iter, R.batch>>) ELSE UNCHANGED asked
        /\ Same /\ UNCHANGED <<disk, crashes>>

SumError ==
    /\ \E r \in Ranks : At(r, "sum error") /\ AllIn(asked[r])
    /\ LET all == [r \in Ranks |-> rank[r].held[conf.monitor.net]]
       IN  rank' = [r \in Ranks |->
                    LET R == rank[r]
                    IN  [R EXCEPT !.errors = @ \o all,
                                  !.pc = IF R.batch = conf.monitor.batches THEN "judge"
                                         ELSE "forward"]]
    /\ AllReturn
    /\ Same /\ UNCHANGED <<disk, crashes>>

ForwardMonitor(r) ==
    LET R == rank[r]
    IN  /\ At(r, "forward")
        /\ rank' = [rank EXCEPT ![r] =
                        [R EXCEPT !.held[conf.monitor.net] = <<R.iter, 0, r, R.batch>>,
                                  !.batch = R.batch + 1, !.count = R.count + Size,
                                  !.pc = "evaluate"]]
        /\ Local

\* The validation error of an epoch; one that is not a number counts as 0.
NotANumber == -1
Error(epoch) == IF conf.errors[epoch] = NotANumber THEN 0 ELSE conf.errors[epoch]

\* Mutant: the file is written after every evaluation.
IsBestAlways(R, error) == TRUE

IsBest(R, error) == ~conf.saveBest \/ R.best = 0 \/ error <= R.best

Judge(r) ==
    LET R == rank[r]
        error == IF R.count = 0 THEN 0 ELSE Error(Epoch(R.iter))
    IN  /\ At(r, "judge")
        /\ rank' = [rank EXCEPT ![r] =
                        LET J == [R EXCEPT !.judged = Append(R.judged, error)]
                        IN  IF r = 1 /\ IsBest(R, error) THEN [J EXCEPT !.best = error, !.pc = "best"]
                            ELSE [J EXCEPT !.pc = "report"]]
        /\ Local

---------------------------------------------------------------------------
\* _save_parameters

Archive(R, whole) ==
    [epoch |-> Epoch(R.iter), whole |-> whole, applied |-> R.applied,
     states |-> IF Epoch(R.iter) % Interval = 0 THEN R.states ELSE {}]

\* results.nnp is written over; its error is that of the evaluation.
OpenBest(r) ==
    /\ At(r, "best")
    /\ disk' = [disk EXCEPT !.best = {Archive(rank[r], FALSE)}]
    /\ rank' = [rank EXCEPT ![r].pc = "close best"]
    /\ Same /\ UNCHANGED <<asked, crashes>>

CloseBest(r) ==
    /\ At(r, "close best")
    /\ disk' = [disk EXCEPT !.best = {Archive(rank[r], TRUE)}]
    /\ rank' = [rank EXCEPT ![r].pc = IF rank[r].then = "done" THEN "done" ELSE "report"]
    /\ Same /\ UNCHANGED <<asked, crashes>>

\* The current parameters, if three minutes or Apart epochs passed, or none were saved yet.
MaySave(R) == \A c \in disk.current : c.epoch # Epoch(R.iter)

MustSave(R) == R.saved = 0 \/ Epoch(R.iter) - R.saved > Apart

\* monitoring_report.yml is appended to, the parameters are saved.
Report(r) ==
    LET R == rank[r]
    IN  /\ At(r, "report")
        /\ disk' = IF r # 1 THEN disk
                   ELSE [disk EXCEPT !.report = Append(@, [epoch |-> Epoch(R.iter),
                            sum |-> R.average[1], number |-> R.average[2],
                            errors |-> R.errors, count |-> R.count])]
        /\ \E late \in BOOLEAN :
            rank' = [rank EXCEPT ![r] =
                        LET S == [R EXCEPT !.average = <<>>, !.errors = <<>>, !.count = 0]
                        IN  IF r # 1 THEN NextIteration(S, r)
                            ELSE IF MaySave(R) /\ (late \/ MustSave(R))
                            THEN [S EXCEPT !.pc = "unlink", !.then = "next"]
                            ELSE [S EXCEPT !.pc = "saved"]]
        /\ Same /\ UNCHANGED <<asked, crashes>>

\* Mutant: the old archives stay.
KeptAll(files) == files

Kept(files) == {}

\* The old archives go before the new one is there.
Unlink(r) ==
    /\ At(r, "unlink")
    /\ disk' = [disk EXCEPT !.current = Kept(@)]
    /\ rank' = [rank EXCEPT ![r].pc = "open"]
    /\ Same /\ UNCHANGED <<asked, crashes>>

OpenCurrent(r) ==
    /\ At(r, "open")
    /\ disk' = [disk EXCEPT !.current = @ \cup {Archive(rank[r], FALSE)}]
    /\ rank' = [rank EXCEPT ![r].pc = "close"]
    /\ Same /\ UNCHANGED <<asked, crashes>>

CloseCurrent(r) ==
    LET R == rank[r]
    IN  /\ At(r, "close")
        /\ disk' = [disk EXCEPT !.current = (@ \ {Archive(R, FALSE)}) \cup {Archive(R, TRUE)},
                                !.newest = Max({@, Epoch(R.iter)})]
        /\ rank' = [rank EXCEPT ![r] = [R EXCEPT !.saved = Epoch(R.iter),
                                                 !.pc = IF R.then = "next" THEN "saved" ELSE R.then]]
        /\ Same /\ UNCHANGED <<asked, crashes>>

\* check_training_time of a callback may end the training on rank 1.
CheckTrainingTime(r) ==
    /\ At(r, "saved")
    /\ \/ rank' = [rank EXCEPT ![r] = NextIteration(rank[r], r)]
       \/ /\ conf.limit = "check"
          /\ rank' = [rank EXCEPT ![r] = [rank[r] EXCEPT !.pc = "unlink", !.then = "stopped"]]
    /\ Local

---------------------------------------------------------------------------
\* The job dies, all ranks of it, and is started again.
Crash ==
    /\ crashes < MaxCrashes
    /\ \E r \in Ranks : rank[r].pc \notin Ended
    /\ crashes' = crashes + 1
    /\ rank' = [r \in Ranks |-> Fresh]
    /\ prep' = [r \in Ranks |-> "look"]
    /\ asked' = [r \in Ranks |-> NoCall]
    /\ UNCHANGED <<conf, cache, disk>>

Train(r) ==
    \/ Begin(r)
    \/ SaveUntrained(r)
    \/ SkipOptimizer(r)
    \/ MonitorLoss(r)
    \/ Step(r)
    \/ ApplyUpdate(r)
    \/ ReserveLoss(r)
    \/ EndUpdate(r)
    \/ Fail(r)
    \/ Continue(r)
    \/ EndEpoch(r)
    \/ MonitorError(r)
    \/ ForwardMonitor(r)
    \/ Judge(r)
    \/ OpenBest(r)
    \/ CloseBest(r)
    \/ Report(r)
    \/ Unlink(r)
    \/ OpenCurrent(r)
    \/ CloseCurrent(r)
    \/ CheckTrainingTime(r)

Together == SumCost \/ ReduceGradients \/ SumError

Run == (Prepare /\ UNCHANGED <<rank, disk, crashes>>) \/ (\E r \in Ranks : Train(r)) \/ Together

Next == Run \/ Crash

\* A process that can go on does.
Spec == Init /\ [][Next]_vars /\ WF_vars(Run)

---------------------------------------------------------------------------
\* Where the ranks are, what they wait for and what is on disk fit together.
TypeOK ==
    /\ conf \in Scenarios
    /\ DOMAIN rank = Ranks /\ DOMAIN asked = Ranks /\ DOMAIN prep = Ranks
    /\ \A d \in DOMAIN cache : cache[d] \in {"nothing", "directory", "index"}
    /\ \A r \in Ranks :
        /\ rank[r].iter \in 0..MaxIteration
        /\ rank[r].turn \in 1..(Len(conf.opts) + 1)
        /\ rank[r].pending \in {0} \cup Turns
        /\ asked[r] # NoCall <=> (prep[r] \in {"enter", "leave"}
                                   \/ At(r, "sum cost") \/ At(r, "sum error") \/ At(r, "reduce"))
    /\ Cardinality(disk.current) <= 1
    /\ Cardinality(disk.best) <= 1

Elements(sum) == {sum[k] : k \in DOMAIN sum}
Distinct(sum) == Cardinality(Elements(sum)) = Len(sum)

\* The cost of an epoch in monitoring_report.yml is the loss of every optimizer in every
\* iteration on every rank, once, though each is read only when the next optimizer runs and
\* the evaluation may use the same network (_update). They are divided by the iterations
\* that had a loss; of several optimizers, the first of an epoch is counted as one more.
CostIsExact ==
    \A n \in DOMAIN disk.report :
        LET e == disk.report[n]
            iters == {i \in ((e.epoch - 1) * PerEpoch)..(e.epoch * PerEpoch - 1) :
                        \E k \in Turns : Active(Opt(k), i)}
            turns(i) == {k \in Turns : Active(Opt(k), i)}
            more == IF iters # {} /\ Cardinality(turns(Min(iters))) > 1 THEN 1 ELSE 0
        IN  /\ Distinct(e.sum)
            /\ Elements(e.sum) = UNION {{Token(i, k, r) : k \in turns(i), r \in Ranks} : i \in iters}
            /\ e.number = (Cardinality(iters) + more) * Size

\* So is the error: every batch of the evaluation on every rank once, the last one too, divided
\* by as many (_evaluate).
ErrorIsExact ==
    \A n \in DOMAIN disk.report :
        LET e == disk.report[n]
            batches == IF Evaluated(e.epoch) THEN 0..(conf.monitor.batches - 1) ELSE {}
        IN  /\ e.count = Cardinality(batches) * Size
            /\ e.count > 0 =>
                /\ Distinct(e.errors)
                /\ Elements(e.errors) =
                    {<<e.epoch * PerEpoch - 1, 0, r, b>> : r \in Ranks, b \in batches}

\* No two optimizers add to one gradient over the same iterations, nor does one start on what
\* the other left there (zero_grad comes with the first of update_interval iterations alone).
Separate(turn) ==
    \/ Opt(turn).interval = 1
    \/ \A k \in Turns \ {turn} : Opt(k).params \cap Opt(turn).params = {}
    \/ /\ Opt(turn).start = 0 \/ (Opt(turn).start - 1) % Opt(turn).interval = 0
       /\ \A k \in Turns \ {turn} : \A i \in 0..(MaxIteration - 1) :
            ~(Active(Opt(k), i) /\ Active(Opt(turn), i))

\* An update uses the gradients of its update_interval iterations on all ranks, each once,
\* and no others; one that a restart cut off at the front uses what is left of them.
UpdatesAreWhole ==
    \A r \in Ranks : \A u \in rank[r].applied : Separate(u.turn) =>
        LET o == Opt(u.turn)
            window == {i \in (u.iter - o.interval + 1)..u.iter : i >= u.from /\ Active(o, i)}
        IN  \A p \in o.params :
                /\ Distinct(u.grads[p])
                /\ Elements(u.grads[p]) = {Token(i, u.turn, s) : i \in window, s \in Ranks}

\* Whenever a rank trains, its parameters hold the update of every iteration before this one
\* exactly once, those before the crashes included, and its solver the states of them since the
\* beginning of an epoch, without a gap (_get_current_parameter, _save_parameters).
ResumeIsExact ==
    \A r \in Ranks :
        LET R == rank[r]
            past(i, k) == \/ i < R.iter
                          \/ i = R.iter /\ (k < R.turn \/ (k = R.turn /\ R.pc = "reserve"))
            due == {x \in (0..(MaxIteration - 1)) \X Turns :
                        /\ past(x[1], x[2])
                        /\ Active(Opt(x[2]), x[1])
                        /\ Due(Opt(x[2]), x[1])}
        IN  /\ {<<u.iter, u.turn>> : u \in R.applied} = due
            /\ Cardinality(R.applied) = Cardinality(due)
            /\ \E epoch \in 0..conf.maxEpoch :
                    R.states = {u \in R.applied : u.iter >= epoch * PerEpoch}

\* No checkpoint holds an update made from a loss that was not a number: the sum of the
\* epoch is looked at first ("Cost is Nan").
NoPoisonedCheckpoint ==
    \A c \in disk.current \cup disk.best : \A u \in c.applied :
        \A p \in DOMAIN u.grads : ~IsNan(u.grads[p])

\* With save_best, results.nnp is of the epoch with the lowest error since the start; 0, which
\* _evaluate also puts for an error that is not a number, loses to whatever comes next.
BestIsLowest ==
    (conf.saveBest /\ rank[1].judged # <<>> /\ ~At(1, "best")
        /\ \A k \in DOMAIN rank[1].judged : rank[1].judged[k] # 0) =>
            \A c \in disk.best : Error(c.epoch) = Min(Elements(rank[1].judged))

OneDisk == \A r, s \in Ranks : conf.disks[r] = conf.disks[s]

\* In every epoch an optimizer is at work or there is an evaluation. An epoch of which neither is
\* true has no collective: rank 1 saves it without the others, and one that is late after a restart
\* may then find another checkpoint than rank 1 did, or none.
EpochsMeet ==
    \A epoch \in 1..conf.maxEpoch :
        \/ Evaluated(epoch)
        \/ \E i \in ((epoch - 1) * PerEpoch)..(epoch * PerEpoch - 1) : \E k \in Turns : Active(Opt(k), i)

\* Ranks that wait, wait in the same call, unless a crash left the caches of the nodes in
\* different states, and ranks at the same place have made the same updates: no all_reduce
\* mixes iterations or errors.
RanksAgree ==
    PerEpoch = 0 \/ EpochsMeet =>
        /\ OneDisk \/ crashes = 0 => CallsMatch
        /\ \A r, s \in Ranks :
            (rank[r].iter = rank[s].iter /\ rank[r].turn = rank[s].turn /\ rank[r].pc = rank[s].pc)
                => /\ rank[r].applied = rank[s].applied
                   /\ rank[r].sumEpoch = rank[s].sumEpoch

\* Nobody trains on a part of a cache that was not finished when the job died, unless every
\* node has its own or only the directory is looked for (_create_dataset).
CacheIsWhole ==
    \A r \in Ranks : prep[r] = "opened in part" => crashes > 0 /\ ~(conf.explicit /\ OneDisk)

\* A training ends on all ranks, but for two causes: a limit of time that one rank finds
\* exceeded and the others do not, and node caches that a crash left in different states.
AllFinish ==
    <>(\/ \A r \in Ranks : rank[r].pc \in Ended
       \/ conf.limit # "none" /\ \E r \in Ranks : rank[r].pc \in {"failed", "stopped"}
       \/ ~OneDisk /\ crashes > 0)

\* A resumed training starts at the newest checkpoint there ever was ("Resume from last saved
\* parameter", the help of --resume).
ResumesFromLastSaved ==
    [][\A r \in Ranks :
        (At(r, "start") /\ rank'[r].pc # "start" /\ crashes > 0) =>
            rank'[r].from = disk.newest * PerEpoch]_vars
=============================================================================
