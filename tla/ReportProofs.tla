----------------------------- MODULE ReportProofs -----------------------------
(***************************************************************************)
(* What a training reports and saves is right for any number of ranks,     *)
(* optimizers, iterations and batches: the cost and the error of every     *)
(* epoch, the gradients of every update, that no checkpoint holds an       *)
(* update made from a loss that was not a number, and that the ranks meet  *)
(* in the same collectives.                                                *)
(***************************************************************************)
EXTENDS TrainingProofs, FoldProofs

-----------------------------------------------------------------------------
(* What a step does to the state of its rank. *)

\* Of the state of a rank only some fields change.
Keeps(R, X, changed) == DOMAIN X = Fields /\ \A f \in Fields \ changed : X[f] = R[f]

\* On to the next iteration, or to the end.
Advances(r, R, X, changed) ==
    \/ /\ R.iter + 1 < MaxIteration
       /\ Keeps(R, X, changed \cup {"pc", "iter", "turn", "first", "then"})
       /\ X.pc = "turn" /\ X.iter = R.iter + 1 /\ X.turn = 1 /\ X.first = TRUE /\ X.then = ""
    \/ /\ ~(R.iter + 1 < MaxIteration)
       /\ Keeps(R, X, changed \cup {"pc", "then"})
       /\ X.pc = (IF r = 1 THEN "unlink" ELSE "done") /\ X.then = "done"

Told == {"average", "errors", "count"}

\* One operator for each step of a rank R that becomes X.
Skips(R, X) ==
    /\ R.pc = "turn" /\ R.turn \in Turns /\ ~Active(Opt(R.turn), R.iter)
    /\ Keeps(R, X, {"pc", "turn"})
    /\ X.pc = "turn" /\ X.turn = R.turn + 1
Monitors(R, X) ==
    /\ R.pc = "turn" /\ R.turn \in Turns /\ Active(Opt(R.turn), R.iter)
    /\ Keeps(R, X, {"sumIteration", "first", "pc"})
    /\ X.sumIteration = Monitored(R)
    /\ X.first = (R.first /\ R.pending = 0)
    /\ X.pc = IF R.pending # 0 /\ R.first THEN "sum cost" ELSE "step"
Computes(r, R, X) ==
    /\ R.pc = "step"
    /\ Keeps(R, X, {"held", "grads", "pc"})
    /\ X.held = [R.held EXCEPT ![Opt(R.turn).net] = Token(R.iter, R.turn, r)]
    /\ X.grads = [p \in Parameters |->
                    IF p \in Opt(R.turn).params
                    THEN Append(GradBefore(R, Opt(R.turn), p), Token(R.iter, R.turn, r)) ELSE R.grads[p]]
    /\ X.pc = IF Due(Opt(R.turn), R.iter) THEN "reduce" ELSE "reserve"
Update(R) == [iter |-> R.iter, turn |-> R.turn, from |-> R.from,
              grads |-> [p \in Opt(R.turn).params |-> R.grads[p]]]
Applies(R, X) ==
    /\ R.pc = "apply"
    /\ Keeps(R, X, {"applied", "states", "pc"})
    /\ X.applied = R.applied \cup {Update(R)}
    /\ X.pc = "reserve"
Reserves(R, X) ==
    /\ R.pc = "reserve"
    /\ Keeps(R, X, {"pending", "turn", "pc"})
    /\ X.pending = R.turn /\ X.turn = R.turn + 1 /\ X.pc = "turn"
EndsTurns(R, X) ==
    /\ R.pc = "turn" /\ R.turn \notin Turns
    /\ Keeps(R, X, {"sumIteration", "pc"})
    /\ \/ SumsAtEnd(R) /\ X.sumIteration = Monitored(R) /\ X.pc = "sum cost"
       \/ ~SumsAtEnd(R) /\ X.sumIteration = R.sumIteration /\ X.pc = "updated"
Fails(R, X) == R.pc = "updated" /\ Keeps(R, X, {"pc"}) /\ X.pc = "failed"
Continues(r, R, X) ==
    R.pc = "updated" /\ ~IsNan(R.sumEpoch) /\ ~EndsEpoch(R.iter) /\ Advances(r, R, X, {})
EndsAnEpoch(R, X) ==
    /\ R.pc = "updated" /\ ~IsNan(R.sumEpoch) /\ EndsEpoch(R.iter)
    /\ Keeps(R, X, {"average", "sumEpoch", "numIteration", "batch", "pc"})
    /\ X.average = <<R.sumEpoch, R.numIteration>>
    /\ X.sumEpoch = <<>> /\ X.numIteration = 0 /\ X.batch = 0
    /\ X.pc = IF Evaluated(Epoch(R.iter)) THEN "evaluate" ELSE "report"
MonitorsError(R, X) ==
    /\ R.pc = "evaluate"
    /\ Keeps(R, X, {"pc"})
    /\ X.pc = IF SumsError(R) THEN "sum error" ELSE "forward"
ForwardsMonitor(r, R, X) ==
    /\ R.pc = "forward"
    /\ Keeps(R, X, {"held", "batch", "count", "pc"})
    /\ X.held = [R.held EXCEPT ![conf.monitor.net] = <<R.iter, 0, r, R.batch>>]
    /\ X.batch = R.batch + 1 /\ X.count = R.count + Size /\ X.pc = "evaluate"
Judges(r, R, X) ==
    /\ R.pc = "judge"
    /\ Keeps(R, X, {"judged", "best", "pc"})
    /\ X.pc \in {"best", "report"} /\ (X.pc = "best" => r = 1)
Saves(R, X) ==
    \/ R.pc = "best" /\ Keeps(R, X, {"pc"}) /\ X.pc = "close best"
    \/ R.pc = "close best" /\ Keeps(R, X, {"pc"}) /\ X.pc = IF R.then = "done" THEN "done" ELSE "report"
    \/ R.pc = "unlink" /\ Keeps(R, X, {"pc"}) /\ X.pc = "open"
    \/ R.pc = "open" /\ Keeps(R, X, {"pc"}) /\ X.pc = "close"
    \/ /\ R.pc = "close" /\ Keeps(R, X, {"saved", "pc"}) /\ X.saved = Epoch(R.iter)
       /\ X.pc = IF R.then = "next" THEN "saved" ELSE R.then
Reports(r, R, X) ==
    /\ R.pc = "report"
    /\ X.average = <<>> /\ X.errors = <<>> /\ X.count = 0
    /\ \/ r # 1 /\ Advances(r, R, X, Told)
       \/ r = 1 /\ Keeps(R, X, Told \cup {"pc", "then"}) /\ X.pc \in {"unlink", "saved"}
ChecksTime(r, R, X) ==
    /\ R.pc = "saved"
    /\ \/ Advances(r, R, X, {})
       \/ Keeps(R, X, {"pc", "then"}) /\ X.pc = "unlink" /\ X.then = "stopped"
Begins(R, X) ==
    /\ R.pc = "start"
    /\ \/ Keeps(R, X, {"pc"}) /\ X.pc \in {"turn", "broken"}
       \/ /\ crashes # 0 /\ disk.current # {}
          /\ LET c == Latest(disk.current)
             IN  /\ Keeps(R, X, {"pc", "iter", "from", "applied", "states"})
                 /\ X.pc = IF Resumed(c) < MaxIteration THEN "turn" ELSE "done"
                 /\ X.iter = Resumed(c) /\ X.from = Resumed(c) /\ X.applied = c.applied
Untrains(R, X) ==
    R.pc = "start" /\ PerEpoch = 0 /\ Keeps(R, X, {"pc", "then"}) /\ X.pc \in {"best", "done"} /\ X.then = "done"

\* The fields that stay.
LEMMA KeepsFields ==
    ASSUME NEW R, NEW X, NEW C, Keeps(R, X, C)
    PROVE  /\ "pc" \notin C => X.pc = R.pc
           /\ "iter" \notin C => X.iter = R.iter
           /\ "from" \notin C => X.from = R.from
           /\ "turn" \notin C => X.turn = R.turn
           /\ "first" \notin C => X.first = R.first
           /\ "pending" \notin C => X.pending = R.pending
           /\ "sumIteration" \notin C => X.sumIteration = R.sumIteration
           /\ "sumEpoch" \notin C => X.sumEpoch = R.sumEpoch
           /\ "numIteration" \notin C => X.numIteration = R.numIteration
           /\ "held" \notin C => X.held = R.held
           /\ "grads" \notin C => X.grads = R.grads
           /\ "applied" \notin C => X.applied = R.applied
           /\ "batch" \notin C => X.batch = R.batch
           /\ "errors" \notin C => X.errors = R.errors
           /\ "count" \notin C => X.count = R.count
           /\ "average" \notin C => X.average = R.average
           /\ "then" \notin C => X.then = R.then
BY DEF Keeps, Fields

\* Going on changes only where the rank is.
LEMMA AdvanceFields ==
    ASSUME NEW r, NEW R, NEW X, NEW C, Advances(r, R, X, C)
    PROVE  /\ "from" \notin C => X.from = R.from
           /\ "pending" \notin C => X.pending = R.pending
           /\ "sumIteration" \notin C => X.sumIteration = R.sumIteration
           /\ "sumEpoch" \notin C => X.sumEpoch = R.sumEpoch
           /\ "numIteration" \notin C => X.numIteration = R.numIteration
           /\ "held" \notin C => X.held = R.held
           /\ "grads" \notin C => X.grads = R.grads
           /\ "applied" \notin C => X.applied = R.applied
           /\ "batch" \notin C => X.batch = R.batch
           /\ "errors" \notin C => X.errors = R.errors
           /\ "count" \notin C => X.count = R.count
           /\ "average" \notin C => X.average = R.average
<1> DEFINE A == C \cup {"pc", "iter", "turn", "first", "then"}
           B == C \cup {"pc", "then"}
<1>1. Keeps(R, X, A) \/ Keeps(R, X, B)
  BY DEF Advances
<1>2. \A f \in {"from", "pending", "sumIteration", "sumEpoch", "numIteration", "held", "grads", "applied",
                "batch", "errors", "count", "average"} : f \notin C => f \notin A /\ f \notin B
  OBVIOUS
<1> HIDE DEF A, B
<1>3. CASE Keeps(R, X, A)
  BY <1>2, <1>3, KeepsFields
<1>4. CASE Keeps(R, X, B)
  BY <1>2, <1>4, KeepsFields
<1> QED
  BY <1>1, <1>3, <1>4

\* What the next iteration leaves alone.
LEMMA NextIterationEffect ==
    ASSUME NEW r, NEW R, NEW S, NEW C, Keeps(R, S, C), DOMAIN R = Fields, "iter" \notin C
    PROVE  Advances(r, R, NextIteration(S, r), C)
<1> DEFINE X == NextIteration(S, r)
<1>1. DOMAIN S = Fields /\ S.iter = R.iter /\ \A f \in Fields \ C : S[f] = R[f]
  BY DEF Keeps, Fields
<1>2. CASE R.iter + 1 < MaxIteration
  <2>1. X = [S EXCEPT !.pc = "turn", !.iter = S.iter + 1, !.turn = 1, !.first = TRUE, !.then = ""]
    BY <1>1, <1>2 DEF NextIteration
  <2> HIDE DEF X
  <2>2. /\ X.pc = "turn" /\ X.iter = R.iter + 1 /\ X.turn = 1 /\ X.first = TRUE /\ X.then = ""
        /\ DOMAIN X = Fields
    BY <1>1, <2>1 DEF Fields
  <2>3. \A f \in Fields \ {"pc", "iter", "turn", "first", "then"} : X[f] = S[f]
    BY <1>1, <2>1
  <2>4. Keeps(R, X, C \cup {"pc", "iter", "turn", "first", "then"})
    BY <1>1, <2>2, <2>3 DEF Keeps
  <2> QED
    BY <1>2, <2>2, <2>4 DEF Advances, X
<1>3. CASE ~(R.iter + 1 < MaxIteration)
  <2>1. X = [S EXCEPT !.pc = IF r = 1 THEN "unlink" ELSE "done", !.then = "done"]
    BY <1>1, <1>3 DEF NextIteration
  <2> HIDE DEF X
  <2>2. X.pc = (IF r = 1 THEN "unlink" ELSE "done") /\ X.then = "done" /\ DOMAIN X = Fields
    BY <1>1, <2>1 DEF Fields
  <2>3. \A f \in Fields \ {"pc", "then"} : X[f] = S[f]
    BY <1>1, <2>1
  <2>4. Keeps(R, X, C \cup {"pc", "then"})
    BY <1>1, <2>2, <2>3 DEF Keeps
  <2> QED
    BY <1>3, <2>2, <2>4 DEF Advances, X
<1> QED
  BY <1>2, <1>3

\* The steps of _update.
LEMMA UpdateEffect ==
    ASSUME TrainInv, NEW r \in Ranks,
           \/ SkipOptimizer(r) \/ MonitorLoss(r) \/ Step(r) \/ ApplyUpdate(r) \/ ReserveLoss(r)
           \/ EndUpdate(r)
    PROVE  /\ UNCHANGED <<conf, cache, prep, disk, crashes>> /\ DOMAIN rank' = Ranks
           /\ \A s \in Ranks \ {r} : rank'[s] = rank[s]
           /\ \/ Skips(rank[r], rank'[r]) \/ Monitors(rank[r], rank'[r])
              \/ Computes(r, rank[r], rank'[r]) \/ Applies(rank[r], rank'[r])
              \/ Reserves(rank[r], rank'[r]) \/ EndsTurns(rank[r], rank'[r])
<1> DEFINE R == rank[r]
           X == rank'[r]
<1>1. DOMAIN rank = Ranks /\ DOMAIN R = Fields
  BY RankRecord
<1>2. UNCHANGED <<conf, cache, prep, disk, crashes>>
  BY DEF SkipOptimizer, MonitorLoss, Step, ApplyUpdate, ReserveLoss, EndUpdate, Local, Same
<1>3. DOMAIN rank' = Ranks /\ \A s \in Ranks \ {r} : rank'[s] = rank[s]
  BY <1>1 DEF SkipOptimizer, MonitorLoss, Step, ApplyUpdate, ReserveLoss, EndUpdate
<1>4. CASE SkipOptimizer(r)
  <2>1. /\ R.pc = "turn" /\ R.turn \in Turns /\ ~Active(Opt(R.turn), R.iter)
        /\ X = [R EXCEPT !.turn = R.turn + 1, !.pc = "turn"]
    BY <1>1, <1>4 DEF SkipOptimizer, NextTurn, At
  <2> HIDE DEF R, X
  <2>2. Skips(R, X)
    BY <1>1, <2>1 DEF Skips, Keeps, Fields
  <2> QED BY <1>2, <1>3, <2>2 DEF R, X
<1>5. CASE MonitorLoss(r)
  <2>1. /\ R.pc = "turn" /\ R.turn \in Turns /\ Active(Opt(R.turn), R.iter)
        /\ X = [R EXCEPT !.sumIteration = Monitored(R), !.first = R.first /\ R.pending = 0,
                         !.pc = IF R.pending # 0 /\ R.first THEN "sum cost" ELSE "step"]
    BY <1>1, <1>5 DEF MonitorLoss, At
  <2> HIDE DEF R, X
  <2>2. Monitors(R, X)
    BY <1>1, <2>1 DEF Monitors, Keeps, Fields
  <2> QED BY <1>2, <1>3, <2>2 DEF R, X
<1>6. CASE Step(r)
  <2> DEFINE grads == [p \in Parameters |->
                        IF p \in Opt(R.turn).params
                        THEN Append(GradBefore(R, Opt(R.turn), p), Token(R.iter, R.turn, r)) ELSE R.grads[p]]
  <2>1. /\ R.pc = "step"
        /\ X = [R EXCEPT !.held[Opt(R.turn).net] = Token(R.iter, R.turn, r), !.grads = grads,
                         !.pc = IF Due(Opt(R.turn), R.iter) THEN "reduce" ELSE "reserve"]
    BY <1>1, <1>6 DEF Step, At
  <2> HIDE DEF R, X, grads
  <2>2. /\ Keeps(R, X, {"held", "grads", "pc"}) /\ X.grads = grads
        /\ X.held = [R.held EXCEPT ![Opt(R.turn).net] = Token(R.iter, R.turn, r)]
        /\ X.pc = IF Due(Opt(R.turn), R.iter) THEN "reduce" ELSE "reserve"
    BY <1>1, <2>1 DEF Keeps, Fields
  <2>3. Computes(r, R, X)
    BY <2>1, <2>2 DEF Computes, grads
  <2> QED BY <1>2, <1>3, <2>3 DEF R, X
<1>7. CASE ApplyUpdate(r)
  <2>1. /\ R.pc = "apply"
        /\ X = [R EXCEPT !.applied = R.applied \cup {Update(R)}, !.states = R.states \cup {Update(R)},
                         !.pc = "reserve"]
    BY <1>1, <1>7 DEF ApplyUpdate, At, Update
  <2> HIDE DEF R, X
  <2>2. Applies(R, X)
    BY <1>1, <2>1 DEF Applies, Keeps, Fields
  <2> QED BY <1>2, <1>3, <2>2 DEF R, X
<1>8. CASE ReserveLoss(r)
  <2> DEFINE P == [R EXCEPT !.pending = R.turn]
  <2>1. R.pc = "reserve" /\ X = [P EXCEPT !.turn = P.turn + 1, !.pc = "turn"]
    BY <1>1, <1>8 DEF ReserveLoss, At, NextTurn
  <2> HIDE DEF R, X
  <2>2. DOMAIN P = Fields /\ P.turn = R.turn /\ P.pending = R.turn
        /\ \A f \in Fields \ {"pending"} : P[f] = R[f]
    BY <1>1 DEF Fields
  <2> HIDE DEF P
  <2>3. /\ DOMAIN X = Fields /\ X.pending = R.turn /\ X.turn = R.turn + 1 /\ X.pc = "turn"
        /\ \A f \in Fields \ {"turn", "pc"} : X[f] = P[f]
    BY <2>1, <2>2 DEF Fields
  <2>4. Reserves(R, X)
    BY <2>1, <2>2, <2>3 DEF Reserves, Keeps
  <2> QED BY <1>2, <1>3, <2>4 DEF R, X
<1>9. CASE EndUpdate(r)
  <2>1. /\ R.pc = "turn" /\ R.turn \notin Turns
        /\ X = IF SumsAtEnd(R) THEN [R EXCEPT !.sumIteration = Monitored(R), !.pc = "sum cost"]
               ELSE [R EXCEPT !.pc = "updated"]
    BY <1>1, <1>9 DEF EndUpdate, At
  <2> HIDE DEF R, X
  <2>2. EndsTurns(R, X)
    BY <1>1, <2>1 DEF EndsTurns, Keeps, Fields
  <2> QED BY <1>2, <1>3, <2>2 DEF R, X
<1> QED
  BY <1>4, <1>5, <1>6, <1>7, <1>8, <1>9

\* The steps at the end of an epoch that leave the disk alone.
LEMMA EpochEffect ==
    ASSUME TrainInv, NEW r \in Ranks,
           \/ Fail(r) \/ Continue(r) \/ EndEpoch(r) \/ MonitorError(r) \/ ForwardMonitor(r) \/ Judge(r)
           \/ CheckTrainingTime(r)
    PROVE  /\ UNCHANGED <<conf, cache, prep, disk, crashes>> /\ DOMAIN rank' = Ranks
           /\ \A s \in Ranks \ {r} : rank'[s] = rank[s]
           /\ \/ Fails(rank[r], rank'[r]) \/ Continues(r, rank[r], rank'[r])
              \/ EndsAnEpoch(rank[r], rank'[r]) \/ MonitorsError(rank[r], rank'[r])
              \/ ForwardsMonitor(r, rank[r], rank'[r]) \/ Judges(r, rank[r], rank'[r])
              \/ ChecksTime(r, rank[r], rank'[r])
<1> DEFINE R == rank[r]
           X == rank'[r]
<1>1. DOMAIN rank = Ranks /\ DOMAIN R = Fields
  BY RankRecord
<1>2. UNCHANGED <<conf, cache, prep, disk, crashes>>
  BY DEF Fail, Continue, EndEpoch, MonitorError, ForwardMonitor, Judge, CheckTrainingTime, Local, Same
<1>3. DOMAIN rank' = Ranks /\ \A s \in Ranks \ {r} : rank'[s] = rank[s]
  BY <1>1 DEF Fail, Continue, EndEpoch, MonitorError, ForwardMonitor, Judge, CheckTrainingTime
<1>0. Keeps(R, R, {})
  BY <1>1 DEF Keeps
<1>4. CASE Fail(r)
  <2>1. R.pc = "updated" /\ X = [R EXCEPT !.pc = "failed"]
    BY <1>1, <1>4 DEF Fail, At
  <2> HIDE DEF R, X
  <2>2. Fails(R, X)
    BY <1>1, <2>1 DEF Fails, Keeps, Fields
  <2> QED BY <1>2, <1>3, <2>2 DEF R, X
<1>5. CASE Continue(r)
  <2>1. R.pc = "updated" /\ ~IsNan(R.sumEpoch) /\ ~EndsEpoch(R.iter) /\ X = NextIteration(R, r)
    BY <1>1, <1>5 DEF Continue, At
  <2> HIDE DEF R, X
  <2>2. Advances(r, R, NextIteration(R, r), {})
    BY <1>0, <1>1, NextIterationEffect
  <2>3. Continues(r, R, X)
    BY <2>1, <2>2 DEF Continues
  <2> QED BY <1>2, <1>3, <2>3 DEF R, X
<1>6. CASE EndEpoch(r)
  <2>1. /\ R.pc = "updated" /\ ~IsNan(R.sumEpoch) /\ EndsEpoch(R.iter)
        /\ X = [R EXCEPT !.average = <<R.sumEpoch, R.numIteration>>, !.sumEpoch = <<>>, !.numIteration = 0,
                         !.batch = 0, !.pc = IF Evaluated(Epoch(R.iter)) THEN "evaluate" ELSE "report"]
    BY <1>1, <1>6 DEF EndEpoch, At, Evaluates
  <2> HIDE DEF R, X
  <2>2. EndsAnEpoch(R, X)
    BY <1>1, <2>1 DEF EndsAnEpoch, Keeps, Fields
  <2> QED BY <1>2, <1>3, <2>2 DEF R, X
<1>7. CASE MonitorError(r)
  <2>1. R.pc = "evaluate" /\ X = [R EXCEPT !.pc = IF SumsError(R) THEN "sum error" ELSE "forward"]
    BY <1>1, <1>7 DEF MonitorError, At
  <2> HIDE DEF R, X
  <2>2. MonitorsError(R, X)
    BY <1>1, <2>1 DEF MonitorsError, Keeps, Fields
  <2> QED BY <1>2, <1>3, <2>2 DEF R, X
<1>8. CASE ForwardMonitor(r)
  <2>1. /\ R.pc = "forward"
        /\ X = [R EXCEPT !.held[conf.monitor.net] = <<R.iter, 0, r, R.batch>>, !.batch = R.batch + 1,
                         !.count = R.count + Size, !.pc = "evaluate"]
    BY <1>1, <1>8 DEF ForwardMonitor, At
  <2> HIDE DEF R, X
  <2>2. ForwardsMonitor(r, R, X)
    BY <1>1, <2>1 DEF ForwardsMonitor, Keeps, Fields
  <2> QED BY <1>2, <1>3, <2>2 DEF R, X
<1>9. CASE Judge(r)
  <2>1. R.pc = "judge"
    BY <1>9 DEF Judge, At
  <2>2. PICK error, judged :
          X = IF r = 1 /\ IsBest(R, error)
              THEN [[R EXCEPT !.judged = judged] EXCEPT !.best = error, !.pc = "best"]
              ELSE [[R EXCEPT !.judged = judged] EXCEPT !.pc = "report"]
    BY <1>1, <1>9 DEF Judge
  <2> DEFINE J == [R EXCEPT !.judged = judged]
  <2>3. DOMAIN J = Fields /\ \A f \in Fields \ {"judged"} : J[f] = R[f]
    <3> HIDE DEF R
    <3> QED BY <1>1
  <2>4. X = IF r = 1 /\ IsBest(R, error) THEN [J EXCEPT !.best = error, !.pc = "best"]
            ELSE [J EXCEPT !.pc = "report"]
    BY <2>2
  <2> HIDE DEF R, X, J
  <2>5. /\ DOMAIN X = Fields /\ X.pc \in {"best", "report"} /\ (X.pc = "best" => r = 1)
        /\ \A f \in Fields \ {"best", "pc"} : X[f] = J[f]
    BY <2>3, <2>4 DEF Fields
  <2>6. Judges(r, R, X)
    BY <2>1, <2>3, <2>5 DEF Judges, Keeps
  <2> QED BY <1>2, <1>3, <2>6 DEF R, X
<1>10. CASE CheckTrainingTime(r)
  <2>1. /\ R.pc = "saved"
        /\ X = NextIteration(R, r) \/ X = [R EXCEPT !.pc = "unlink", !.then = "stopped"]
    BY <1>1, <1>10 DEF CheckTrainingTime, At
  <2> HIDE DEF R, X
  <2>2. Advances(r, R, NextIteration(R, r), {})
    BY <1>0, <1>1, NextIterationEffect
  <2>3. CASE X = NextIteration(R, r)
    <3>1. ChecksTime(r, R, X)
      BY <2>1, <2>2, <2>3 DEF ChecksTime
    <3> QED BY <1>2, <1>3, <3>1 DEF R, X
  <2>4. CASE X = [R EXCEPT !.pc = "unlink", !.then = "stopped"]
    <3>1. ChecksTime(r, R, X)
      BY <1>1, <2>1, <2>4 DEF ChecksTime, Keeps, Fields
    <3> QED BY <1>2, <1>3, <3>1 DEF R, X
  <2> QED BY <2>1, <2>3, <2>4
<1> QED
  BY <1>4, <1>5, <1>6, <1>7, <1>8, <1>9, <1>10

\* What an epoch leaves in monitoring_report.yml.
Entry(R) == [epoch |-> Epoch(R.iter), sum |-> R.average[1], number |-> R.average[2],
             errors |-> R.errors, count |-> R.count]

\* Only rank 1 writes.
LEMMA ReportEffect ==
    ASSUME TrainInv, NEW r \in Ranks, Report(r)
    PROVE  /\ UNCHANGED <<conf, cache, prep, crashes>> /\ DOMAIN rank' = Ranks
           /\ \A s \in Ranks \ {r} : rank'[s] = rank[s]
           /\ Reports(r, rank[r], rank'[r])
           /\ disk'.current = disk.current /\ disk'.best = disk.best
           /\ disk'.report = IF r = 1 THEN Append(disk.report, Entry(rank[r])) ELSE disk.report
<1> DEFINE R == rank[r]
           X == rank'[r]
           S == [R EXCEPT !.average = <<>>, !.errors = <<>>, !.count = 0]
<1>1. DOMAIN rank = Ranks /\ DOMAIN R = Fields /\ DOMAIN disk = {"current", "best", "report", "newest"}
  BY RankRecord
<1>2. UNCHANGED <<conf, cache, prep, crashes>> /\ R.pc = "report"
  BY DEF Report, Same, At
<1>3. /\ disk'.current = disk.current /\ disk'.best = disk.best
      /\ disk'.report = IF r = 1 THEN Append(disk.report, Entry(R)) ELSE disk.report
  BY <1>1 DEF Report, Entry
<1>4. DOMAIN rank' = Ranks /\ \A s \in Ranks \ {r} : rank'[s] = rank[s]
  BY <1>1 DEF Report
<1>5. \/ r # 1 /\ X = NextIteration(S, r)
      \/ r = 1 /\ X = [S EXCEPT !.pc = "unlink", !.then = "next"]
      \/ r = 1 /\ X = [S EXCEPT !.pc = "saved"]
  <2> HIDE DEF S
  <2>1. PICK late \in BOOLEAN :
            rank' = [rank EXCEPT ![r] =
                        IF r # 1 THEN NextIteration(S, r)
                        ELSE IF MaySave(R) /\ (late \/ MustSave(R))
                        THEN [S EXCEPT !.pc = "unlink", !.then = "next"]
                        ELSE [S EXCEPT !.pc = "saved"]]
    BY DEF Report, S
  <2> QED BY <1>1, <2>1
<1> HIDE DEF R, X
<1>6. /\ Keeps(R, S, Told) /\ S.average = <<>> /\ S.errors = <<>> /\ S.count = 0 /\ DOMAIN S = Fields
  BY <1>1 DEF Keeps, Fields, Told
<1> HIDE DEF S
<1>7. CASE r # 1 /\ X = NextIteration(S, r)
  <2>1. Advances(r, R, X, Told)
    BY <1>1, <1>6, <1>7, NextIterationEffect DEF Told
  <2>2. Keeps(S, S, {})
    BY <1>6 DEF Keeps
  <2>3. Advances(r, S, X, {})
    BY <1>6, <1>7, <2>2, NextIterationEffect
  <2>4. X.average = S.average /\ X.errors = S.errors /\ X.count = S.count
    BY <2>3, AdvanceFields
  <2>5. Reports(r, R, X)
    BY <1>2, <1>6, <1>7, <2>1, <2>4 DEF Reports, R
  <2> QED BY <1>2, <1>3, <1>4, <2>5 DEF R, X
<1>8. CASE r = 1 /\ X \in {[S EXCEPT !.pc = "unlink", !.then = "next"], [S EXCEPT !.pc = "saved"]}
  <2>1. /\ DOMAIN X = Fields /\ X.average = <<>> /\ X.errors = <<>> /\ X.count = 0 /\ X.pc \in {"unlink", "saved"}
        /\ \A f \in Fields \ {"pc", "then"} : X[f] = S[f]
    BY <1>6, <1>8 DEF Fields
  <2>2. Keeps(R, X, Told \cup {"pc", "then"})
    BY <1>6, <2>1 DEF Keeps
  <2>3. Reports(r, R, X)
    BY <1>2, <1>8, <2>1, <2>2 DEF Reports, R
  <2> QED BY <1>2, <1>3, <1>4, <2>3 DEF R, X
<1> QED
  BY <1>5, <1>7, <1>8

\* The archives.
LEMMA SaveEffect ==
    ASSUME TrainInv, NEW r \in Ranks,
           OpenBest(r) \/ CloseBest(r) \/ Unlink(r) \/ OpenCurrent(r) \/ CloseCurrent(r)
    PROVE  /\ UNCHANGED <<conf, cache, prep, crashes>> /\ DOMAIN rank' = Ranks
           /\ \A s \in Ranks \ {r} : rank'[s] = rank[s]
           /\ Saves(rank[r], rank'[r]) /\ r = 1
           /\ disk'.report = disk.report
           /\ \A c \in disk'.current \cup disk'.best :
                c \in disk.current \cup disk.best \/ \E whole : c = Archive(rank[r], whole)
<1> DEFINE R == rank[r]
           X == rank'[r]
<1>1. DOMAIN rank = Ranks /\ DOMAIN R = Fields /\ DOMAIN disk = {"current", "best", "report", "newest"}
  BY RankRecord
<1>2. UNCHANGED <<conf, cache, prep, crashes>>
  BY DEF OpenBest, CloseBest, Unlink, OpenCurrent, CloseCurrent, Same
<1>3. DOMAIN rank' = Ranks /\ \A s \in Ranks \ {r} : rank'[s] = rank[s]
  BY <1>1 DEF OpenBest, CloseBest, Unlink, OpenCurrent, CloseCurrent
<1>4. R.pc \in Saving /\ r = 1
  <2>1. R.pc \in Saving
    BY DEF OpenBest, CloseBest, Unlink, OpenCurrent, CloseCurrent, At, Saving
  <2> QED BY <2>1 DEF TrainInv, RankInv
<1>5. disk'.report = disk.report
  BY <1>1 DEF OpenBest, CloseBest, Unlink, OpenCurrent, CloseCurrent
<1>6. \A c \in disk'.current \cup disk'.best :
            c \in disk.current \cup disk.best \/ \E whole : c = Archive(R, whole)
  <2> HIDE DEF R
  <2>1. CASE OpenBest(r)
    <3>1. disk'.current = disk.current /\ disk'.best = {Archive(R, FALSE)}
      BY <1>1, <2>1 DEF OpenBest, R
    <3> QED BY <3>1
  <2>2. CASE CloseBest(r)
    <3>1. disk'.current = disk.current /\ disk'.best = {Archive(R, TRUE)}
      BY <1>1, <2>2 DEF CloseBest, R
    <3> QED BY <3>1
  <2>3. CASE Unlink(r)
    <3>1. disk'.current = {} /\ disk'.best = disk.best
      BY <1>1, <2>3 DEF Unlink, Kept
    <3> QED BY <3>1
  <2>4. CASE OpenCurrent(r)
    <3>1. disk'.current = disk.current \cup {Archive(R, FALSE)} /\ disk'.best = disk.best
      BY <1>1, <2>4 DEF OpenCurrent, R
    <3> QED BY <3>1
  <2>5. CASE CloseCurrent(r)
    <3>1. /\ disk'.current = (disk.current \ {Archive(R, FALSE)}) \cup {Archive(R, TRUE)}
          /\ disk'.best = disk.best
      BY <1>1, <2>5 DEF CloseCurrent, R
    <3> QED BY <3>1
  <2> QED BY <2>1, <2>2, <2>3, <2>4, <2>5
<1>7. Saves(R, X)
  <2>1. \/ R.pc = "best" /\ X = [R EXCEPT !.pc = "close best"]
        \/ R.pc = "close best" /\ X = [R EXCEPT !.pc = IF R.then = "done" THEN "done" ELSE "report"]
        \/ R.pc = "unlink" /\ X = [R EXCEPT !.pc = "open"]
        \/ R.pc = "open" /\ X = [R EXCEPT !.pc = "close"]
        \/ R.pc = "close" /\ X = [R EXCEPT !.saved = Epoch(R.iter), !.pc = IF R.then = "next" THEN "saved" ELSE R.then]
    BY <1>1 DEF OpenBest, CloseBest, Unlink, OpenCurrent, CloseCurrent, At
  <2> HIDE DEF R, X
  <2> QED BY <1>1, <2>1 DEF Saves, Keeps, Fields
<1> QED
  BY <1>2, <1>3, <1>4, <1>5, <1>6, <1>7

\* The beginning of a training.
LEMMA StartEffect ==
    ASSUME TrainInv, NEW r \in Ranks, Begin(r) \/ SaveUntrained(r)
    PROVE  /\ UNCHANGED <<conf, cache, prep, disk, crashes>> /\ DOMAIN rank' = Ranks
           /\ \A s \in Ranks \ {r} : rank'[s] = rank[s]
           /\ \/ Begins(rank[r], rank'[r]) /\ PerEpoch # 0
              \/ Untrains(rank[r], rank'[r])
<1> DEFINE R == rank[r]
           X == rank'[r]
<1>1. DOMAIN rank = Ranks /\ DOMAIN R = Fields
  BY RankRecord
<1>2. UNCHANGED <<conf, cache, prep, disk, crashes>> /\ R.pc = "start"
  BY DEF Begin, SaveUntrained, Local, At
<1>3. DOMAIN rank' = Ranks /\ \A s \in Ranks \ {r} : rank'[s] = rank[s]
  BY <1>1 DEF Begin, SaveUntrained
<1>4. CASE Begin(r)
  <2>0. PerEpoch # 0
    BY <1>2, <1>4, BeforeWork DEF Begin
  <2> DEFINE c == Latest(disk.current)
  <2>1. \/ X = [R EXCEPT !.pc = "turn"]
        \/ X = [R EXCEPT !.pc = "broken"]
        \/ /\ crashes # 0 /\ disk.current # {}
           /\ X = [R EXCEPT !.pc = IF Resumed(c) < MaxIteration THEN "turn" ELSE "done",
                            !.iter = Resumed(c), !.from = Resumed(c),
                            !.applied = c.applied, !.states = c.states]
    BY <1>1, <1>4 DEF Begin
  <2> HIDE DEF R, X, c
  <2>2. \/ Keeps(R, X, {"pc"}) /\ X.pc \in {"turn", "broken"}
        \/ /\ crashes # 0 /\ disk.current # {}
           /\ Keeps(R, X, {"pc", "iter", "from", "applied", "states"})
           /\ X.pc = IF Resumed(c) < MaxIteration THEN "turn" ELSE "done"
           /\ X.iter = Resumed(c) /\ X.from = Resumed(c) /\ X.applied = c.applied
    BY <1>1, <2>1 DEF Keeps, Fields
  <2>3. Begins(R, X)
    BY <1>2, <2>2 DEF Begins, c
  <2> QED BY <1>2, <1>3, <2>0, <2>3 DEF R, X
<1>5. CASE SaveUntrained(r)
  <2>1. PerEpoch = 0 /\ X = [R EXCEPT !.pc = IF r = 1 THEN "best" ELSE "done", !.then = "done"]
    BY <1>1, <1>5 DEF SaveUntrained
  <2> HIDE DEF R, X
  <2>2. Untrains(R, X)
    BY <1>1, <1>2, <2>1 DEF Untrains, Keeps, Fields
  <2> QED BY <1>2, <1>3, <2>2 DEF R, X
<1> QED
  BY <1>4, <1>5

-----------------------------------------------------------------------------
(* Sequences that list a set. *)

\* Every element of the set, once.
Lists(q, T) ==
    /\ q \in Seq(T)
    /\ \A t \in T : \E j \in DOMAIN q : q[j] = t
    /\ \A j, k \in DOMAIN q : q[j] = q[k] => j = k

\* What one adds to a listed set.
LEMMA ListsAppend ==
    ASSUME NEW T, NEW q, Lists(q, T), NEW t, t \notin T
    PROVE  Lists(Append(q, t), T \cup {t})
<1>1. q \in Seq(T \cup {t}) /\ Len(q) \in Nat /\ DOMAIN q = 1..Len(q)
  BY DEF Lists
<1> DEFINE a == Append(q, t)
<1>2. /\ a \in Seq(T \cup {t}) /\ DOMAIN a = 1..(Len(q) + 1) /\ a[Len(q) + 1] = t
      /\ \A j \in 1..Len(q) : a[j] = q[j] /\ q[j] \in T
  BY <1>1 DEF Lists
<1> HIDE DEF a
<1>3. \A s \in T \cup {t} : \E j \in DOMAIN a : a[j] = s
  BY <1>1, <1>2 DEF Lists
<1>4. \A j, k \in DOMAIN a : a[j] = a[k] => j = k
  BY <1>1, <1>2 DEF Lists
<1> QED
  BY <1>2, <1>3, <1>4 DEF Lists, a

\* Two listed sets that have nothing in common.
LEMMA ListsConcat ==
    ASSUME NEW T, NEW q, Lists(q, T), NEW U, NEW p, Lists(p, U), T \cap U = {}
    PROVE  Lists(q \o p, T \cup U)
<1> DEFINE a == q \o p
           n == Len(q)
           m == Len(p)
<1>1. /\ q \in Seq(T \cup U) /\ p \in Seq(T \cup U)
      /\ n \in Nat /\ m \in Nat /\ DOMAIN q = 1..n /\ DOMAIN p = 1..m
      /\ \A j \in 1..n : q[j] \in T
      /\ \A j \in 1..m : p[j] \in U
  BY DEF Lists
<1>2. /\ a \in Seq(T \cup U) /\ DOMAIN a = 1..(n + m)
      /\ \A j \in 1..n : a[j] = q[j]
      /\ \A j \in (n + 1)..(n + m) : a[j] = p[j - n]
  BY <1>1
<1> HIDE DEF a, n, m
<1>3. \A j \in 1..m : n + j \in DOMAIN a /\ a[n + j] = p[j]
  BY <1>1, <1>2
<1>4. \A s \in T \cup U : \E j \in DOMAIN a : a[j] = s
  <2>1. ASSUME NEW s \in T PROVE \E j \in DOMAIN a : a[j] = s
    BY <1>1, <1>2 DEF Lists
  <2>2. ASSUME NEW s \in U PROVE \E j \in DOMAIN a : a[j] = s
    BY <1>1, <1>3 DEF Lists
  <2> QED BY <2>1, <2>2
<1>5. ASSUME NEW j \in DOMAIN a, NEW k \in DOMAIN a, a[j] = a[k]
      PROVE  j = k
  <2>1. \A i \in DOMAIN a : \/ i \in 1..n /\ a[i] = q[i] /\ a[i] \in T
                            \/ i \in (n + 1)..(n + m) /\ i - n \in 1..m /\ a[i] = p[i - n] /\ a[i] \in U
    BY <1>1, <1>2
  <2>2. CASE j \in 1..n /\ k \in 1..n
    BY <1>1, <1>2, <1>5, <2>2 DEF Lists
  <2>3. CASE j \in (n + 1)..(n + m) /\ k \in (n + 1)..(n + m)
    <3>1. j - n \in 1..m /\ k - n \in 1..m /\ p[j - n] = p[k - n]
      BY <1>1, <1>2, <1>5, <2>3
    <3>2. j - n = k - n
      BY <1>1, <3>1 DEF Lists
    <3> QED BY <1>1, <2>3, <3>2
  <2> QED BY <1>5, <2>1, <2>2, <2>3
<1> QED
  BY <1>2, <1>4, <1>5 DEF Lists, a

\* It has as many elements as the set.
LEMMA ListsDistinct ==
    ASSUME NEW T, NEW q, Lists(q, T)
    PROVE  /\ Elements(q) = T /\ Distinct(q)
           /\ IsFiniteSet(T) /\ Cardinality(T) = Len(q)
<1>1. q \in Seq(T) /\ Len(q) \in Nat /\ DOMAIN q = 1..Len(q) /\ q \in [1..Len(q) -> T]
  BY DEF Lists
<1>2. Elements(q) = T
  BY <1>1 DEF Elements, Lists
<1>3. q \in Bijection(1..Len(q), T)
  <2>1. \A j, k \in 1..Len(q) : q[j] = q[k] => j = k
    BY <1>1 DEF Lists
  <2>2. \A t \in T : \E j \in 1..Len(q) : q[j] = t
    BY <1>1 DEF Lists
  <2> QED BY <1>1, <2>1, <2>2 DEF Bijection, Injection, Surjection, IsInjective
<1>4. ExistsBijection(1..Len(q), T)
  BY <1>3 DEF ExistsBijection
<1>5. IsFiniteSet(T) /\ Cardinality(T) = Len(q)
  BY <1>1, <1>4, FS_CountingElements, FS_NatBijection
<1> QED
  BY <1>2, <1>5 DEF Distinct

\* Concatenation goes from the first sequence to the last.
LEMMA ConcatSteps ==
    ASSUME NEW n \in Nat, NEW seqs, DOMAIN seqs = 1..n
    PROVE  \E h : Concat(seqs) = h[n] /\ h[0] = <<>> /\ \A m \in 1..n : h[m] = h[m - 1] \o seqs[m]
<1> DEFINE e(h, N) == [T \in SUBSET (1..N) |-> IF T = {} THEN <<>> ELSE h[T \ {Max(T)}] \o seqs[Max(T)]]
           G == {N \in Nat : \E h : h = e(h, N)}
<1>1. 0 \in G
  <2> DEFINE h == [T \in SUBSET (1..0) |-> <<>>]
  <2>1. \A T \in SUBSET (1..0) : T = {}
    OBVIOUS
  <2>2. h = e(h, 0)
    BY <2>1
  <2> HIDE DEF h
  <2> QED BY <2>2
<1>2. ASSUME NEW N \in G, N \in Nat PROVE N + 1 \in G
  <2>1. PICK h : h = e(h, N)
    BY <1>2
  <2> DEFINE g == [T \in SUBSET (1..(N + 1)) |-> IF N + 1 \in T THEN h[T \ {N + 1}] \o seqs[N + 1] ELSE h[T]]
  <2>2. ASSUME NEW T \in SUBSET (1..(N + 1)), T # {}
        PROVE  g[T] = g[T \ {Max(T)}] \o seqs[Max(T)]
    <3> DEFINE x == Max(T)
    <3>1. x \in T /\ \A y \in T : x >= y
      <4>1. T \in SUBSET Nat /\ N + 1 \in Nat /\ \A y \in T : y <= N + 1
        BY <1>2
      <4> QED BY <2>2, <4>1, MaxIs
    <3> HIDE DEF x
    <3>2. T \ {x} \in SUBSET (1..(N + 1)) /\ x \in 1..(N + 1)
      BY <3>1
    <3>3. CASE x = N + 1
      <4>1. T \ {x} \in SUBSET (1..N) /\ N + 1 \notin T \ {x}
        BY <1>2, <3>2, <3>3
      <4>2. N + 1 \in T /\ T \ {N + 1} = T \ {x}
        BY <3>1, <3>3
      <4>3. g[T] = h[T \ {N + 1}] \o seqs[N + 1]
        BY <4>2
      <4>4. g[T \ {x}] = h[T \ {x}]
        BY <3>2, <4>1
      <4> QED BY <3>3, <4>2, <4>3, <4>4 DEF x
    <3>4. CASE x # N + 1
      <4>1. N + 1 \notin T /\ T \in SUBSET (1..N)
        BY <1>2, <3>1, <3>2, <3>4
      <4>2. h[T] = h[T \ {x}] \o seqs[x]
        BY <2>1, <2>2, <4>1 DEF x
      <4>3. g[T] = h[T]
        BY <4>1
      <4>4. N + 1 \notin T \ {x}
        BY <4>1
      <4>5. g[T \ {x}] = h[T \ {x}]
        BY <3>2, <4>4
      <4> QED BY <4>2, <4>3, <4>5 DEF x
    <3> QED BY <3>3, <3>4 DEF x
  <2>3. g[{}] = <<>>
    BY <1>2, <2>1
  <2>4. g = e(g, N + 1)
    <3>1. \A T \in SUBSET (1..(N + 1)) : g[T] = IF T = {} THEN <<>> ELSE g[T \ {Max(T)}] \o seqs[Max(T)]
      BY <2>2, <2>3
    <3>2. g = [T \in SUBSET (1..(N + 1)) |-> g[T]]
      OBVIOUS
    <3> HIDE DEF g
    <3> QED BY <3>1, <3>2
  <2> HIDE DEF e, g
  <2> QED BY <1>2, <2>4
<1> HIDE DEF G
<1>3. n \in G
  BY <1>1, <1>2, SetByNumbers
<1> DEFINE h == CHOOSE k : k = e(k, n)
<1>4. h = e(h, n)
  BY <1>3 DEF G
<1>5. Concat(seqs) = h[1..n]
  BY DEF Concat, FoldLeft, MapThenFoldSet
<1> HIDE DEF h
<1> DEFINE c == [m \in 0..n |-> h[1..m]]
<1>6. c[n] = h[1..n] /\ c[0] = <<>>
  <2>1. 1..0 = {} /\ {} \in SUBSET (1..n)
    OBVIOUS
  <2>2. h[{}] = <<>>
    BY <1>4, <2>1
  <2> QED BY <2>1, <2>2
<1>7. ASSUME NEW m \in 1..n PROVE c[m] = c[m - 1] \o seqs[m]
  <2>1. 1..m \in SUBSET (1..n) /\ 1..m # {} /\ (1..m) \ {m} = 1..(m - 1) /\ m \in 0..n /\ m - 1 \in 0..n
    <3>1. m \in Nat /\ 1 <= m /\ m <= n
      OBVIOUS
    <3>2. \A k : k \in 1..m => k \in 1..n
      BY <3>1
    <3>3. m \in 1..m
      BY <3>1
    <3>4. \A k : k \in (1..m) \ {m} <=> k \in 1..(m - 1)
      BY <3>1
    <3>5. m \in 0..n /\ m - 1 \in 0..n
      BY <3>1
    <3> QED BY <3>2, <3>3, <3>4, <3>5
  <2>2. Max(1..m) = m
    <3>1. \A x \in 1..m : (\A y \in 1..m : x >= y) => x = m
      OBVIOUS
    <3>2. m \in 1..m /\ \A y \in 1..m : m >= y
      OBVIOUS
    <3> QED BY <3>1, <3>2 DEF Max
  <2>3. h[1..m] = h[(1..m) \ {Max(1..m)}] \o seqs[Max(1..m)]
    BY <1>4, <2>1
  <2>4. h[1..m] = h[1..(m - 1)] \o seqs[m]
    BY <2>1, <2>2, <2>3
  <2> QED BY <2>1, <2>4
<1> QED
  BY <1>5, <1>6, <1>7

\* The sequences of all ranks, each of which lists a set of its own.
LEMMA ConcatLists ==
    ASSUME NEW n \in Nat, NEW seqs, DOMAIN seqs = 1..n, NEW F,
           \A r \in 1..n : Lists(seqs[r], F[r]),
           \A r, s \in 1..n : r # s => F[r] \cap F[s] = {}
    PROVE  Lists(Concat(seqs), UNION {F[r] : r \in 1..n})
<1>1. PICK h : Concat(seqs) = h[n] /\ h[0] = <<>> /\ \A m \in 1..n : h[m] = h[m - 1] \o seqs[m]
  BY ConcatSteps
<1> DEFINE U(m) == UNION {F[r] : r \in 1..m}
           G == {m \in Nat : m <= n => Lists(h[m], U(m))}
<1>2. 0 \in G
  <2>1. U(0) = {}
    <3>1. \A r \in 1..0 : FALSE
      OBVIOUS
    <3> QED BY <3>1
  <2>2. Lists(<<>>, {})
    BY DEF Lists
  <2> QED BY <1>1, <2>1, <2>2
<1>3. ASSUME NEW m \in G, m \in Nat PROVE m + 1 \in G
  <2>1. CASE m + 1 <= n
    <3>1. Lists(h[m], U(m)) /\ m + 1 \in 1..n /\ h[m + 1] = h[m] \o seqs[m + 1]
      <4>1. m <= n /\ m + 1 \in 1..n /\ (m + 1) - 1 = m
        BY <1>3, <2>1
      <4>2. Lists(h[m], U(m))
        BY <1>3, <4>1
      <4> HIDE DEF U
      <4> QED BY <1>1, <4>1, <4>2
    <3>2. U(m + 1) = U(m) \cup F[m + 1]
      BY <1>3
    <3>3. U(m) \cap F[m + 1] = {}
      BY <1>3, <3>1
    <3> HIDE DEF U
    <3>4. Lists(h[m] \o seqs[m + 1], U(m) \cup F[m + 1])
      BY <3>1, <3>3, ListsConcat
    <3>5. Lists(h[m + 1], U(m + 1))
      BY <3>1, <3>2, <3>4
    <3> QED BY <1>3, <3>5
  <2>2. CASE ~(m + 1 <= n)
    BY <1>3, <2>2
  <2> QED BY <2>1, <2>2
<1> HIDE DEF G
<1>4. n \in G
  BY <1>2, <1>3, SetByNumbers
<1> QED
  BY <1>1, <1>4 DEF G

-----------------------------------------------------------------------------
(* The steps all ranks take together. *)

\* Ranks are numbered up to their number.
LEMMA RanksAre ==
    ASSUME conf \in Scenarios
    PROVE  Size \in Nat \ {0} /\ Ranks = 1..Size /\ IsFiniteSet(Ranks)
<1>1. PICK n \in Nat : Ranks = 1..n
  BY ClusterAssumption DEF Ranks
<1>2. IsFiniteSet(1..n) /\ Cardinality(1..n) = n
  BY FS_Interval
<1>3. Size = n
  BY <1>1, <1>2 DEF Size
<1>4. 1 \in 1..n
  BY <1>1, RankSet
<1> QED
  BY <1>1, <1>2, <1>3, <1>4

\* When all have come to the collective of one rank, they are at the same turn or batch.
LEMMA GatheredAt ==
    ASSUME TrainInv, NEW r \in Ranks, rank[r].pc \in {"sum cost", "reduce", "sum error"}, AllIn(asked[r])
    PROVE  \A s \in Ranks :
              /\ rank[s].pc = rank[r].pc /\ rank[s].iter = rank[r].iter
              /\ rank[r].pc \in {"sum cost", "reduce"} => rank[s].turn = rank[r].turn
              /\ rank[r].pc = "sum error" => rank[s].batch = rank[r].batch
<1> SUFFICES ASSUME NEW s \in Ranks
             PROVE  /\ rank[s].pc = rank[r].pc /\ rank[s].iter = rank[r].iter
                    /\ rank[r].pc \in {"sum cost", "reduce"} => rank[s].turn = rank[r].turn
                    /\ rank[r].pc = "sum error" => rank[s].batch = rank[r].batch
  OBVIOUS
<1>1. rank[s].pc = rank[r].pc /\ prep[s] \notin {"enter", "leave"} /\ prep[r] \notin {"enter", "leave"}
  BY Gathered
<1>2. Waits(prep[s], rank[s]) = Waits(prep[r], rank[r])
  <2>1. DOMAIN asked = Ranks /\ \A q \in Ranks : asked[q] = Waits(prep[q], rank[q])
    BY DEF TrainInv, RankInv, CacheInv, PrepOK
  <2> QED BY <2>1 DEF AllIn
<1>3. \A a, b, c, d, e : <<e, a, b>> = <<e, c, d>> => a = c /\ b = d
  OBVIOUS
<1>4. CASE rank[r].pc = "sum cost"
  BY <1>1, <1>2, <1>3, <1>4 DEF Waits
<1>5. CASE rank[r].pc = "reduce"
  BY <1>1, <1>2, <1>3, <1>5 DEF Waits
<1>6. CASE rank[r].pc = "sum error"
  BY <1>1, <1>2, <1>3, <1>6 DEF Waits
<1> QED
  BY <1>1, <1>4, <1>5, <1>6

\* One operator for each collective, too.
SumsCost(R, X) ==
    /\ Keeps(R, X, {"sumEpoch", "numIteration", "sumIteration", "pending", "pc"})
    /\ X.sumEpoch = R.sumEpoch \o Concat([s \in Ranks |-> rank[s].sumIteration])
    /\ X.numIteration = R.numIteration + Size
    /\ X.sumIteration = <<>>
    /\ X.pending = IF R.turn \notin Turns THEN 0 ELSE R.pending
    /\ X.pc = IF R.turn \notin Turns THEN "updated" ELSE "step"
Reduces(R, X) ==
    /\ Keeps(R, X, {"grads", "pc"})
    /\ X.grads = [p \in Parameters |-> IF p \in Opt(R.turn).params
                                       THEN Concat([s \in Ranks |-> rank[s].grads[p]]) ELSE R.grads[p]]
    /\ X.pc = "apply"
SumsErrors(R, X) ==
    /\ Keeps(R, X, {"errors", "pc"})
    /\ X.errors = R.errors \o [s \in Ranks |-> rank[s].held[conf.monitor.net]]
    /\ X.pc = IF R.batch = conf.monitor.batches THEN "judge" ELSE "forward"

\* The cost is added up.
LEMMA SumCostEffect ==
    ASSUME TrainInv, SumCost
    PROVE  /\ UNCHANGED <<conf, cache, prep, disk, crashes>> /\ DOMAIN rank' = Ranks
           /\ \E q \in Ranks : \A r \in Ranks :
                /\ rank[r].pc = "sum cost" /\ rank[r].iter = rank[q].iter /\ rank[r].turn = rank[q].turn
                /\ SumsCost(rank[r], rank'[r])
<1>1. PICK q \in Ranks : rank[q].pc = "sum cost" /\ AllIn(asked[q])
  BY DEF SumCost, At
<1>2. \A r \in Ranks : rank[r].pc = "sum cost" /\ rank[r].iter = rank[q].iter /\ rank[r].turn = rank[q].turn
  BY <1>1, GatheredAt
<1>3. UNCHANGED <<conf, cache, prep, disk, crashes>> /\ DOMAIN rank' = Ranks
  BY DEF SumCost, Same
<1>4. ASSUME NEW r \in Ranks PROVE SumsCost(rank[r], rank'[r])
  <2> DEFINE R == rank[r]
             X == rank'[r]
  <2>1. DOMAIN R = Fields
    BY RankRecord
  <2>2. X = [R EXCEPT !.sumEpoch = R.sumEpoch \o Concat([s \in Ranks |-> rank[s].sumIteration]),
                      !.numIteration = R.numIteration + Size,
                      !.sumIteration = <<>>,
                      !.pending = IF R.turn \notin Turns THEN 0 ELSE R.pending,
                      !.pc = IF R.turn \notin Turns THEN "updated" ELSE "step"]
    BY DEF SumCost, ReducedCost
  <2> DEFINE c == Concat([s \in Ranks |-> rank[s].sumIteration])
  <2> HIDE DEF R, X, c
  <2>3. SumsCost(R, X) <=>
            /\ Keeps(R, X, {"sumEpoch", "numIteration", "sumIteration", "pending", "pc"})
            /\ X.sumEpoch = R.sumEpoch \o c
            /\ X.numIteration = R.numIteration + Size
            /\ X.sumIteration = <<>>
            /\ X.pending = IF R.turn \notin Turns THEN 0 ELSE R.pending
            /\ X.pc = IF R.turn \notin Turns THEN "updated" ELSE "step"
    BY DEF SumsCost, c
  <2>4. X = [R EXCEPT !.sumEpoch = R.sumEpoch \o c,
                      !.numIteration = R.numIteration + Size,
                      !.sumIteration = <<>>,
                      !.pending = IF R.turn \notin Turns THEN 0 ELSE R.pending,
                      !.pc = IF R.turn \notin Turns THEN "updated" ELSE "step"]
    BY <2>2 DEF c
  <2>5. SumsCost(R, X)
    BY <2>1, <2>3, <2>4 DEF Keeps, Fields
  <2> QED BY <2>5 DEF R, X
<1> QED
  BY <1>2, <1>3, <1>4

\* The gradients are.
LEMMA ReduceEffect ==
    ASSUME TrainInv, ReduceGradients
    PROVE  /\ UNCHANGED <<conf, cache, prep, disk, crashes>> /\ DOMAIN rank' = Ranks
           /\ \E q \in Ranks : \A r \in Ranks :
                /\ rank[r].pc = "reduce" /\ rank[r].iter = rank[q].iter /\ rank[r].turn = rank[q].turn
                /\ Reduces(rank[r], rank'[r])
<1>1. PICK q \in Ranks : rank[q].pc = "reduce" /\ AllIn(asked[q])
  BY DEF ReduceGradients, At
<1>2. \A r \in Ranks : rank[r].pc = "reduce" /\ rank[r].iter = rank[q].iter /\ rank[r].turn = rank[q].turn
  BY <1>1, GatheredAt
<1>3. UNCHANGED <<conf, cache, prep, disk, crashes>> /\ DOMAIN rank' = Ranks
  BY DEF ReduceGradients, Same
<1>4. ASSUME NEW r \in Ranks PROVE Reduces(rank[r], rank'[r])
  <2> DEFINE R == rank[r]
             X == rank'[r]
             grads == [p \in Parameters |-> IF p \in Opt(R.turn).params
                                            THEN Concat([s \in Ranks |-> rank[s].grads[p]]) ELSE R.grads[p]]
  <2>1. DOMAIN R = Fields
    BY RankRecord
  <2>2. X = [R EXCEPT !.grads = grads, !.pc = "apply"]
    BY DEF ReduceGradients
  <2>3. Reduces(R, X) <=> Keeps(R, X, {"grads", "pc"}) /\ X.grads = grads /\ X.pc = "apply"
    BY DEF Reduces
  <2> HIDE DEF R, X, grads
  <2>4. Reduces(R, X)
    BY <2>1, <2>2, <2>3 DEF Keeps, Fields
  <2> QED BY <2>4 DEF R, X
<1> QED
  BY <1>2, <1>3, <1>4

\* The errors are.
LEMMA SumErrorEffect ==
    ASSUME TrainInv, SumError
    PROVE  /\ UNCHANGED <<conf, cache, prep, disk, crashes>> /\ DOMAIN rank' = Ranks
           /\ \E q \in Ranks : \A r \in Ranks :
                /\ rank[r].pc = "sum error" /\ rank[r].iter = rank[q].iter /\ rank[r].batch = rank[q].batch
                /\ SumsErrors(rank[r], rank'[r])
<1>1. PICK q \in Ranks : rank[q].pc = "sum error" /\ AllIn(asked[q])
  BY DEF SumError, At
<1>2. \A r \in Ranks : rank[r].pc = "sum error" /\ rank[r].iter = rank[q].iter /\ rank[r].batch = rank[q].batch
  BY <1>1, GatheredAt
<1>3. UNCHANGED <<conf, cache, prep, disk, crashes>> /\ DOMAIN rank' = Ranks
  BY DEF SumError, Same
<1>4. ASSUME NEW r \in Ranks PROVE SumsErrors(rank[r], rank'[r])
  <2> DEFINE R == rank[r]
             X == rank'[r]
             all == [s \in Ranks |-> rank[s].held[conf.monitor.net]]
  <2>1. DOMAIN R = Fields
    BY RankRecord
  <2>2. X = [R EXCEPT !.errors = R.errors \o all,
                      !.pc = IF R.batch = conf.monitor.batches THEN "judge" ELSE "forward"]
    BY DEF SumError
  <2>3. SumsErrors(R, X) <=> /\ Keeps(R, X, {"errors", "pc"}) /\ X.errors = R.errors \o all
                             /\ X.pc = IF R.batch = conf.monitor.batches THEN "judge" ELSE "forward"
    BY DEF SumsErrors
  <2> HIDE DEF R, X, all
  <2>4. SumsErrors(R, X)
    BY <2>1, <2>2, <2>3 DEF Keeps, Fields
  <2> QED BY <2>4 DEF R, X
<1> QED
  BY <1>2, <1>3, <1>4
-----------------------------------------------------------------------------
(* One step of a rank, and the steps that are none. *)

Effect(r, R, X) ==
    \/ Skips(R, X) \/ Monitors(R, X) \/ Computes(r, R, X) \/ Applies(R, X) \/ Reserves(R, X)
    \/ EndsTurns(R, X) \/ Fails(R, X) \/ Continues(r, R, X) \/ EndsAnEpoch(R, X) \/ MonitorsError(R, X)
    \/ ForwardsMonitor(r, R, X) \/ Judges(r, R, X) \/ Saves(R, X) \/ Reports(r, R, X) \/ ChecksTime(r, R, X)
    \/ (Begins(R, X) /\ PerEpoch # 0) \/ Untrains(R, X)

Archives == disk.current \cup disk.best

\* What a rank alone does.
LEMMA TrainEffect ==
    ASSUME TrainInv, NEW r \in Ranks, Train(r)
    PROVE  /\ conf' = conf /\ DOMAIN rank' = Ranks
           /\ \A s \in Ranks \ {r} : rank'[s] = rank[s]
           /\ Effect(r, rank[r], rank'[r])
           /\ \/ disk'.report = disk.report
              \/ /\ r = 1 /\ rank[r].pc = "report"
                 /\ disk'.report = Append(disk.report, Entry(rank[r]))
           /\ \A c \in Archives' :
                c \in Archives \/ (rank[r].pc \in Saving /\ \E whole : c = Archive(rank[r], whole))
<1>1. CASE \/ SkipOptimizer(r) \/ MonitorLoss(r) \/ Step(r) \/ ApplyUpdate(r) \/ ReserveLoss(r)
           \/ EndUpdate(r)
  BY <1>1, UpdateEffect DEF Effect, Archives
<1>2. CASE \/ Fail(r) \/ Continue(r) \/ EndEpoch(r) \/ MonitorError(r) \/ ForwardMonitor(r) \/ Judge(r)
           \/ CheckTrainingTime(r)
  BY <1>2, EpochEffect DEF Effect, Archives
<1>3. CASE Report(r)
  <2>1. rank[r].pc = "report"
    BY <1>3 DEF Report, At
  <2> QED BY <1>3, <2>1, ReportEffect DEF Effect, Archives
<1>4. CASE OpenBest(r) \/ CloseBest(r) \/ Unlink(r) \/ OpenCurrent(r) \/ CloseCurrent(r)
  <2>1. rank[r].pc \in Saving
    BY <1>4 DEF OpenBest, CloseBest, Unlink, OpenCurrent, CloseCurrent, At, Saving
  <2> QED BY <1>4, <2>1, SaveEffect DEF Effect, Archives
<1>5. CASE Begin(r) \/ SaveUntrained(r)
  BY <1>5, StartEffect DEF Effect, Archives
<1> QED
  BY <1>1, <1>2, <1>3, <1>4, <1>5 DEF Train

\* What else happens to the ranks.
LEMMA NextEffect ==
    ASSUME TrainInv, [Next]_vars
    PROVE  /\ conf' = conf
           /\ \/ \E r \in Ranks : Train(r)
              \/ Together
              \/ UNCHANGED <<rank, disk>>
              \/ Crash /\ rank' = [r \in Ranks |-> Fresh] /\ UNCHANGED disk
<1>1. CASE Prepare /\ UNCHANGED <<rank, disk, crashes>>
  <2>1. conf' = conf
    BY <1>1 DEF Prepare, LookForCache, LookForDirectory, CheckNode, WriteCacheFiles, WriteCacheIndex,
                OpenCache, EnterTogether, LeaveTogether
  <2> QED BY <1>1, <2>1
<1>2. CASE UNCHANGED vars
  BY <1>2 DEF vars
<1>3. CASE Crash
  BY <1>3 DEF Crash
<1>4. CASE \E r \in Ranks : Train(r)
  BY <1>4, TrainEffect
<1>5. CASE Together
  BY <1>5, TogetherFrame
<1> QED
  BY <1>1, <1>2, <1>3, <1>4, <1>5 DEF Next, Run

-----------------------------------------------------------------------------
(* The error of an epoch. *)

\* The errors of the first n batches of the evaluation after an iteration.
Batches(iter, n) == {<<iter, 0, s, b>> : s \in Ranks, b \in 0..(n - 1)}

\* Those are added up, and so many are counted.
ErrorsOf(R, n) == Lists(R.errors, Batches(R.iter, n))
CountOf(R, n) == R.count = n * Size

\* A rank has added up the errors of all batches but the last forward, whose error is still held.
ErrorPcs == {"evaluate", "sum error", "forward", "judge", "best", "close best", "report"}

ErrorOK(r, R) ==
    /\ DOMAIN R.held = Networks
    /\ R.pc \notin ErrorPcs => R.count = 0 /\ R.errors = <<>>
    /\ R.pc \in {"evaluate", "sum error", "forward"} =>
            /\ Evaluated(Epoch(R.iter))
            /\ R.batch \in 0..conf.monitor.batches /\ CountOf(R, R.batch)
    /\ R.pc \in {"evaluate", "sum error"} =>
            /\ ErrorsOf(R, R.batch - 1)
            /\ R.batch > 0 => R.held[conf.monitor.net] = <<R.iter, 0, r, R.batch - 1>>
    /\ R.pc = "sum error" => R.batch > 0 \/ R.batch = conf.monitor.batches
    /\ R.pc = "forward" => R.batch < conf.monitor.batches /\ ErrorsOf(R, R.batch)
    /\ R.pc = "judge" => Evaluated(Epoch(R.iter))
    /\ R.pc \in {"judge", "best", "close best", "report"} =>
            IF Evaluated(Epoch(R.iter))
            THEN /\ CountOf(R, conf.monitor.batches)
                 /\ conf.monitor.batches > 0 => ErrorsOf(R, conf.monitor.batches)
            ELSE R.count = 0

\* An entry of the report with the error of its epoch.
ErrorEntry(e) ==
    LET batches == IF Evaluated(e.epoch) THEN 0..(conf.monitor.batches - 1) ELSE {}
    IN  /\ e.count = Cardinality(batches) * Size
        /\ e.count > 0 =>
            /\ Distinct(e.errors)
            /\ Elements(e.errors) = {<<e.epoch * PerEpoch - 1, 0, r, b>> : r \in Ranks, b \in batches}

ErrorInv ==
    /\ PerEpoch # 0 => \A r \in Ranks : ErrorOK(r, rank[r])
    /\ \E S : disk.report \in Seq(S) /\ \A e \in S : ErrorEntry(e)

\* The same project, the same errors.
LEMMA SameError ==
    ASSUME conf' = conf
    PROVE  /\ \A r, R : ErrorOK(r, R)' <=> ErrorOK(r, R)
           /\ \A e : ErrorEntry(e)' <=> ErrorEntry(e)
<1>1. /\ Ranks' = Ranks /\ Turns' = Turns /\ PerEpoch' = PerEpoch /\ Size' = Size
      /\ \A k : Opt(k)' = Opt(k)
  BY SameProject DEF Size
<1>2. Networks' = Networks /\ (\A i : Epoch(i)' = Epoch(i)) /\ (\A e : Evaluated(e)' <=> Evaluated(e))
  BY <1>1 DEF Networks, Epoch, Evaluated
<1>3. \A i, n : Batches(i, n)' = Batches(i, n)
  BY <1>1 DEF Batches
<1>4. conf'.monitor = conf.monitor /\ \A R, n : (ErrorsOf(R, n)' <=> ErrorsOf(R, n)) /\ (CountOf(R, n)' <=> CountOf(R, n))
  BY <1>1, <1>3 DEF ErrorsOf, CountOf
<1>5. \A r, R : ErrorOK(r, R)' <=> ErrorOK(r, R)
  <2> SUFFICES ASSUME NEW r, NEW R PROVE ErrorOK(r, R)' <=> ErrorOK(r, R)
    OBVIOUS
  <2>1. Evaluated(Epoch(R.iter))' <=> Evaluated(Epoch(R.iter))
    BY <1>2
  <2>2. /\ ErrorsOf(R, R.batch - 1)' <=> ErrorsOf(R, R.batch - 1)
        /\ ErrorsOf(R, R.batch)' <=> ErrorsOf(R, R.batch)
        /\ ErrorsOf(R, conf.monitor.batches)' <=> ErrorsOf(R, conf.monitor.batches)
    BY <1>4
  <2>3. /\ CountOf(R, R.batch)' <=> CountOf(R, R.batch)
        /\ CountOf(R, conf.monitor.batches)' <=> CountOf(R, conf.monitor.batches)
    BY <1>4
  <2> QED BY <1>2, <1>4, <2>1, <2>2, <2>3 DEF ErrorOK
<1>6. \A e : ErrorEntry(e)' <=> ErrorEntry(e)
  BY <1>1, <1>2 DEF ErrorEntry
<1> QED
  BY <1>5, <1>6

\* The errors of one more batch.
LEMMA BatchesNext ==
    ASSUME conf \in Scenarios, NEW i, NEW n \in Nat, n # 0, NEW q, Lists(q, Batches(i, n - 1)),
           NEW all, all = [s \in Ranks |-> <<i, 0, s, n - 1>>]
    PROVE  Lists(q \o all, Batches(i, n))
<1>1. Size \in Nat \ {0} /\ Ranks = 1..Size
  BY RanksAre
<1> DEFINE U == {<<i, 0, s, n - 1>> : s \in Ranks}
<1>2. Lists(all, U)
  <2>1. all \in Seq(U) /\ DOMAIN all = Ranks /\ \A s \in Ranks : all[s] = <<i, 0, s, n - 1>>
    BY <1>1
  <2>2. \A t \in U : \E s \in Ranks : t = <<i, 0, s, n - 1>>
    OBVIOUS
  <2>3. \A s, t : <<i, 0, s, n - 1>> = <<i, 0, t, n - 1>> => s = t
    OBVIOUS
  <2> HIDE DEF U
  <2>4. \A j, k \in DOMAIN all : all[j] = all[k] => j = k
    BY <2>1, <2>3
  <2>5. \A t \in U : \E j \in DOMAIN all : all[j] = t
    BY <2>1, <2>2
  <2> QED BY <2>1, <2>4, <2>5 DEF Lists
<1>3. Batches(i, n - 1) \cap U = {}
  <2>1. \A s, t, b : b \in 0..((n - 1) - 1) => <<i, 0, s, b>> # <<i, 0, t, n - 1>>
    OBVIOUS
  <2> QED BY <2>1 DEF Batches
<1>4. Batches(i, n) = Batches(i, n - 1) \cup U
  <2>1. \A b : b \in 0..(n - 1) <=> b \in 0..((n - 1) - 1) \/ b = n - 1
    OBVIOUS
  <2> QED BY <2>1 DEF Batches
<1> HIDE DEF U
<1> QED
  BY <1>2, <1>3, <1>4, ListsConcat

\* Outside the evaluation nothing is added up.
LEMMA ErrorQuiet ==
    ASSUME NEW r, NEW R, NEW X, ErrorOK(r, R), R.pc \notin ErrorPcs, X.pc \notin ErrorPcs,
           X.count = R.count, X.errors = R.errors, DOMAIN X.held = DOMAIN R.held
    PROVE  ErrorOK(r, X)
BY DEF ErrorOK, ErrorPcs

\* The numbers of an evaluation.
LEMMA BatchNumbers ==
    ASSUME conf \in Scenarios
    PROVE  conf.monitor.batches \in Nat /\ Size \in Nat \ {0} /\ conf.monitor.net \in Networks
BY RanksAre, ProjectAssumption DEF Networks

\* A rank alone keeps to it.
LEMMA ErrorLocal ==
    ASSUME conf \in Scenarios, PerEpoch # 0, NEW r, NEW R, NEW X, RankOK(R), ErrorOK(r, R), Effect(r, R, X)
    PROVE  ErrorOK(r, X)
<1>t. Trained(R)
  BY DEF RankOK
<1>n. conf.monitor.batches \in Nat /\ Size \in Nat \ {0} /\ conf.monitor.net \in Networks
  BY BatchNumbers
<1>q. ASSUME R.pc \notin ErrorPcs, X.pc \notin ErrorPcs,
             X.count = R.count, X.errors = R.errors, DOMAIN X.held = DOMAIN R.held
      PROVE  ErrorOK(r, X)
  BY <1>q, ErrorQuiet
<1>1. CASE Skips(R, X)
  <2>1. X.count = R.count /\ X.errors = R.errors /\ X.held = R.held
    BY <1>1, KeepsFields DEF Skips
  <2> QED BY <1>1, <2>1, <1>q DEF Skips, ErrorPcs
<1>2. CASE Monitors(R, X)
  <2>0. Keeps(R, X, {"sumIteration", "first", "pc"})
    BY <1>2 DEF Monitors
  <2>1. X.count = R.count /\ X.errors = R.errors /\ X.held = R.held
    BY <2>0, KeepsFields
  <2> QED BY <1>2, <2>1, <1>q DEF Monitors, ErrorPcs
<1>3. CASE Computes(r, R, X)
  <2>1. X.count = R.count /\ X.errors = R.errors
    BY <1>3, KeepsFields DEF Computes
  <2>2. DOMAIN X.held = DOMAIN R.held
    BY <1>3 DEF Computes
  <2> QED BY <1>3, <2>1, <2>2, <1>q DEF Computes, ErrorPcs
<1>4. CASE Applies(R, X)
  <2>1. X.count = R.count /\ X.errors = R.errors /\ X.held = R.held
    BY <1>4, KeepsFields DEF Applies
  <2> QED BY <1>4, <2>1, <1>q DEF Applies, ErrorPcs
<1>5. CASE Reserves(R, X)
  <2>1. X.count = R.count /\ X.errors = R.errors /\ X.held = R.held
    BY <1>5, KeepsFields DEF Reserves
  <2> QED BY <1>5, <2>1, <1>q DEF Reserves, ErrorPcs
<1>6. CASE EndsTurns(R, X)
  <2>0. Keeps(R, X, {"sumIteration", "pc"})
    BY <1>6 DEF EndsTurns
  <2>1. X.count = R.count /\ X.errors = R.errors /\ X.held = R.held
    BY <2>0, KeepsFields
  <2> QED BY <1>6, <2>1, <1>q DEF EndsTurns, ErrorPcs
<1>7. CASE Fails(R, X)
  <2>1. X.count = R.count /\ X.errors = R.errors /\ X.held = R.held
    BY <1>7, KeepsFields DEF Fails
  <2> QED BY <1>7, <2>1, <1>q DEF Fails, ErrorPcs
<1>a. ASSUME NEW C, Advances(r, R, X, C) PROVE X.pc \notin ErrorPcs
  BY <1>a DEF Advances, ErrorPcs
<1>8. CASE Continues(r, R, X)
  <2>1. X.count = R.count /\ X.errors = R.errors /\ X.held = R.held
    BY <1>8, AdvanceFields DEF Continues
  <2> QED BY <1>8, <1>a, <2>1, <1>q DEF Continues, ErrorPcs
<1>9. CASE EndsAnEpoch(R, X)
  <2>1. X.count = R.count /\ X.errors = R.errors /\ X.held = R.held /\ X.iter = R.iter /\ X.batch = 0
    BY <1>9, KeepsFields DEF EndsAnEpoch
  <2>2. R.count = 0 /\ R.errors = <<>> /\ DOMAIN R.held = Networks
    BY <1>9 DEF EndsAnEpoch, ErrorOK, ErrorPcs
  <2>3. Lists(<<>>, Batches(X.iter, 0 - 1))
    <3>1. Batches(X.iter, 0 - 1) = {}
      <4>1. \A b : b \notin 0..((0 - 1) - 1)
        OBVIOUS
      <4> QED BY <4>1 DEF Batches
    <3> QED BY <3>1 DEF Lists
  <2>4. 0 \in 0..conf.monitor.batches /\ 0 * Size = 0
    BY <1>n
  <2>5. X.pc = IF Evaluated(Epoch(X.iter)) THEN "evaluate" ELSE "report"
    BY <1>9, <2>1 DEF EndsAnEpoch
  <2>6. CASE Evaluated(Epoch(X.iter))
    <3>1. X.pc = "evaluate" /\ CountOf(X, X.batch) /\ ErrorsOf(X, X.batch - 1)
      BY <2>1, <2>2, <2>3, <2>4, <2>5, <2>6 DEF CountOf, ErrorsOf
    <3>a. DOMAIN X.held = Networks
      BY <2>1, <2>2
    <3>b. X.pc = "evaluate" /\ X.batch = 0 /\ X.batch \in 0..conf.monitor.batches /\ ~(X.batch > 0)
      BY <2>1, <2>4, <3>1
    <3> QED BY <2>6, <3>1, <3>a, <3>b DEF ErrorOK, ErrorPcs
  <2>7. CASE ~Evaluated(Epoch(X.iter))
    BY <2>1, <2>2, <2>5, <2>7 DEF ErrorOK, ErrorPcs
  <2> QED BY <2>6, <2>7
<1>10. CASE MonitorsError(R, X)
  <2>0. Keeps(R, X, {"pc"})
    BY <1>10 DEF MonitorsError
  <2>1. X.count = R.count /\ X.errors = R.errors /\ X.held = R.held /\ X.iter = R.iter /\ X.batch = R.batch
    BY <2>0, KeepsFields
  <2>2. /\ Evaluated(Epoch(R.iter)) /\ DOMAIN R.held = Networks
        /\ R.batch \in 0..conf.monitor.batches /\ CountOf(R, R.batch)
        /\ ErrorsOf(R, R.batch - 1)
        /\ R.batch > 0 => R.held[conf.monitor.net] = <<R.iter, 0, r, R.batch - 1>>
    BY <1>10 DEF MonitorsError, ErrorOK
  <2>3. CASE SumsError(R)
    <3>1. X.pc = "sum error"
      BY <1>10, <2>3 DEF MonitorsError
    <3>2. R.batch > 0 \/ R.batch = conf.monitor.batches
      BY <1>n, <2>2, <2>3 DEF SumsError, CountOf
    <3> QED BY <2>1, <2>2, <3>1, <3>2 DEF ErrorOK, ErrorPcs, ErrorsOf, CountOf
  <2>4. CASE ~SumsError(R)
    <3>1. X.pc = "forward"
      BY <1>10, <2>4 DEF MonitorsError
    <3>2. R.batch = 0 /\ R.batch < conf.monitor.batches
      <4>1. ~(R.count > 0) /\ R.batch # conf.monitor.batches
        BY <2>4 DEF SumsError
      <4>2. \A b \in Nat, s \in Nat \ {0} : ~(b * s > 0) => b = 0
        OBVIOUS
      <4> QED BY <1>n, <2>2, <4>1, <4>2 DEF CountOf
    <3>3. Batches(R.iter, R.batch) = Batches(R.iter, R.batch - 1)
      <4>1. \A b : b \notin 0..((0 - 1) - 1) /\ b \notin 0..(0 - 1)
        OBVIOUS
      <4> QED BY <3>2, <4>1 DEF Batches
    <3> QED BY <2>1, <2>2, <3>1, <3>2, <3>3 DEF ErrorOK, ErrorPcs, ErrorsOf, CountOf
  <2> QED BY <2>3, <2>4
<1>11. CASE ForwardsMonitor(r, R, X)
  <2>1. X.errors = R.errors /\ X.iter = R.iter
    BY <1>11, KeepsFields DEF ForwardsMonitor
  <2>2. /\ Evaluated(Epoch(R.iter)) /\ DOMAIN R.held = Networks
        /\ R.batch \in 0..conf.monitor.batches /\ CountOf(R, R.batch) /\ R.batch < conf.monitor.batches
        /\ ErrorsOf(R, R.batch)
    BY <1>11 DEF ForwardsMonitor, ErrorOK
  <2>3. /\ X.pc = "evaluate" /\ X.batch = R.batch + 1 /\ X.count = R.count + Size
        /\ DOMAIN X.held = Networks /\ X.held[conf.monitor.net] = <<R.iter, 0, r, R.batch>>
    BY <1>n, <1>11, <2>2 DEF ForwardsMonitor
  <2>4. (R.batch + 1) - 1 = R.batch /\ R.batch + 1 \in 0..conf.monitor.batches
    BY <1>n, <2>2
  <2>5. CountOf(X, X.batch)
    BY <1>n, <2>2, <2>3 DEF CountOf
  <2> QED BY <2>1, <2>2, <2>3, <2>4, <2>5 DEF ErrorOK, ErrorPcs, ErrorsOf, CountOf
<1>12. CASE Judges(r, R, X)
  <2>1. X.count = R.count /\ X.errors = R.errors /\ X.held = R.held /\ X.iter = R.iter /\ X.batch = R.batch
    BY <1>12, KeepsFields DEF Judges
  <2> QED BY <1>12, <2>1 DEF Judges, ErrorOK, ErrorPcs, ErrorsOf, CountOf
<1>13. CASE Saves(R, X)
  <2>1. X.count = R.count /\ X.errors = R.errors /\ X.held = R.held /\ X.iter = R.iter
    <3>1. Keeps(R, X, {"pc"}) \/ Keeps(R, X, {"saved", "pc"})
      BY <1>13 DEF Saves
    <3> QED BY <3>1, KeepsFields
  <2>2. CASE R.pc \in {"best", "close best"}
    <3>1. X.pc \in {"close best", "report"}
      BY <1>13, <1>t, <2>2 DEF Saves, Trained, Ended
    <3> QED BY <2>1, <2>2, <3>1 DEF ErrorOK, ErrorPcs, ErrorsOf, CountOf
  <2>3. CASE R.pc \in {"unlink", "open", "close"}
    <3>1. X.pc \notin ErrorPcs
      BY <1>13, <1>t, <2>3 DEF Saves, Trained, ErrorPcs
    <3> QED BY <2>1, <2>3, <3>1, <1>q DEF ErrorPcs
  <2> QED BY <1>13, <2>2, <2>3 DEF Saves
<1>14. CASE Reports(r, R, X)
  <2>1. X.held = R.held
    BY <1>14, KeepsFields, AdvanceFields DEF Reports, Told
  <2>2. X.pc \notin ErrorPcs
    BY <1>14, <1>a DEF Reports, ErrorPcs
  <2> QED BY <1>14, <2>1, <2>2 DEF Reports, ErrorOK, ErrorPcs
<1>15. CASE ChecksTime(r, R, X)
  <2>1. X.count = R.count /\ X.errors = R.errors /\ X.held = R.held
    BY <1>15, AdvanceFields, KeepsFields DEF ChecksTime
  <2>2. X.pc \notin ErrorPcs
    BY <1>15, <1>a DEF ChecksTime, ErrorPcs
  <2> QED BY <1>15, <2>1, <2>2, <1>q DEF ChecksTime, ErrorPcs
<1>16. CASE Begins(R, X)
  <2>1. X.count = R.count /\ X.errors = R.errors /\ X.held = R.held
    BY <1>16, KeepsFields DEF Begins
  <2>2. X.pc \notin ErrorPcs
    BY <1>16 DEF Begins, ErrorPcs
  <2> QED BY <1>16, <2>1, <2>2, <1>q DEF Begins, ErrorPcs
<1>17. CASE Untrains(R, X)
  BY <1>17 DEF Untrains
<1> QED
  BY <1>1, <1>2, <1>3, <1>4, <1>5, <1>6, <1>7, <1>8, <1>9, <1>10, <1>11, <1>12, <1>13, <1>14, <1>15, <1>16,
     <1>17 DEF Effect

\* So do all ranks together.
LEMMA ErrorTogether ==
    ASSUME TrainInv, PerEpoch # 0, \A r \in Ranks : ErrorOK(r, rank[r]), Together
    PROVE  conf' = conf /\ disk' = disk /\ \A r \in Ranks : ErrorOK(r, rank'[r])
<1>0. conf \in Scenarios
  BY RankRecord, RanksAre DEF TrainInv, CacheInv, PrepOK
<1>1. CASE SumCost
  <2> SUFFICES ASSUME NEW r \in Ranks PROVE ErrorOK(r, rank'[r])
    BY <1>1, SumCostEffect
  <2>1. rank[r].pc = "sum cost" /\ SumsCost(rank[r], rank'[r]) /\ ErrorOK(r, rank[r])
    BY <1>1, SumCostEffect
  <2> DEFINE R == rank[r]
             X == rank'[r]
  <2>2. Keeps(R, X, {"sumEpoch", "numIteration", "sumIteration", "pending", "pc"}) /\ X.pc \in {"updated", "step"}
    BY <2>1 DEF SumsCost
  <2>3. R.pc = "sum cost" /\ ErrorOK(r, R)
    BY <2>1
  <2> HIDE DEF R, X
  <2>4. X.count = R.count /\ X.errors = R.errors /\ X.held = R.held
    BY <2>2, KeepsFields
  <2>5. R.pc \notin ErrorPcs /\ X.pc \notin ErrorPcs
    BY <2>2, <2>3 DEF ErrorPcs
  <2>6. ErrorOK(r, X)
    BY <2>3, <2>4, <2>5, ErrorQuiet
  <2> QED BY <2>6 DEF X
<1>2. CASE ReduceGradients
  <2> SUFFICES ASSUME NEW r \in Ranks PROVE ErrorOK(r, rank'[r])
    BY <1>2, ReduceEffect
  <2>1. rank[r].pc = "reduce" /\ Reduces(rank[r], rank'[r]) /\ ErrorOK(r, rank[r])
    BY <1>2, ReduceEffect
  <2> DEFINE R == rank[r]
             X == rank'[r]
  <2>2. Keeps(R, X, {"grads", "pc"}) /\ X.pc = "apply"
    BY <2>1 DEF Reduces
  <2>3. R.pc = "reduce" /\ ErrorOK(r, R)
    BY <2>1
  <2> HIDE DEF R, X
  <2>4. X.count = R.count /\ X.errors = R.errors /\ X.held = R.held
    BY <2>2, KeepsFields
  <2>5. R.pc \notin ErrorPcs /\ X.pc \notin ErrorPcs
    BY <2>2, <2>3 DEF ErrorPcs
  <2>6. ErrorOK(r, X)
    BY <2>3, <2>4, <2>5, ErrorQuiet
  <2> QED BY <2>6 DEF X
<1>3. CASE SumError
  <2> DEFINE B == conf.monitor.batches
             all == [s \in Ranks |-> rank[s].held[conf.monitor.net]]
  <2>1. PICK q \in Ranks : \A r \in Ranks :
            /\ rank[r].pc = "sum error" /\ rank[r].iter = rank[q].iter /\ rank[r].batch = rank[q].batch
            /\ SumsErrors(rank[r], rank'[r])
    BY <1>3, SumErrorEffect
  <2> DEFINE i == rank[q].iter
             n == rank[q].batch
  <2>2. conf' = conf /\ disk' = disk
    BY <1>3, SumErrorEffect
  <2>3. n \in 0..B /\ B \in Nat /\ (n > 0 \/ n = B)
    <3>1. ErrorOK(q, rank[q]) /\ rank[q].pc = "sum error"
      BY <2>1
    <3> QED BY <1>0, <3>1, BatchNumbers DEF ErrorOK
  <2>4. n > 0 => all = [s \in Ranks |-> <<i, 0, s, n - 1>>]
    <3>1. ASSUME n > 0, NEW s \in Ranks PROVE rank[s].held[conf.monitor.net] = <<i, 0, s, n - 1>>
      <4>1. ErrorOK(s, rank[s]) /\ rank[s].pc = "sum error" /\ rank[s].iter = i /\ rank[s].batch = n
        BY <2>1
      <4> HIDE DEF i, n
      <4> QED BY <3>1, <4>1 DEF ErrorOK
    <3> QED BY <3>1
  <2> SUFFICES ASSUME NEW r \in Ranks PROVE ErrorOK(r, rank'[r])
    BY <2>2
  <2> DEFINE R == rank[r]
             X == rank'[r]
  <2>5. /\ ErrorOK(r, R) /\ R.pc = "sum error" /\ R.iter = i /\ R.batch = n
        /\ Keeps(R, X, {"errors", "pc"}) /\ X.errors = R.errors \o all
        /\ X.pc = IF R.batch = B THEN "judge" ELSE "forward"
    BY <2>1 DEF SumsErrors
  <2> HIDE DEF R, X, all, i, n
  <2>6. X.count = R.count /\ X.held = R.held /\ X.iter = i /\ X.batch = n
    <3>1. Keeps(R, X, {"errors", "pc"}) /\ R.iter = i /\ R.batch = n
      BY <2>5
    <3> QED BY <3>1, KeepsFields
  <2>7. Evaluated(Epoch(X.iter)) /\ CountOf(X, n) /\ DOMAIN X.held = Networks
    BY <2>5, <2>6 DEF ErrorOK, CountOf
  <2>8. n > 0 => ErrorsOf(X, n)
    <3> HAVE n > 0
    <3>1. Lists(R.errors, Batches(i, n - 1))
      BY <2>5 DEF ErrorOK, ErrorsOf
    <3>2. Lists(R.errors \o all, Batches(i, n))
      BY <1>0, <2>3, <2>4, <3>1, BatchesNext
    <3> QED BY <2>5, <2>6, <3>2 DEF ErrorsOf
  <2>9. CASE n = B
    <3>1. X.pc = "judge"
      BY <2>5, <2>9
    <3>2. B > 0 => ErrorsOf(X, B)
      BY <2>8, <2>9
    <3>3. CountOf(X, B)
      BY <2>7, <2>9
    <3>4. ErrorOK(r, X)
      BY <2>7, <3>1, <3>2, <3>3 DEF ErrorOK, ErrorPcs
    <3> QED BY <3>4 DEF X
  <2>10. CASE n # B
    <3>1. X.pc = "forward" /\ n < B /\ n > 0
      <4>1. n < B /\ n > 0
        BY <2>3, <2>10
      <4>2. R.batch = n /\ X.pc = IF R.batch = B THEN "judge" ELSE "forward"
        BY <2>5
      <4> QED BY <2>10, <4>1, <4>2
    <3>2. ErrorsOf(X, X.batch) /\ CountOf(X, X.batch) /\ X.batch \in 0..B /\ X.batch < B
      BY <2>3, <2>6, <2>7, <2>8, <3>1
    <3>3. ErrorOK(r, X)
      BY <2>7, <3>1, <3>2 DEF ErrorOK, ErrorPcs
    <3> QED BY <3>3 DEF X
  <2> QED BY <2>9, <2>10
<1> QED
  BY <1>1, <1>2, <1>3 DEF Together

\* What is reported is what was added up.
LEMMA ErrorReported ==
    ASSUME conf \in Scenarios, PerEpoch # 0, NEW r, NEW R, RankOK(R), ErrorOK(r, R), R.pc = "report"
    PROVE  ErrorEntry(Entry(R))
<1> DEFINE e == Entry(R)
           B == conf.monitor.batches
           batches == IF Evaluated(e.epoch) THEN 0..(B - 1) ELSE {}
           k == e.epoch * PerEpoch - 1
           all == {<<k, 0, s, b>> : s \in Ranks, b \in batches}
<1>1. e.epoch = Epoch(R.iter) /\ e.count = R.count /\ e.errors = R.errors
  BY DEF Entry
<1>2. k = R.iter
  <2>1. EndsEpoch(R.iter) /\ R.iter \in Nat
    BY RankNumbers DEF RankOK, Trained, EndingEpoch
  <2>2. PerEpoch \in Nat \ {0} /\ e.epoch = R.iter \div PerEpoch + 1
    BY <1>1, Project DEF Epoch
  <2>3. e.epoch * PerEpoch = R.iter + 1
    BY <2>1, <2>2, LastOfEpoch DEF EndsEpoch
  <2> QED BY <2>1, <2>3
<1> HIDE DEF e, k
<1>3. B \in Nat /\ Size \in Nat \ {0}
  BY BatchNumbers
<1>4. IF Evaluated(Epoch(R.iter)) THEN CountOf(R, B) /\ (B > 0 => ErrorsOf(R, B)) ELSE R.count = 0
  BY DEF ErrorOK
<1>5. CASE Evaluated(e.epoch)
  <2>1. batches = 0..(B - 1) /\ Cardinality(batches) = B
    <3>1. Cardinality(0..(B - 1)) = B
      <4>1. 0 \in Int /\ B - 1 \in Int /\ (IF 0 > B - 1 THEN 0 ELSE (B - 1) - 0 + 1) = B
        BY <1>3
      <4> QED BY <1>3, <4>1, FS_Interval
    <3> QED BY <1>5, <3>1
  <2>2. all = Batches(R.iter, B)
    <3> HIDE DEF batches, B
    <3>1. all = {<<R.iter, 0, s, b>> : s \in Ranks, b \in 0..(B - 1)}
      BY <1>2, <2>1
    <3> USE DEF B
    <3> QED BY <3>1 DEF Batches
  <2>3. e.count = B * Size
    BY <1>1, <1>4, <1>5 DEF CountOf
  <2>4. ASSUME e.count > 0 PROVE Distinct(e.errors) /\ Elements(e.errors) = all
    <3>1. B > 0
      BY <1>3, <2>3, <2>4
    <3>2. Lists(e.errors, Batches(R.iter, B))
      BY <1>1, <1>4, <1>5, <3>1 DEF ErrorsOf
    <3> QED BY <2>2, <3>2, ListsDistinct
  <2> QED BY <2>1, <2>3, <2>4 DEF ErrorEntry, e, k
<1>6. CASE ~Evaluated(e.epoch)
  <2>1. batches = {} /\ e.count = 0
    BY <1>1, <1>4, <1>6
  <2>2. Cardinality(batches) * Size = 0 /\ ~(e.count > 0)
    <3>1. Cardinality(batches) = 0
      BY <2>1, FS_EmptySet
    <3> QED BY <1>3, <2>1, <3>1
  <2> QED BY <2>1, <2>2 DEF ErrorEntry, e
<1> QED
  BY <1>5, <1>6

\* An entry is added to the report.
LEMMA ReportGrows ==
    ASSUME NEW q, NEW S, q \in Seq(S), NEW e
    PROVE  Append(q, e) \in Seq(S \cup {e})
<1>1. q \in Seq(S \cup {e})
  OBVIOUS
<1> QED
  BY <1>1

\* Every process starts with none.
LEMMA FreshError ==
    ASSUME NEW r
    PROVE  ErrorOK(r, Fresh)
BY DEF Fresh, ErrorOK, ErrorPcs

\* Every step keeps it.
LEMMA ErrorNext ==
    ASSUME TrainInv, ErrorInv, [Next]_vars
    PROVE  ErrorInv'
<1>0. conf \in Scenarios /\ \A r \in Ranks : RankOK(rank[r])
  BY DEF TrainInv, CacheInv, PrepOK, RankInv
<1>1. conf' = conf
  BY NextEffect
<1>2. Ranks' = Ranks /\ PerEpoch' = PerEpoch
  BY <1>1, SameProject
<1>3. ASSUME PerEpoch # 0 => \A r \in Ranks : ErrorOK(r, rank'[r]),
             \E S : disk'.report \in Seq(S) /\ \A e \in S : ErrorEntry(e)
      PROVE  ErrorInv'
  BY <1>1, <1>2, <1>3, SameError DEF ErrorInv
<1>4. ASSUME NEW r \in Ranks, Train(r) PROVE ErrorInv'
  <2>1. PerEpoch # 0 => \A s \in Ranks : ErrorOK(s, rank'[s])
    <3> SUFFICES ASSUME PerEpoch # 0, NEW s \in Ranks PROVE ErrorOK(s, rank'[s])
      OBVIOUS
    <3>1. CASE s # r
      <4>1. rank'[s] = rank[s]
        BY <1>4, <3>1, TrainEffect
      <4> QED BY <4>1 DEF ErrorInv
    <3>2. CASE s = r
      <4>1. Effect(r, rank[r], rank'[r]) /\ RankOK(rank[r]) /\ ErrorOK(r, rank[r])
        BY <1>0, <1>4, TrainEffect DEF ErrorInv
      <4> QED BY <1>0, <3>2, <4>1, ErrorLocal
    <3> QED BY <3>1, <3>2
  <2>2. PICK S : disk.report \in Seq(S) /\ \A e \in S : ErrorEntry(e)
    BY DEF ErrorInv
  <2>3. CASE disk'.report = disk.report
    BY <1>3, <2>1, <2>2, <2>3
  <2>4. CASE r = 1 /\ rank[r].pc = "report" /\ disk'.report = Append(disk.report, Entry(rank[r]))
    <3> DEFINE e == Entry(rank[r])
    <3>1. PerEpoch # 0
      BY <1>0, <2>4 DEF RankOK, Untrained
    <3>2. ErrorEntry(e)
      <4>1. RankOK(rank[r]) /\ ErrorOK(r, rank[r]) /\ rank[r].pc = "report"
        BY <1>0, <2>4, <3>1 DEF ErrorInv
      <4> QED BY <1>0, <3>1, <4>1, ErrorReported
    <3> HIDE DEF e
    <3>3. disk'.report \in Seq(S \cup {e})
      BY <2>2, <2>4, ReportGrows DEF e
    <3>4. \A f \in S \cup {e} : ErrorEntry(f)
      BY <2>2, <3>2
    <3> QED BY <1>3, <2>1, <3>3, <3>4
  <2> QED BY <1>4, <2>3, <2>4, TrainEffect
<1>5. CASE Together
  <2>1. PerEpoch # 0
    <3>1. PICK r \in Ranks : rank[r].pc \in {"sum cost", "reduce", "sum error"}
      BY <1>5 DEF Together, SumCost, ReduceGradients, SumError, At
    <3> QED BY <1>0, <3>1 DEF RankOK, Untrained
  <2>2. disk' = disk /\ \A r \in Ranks : ErrorOK(r, rank'[r])
    BY <1>5, <2>1, ErrorTogether DEF ErrorInv
  <2> QED BY <1>3, <2>2 DEF ErrorInv
<1>6. CASE UNCHANGED <<rank, disk>>
  BY <1>3, <1>6 DEF ErrorInv
<1>7. CASE rank' = [r \in Ranks |-> Fresh] /\ UNCHANGED disk
  <2>1. \A r \in Ranks : ErrorOK(r, rank'[r])
    BY <1>7, FreshError
  <2> QED BY <1>3, <1>7, <2>1 DEF ErrorInv
<1> QED
  BY <1>4, <1>5, <1>6, <1>7, NextEffect

\* The error in monitoring_report.yml is that of every batch of the evaluation on every rank,
\* each once, over as many, for any number of ranks, batches, epochs and crashes (_evaluate).
THEOREM ErrorHolds == Spec => []ErrorIsExact
<1>1. Init => ErrorInv
  <2> SUFFICES ASSUME Init PROVE ErrorInv
    OBVIOUS
  <2>1. \A r \in Ranks : rank[r] = Fresh
    BY DEF Init
  <2>2. disk.report \in Seq({})
    BY DEF Init
  <2> QED BY <2>1, <2>2, FreshError DEF ErrorInv
<1>2. TrainInv /\ ErrorInv /\ [Next]_vars => ErrorInv'
  BY ErrorNext
<1>3. ErrorInv => ErrorIsExact
  <2> SUFFICES ASSUME ErrorInv PROVE ErrorIsExact
    OBVIOUS
  <2>1. PICK S : disk.report \in Seq(S) /\ \A e \in S : ErrorEntry(e)
    BY DEF ErrorInv
  <2>2. \A n \in DOMAIN disk.report : ErrorEntry(disk.report[n])
    BY <2>1
  <2>3. ErrorIsExact <=> \A n \in DOMAIN disk.report : ErrorEntry(disk.report[n])
    BY DEF ErrorIsExact, ErrorEntry
  <2> QED BY <2>2, <2>3
<1> QED
  BY <1>1, <1>2, <1>3, TrainAlways, PTL DEF Spec

-----------------------------------------------------------------------------
(* The cost of an epoch. *)

\* The optimizers that ran in the epoch of an iteration before one of its turns.
FirstOf(iter) == (iter \div PerEpoch) * PerEpoch
Ran(iter, turn) ==
    {x \in (FirstOf(iter)..iter) \X Turns : Active(Opt(x[2]), x[1]) /\ Past(x[1], x[2], iter, turn)}

\* Their losses on all ranks, on one, and of which of them a sum is.
Losses(P) == {Token(x[1], x[2], s) : x \in P, s \in Ranks}
Own(P, r) == {Token(x[1], x[2], r) : x \in P}
Pairs(sum) == {<<sum[j][1], sum[j][2]>> : j \in DOMAIN sum}

\* The loss that is held until the next optimizer runs.
Waiting(R) == R.pending # 0 /\ R.pc \in {"turn", "updated", "failed"}
Held(R) == R.held[Opt(R.pending).net]
Waited(R) == IF Waiting(R) THEN {<<Held(R)[1], R.pending>>} ELSE {}

\* The optimizer at work has run when its loss is reserved; its loss comes with its forward.
TurnAfter(R) == IF R.pc \in InTurn THEN R.turn + 1 ELSE R.turn

\* How often the ranks have added up their losses when these have run.
Iterations(P) == {x[1] : x \in P}
One(P) == IF \E x \in P : \A y \in P : y = x \/ x[1] < y[1] THEN 1 ELSE 0
Additions(P) == Cardinality(Iterations(P)) - One(P)

\* Not yet in this iteration.
Unadded(iter, P) == iter \notin Iterations(P) \/ \E x : P = {x}

Learning == {"turn", "sum cost", "updated", "failed"} \cup InTurn
AtEnd(R) == R.pc \in {"updated", "failed"} /\ EndsEpoch(R.iter)

\* Of the losses of P a rank has those of P but W, on all ranks in one sum and its own in another.
SumsTo(sum, own, P, W, r) ==
    LET S == Pairs(sum)
    IN  /\ S \subseteq P /\ Lists(sum, Losses(S))
        /\ W \subseteq P \ S
        /\ Lists(own, Own(P \ (S \cup W), r))

SumOK(r, R) ==
    LET P == Ran(R.iter, R.turn)
    IN  /\ SumsTo(R.sumEpoch, R.sumIteration, P, Waited(R), r)
        /\ Waiting(R) => Held(R) = Token(Held(R)[1], R.pending, r)
        /\ R.pc \in {"reduce", "apply", "reserve"} =>
                R.held[Opt(R.turn).net] = Token(R.iter, R.turn, r)
        /\ IF AtEnd(R) THEN R.pending = 0 /\ R.sumIteration = <<>>
                       ELSE R.pending = 0 <=> P = {}

NumberOK(R) ==
    LET P == Ran(R.iter, R.turn)
        A == Ran(R.iter, TurnAfter(R))
        end == IF AtEnd(R) /\ P # {} THEN 1 ELSE 0
    IN  /\ R.numIteration = (Additions(A) + end) * Size
        /\ R.pc \in {"turn"} \cup InTurn => (R.first <=> Unadded(R.iter, A))
        /\ R.pc = "sum cost" => P # {}
        /\ R.pc = "sum cost" /\ R.turn \in Turns => ~R.first /\ Unadded(R.iter, P)

\* The cost of an epoch that is over.
AverageOK(average, iter) ==
    LET P == Ran(iter, Number + 1)
    IN  /\ Lists(average[1], Losses(P))
        /\ average[2] = (Additions(P) + (IF P # {} THEN 1 ELSE 0)) * Size

CostOK(r, R) ==
    /\ DOMAIN R.held = Networks
    /\ R.pc \in Learning => SumOK(r, R) /\ NumberOK(R)
    /\ R.pc \notin Learning =>
            R.sumEpoch = <<>> /\ R.sumIteration = <<>> /\ R.numIteration = 0 /\ R.pending = 0
    /\ R.pc = "start" => R.first = TRUE
    /\ R.pc \in ErrorPcs => AverageOK(R.average, R.iter)

\* The epoch a rank adds up, the next one when it has ended its own.
Stage(R) ==
    R.iter \div PerEpoch + (IF R.pc \in EndingEpoch \cup {"done", "stopped"} THEN 1 ELSE 0)

\* Ranks add up together.
Agree(R, S) ==
    /\ Stage(R) = Stage(S) => R.sumEpoch = S.sumEpoch
    /\ Stage(R) < Stage(S) => S.sumEpoch = <<>>
    /\ R.pc \in {"start", "broken"} => S.sumEpoch = <<>>

\* An entry of the report with the cost of its epoch.
TurnsOf(i) == {k \in Turns : Active(Opt(k), i)}
Worked(epoch) ==
    {i \in ((epoch - 1) * PerEpoch)..(epoch * PerEpoch - 1) : \E k \in Turns : Active(Opt(k), i)}
More(iters) == IF iters # {} /\ Cardinality(TurnsOf(Min(iters))) > 1 THEN 1 ELSE 0
CostEntry(e) ==
    /\ Distinct(e.sum)
    /\ Elements(e.sum) = UNION {{Token(i, k, r) : k \in TurnsOf(i), r \in Ranks} : i \in Worked(e.epoch)}
    /\ e.number = (Cardinality(Worked(e.epoch)) + More(Worked(e.epoch))) * Size

CostInv ==
    /\ PerEpoch # 0 => /\ \A r \in Ranks : CostOK(r, rank[r])
                       /\ \A r, s \in Ranks : Agree(rank[r], rank[s])
    /\ \E S : disk.report \in Seq(S) /\ \A e \in S : CostEntry(e)

\* The same project, the same costs.
LEMMA SameCost ==
    ASSUME conf' = conf
    PROVE  /\ \A r, R : CostOK(r, R)' <=> CostOK(r, R)
           /\ \A R, S : Agree(R, S)' <=> Agree(R, S)
           /\ \A e : CostEntry(e)' <=> CostEntry(e)
<1>1. /\ Ranks' = Ranks /\ Turns' = Turns /\ PerEpoch' = PerEpoch /\ Size' = Size /\ Number' = Number
      /\ \A k : Opt(k)' = Opt(k)
  BY SameProject DEF Size
<1>2. Networks' = Networks /\ \A i : EndsEpoch(i)' <=> EndsEpoch(i)
  BY <1>1 DEF Networks, EndsEpoch
<1>3. \A i, k : Ran(i, k)' = Ran(i, k)
  BY <1>1 DEF Ran, FirstOf
<1>4. \A q, o, P, W, r : SumsTo(q, o, P, W, r)' <=> SumsTo(q, o, P, W, r)
  BY <1>1 DEF SumsTo, Losses
<1>5. \A R : /\ Held(R)' = Held(R) /\ Waited(R)' = Waited(R)
             /\ AtEnd(R)' <=> AtEnd(R)
  BY <1>1, <1>2 DEF Held, Waited, AtEnd
<1>6. \A r, R : SumOK(r, R)' <=> SumOK(r, R)
  <2> SUFFICES ASSUME NEW r, NEW R PROVE SumOK(r, R)' <=> SumOK(r, R)
    OBVIOUS
  <2>1. SumsTo(R.sumEpoch, R.sumIteration, Ran(R.iter, R.turn), Waited(R), r)'
            <=> SumsTo(R.sumEpoch, R.sumIteration, Ran(R.iter, R.turn), Waited(R), r)
    BY <1>3, <1>4, <1>5
  <2> QED BY <1>1, <1>3, <1>5, <2>1 DEF SumOK
<1>7. \A R : NumberOK(R)' <=> NumberOK(R)
  BY <1>1, <1>3, <1>5 DEF NumberOK
<1>8. \A a, i : AverageOK(a, i)' <=> AverageOK(a, i)
  BY <1>1, <1>3 DEF AverageOK, Losses
<1>9. \A r, R : CostOK(r, R)' <=> CostOK(r, R)
  BY <1>2, <1>6, <1>7, <1>8 DEF CostOK, ErrorPcs
<1>10. \A R, S : Agree(R, S)' <=> Agree(R, S)
  BY <1>1 DEF Agree, Stage
<1>11. \A e : CostEntry(e)' <=> CostEntry(e)
  <2>1. (\A i : TurnsOf(i)' = TurnsOf(i)) /\ \A e : Worked(e)' = Worked(e)
    BY <1>1 DEF TurnsOf, Worked
  <2>2. \A I : More(I)' = More(I)
    BY <2>1 DEF More
  <2> QED BY <1>1, <2>1, <2>2 DEF CostEntry
<1> QED
  BY <1>9, <1>10, <1>11

\* The losses of several optimizers, one by one.
LEMMA SumMonitor ==
    ASSUME NEW q, NEW own, NEW P, NEW w, NEW r, SumsTo(q, own, P, {w}, r), \A x \in P : x = <<x[1], x[2]>>
    PROVE  SumsTo(q, Append(own, Token(w[1], w[2], r)), P, {}, r)
<1> DEFINE S == Pairs(q)
           T == P \ (S \cup {w})
           U == P \ (S \cup {})
           t == Token(w[1], w[2], r)
<1>1. S \subseteq P /\ Lists(q, Losses(S)) /\ w \in P \ S /\ Lists(own, Own(T, r))
  BY DEF SumsTo
<1> HIDE DEF S
<1>2. t \notin Own(T, r)
  <2>1. \A x \in T : x = <<x[1], x[2]>> /\ x # w /\ w = <<w[1], w[2]>>
    BY <1>1
  <2>2. \A x \in T : Token(x[1], x[2], r) # t
    BY <2>1 DEF Token
  <2> HIDE DEF T, t
  <2> QED BY <2>2 DEF Own
<1>3. Own(U, r) = Own(T, r) \cup {t}
  <2>1. U = T \cup {w}
    BY <1>1
  <2> HIDE DEF T, U
  <2> QED BY <2>1 DEF Own
<1> HIDE DEF T, U, t
<1>4. Lists(Append(own, t), Own(U, r))
  BY <1>1, <1>2, <1>3, ListsAppend
<1> QED
  BY <1>1, <1>4 DEF SumsTo, S, U, t

\* The loss of one more waits.
LEMMA SumReserve ==
    ASSUME NEW q, NEW own, NEW P, NEW x, NEW r, SumsTo(q, own, P, {}, r), x \notin P
    PROVE  SumsTo(q, own, P \cup {x}, {x}, r)
<1> DEFINE S == Pairs(q)
<1>1. S \subseteq P /\ Lists(q, Losses(S)) /\ Lists(own, Own(P \ (S \cup {}), r))
  BY DEF SumsTo
<1> HIDE DEF S
<1>2. P \ (S \cup {}) = (P \cup {x}) \ (S \cup {x}) /\ {x} \subseteq (P \cup {x}) \ S /\ S \subseteq P \cup {x}
  BY <1>1
<1> QED
  BY <1>1, <1>2 DEF SumsTo, S

\* What a sum of losses is of.
LEMMA PairsOf ==
    ASSUME NEW q, NEW P, Lists(q, Losses(P)), \A x \in P : x = <<x[1], x[2]>>, Ranks # {}
    PROVE  Pairs(q) = P
<1>1. ASSUME NEW j \in DOMAIN q PROVE <<q[j][1], q[j][2]>> \in P
  <2>1. q[j] \in Losses(P)
    BY DEF Lists
  <2>2. PICK x \in P, s \in Ranks : q[j] = <<x[1], x[2], s>>
    BY <2>1 DEF Losses, Token
  <2>3. q[j][1] = x[1] /\ q[j][2] = x[2] /\ x = <<x[1], x[2]>>
    BY <2>2
  <2> QED BY <2>3
<1>2. ASSUME NEW x \in P PROVE \E j \in DOMAIN q : x = <<q[j][1], q[j][2]>>
  <2>1. PICK s \in Ranks : TRUE
    OBVIOUS
  <2>2. <<x[1], x[2], s>> \in Losses(P)
    BY DEF Losses, Token
  <2>3. PICK j \in DOMAIN q : q[j] = <<x[1], x[2], s>>
    BY <2>2 DEF Lists
  <2>4. q[j][1] = x[1] /\ q[j][2] = x[2] /\ x = <<x[1], x[2]>>
    BY <2>3
  <2> QED BY <2>4
<1> QED
  BY <1>1, <1>2 DEF Pairs

\* All ranks add up what they have of the same P.
LEMMA SumTogether ==
    ASSUME conf \in Scenarios, NEW q, NEW own, NEW P, \A x \in P : x = <<x[1], x[2]>>,
           \A s \in Ranks : SumsTo(q, own[s], P, {}, s),
           NEW r
    PROVE  /\ Lists(q \o Concat([s \in Ranks |-> own[s]]), Losses(P))
           /\ SumsTo(q \o Concat([s \in Ranks |-> own[s]]), <<>>, P, {}, r)
<1>1. Size \in Nat \ {0} /\ Ranks = 1..Size /\ 1 \in Ranks
  BY RanksAre
<1> DEFINE S == Pairs(q)
           F == [s \in Ranks |-> Own(P \ S, s)]
           seqs == [s \in Ranks |-> own[s]]
           all == q \o Concat(seqs)
<1>2. S \subseteq P /\ Lists(q, Losses(S)) /\ \A s \in Ranks : Lists(own[s], Own(P \ S, s))
  <2>1. \A s \in Ranks : S \subseteq P /\ Lists(q, Losses(S)) /\ Lists(own[s], Own(P \ (S \cup {}), s))
    BY DEF SumsTo
  <2>2. P \ (S \cup {}) = P \ S
    OBVIOUS
  <2> HIDE DEF S
  <2> QED BY <1>1, <2>1, <2>2
<1> HIDE DEF S
<1>3. Lists(Concat(seqs), UNION {F[s] : s \in 1..Size})
  <2>1. \A s \in 1..Size : Lists(seqs[s], F[s])
    BY <1>1, <1>2
  <2>2. \A s, t \in 1..Size : s # t => F[s] \cap F[t] = {}
    <3>1. \A s, t, x, y : s # t => Token(x[1], x[2], s) # Token(y[1], y[2], t)
      BY DEF Token
    <3>2. \A s \in 1..Size : \A z \in F[s] : \E x : z = Token(x[1], x[2], s)
      BY <1>1 DEF Own
    <3> HIDE DEF F
    <3> SUFFICES ASSUME NEW s \in 1..Size, NEW t \in 1..Size, s # t, NEW z \in F[s], z \in F[t] PROVE FALSE
      OBVIOUS
    <3>3. PICK x : z = Token(x[1], x[2], s)
      BY <3>2
    <3>4. PICK y : z = Token(y[1], y[2], t)
      BY <3>2
    <3> QED BY <3>1, <3>3, <3>4
  <2>3. DOMAIN seqs = 1..Size
    BY <1>1
  <2> HIDE DEF F, seqs
  <2> QED BY <1>1, <2>1, <2>2, <2>3, ConcatLists
<1>4. UNION {F[s] : s \in 1..Size} = Losses(P \ S)
  BY <1>1 DEF Own, Losses
<1>5. Losses(S) \cap Losses(P \ S) = {} /\ Losses(S) \cup Losses(P \ S) = Losses(P)
  <2>1. \A x, y \in P : \A s, t : Token(x[1], x[2], s) = Token(y[1], y[2], t) => x = y
    BY DEF Token
  <2>2. Losses(S) \cap Losses(P \ S) = {}
    <3> SUFFICES ASSUME NEW z \in Losses(S), z \in Losses(P \ S) PROVE FALSE
      OBVIOUS
    <3>1. PICK x \in S, s \in Ranks : z = Token(x[1], x[2], s)
      BY DEF Losses
    <3>2. PICK y \in P \ S, t \in Ranks : z = Token(y[1], y[2], t)
      BY DEF Losses
    <3>3. x = y
      BY <1>2, <2>1, <3>1, <3>2
    <3> QED BY <3>1, <3>2, <3>3
  <2>3. P = S \cup (P \ S)
    BY <1>2
  <2>4. Losses(S) \cup Losses(P \ S) = Losses(P)
    BY <2>3 DEF Losses
  <2> QED BY <2>2, <2>4
<1> HIDE DEF F
<1>6. Lists(all, Losses(P))
  <2>1. Lists(Concat(seqs), Losses(P \ S))
    BY <1>3, <1>4
  <2> HIDE DEF seqs
  <2>2. Lists(q \o Concat(seqs), Losses(S) \cup Losses(P \ S))
    BY <1>2, <1>5, <2>1, ListsConcat
  <2> QED BY <1>5, <2>2
<1> HIDE DEF all
<1>7. Pairs(all) = P
  BY <1>1, <1>6, PairsOf
<1>8. Lists(<<>>, Own(P \ (P \cup {}), r))
  <2>1. Own(P \ (P \cup {}), r) = {}
    BY DEF Own
  <2> QED BY <2>1 DEF Lists
<1>9. SumsTo(all, <<>>, P, {}, r)
  BY <1>6, <1>7, <1>8 DEF SumsTo
<1> QED
  BY <1>6, <1>9 DEF all

\* Nothing has been added up of nothing.
LEMMA SumNone ==
    ASSUME NEW r
    PROVE  SumsTo(<<>>, <<>>, {}, {}, r)
<1>1. Pairs(<<>>) = {}
  BY DEF Pairs
<1>2. Losses({}) = {} /\ Own({} \ ({} \cup {}), r) = {}
  BY DEF Losses, Own
<1>3. Lists(<<>>, {})
  BY DEF Lists
<1> QED
  BY <1>1, <1>2, <1>3 DEF SumsTo

\* Products with the number of ranks.
LEMMA TimesNext ==
    \A a \in Int, b \in Int, n \in Int : (a + b) * n = a * n + b * n
OBVIOUS

\* The first iteration of an epoch.
LEMMA EpochBegins ==
    ASSUME NEW p \in Nat \ {0}
    PROVE  /\ \A n \in Nat : (n \div p) * p \in 0..n /\ n \div p \in Nat
           /\ \A m \in Nat : ((m * p) \div p) * p = m * p /\ (m * p) \div p = m
           /\ \A n \in Nat : n % p # p - 1 => (n + 1) \div p = n \div p
           /\ \A n \in Nat : n % p = p - 1 => (n + 1) \div p = n \div p + 1
<1>0. \A n, q, t : n \in Nat /\ q \in Nat /\ t \in 0..(p - 1) /\ n = p * q + t => n \div p = q
  <2> SUFFICES ASSUME NEW n \in Nat, NEW q \in Nat, NEW t \in 0..(p - 1), n = p * q + t
               PROVE  n \div p = q
    OBVIOUS
  <2> DEFINE d == n \div p
             u == n % p
  <2>1. d \in Nat /\ u \in 0..(p - 1) /\ n = p * d + u
    BY Division
  <2> HIDE DEF d, u
  <2>2. CASE d < q
    <3>1. (d + 1) * p <= q * p
      BY <2>1, <2>2, Times
    <3> QED BY <2>1, <3>1
  <2>3. CASE q < d
    <3>1. (q + 1) * p <= d * p
      BY <2>1, <2>3, Times
    <3> QED BY <2>1, <3>1
  <2> QED BY <2>1, <2>2, <2>3 DEF d
<1>1. \A n \in Nat : (n \div p) * p \in 0..n /\ n \div p \in Nat
  <2> SUFFICES ASSUME NEW n \in Nat PROVE (n \div p) * p \in 0..n /\ n \div p \in Nat
    OBVIOUS
  <2> DEFINE d == n \div p
             u == n % p
  <2>1. d \in Nat /\ u \in 0..(p - 1) /\ n = p * d + u
    BY Division
  <2> HIDE DEF d, u
  <2>2. d * p = p * d /\ d * p \in Nat
    BY <2>1
  <2>3. d * p \in 0..n
    BY <2>1, <2>2
  <2> QED BY <2>1, <2>3 DEF d
<1>2. \A m \in Nat : (m * p) \div p = m
  <2> SUFFICES ASSUME NEW m \in Nat PROVE (m * p) \div p = m
    OBVIOUS
  <2>1. m * p \in Nat /\ m * p = p * m + 0 /\ 0 \in 0..(p - 1)
    OBVIOUS
  <2> QED BY <1>0, <2>1
<1>3. \A n \in Nat : n % p # p - 1 => (n + 1) \div p = n \div p
  <2> SUFFICES ASSUME NEW n \in Nat, n % p # p - 1 PROVE (n + 1) \div p = n \div p
    OBVIOUS
  <2> DEFINE d == n \div p
             u == n % p
  <2>1. d \in Nat /\ u \in 0..(p - 1) /\ n = p * d + u /\ u # p - 1
    BY Division
  <2> HIDE DEF d, u
  <2>2. u + 1 \in 0..(p - 1) /\ n + 1 = p * d + (u + 1) /\ n + 1 \in Nat
    BY <2>1
  <2> QED BY <1>0, <2>1, <2>2 DEF d
<1>4. \A n \in Nat : n % p = p - 1 => (n + 1) \div p = n \div p + 1
  <2> SUFFICES ASSUME NEW n \in Nat, n % p = p - 1 PROVE (n + 1) \div p = n \div p + 1
    OBVIOUS
  <2>1. (n \div p + 1) * p = n + 1
    BY LastOfEpoch
  <2>2. n \div p + 1 \in Nat
    BY <1>1
  <2>3. ((n \div p + 1) * p) \div p = n \div p + 1
    BY <1>2, <2>2
  <2> QED BY <2>1, <2>3
<1> QED
  BY <1>1, <1>2, <1>3, <1>4

\* What ran is so many pairs.
LEMMA RanTyped ==
    ASSUME conf \in Scenarios, PerEpoch # 0, NEW iter \in Nat, NEW turn
    PROVE  /\ IsFiniteSet(Ran(iter, turn))
           /\ FirstOf(iter) \in 0..iter
           /\ \A x \in Ran(iter, turn) :
                /\ x = <<x[1], x[2]>> /\ x[1] \in FirstOf(iter)..iter /\ x[1] \in Nat /\ x[1] <= iter
                /\ x[2] \in Turns /\ Active(Opt(x[2]), x[1]) /\ Past(x[1], x[2], iter, turn)
<1>1. FirstOf(iter) \in 0..iter
  BY Project, EpochBegins DEF FirstOf
<1>2. IsFiniteSet((FirstOf(iter)..iter) \X Turns)
  <2>1. IsFiniteSet(FirstOf(iter)..iter)
    BY <1>1, FS_Interval
  <2>2. IsFiniteSet(Turns)
    BY Project, FS_Interval
  <2> QED BY <2>1, <2>2, FS_Product
<1>3. IsFiniteSet(Ran(iter, turn))
  BY <1>2, FS_Subset DEF Ran
<1>4. \A i : i \in FirstOf(iter)..iter => i \in Nat /\ i <= iter
  BY <1>1
<1> QED
  BY <1>1, <1>3, <1>4 DEF Ran

\* A turn that is passed over, and one that runs.
LEMMA RanTurn ==
    ASSUME conf \in Scenarios, PerEpoch # 0, NEW iter \in Nat, NEW turn \in Turns
    PROVE  /\ ~Active(Opt(turn), iter) => Ran(iter, turn + 1) = Ran(iter, turn)
           /\ Active(Opt(turn), iter) => Ran(iter, turn + 1) = Ran(iter, turn) \cup {<<iter, turn>>}
           /\ <<iter, turn>> \notin Ran(iter, turn)
<1>1. turn \in Nat /\ Turns \subseteq Nat
  BY Project
<1>2. \A i, k : k \in Turns => (Past(i, k, iter, turn + 1) <=> Past(i, k, iter, turn) \/ (i = iter /\ k = turn))
  BY <1>1 DEF Past
<1>3. ~Past(iter, turn, iter, turn)
  BY <1>1 DEF Past
<1>4. iter \in FirstOf(iter)..iter
  BY RanTyped
<1>5. ASSUME ~Active(Opt(turn), iter) PROVE Ran(iter, turn + 1) = Ran(iter, turn)
  BY <1>2, <1>5 DEF Ran
<1>6. ASSUME Active(Opt(turn), iter) PROVE Ran(iter, turn + 1) = Ran(iter, turn) \cup {<<iter, turn>>}
  <2>1. \A x \in (FirstOf(iter)..iter) \X Turns :
            x \in Ran(iter, turn + 1) <=> x \in Ran(iter, turn) \/ x = <<iter, turn>>
    BY <1>2, <1>6 DEF Ran
  <2>2. <<iter, turn>> \in (FirstOf(iter)..iter) \X Turns
    BY <1>4
  <2> QED BY <2>1, <2>2 DEF Ran
<1>7. <<iter, turn>> \notin Ran(iter, turn)
  BY <1>3 DEF Ran
<1> QED
  BY <1>5, <1>6, <1>7

\* From one iteration to the next, and to the next epoch.
LEMMA RanIteration ==
    ASSUME conf \in Scenarios, PerEpoch # 0, NEW iter \in Nat
    PROVE  /\ ~EndsEpoch(iter) => Ran(iter + 1, 1) = Ran(iter, Number + 1)
           /\ EndsEpoch(iter) => Ran(iter + 1, 1) = {}
           /\ FirstOf(iter) = iter => Ran(iter, 1) = {}
<1>1. PerEpoch \in Nat \ {0} /\ Number \in Nat /\ Turns = 1..Number
  BY Project
<1>2. ASSUME NEW i \in Nat, FirstOf(i) = i PROVE Ran(i, 1) = {}
  <2>1. \A j, k : j \in i..i /\ k \in Turns => ~Past(j, k, i, 1)
    BY <1>1 DEF Past
  <2> QED BY <1>2, <2>1 DEF Ran
<1>3. ASSUME EndsEpoch(iter) PROVE Ran(iter + 1, 1) = {}
  <2>1. FirstOf(iter + 1) = iter + 1
    BY <1>1, <1>3, LastOfEpoch, EpochBegins DEF FirstOf, EndsEpoch
  <2> QED BY <1>2, <2>1
<1>4. ASSUME ~EndsEpoch(iter) PROVE Ran(iter + 1, 1) = Ran(iter, Number + 1)
  <2>1. FirstOf(iter + 1) = FirstOf(iter)
    BY <1>1, <1>4, EpochBegins DEF FirstOf, EndsEpoch
  <2>2. FirstOf(iter) \in 0..iter
    BY RanTyped
  <2> DEFINE f == FirstOf(iter)
  <2> HIDE DEF f
  <2>3. \A i, k : k \in Turns =>
            (i \in f..(iter + 1) /\ Past(i, k, iter + 1, 1) <=> i \in f..iter /\ Past(i, k, iter, Number + 1))
    <3>0. f \in 0..iter
      BY <2>2 DEF f
    <3>1. \A k : k \in Turns => k \in Nat /\ ~(k < 1) /\ k < Number + 1
      BY <1>1
    <3> QED BY <1>1, <3>0, <3>1 DEF Past
  <2>4. FirstOf(iter + 1) = f /\ FirstOf(iter) = f
    BY <2>1 DEF f
  <2>5. \A x : x \in Ran(iter + 1, 1) <=> x \in Ran(iter, Number + 1)
    BY <2>3, <2>4 DEF Ran
  <2> QED BY <2>5
<1> QED
  BY <1>2, <1>3, <1>4

\* One more addition, unless the loss is the first, or another of this iteration was there.
LEMMA AdditionsRun ==
    ASSUME NEW P, IsFiniteSet(P), NEW iter \in Nat, NEW turn, <<iter, turn>> \notin P,
           \A x \in P : x = <<x[1], x[2]>> /\ x[1] \in Nat /\ x[1] <= iter
    PROVE  LET A == P \cup {<<iter, turn>>}
           IN  /\ Additions(P) \in Int
               /\ Additions(A) = Additions(P) + (IF P # {} /\ Unadded(iter, P) THEN 1 ELSE 0)
               /\ Unadded(iter, A) <=> P = {}
               /\ Additions({}) = 0
<1> DEFINE z == <<iter, turn>>
           A == P \cup {z}
           I == Iterations(P)
<1>1. IsFiniteSet(I) /\ Cardinality(I) \in Nat
  <2>1. IsFiniteSet(I)
    <3> DEFINE f == [x \in P |-> x[1]]
    <3>1. f \in Surjection(P, I)
      BY DEF Surjection, Iterations
    <3> QED BY <3>1, FS_Surjection
  <2> QED BY <2>1, FS_CardinalityType
<1>2. Iterations(A) = I \cup {iter}
  BY DEF Iterations
<1>3. Cardinality(I \cup {iter}) = IF iter \in I THEN Cardinality(I) ELSE Cardinality(I) + 1
  BY <1>1, FS_AddElement
<1>4. Iterations({}) = {} /\ One({}) = 0 /\ Cardinality({}) = 0
  BY FS_EmptySet DEF Iterations, One
<1>5. One(P) \in {0, 1} /\ One(A) \in {0, 1}
  BY DEF One
<1>6. iter \in I <=> \E x \in P : x[1] = iter
  BY DEF Iterations
<1>7. z[1] = iter /\ \A x \in P : x # z
  OBVIOUS
<1> HIDE DEF z, I
<1>8. CASE P = {}
  <2>1. A = {z} /\ One(A) = 1
    BY <1>8 DEF One
  <2>2. I = {}
    BY <1>8, <1>6, <1>4 DEF I
  <2>3. Cardinality(Iterations(A)) = 1
    <3>1. iter \notin I /\ Cardinality(I) = 0
      BY <1>4, <2>2
    <3> QED BY <1>2, <1>3, <3>1
  <2>4. Unadded(iter, A)
    BY <2>1 DEF Unadded
  <2>5. Additions(A) = 0 /\ Additions(P) = 0 /\ Additions({}) = 0
    BY <1>4, <1>8, <2>1, <2>3 DEF Additions
  <2> QED BY <1>8, <2>4, <2>5 DEF z
<1>9. CASE P # {}
  <2>1. ~Unadded(iter, A)
    <3>1. iter \in Iterations(A)
      BY <1>2
    <3>2. ASSUME NEW x, A = {x} PROVE FALSE
      BY <1>7, <1>9, <3>2
    <3> QED BY <3>1, <3>2 DEF Unadded
  <2>2. CASE \E w : P = {w} /\ iter \in I
    <3>1. PICK w : P = {w} /\ w[1] = iter
      BY <1>6, <2>2
    <3>2. One(P) = 1
      BY <3>1 DEF One
    <3>3. One(A) = 0
      <4>1. \A x \in A : x[1] = iter
        BY <1>7, <3>1
      <4>2. w # z /\ w \in A /\ z \in A
        BY <1>7, <3>1
      <4>3. ASSUME NEW x \in A, \A y \in A : y = x \/ x[1] < y[1] PROVE FALSE
        <5>1. PICK y \in A : y # x
          BY <4>2
        <5>2. x[1] = iter /\ y[1] = iter
          BY <4>1
        <5> QED BY <4>3, <5>1, <5>2
      <4> QED BY <4>3 DEF One
    <3>4. Unadded(iter, P)
      BY <3>1 DEF Unadded
    <3>5. Cardinality(Iterations(A)) = Cardinality(I)
      BY <1>2, <1>3, <2>2
    <3>6. Additions(A) = Additions(P) + 1 /\ Additions(P) \in Int
      BY <1>1, <3>2, <3>3, <3>5 DEF Additions, I
    <3> QED BY <1>4, <1>9, <2>1, <3>4, <3>6 DEF Additions, z
  <2>3. CASE ~\E w : P = {w} /\ iter \in I
    <3>1. ASSUME NEW x \in P, \A y \in P : y = x \/ x[1] < y[1] PROVE x[1] < iter
      <4>1. CASE iter \in I
        <5>1. P # {x}
          BY <2>3, <4>1
        <5>2. PICK y \in P : y # x
          BY <5>1
        <5>3. x[1] < y[1] /\ y[1] <= iter /\ x[1] \in Nat /\ y[1] \in Nat
          BY <3>1, <5>2
        <5> QED BY <5>3
      <4>2. CASE iter \notin I
        <5>1. x[1] # iter /\ x[1] <= iter /\ x[1] \in Nat
          BY <1>6, <4>2
        <5> QED BY <5>1
      <4> QED BY <4>1, <4>2
    <3>2. One(A) = One(P)
      <4>1. ASSUME NEW x \in P, \A y \in P : y = x \/ x[1] < y[1]
            PROVE  \A y \in A : y = x \/ x[1] < y[1]
        BY <1>7, <3>1, <4>1
      <4>2. ASSUME NEW x \in A, \A y \in A : y = x \/ x[1] < y[1]
            PROVE  x \in P /\ \A y \in P : y = x \/ x[1] < y[1]
        <5>1. CASE x = z
          <6>1. PICK y \in P : TRUE
            BY <1>9
          <6>2. y # z /\ y[1] \in Nat /\ y[1] <= iter
            BY <1>7
          <6>3. iter < y[1]
            BY <1>7, <4>2, <5>1, <6>2
          <6> QED BY <6>2, <6>3
        <5> QED BY <4>2, <5>1
      <4>3. (\E x \in A : \A y \in A : y = x \/ x[1] < y[1]) <=> (\E x \in P : \A y \in P : y = x \/ x[1] < y[1])
        BY <4>1, <4>2
      <4> QED BY <4>3 DEF One
    <3>3. Unadded(iter, P) <=> iter \notin I
      <4>1. ASSUME NEW w, P = {w}, iter \in I PROVE FALSE
        BY <2>3, <4>1
      <4> QED BY <4>1 DEF Unadded, I
    <3>4. Cardinality(Iterations(A)) = Cardinality(I) + (IF iter \notin I THEN 1 ELSE 0)
      BY <1>1, <1>2, <1>3
    <3>5. Additions(A) = Additions(P) + (IF iter \notin I THEN 1 ELSE 0) /\ Additions(P) \in Int
      BY <1>1, <1>5, <3>2, <3>4 DEF Additions, I
    <3>6. Additions(A) = Additions(P) + (IF P # {} /\ Unadded(iter, P) THEN 1 ELSE 0)
      BY <1>9, <3>3, <3>5
    <3>7. Additions({}) = 0
      BY <1>4 DEF Additions
    <3> QED BY <1>9, <2>1, <3>5, <3>6, <3>7 DEF z
  <2> QED BY <2>2, <2>3
<1> QED
  BY <1>8, <1>9

\* A sequence that lists nothing is empty.
LEMMA ListsNone ==
    ASSUME NEW q, NEW T, Lists(q, T)
    PROVE  q = <<>> <=> T = {}
<1>1. q \in Seq(T) /\ Len(q) \in Nat /\ DOMAIN q = 1..Len(q)
  BY DEF Lists
<1>2. ASSUME T = {} PROVE q = <<>>
  <2>1. \A j \in 1..Len(q) : FALSE
    BY <1>1, <1>2
  <2>2. Len(q) = 0
    <3>1. CASE Len(q) # 0
      <4>1. 1 \in 1..Len(q)
        BY <1>1, <3>1
      <4> QED BY <2>1, <4>1
    <3> QED BY <3>1
  <2> QED BY <1>1, <2>2
<1>3. ASSUME q = <<>> PROVE T = {}
  BY <1>3 DEF Lists
<1> QED
  BY <1>2, <1>3

\* What is known of a rank that learns.
LEMMA Learns ==
    ASSUME conf \in Scenarios, PerEpoch # 0, NEW r, NEW R, RankOK(R), CostOK(r, R), R.pc \in Learning
    PROVE  /\ R.iter \in Nat /\ R.turn \in 1..(Number + 1) /\ R.turn \in Nat
           /\ R.pc \notin Ended => R.iter < MaxIteration
           /\ R.pending \in {0} \cup Turns
           /\ SumOK(r, R) /\ NumberOK(R) /\ DOMAIN R.held = Networks
           /\ \A k \in Turns : Opt(k).net \in Networks /\ k # 0
           /\ R.pc \in InTurn => R.turn \in Turns /\ Active(Opt(R.turn), R.iter)
<1>1. R.iter \in Nat /\ R.turn \in 1..(Number + 1) /\ R.turn \in Nat
  BY RankNumbers
<1>2. R.pc \notin Ended => R.iter < MaxIteration
  BY DEF RankOK, Trained, Learning, InTurn
<1>3. R.pending \in {0} \cup Turns /\ (R.pc \in InTurn => R.turn \in Turns /\ Active(Opt(R.turn), R.iter))
  BY DEF RankOK, Typed, Trained
<1>4. \A k \in Turns : Opt(k).net \in Networks /\ k # 0
  BY Project DEF Networks
<1> QED
  BY <1>1, <1>2, <1>3, <1>4 DEF CostOK

\* An optimizer that is passed over.
LEMMA CostSkips ==
    ASSUME conf \in Scenarios, PerEpoch # 0, NEW r, NEW R, NEW X, RankOK(R), CostOK(r, R), Skips(R, X)
    PROVE  CostOK(r, X)
<1>1. Keeps(R, X, {"pc", "turn"}) /\ R.pc = "turn" /\ X.pc = "turn" /\ X.turn = R.turn + 1
      /\ R.turn \in Turns /\ ~Active(Opt(R.turn), R.iter)
  BY DEF Skips
<1>2. /\ X.iter = R.iter /\ X.pending = R.pending /\ X.held = R.held /\ X.sumEpoch = R.sumEpoch
      /\ X.sumIteration = R.sumIteration /\ X.numIteration = R.numIteration /\ X.first = R.first
  BY <1>1, KeepsFields
<1>3. R.iter \in Nat /\ SumOK(r, R) /\ NumberOK(R) /\ DOMAIN R.held = Networks
  BY <1>1, Learns DEF Learning
<1>4. Ran(X.iter, X.turn) = Ran(R.iter, R.turn)
  BY <1>1, <1>2, <1>3, RanTurn
<1>5. Held(X) = Held(R) /\ (Waiting(X) <=> Waiting(R)) /\ Waited(X) = Waited(R) /\ ~AtEnd(X) /\ ~AtEnd(R)
  BY <1>1, <1>2 DEF Held, Waiting, Waited, AtEnd
<1>6. TurnAfter(X) = X.turn /\ TurnAfter(R) = R.turn
  BY <1>1 DEF TurnAfter, InTurn
<1>7. SumOK(r, X)
  BY <1>1, <1>2, <1>3, <1>4, <1>5 DEF SumOK
<1>8. NumberOK(X)
  BY <1>1, <1>2, <1>3, <1>4, <1>5, <1>6 DEF NumberOK
<1> QED
  BY <1>1, <1>2, <1>3, <1>7, <1>8 DEF CostOK, Learning, ErrorPcs

\* The loss of the optimizer before is read.
LEMMA CostMonitors ==
    ASSUME conf \in Scenarios, PerEpoch # 0, NEW r, NEW R, NEW X, RankOK(R), CostOK(r, R), Monitors(R, X)
    PROVE  CostOK(r, X)
<1>1. /\ Keeps(R, X, {"sumIteration", "first", "pc"}) /\ R.pc = "turn"
      /\ R.turn \in Turns /\ Active(Opt(R.turn), R.iter)
      /\ X.sumIteration = Monitored(R)
      /\ X.first <=> (R.first /\ R.pending = 0)
      /\ R.pending # 0 /\ R.first => X.pc = "sum cost"
      /\ ~(R.pending # 0 /\ R.first) => X.pc = "step"
  BY DEF Monitors
<1>2. /\ X.iter = R.iter /\ X.pending = R.pending /\ X.held = R.held /\ X.sumEpoch = R.sumEpoch
      /\ X.turn = R.turn /\ X.numIteration = R.numIteration
  <2>1. Keeps(R, X, {"sumIteration", "first", "pc"})
    BY <1>1
  <2> QED BY <2>1, KeepsFields
<1>3. R.iter \in Nat /\ SumOK(r, R) /\ NumberOK(R) /\ DOMAIN R.held = Networks
  BY <1>1, Learns DEF Learning
<1>4. X.pc \in {"sum cost", "step"} /\ ~Waiting(X) /\ Waited(X) = {} /\ ~AtEnd(X) /\ ~AtEnd(R)
  BY <1>1 DEF Waiting, Waited, AtEnd
<1> DEFINE P == Ran(R.iter, R.turn)
           A == Ran(R.iter, R.turn + 1)
<1>5. /\ SumsTo(R.sumEpoch, R.sumIteration, P, Waited(R), r)
      /\ R.pending = 0 <=> P = {}
      /\ Waiting(R) => Held(R) = Token(Held(R)[1], R.pending, r)
  BY <1>3, <1>4 DEF SumOK
<1>6. /\ R.numIteration = Additions(P) * Size /\ (R.first <=> Unadded(R.iter, P)) /\ Additions(P) \in Int
      /\ Additions(A) = Additions(P) + (IF P # {} /\ Unadded(R.iter, P) THEN 1 ELSE 0)
      /\ Unadded(R.iter, A) <=> P = {}
  <2>1. A = P \cup {<<R.iter, R.turn>>} /\ <<R.iter, R.turn>> \notin P
    BY <1>1, <1>3, RanTurn
  <2>2. IsFiniteSet(P) /\ \A x \in P : x = <<x[1], x[2]>> /\ x[1] \in Nat /\ x[1] <= R.iter
    BY <1>3, RanTyped
  <2>3. TurnAfter(R) = R.turn
    BY <1>1 DEF TurnAfter, InTurn
  <2> HIDE DEF P, A
  <2>4. /\ Additions(P) \in Int
        /\ Additions(A) = Additions(P) + (IF P # {} /\ Unadded(R.iter, P) THEN 1 ELSE 0)
        /\ Unadded(R.iter, A) <=> P = {}
    BY <1>3, <2>1, <2>2, AdditionsRun
  <2>5. R.numIteration = (Additions(P) + 0) * Size /\ (R.first <=> Unadded(R.iter, P))
    BY <1>1, <1>3, <1>4, <2>3 DEF NumberOK, P
  <2> QED BY <2>4, <2>5
<1> HIDE DEF P, A
<1>7. SumsTo(X.sumEpoch, X.sumIteration, P, {}, r)
  <2>1. CASE R.pending = 0
    <3>1. Waited(R) = {} /\ X.sumIteration = R.sumIteration
      BY <1>1, <2>1 DEF Waited, Waiting, Monitored
    <3> QED BY <1>2, <1>5, <3>1
  <2>2. CASE R.pending # 0
    <3> DEFINE w == <<Held(R)[1], R.pending>>
    <3>1. Waiting(R) /\ Waited(R) = {w} /\ X.sumIteration = Append(R.sumIteration, Held(R))
      BY <1>1, <2>2 DEF Waited, Waiting, Monitored, Held
    <3>2. Held(R) = Token(w[1], w[2], r)
      BY <1>5, <3>1
    <3>3. \A x \in P : x = <<x[1], x[2]>>
      BY <1>3, RanTyped DEF P
    <3> HIDE DEF w
    <3>4. SumsTo(R.sumEpoch, R.sumIteration, P, {w}, r)
      BY <1>5, <3>1
    <3> QED BY <1>2, <3>1, <3>2, <3>3, <3>4, SumMonitor
  <2> QED BY <2>1, <2>2
<1>8. SumOK(r, X)
  BY <1>2, <1>4, <1>5, <1>7 DEF SumOK, P
<1>9. NumberOK(X)
  <2>1. CASE R.pending # 0 /\ R.first
    <3>1. X.pc = "sum cost" /\ ~X.first /\ P # {} /\ TurnAfter(X) = R.turn /\ Unadded(R.iter, P)
      BY <1>1, <1>2, <1>5, <1>6, <2>1 DEF TurnAfter, InTurn
    <3>2. X.numIteration = (Additions(P) + 0) * Size
      BY <1>2, <1>6
    <3> QED BY <1>2, <1>4, <3>1, <3>2 DEF NumberOK, P, InTurn
  <2>2. CASE ~(R.pending # 0 /\ R.first)
    <3>1. X.pc = "step" /\ TurnAfter(X) = R.turn + 1
      BY <1>1, <1>2, <2>2 DEF TurnAfter, InTurn
    <3>2. X.first <=> Unadded(R.iter, A)
      <4>1. P = {} => Unadded(R.iter, P)
        BY DEF Unadded, Iterations
      <4> QED BY <1>1, <1>5, <1>6, <2>2, <4>1
    <3>3. Additions(A) = Additions(P)
      BY <1>5, <1>6, <2>2
    <3>4. X.numIteration = (Additions(A) + 0) * Size
      BY <1>2, <1>6, <3>3
    <3> QED BY <1>2, <1>4, <3>1, <3>2, <3>4 DEF NumberOK, A
  <2> QED BY <2>1, <2>2
<1> QED
  BY <1>2, <1>3, <1>4, <1>8, <1>9 DEF CostOK, Learning, ErrorPcs, InTurn

\* The forward and the backward of an optimizer, and its update.
LEMMA CostComputes ==
    ASSUME conf \in Scenarios, PerEpoch # 0, NEW r, NEW R, NEW X, RankOK(R), CostOK(r, R),
           Computes(r, R, X) \/ Applies(R, X) \/ (Reduces(R, X) /\ R.pc = "reduce")
    PROVE  CostOK(r, X)
<1> DEFINE net == Opt(R.turn).net
<1>1. /\ R.pc \in {"step", "reduce", "apply"} /\ X.pc \in {"reduce", "apply", "reserve"}
      /\ X.iter = R.iter /\ X.pending = R.pending /\ X.sumEpoch = R.sumEpoch /\ X.turn = R.turn
      /\ X.sumIteration = R.sumIteration /\ X.numIteration = R.numIteration /\ X.first = R.first
  <2>1. CASE Computes(r, R, X)
    <3>1. Keeps(R, X, {"held", "grads", "pc"}) /\ R.pc = "step" /\ X.pc \in {"reduce", "reserve"}
      BY <2>1 DEF Computes
    <3> QED BY <3>1, KeepsFields
  <2>2. CASE Applies(R, X)
    <3>1. Keeps(R, X, {"applied", "states", "pc"}) /\ R.pc = "apply" /\ X.pc = "reserve"
      BY <2>2 DEF Applies
    <3> QED BY <3>1, KeepsFields
  <2>3. CASE Reduces(R, X) /\ R.pc = "reduce"
    <3>1. Keeps(R, X, {"grads", "pc"}) /\ R.pc = "reduce" /\ X.pc = "apply"
      BY <2>3 DEF Reduces
    <3> QED BY <3>1, KeepsFields
  <2> QED BY <2>1, <2>2, <2>3
<1>2. R.iter \in Nat /\ SumOK(r, R) /\ NumberOK(R) /\ DOMAIN R.held = Networks /\ net \in Networks
  BY <1>1, Learns DEF Learning, InTurn
<1>3. DOMAIN X.held = Networks /\ X.held[net] = Token(R.iter, R.turn, r)
  <2>1. CASE Computes(r, R, X)
    BY <1>2, <2>1 DEF Computes
  <2>2. CASE R.pc # "step"
    <3>1. Keeps(R, X, {"applied", "states", "pc"}) \/ Keeps(R, X, {"grads", "pc"})
      BY <2>2 DEF Computes, Applies, Reduces
    <3>2. X.held = R.held
      BY <3>1, KeepsFields
    <3> QED BY <1>1, <1>2, <2>2, <3>2 DEF SumOK
  <2> QED BY <1>1, <2>1, <2>2 DEF Applies
<1>4. ~Waiting(X) /\ ~Waiting(R) /\ Waited(X) = {} /\ Waited(R) = {} /\ ~AtEnd(X) /\ ~AtEnd(R)
  BY <1>1 DEF Waiting, Waited, AtEnd
<1>5. TurnAfter(X) = R.turn + 1 /\ TurnAfter(R) = R.turn + 1 /\ X.pc \in InTurn /\ R.pc \in InTurn
  BY <1>1 DEF TurnAfter, InTurn
<1>6. SumOK(r, X)
  BY <1>1, <1>2, <1>3, <1>4 DEF SumOK
<1>7. NumberOK(X)
  BY <1>1, <1>2, <1>4, <1>5 DEF NumberOK, InTurn
<1> QED
  BY <1>1, <1>3, <1>6, <1>7 DEF CostOK, Learning, ErrorPcs, InTurn

\* The loss of the optimizer at work is reserved.
LEMMA CostReserves ==
    ASSUME conf \in Scenarios, PerEpoch # 0, NEW r, NEW R, NEW X, RankOK(R), CostOK(r, R), Reserves(R, X)
    PROVE  CostOK(r, X)
<1>1. /\ Keeps(R, X, {"pending", "turn", "pc"}) /\ R.pc = "reserve" /\ X.pc = "turn"
      /\ X.pending = R.turn /\ X.turn = R.turn + 1
  BY DEF Reserves
<1>2. /\ X.iter = R.iter /\ X.held = R.held /\ X.sumEpoch = R.sumEpoch
      /\ X.sumIteration = R.sumIteration /\ X.numIteration = R.numIteration /\ X.first = R.first
  BY <1>1, KeepsFields
<1>3. /\ R.iter \in Nat /\ SumOK(r, R) /\ NumberOK(R) /\ DOMAIN R.held = Networks
      /\ R.turn \in Turns /\ Active(Opt(R.turn), R.iter) /\ R.turn # 0
  BY <1>1, Learns DEF Learning, InTurn
<1> DEFINE P == Ran(R.iter, R.turn)
           z == <<R.iter, R.turn>>
<1>4. Ran(X.iter, X.turn) = P \cup {z} /\ z \notin P
  BY <1>1, <1>2, <1>3, RanTurn
<1>5. R.held[Opt(R.turn).net] = Token(R.iter, R.turn, r) /\ SumsTo(R.sumEpoch, R.sumIteration, P, {}, r)
  BY <1>1, <1>3 DEF SumOK, Waited, Waiting
<1>6. Held(X) = Token(R.iter, R.turn, r) /\ Waiting(X) /\ Waited(X) = {z} /\ ~AtEnd(X) /\ ~AtEnd(R)
  BY <1>1, <1>2, <1>3, <1>5 DEF Held, Waiting, Waited, AtEnd, Token
<1> HIDE DEF P
<1>7. SumsTo(X.sumEpoch, X.sumIteration, P \cup {z}, {z}, r)
  BY <1>2, <1>4, <1>5, SumReserve
<1>8. SumOK(r, X)
  <2>1. Held(X) = Token(Held(X)[1], X.pending, r)
    BY <1>1, <1>6 DEF Token
  <2> QED BY <1>1, <1>3, <1>4, <1>6, <1>7, <2>1 DEF SumOK
<1>9. TurnAfter(X) = R.turn + 1 /\ TurnAfter(R) = R.turn + 1
  BY <1>1 DEF TurnAfter, InTurn
<1>10. NumberOK(X)
  BY <1>1, <1>2, <1>3, <1>6, <1>9 DEF NumberOK, InTurn
<1> QED
  BY <1>1, <1>2, <1>3, <1>8, <1>10 DEF CostOK, Learning, ErrorPcs

\* After the last optimizer; at the end of an epoch its loss is read.
LEMMA CostEndsTurns ==
    ASSUME conf \in Scenarios, PerEpoch # 0, NEW r, NEW R, NEW X, RankOK(R), CostOK(r, R), EndsTurns(R, X)
    PROVE  CostOK(r, X)
<1>1. /\ Keeps(R, X, {"sumIteration", "pc"}) /\ R.pc = "turn" /\ R.turn \notin Turns
      /\ \/ SumsAtEnd(R) /\ X.sumIteration = Monitored(R) /\ X.pc = "sum cost"
         \/ ~SumsAtEnd(R) /\ X.sumIteration = R.sumIteration /\ X.pc = "updated"
  BY DEF EndsTurns
<1>2. /\ X.iter = R.iter /\ X.pending = R.pending /\ X.held = R.held /\ X.sumEpoch = R.sumEpoch
      /\ X.turn = R.turn /\ X.numIteration = R.numIteration /\ X.first = R.first
  <2>1. Keeps(R, X, {"sumIteration", "pc"})
    BY <1>1
  <2> QED BY <2>1, KeepsFields
<1>3. R.iter \in Nat /\ SumOK(r, R) /\ NumberOK(R) /\ DOMAIN R.held = Networks
  BY <1>1, Learns DEF Learning
<1>4. ~AtEnd(R) /\ TurnAfter(R) = R.turn /\ TurnAfter(X) = R.turn
  BY <1>1, <1>2 DEF AtEnd, TurnAfter, InTurn
<1> DEFINE P == Ran(R.iter, R.turn)
<1>5. /\ SumsTo(R.sumEpoch, R.sumIteration, P, Waited(R), r)
      /\ R.pending = 0 <=> P = {}
      /\ Waiting(R) => Held(R) = Token(Held(R)[1], R.pending, r)
      /\ R.numIteration = (Additions(P) + 0) * Size
  BY <1>1, <1>3, <1>4 DEF SumOK, NumberOK
<1> HIDE DEF P
<1>6. CASE SumsAtEnd(R)
  <2>1. X.pc = "sum cost" /\ R.pending # 0 /\ P # {}
    BY <1>1, <1>5, <1>6 DEF SumsAtEnd
  <2> DEFINE w == <<Held(R)[1], R.pending>>
  <2>2. Waiting(R) /\ Waited(R) = {w} /\ X.sumIteration = Append(R.sumIteration, Held(R))
    BY <1>1, <1>6, <2>1 DEF Waited, Waiting, Monitored, Held
  <2>3. Held(R) = Token(w[1], w[2], r)
    BY <1>5, <2>2
  <2>4. \A x \in P : x = <<x[1], x[2]>>
    BY <1>3, RanTyped DEF P
  <2>5. Waited(X) = {} /\ ~Waiting(X) /\ ~AtEnd(X)
    BY <2>1 DEF Waited, Waiting, AtEnd
  <2> HIDE DEF w
  <2>6. SumsTo(R.sumEpoch, R.sumIteration, P, {w}, r)
    BY <1>5, <2>2
  <2>7. SumsTo(X.sumEpoch, X.sumIteration, P, {}, r)
    BY <1>2, <2>2, <2>3, <2>4, <2>6, SumMonitor
  <2>8. SumOK(r, X)
    BY <1>2, <1>5, <2>1, <2>5, <2>7 DEF SumOK, P
  <2>9. NumberOK(X)
    BY <1>1, <1>2, <1>4, <1>5, <2>1, <2>5 DEF NumberOK, P, InTurn
  <2> QED BY <1>2, <1>3, <2>1, <2>8, <2>9 DEF CostOK, Learning, ErrorPcs
<1>7. CASE ~SumsAtEnd(R)
  <2>1. X.pc = "updated" /\ X.sumIteration = R.sumIteration
    BY <1>1, <1>7
  <2>2. Held(X) = Held(R) /\ (Waiting(X) <=> Waiting(R)) /\ Waited(X) = Waited(R)
    BY <1>1, <1>2, <2>1 DEF Held, Waiting, Waited
  <2>3. AtEnd(X) => X.pending = 0 /\ P = {} /\ X.sumIteration = <<>>
    <3> HAVE AtEnd(X)
    <3>1. X.pending = 0 /\ P = {}
      BY <1>2, <1>5, <1>7 DEF AtEnd, SumsAtEnd
    <3>2. Lists(R.sumIteration, {})
      <4>1. Own(P \ (Pairs(R.sumEpoch) \cup Waited(R)), r) = {}
        BY <3>1 DEF Own
      <4> QED BY <1>5, <4>1 DEF SumsTo
    <3> QED BY <2>1, <3>1, <3>2, ListsNone
  <2>4. SumOK(r, X)
    BY <1>2, <1>5, <2>1, <2>2, <2>3 DEF SumOK, P
  <2>5. NumberOK(X)
    <3>1. (IF AtEnd(X) /\ P # {} THEN 1 ELSE 0) = 0
      BY <2>3
    <3> QED BY <1>2, <1>4, <1>5, <2>1, <3>1 DEF NumberOK, P, InTurn
  <2> QED BY <1>2, <1>3, <2>1, <2>4, <2>5 DEF CostOK, Learning, ErrorPcs
<1> QED
  BY <1>6, <1>7

\* The training fails.
LEMMA CostFails ==
    ASSUME conf \in Scenarios, PerEpoch # 0, NEW r, NEW R, NEW X, RankOK(R), CostOK(r, R), Fails(R, X)
    PROVE  CostOK(r, X)
<1>1. Keeps(R, X, {"pc"}) /\ R.pc = "updated" /\ X.pc = "failed"
  BY DEF Fails
<1>2. /\ X.iter = R.iter /\ X.pending = R.pending /\ X.held = R.held /\ X.sumEpoch = R.sumEpoch
      /\ X.turn = R.turn /\ X.sumIteration = R.sumIteration /\ X.numIteration = R.numIteration
  BY <1>1, KeepsFields
<1>3. SumOK(r, R) /\ NumberOK(R) /\ DOMAIN R.held = Networks
  BY <1>1, Learns DEF Learning
<1>4. /\ Held(X) = Held(R) /\ (Waiting(X) <=> Waiting(R)) /\ Waited(X) = Waited(R)
      /\ AtEnd(X) <=> AtEnd(R)
      /\ TurnAfter(X) = TurnAfter(R)
  BY <1>1, <1>2 DEF Held, Waiting, Waited, AtEnd, TurnAfter, InTurn
<1>5. SumOK(r, X)
  BY <1>1, <1>2, <1>3, <1>4 DEF SumOK
<1>6. NumberOK(X)
  BY <1>1, <1>2, <1>3, <1>4 DEF NumberOK, InTurn
<1> QED
  BY <1>1, <1>2, <1>3, <1>5, <1>6 DEF CostOK, Learning, ErrorPcs

\* On to the next iteration of the epoch.
LEMMA CostContinues ==
    ASSUME conf \in Scenarios, PerEpoch # 0, NEW r, NEW R, NEW X, RankOK(R), CostOK(r, R), Continues(r, R, X)
    PROVE  CostOK(r, X)
<1>1. R.pc = "updated" /\ ~EndsEpoch(R.iter) /\ Advances(r, R, X, {})
  BY DEF Continues
<1>2. R.iter \in Nat /\ R.iter < MaxIteration /\ SumOK(r, R) /\ NumberOK(R) /\ DOMAIN R.held = Networks
  BY <1>1, Learns DEF Learning, Ended
<1>3. R.iter + 1 < MaxIteration
  <2>1. MaxIteration = conf.maxEpoch * PerEpoch /\ MaxIteration \in Nat
        /\ PerEpoch \in Nat \ {0} /\ conf.maxEpoch \in Nat
    BY Project
  <2>2. R.iter + 1 # MaxIteration
    BY <1>1, <1>2, <2>1, EndIsEndOfEpoch DEF EndsEpoch
  <2> QED BY <1>2, <2>1, <2>2
<1>4. X.pc = "turn" /\ X.iter = R.iter + 1 /\ X.turn = 1 /\ X.first = TRUE
  BY <1>1, <1>3 DEF Advances
<1>5. /\ X.pending = R.pending /\ X.held = R.held /\ X.sumEpoch = R.sumEpoch
      /\ X.sumIteration = R.sumIteration /\ X.numIteration = R.numIteration
  BY <1>1, AdvanceFields
<1>6. R.turn = Number + 1
  BY <1>1 DEF RankOK, Trained
<1> DEFINE P == Ran(R.iter, R.turn)
<1>7. Ran(X.iter, X.turn) = P
  BY <1>1, <1>2, <1>4, <1>6, RanIteration
<1>8. /\ Held(X) = Held(R) /\ (Waiting(X) <=> Waiting(R)) /\ Waited(X) = Waited(R)
      /\ ~AtEnd(X) /\ ~AtEnd(R) /\ TurnAfter(X) = X.turn /\ TurnAfter(R) = R.turn
  BY <1>1, <1>4, <1>5 DEF Held, Waiting, Waited, AtEnd, TurnAfter, InTurn
<1>9. SumOK(r, X)
  BY <1>1, <1>2, <1>4, <1>5, <1>7, <1>8 DEF SumOK
<1>10. Unadded(X.iter, P)
  <2>1. \A x \in P : x[1] \in Nat /\ x[1] <= R.iter
    BY <1>2, RanTyped
  <2>2. \A x \in P : x[1] # R.iter + 1
    BY <1>2, <2>1
  <2> QED BY <1>4, <2>2 DEF Unadded, Iterations
<1>11. NumberOK(X)
  <2>1. R.numIteration = (Additions(P) + 0) * Size
    BY <1>2, <1>8 DEF NumberOK
  <2> HIDE DEF P
  <2> QED BY <1>4, <1>5, <1>7, <1>8, <1>10, <2>1 DEF NumberOK
<1> QED
  BY <1>2, <1>4, <1>5, <1>9, <1>11 DEF CostOK, Learning, ErrorPcs

\* The cost of the epoch when it ends.
LEMMA CostEndsAnEpoch ==
    ASSUME conf \in Scenarios, PerEpoch # 0, NEW r, NEW R, NEW X, RankOK(R), CostOK(r, R), EndsAnEpoch(R, X)
    PROVE  CostOK(r, X)
<1>1. /\ Keeps(R, X, {"average", "sumEpoch", "numIteration", "batch", "pc"})
      /\ R.pc = "updated" /\ EndsEpoch(R.iter) /\ X.pc \in {"evaluate", "report"}
      /\ X.average = <<R.sumEpoch, R.numIteration>> /\ X.sumEpoch = <<>> /\ X.numIteration = 0
  BY DEF EndsAnEpoch
<1>2. X.iter = R.iter /\ X.pending = R.pending /\ X.held = R.held /\ X.sumIteration = R.sumIteration
  <2>1. Keeps(R, X, {"average", "sumEpoch", "numIteration", "batch", "pc"})
    BY <1>1
  <2> QED BY <2>1, KeepsFields
<1>3. R.iter \in Nat /\ SumOK(r, R) /\ NumberOK(R) /\ DOMAIN R.held = Networks
  BY <1>1, Learns DEF Learning
<1>4. AtEnd(R) /\ TurnAfter(R) = R.turn /\ R.turn = Number + 1
  <2>1. Trained(R)
    BY DEF RankOK
  <2> QED BY <1>1, <2>1 DEF AtEnd, TurnAfter, InTurn, Trained
<1> DEFINE P == Ran(R.iter, Number + 1)
           S == Pairs(R.sumEpoch)
<1>5. /\ R.pending = 0 /\ R.sumIteration = <<>>
      /\ SumsTo(R.sumEpoch, R.sumIteration, P, Waited(R), r)
      /\ R.numIteration = (Additions(P) + (IF AtEnd(R) /\ P # {} THEN 1 ELSE 0)) * Size
  BY <1>3, <1>4 DEF SumOK, NumberOK
<1>6. Lists(R.sumEpoch, Losses(P))
  <2>1. Waited(R) = {}
    BY <1>5 DEF Waited, Waiting
  <2>2. S \subseteq P /\ Lists(R.sumEpoch, Losses(S)) /\ Lists(<<>>, Own(P \ (S \cup {}), r))
    BY <1>5, <2>1 DEF SumsTo
  <2> HIDE DEF S, P
  <2>3. Own(P \ (S \cup {}), r) = {}
    BY <2>2, ListsNone
  <2>4. P \ (S \cup {}) = {}
    BY <2>3 DEF Own
  <2>5. P = S
    BY <2>2, <2>4
  <2> QED BY <2>2, <2>5
<1>7. AverageOK(X.average, X.iter)
  <2>1. X.average[1] = R.sumEpoch /\ X.average[2] = R.numIteration
    BY <1>1
  <2>2. X.average[2] = (Additions(P) + (IF P # {} THEN 1 ELSE 0)) * Size
    BY <1>4, <1>5, <2>1
  <2>3. Lists(X.average[1], Losses(P))
    BY <1>6, <2>1
  <2> QED BY <1>2, <2>2, <2>3 DEF AverageOK
<1>8. X.pc \notin Learning /\ X.pc # "start"
  BY <1>1 DEF Learning, InTurn
<1>9. DOMAIN X.held = Networks /\ X.sumIteration = <<>> /\ X.pending = 0
  BY <1>2, <1>3, <1>5
<1> QED
  BY <1>1, <1>7, <1>8, <1>9 DEF CostOK

\* While nothing is learnt nothing is added up.
LEMMA CostQuiet ==
    ASSUME NEW r, NEW R, NEW X, CostOK(r, R), R.pc \notin Learning, X.pc \notin Learning \cup {"start"},
           X.sumEpoch = R.sumEpoch, X.sumIteration = R.sumIteration, X.numIteration = R.numIteration,
           X.pending = R.pending, DOMAIN X.held = DOMAIN R.held,
           X.pc \in ErrorPcs => R.pc \in ErrorPcs /\ X.average = R.average /\ X.iter = R.iter
    PROVE  CostOK(r, X)
BY DEF CostOK

\* An epoch begins.
LEMMA CostBegins ==
    ASSUME conf \in Scenarios, NEW r, NEW X, X.pc = "turn", X.turn = 1, X.first = TRUE,
           X.sumEpoch = <<>>, X.sumIteration = <<>>, X.numIteration = 0, X.pending = 0,
           Ran(X.iter, 1) = {}, DOMAIN X.held = Networks
    PROVE  CostOK(r, X)
<1>1. ~Waiting(X) /\ Waited(X) = {} /\ ~AtEnd(X) /\ TurnAfter(X) = 1
  BY DEF Waiting, Waited, AtEnd, TurnAfter, InTurn
<1>2. SumsTo(<<>>, <<>>, {}, {}, r)
  BY SumNone
<1>3. SumOK(r, X)
  BY <1>1, <1>2 DEF SumOK
<1>4. Additions({}) = 0 /\ Unadded(X.iter, {})
  <2>1. Iterations({}) = {} /\ One({}) = 0
    BY DEF Iterations, One
  <2>2. Cardinality({}) = 0
    BY FS_EmptySet
  <2>a. Cardinality(Iterations({})) = 0 /\ One({}) = 0
    BY <2>1, <2>2
  <2>b. \A c, o : c = 0 /\ o = 0 => c - o = 0
    OBVIOUS
  <2>3. Additions({}) = 0
    BY <2>a, <2>b, Zenon DEF Additions
  <2>4. X.iter \notin Iterations({})
    BY <2>1
  <2> QED BY <2>3, <2>4 DEF Unadded
<1>5. NumberOK(X)
  <2>1. (0 + 0) * Size = 0
    BY RanksAre
  <2> QED BY <1>1, <1>4, <2>1 DEF NumberOK, InTurn
<1> QED
  BY <1>3, <1>5 DEF CostOK, Learning, ErrorPcs

\* The next epoch begins, or the training ends.
LEMMA CostAdvances ==
    ASSUME conf \in Scenarios, PerEpoch # 0, NEW r, NEW R, NEW X, NEW C, RankOK(R), CostOK(r, R),
           R.pc \in {"report", "saved"}, Advances(r, R, X, C), C \subseteq Told
    PROVE  CostOK(r, X)
<1>1. R.pc \notin Learning /\ R.pc \in EndingEpoch
  BY DEF Learning, InTurn, EndingEpoch, Saving
<1>2. /\ X.sumEpoch = R.sumEpoch /\ X.sumIteration = R.sumIteration /\ X.numIteration = R.numIteration
      /\ X.pending = R.pending /\ X.held = R.held
  BY AdvanceFields DEF Told
<1>3. /\ R.sumEpoch = <<>> /\ R.sumIteration = <<>> /\ R.numIteration = 0 /\ R.pending = 0
      /\ DOMAIN R.held = Networks
  BY <1>1 DEF CostOK
<1>4. EndsEpoch(R.iter) /\ R.iter \in Nat
  <2>1. Trained(R)
    BY DEF RankOK
  <2> QED BY <1>1, <2>1, RankNumbers DEF Trained
<1>5. CASE X.pc = "turn" /\ X.iter = R.iter + 1 /\ X.turn = 1 /\ X.first = TRUE
  <2>1. Ran(X.iter, 1) = {}
    BY <1>4, <1>5, RanIteration
  <2> QED BY <1>2, <1>3, <1>5, <2>1, CostBegins
<1>6. CASE X.pc \in {"unlink", "done"}
  <2>1. X.pc \notin Learning \cup {"start"} /\ X.pc \notin ErrorPcs
    BY <1>6 DEF Learning, InTurn, ErrorPcs
  <2> QED BY <1>1, <1>2, <2>1, CostQuiet
<1> QED
  BY <1>5, <1>6 DEF Advances

\* A training begins, or goes on from a checkpoint.
LEMMA CostStarts ==
    ASSUME TrainInv, PerEpoch # 0, NEW r, NEW R, NEW X, RankOK(R), CostOK(r, R), Begins(R, X)
    PROVE  CostOK(r, X)
<1>0. conf \in Scenarios
  BY DEF TrainInv, CacheInv, PrepOK
<1>1. R.pc = "start" /\ R.pc \notin Learning /\ R.pc \notin ErrorPcs
  BY DEF Begins, Learning, InTurn, ErrorPcs
<1>2. /\ X.sumEpoch = R.sumEpoch /\ X.sumIteration = R.sumIteration /\ X.numIteration = R.numIteration
      /\ X.pending = R.pending /\ X.held = R.held /\ X.first = R.first /\ X.turn = R.turn
  BY KeepsFields DEF Begins
<1>3. /\ R.sumEpoch = <<>> /\ R.sumIteration = <<>> /\ R.numIteration = 0 /\ R.pending = 0
      /\ DOMAIN R.held = Networks /\ R.first = TRUE /\ R.iter = 0 /\ R.turn = 1
  BY <1>1 DEF CostOK, RankOK
<1>4. X.pc \in {"turn", "broken", "done"}
  BY DEF Begins
<1>5. CASE X.pc = "turn"
  <2>1. X.iter \in Nat /\ FirstOf(X.iter) = X.iter
    <3>1. PerEpoch \in Nat \ {0}
      BY <1>0, Project
    <3>2. CASE Keeps(R, X, {"pc"})
      <4>1. X.iter = 0
        BY <1>3, <3>2, KeepsFields
      <4>2. ((0 * PerEpoch) \div PerEpoch) * PerEpoch = 0 * PerEpoch /\ 0 * PerEpoch = 0
        BY <3>1, EpochBegins
      <4> QED BY <4>1, <4>2 DEF FirstOf
    <3>3. CASE disk.current # {} /\ X.iter = Resumed(Latest(disk.current))
      <4>1. ArchiveOK(Latest(disk.current))
        BY <1>0, <3>3, LatestOne DEF TrainInv, DiskOK
      <4> DEFINE m == Latest(disk.current).epoch
      <4>2. m \in Nat
        <5>1. \A n \in Nat : \A e \in 1..n : e \in Nat
          OBVIOUS
        <5> QED BY <1>0, <4>1, <5>1, Project DEF ArchiveOK
      <4>3. X.iter = m * PerEpoch /\ X.iter \in Nat
        <5>1. X.iter \in Nat
          BY <1>0, <3>3, <4>1, ResumedInRange
        <5> QED BY <3>3, <5>1 DEF Resumed
      <4> HIDE DEF m
      <4>4. ((m * PerEpoch) \div PerEpoch) * PerEpoch = m * PerEpoch
        BY <3>1, <4>2, EpochBegins
      <4> QED BY <4>3, <4>4 DEF FirstOf
    <3> QED BY <3>2, <3>3 DEF Begins
  <2>2. Ran(X.iter, 1) = {}
    BY <1>0, <2>1, RanIteration
  <2>3. X.first = TRUE
    BY <1>2, <1>3
  <2> QED BY <1>0, <1>2, <1>3, <1>5, <2>2, <2>3, CostBegins
<1>6. CASE X.pc \in {"broken", "done"}
  <2>1. X.pc \notin Learning \cup {"start"} /\ X.pc \notin ErrorPcs
    BY <1>6 DEF Learning, InTurn, ErrorPcs
  <2> QED BY <1>1, <1>2, <2>1, CostQuiet
<1> QED
  BY <1>4, <1>5, <1>6

\* A rank alone keeps to it.
LEMMA CostLocal ==
    ASSUME TrainInv, PerEpoch # 0, NEW r, NEW R, NEW X, RankOK(R), CostOK(r, R), Effect(r, R, X)
    PROVE  CostOK(r, X)
<1>0. conf \in Scenarios
  BY DEF TrainInv, CacheInv, PrepOK
<1>t. Trained(R)
  BY DEF RankOK
<1>q. ASSUME NEW C, Keeps(R, X, C), \A f \in {"sumEpoch", "sumIteration", "numIteration", "pending", "iter"} : f \notin C,
             R.pc \notin Learning, X.pc \notin Learning \cup {"start"}, DOMAIN X.held = DOMAIN R.held,
             X.pc \in ErrorPcs => R.pc \in ErrorPcs /\ "average" \notin C
      PROVE  CostOK(r, X)
  <2>1. /\ X.sumEpoch = R.sumEpoch /\ X.sumIteration = R.sumIteration /\ X.numIteration = R.numIteration
        /\ X.pending = R.pending /\ X.iter = R.iter /\ ("average" \notin C => X.average = R.average)
    BY <1>q, KeepsFields
  <2> QED BY <1>q, <2>1, CostQuiet
<1>1. CASE \/ Skips(R, X) \/ Monitors(R, X) \/ Computes(r, R, X) \/ Applies(R, X) \/ Reserves(R, X)
           \/ EndsTurns(R, X) \/ Fails(R, X) \/ Continues(r, R, X) \/ EndsAnEpoch(R, X)
  <2>1. CASE Skips(R, X)
    BY <1>0, <2>1, CostSkips
  <2>2. CASE Monitors(R, X)
    BY <1>0, <2>2, CostMonitors
  <2>3. CASE Computes(r, R, X) \/ Applies(R, X)
    <3>1. Computes(r, R, X) \/ Applies(R, X) \/ (Reduces(R, X) /\ R.pc = "reduce")
      BY <2>3
    <3> QED BY <1>0, <3>1, CostComputes
  <2>4. CASE Reserves(R, X)
    BY <1>0, <2>4, CostReserves
  <2>5. CASE EndsTurns(R, X)
    BY <1>0, <2>5, CostEndsTurns
  <2>6. CASE Fails(R, X)
    BY <1>0, <2>6, CostFails
  <2>7. CASE Continues(r, R, X)
    BY <1>0, <2>7, CostContinues
  <2>8. CASE EndsAnEpoch(R, X)
    BY <1>0, <2>8, CostEndsAnEpoch
  <2> QED BY <1>1, <2>1, <2>2, <2>3, <2>4, <2>5, <2>6, <2>7, <2>8
<1>2. CASE MonitorsError(R, X)
  <2>0. Keeps(R, X, {"pc"})
    BY <1>2 DEF MonitorsError
  <2>1. Keeps(R, X, {"pc"}) /\ R.pc = "evaluate" /\ X.pc \in {"sum error", "forward"}
    BY <1>2 DEF MonitorsError
  <2>2. X.held = R.held
    BY <2>0, KeepsFields
  <2>3. R.pc \notin Learning /\ X.pc \notin Learning \cup {"start"} /\ R.pc \in ErrorPcs
    BY <2>1 DEF Learning, InTurn, ErrorPcs
  <2> QED BY <1>q, <2>1, <2>2, <2>3
<1>3. CASE ForwardsMonitor(r, R, X)
  <2>1. /\ Keeps(R, X, {"held", "batch", "count", "pc"}) /\ R.pc = "forward" /\ X.pc = "evaluate"
        /\ DOMAIN X.held = DOMAIN R.held
    BY <1>3 DEF ForwardsMonitor
  <2>2. R.pc \notin Learning /\ X.pc \notin Learning \cup {"start"} /\ R.pc \in ErrorPcs
    BY <2>1 DEF Learning, InTurn, ErrorPcs
  <2> QED BY <1>q, <2>1, <2>2
<1>4. CASE Judges(r, R, X)
  <2>1. Keeps(R, X, {"judged", "best", "pc"}) /\ R.pc = "judge" /\ X.pc \in {"best", "report"}
    BY <1>4 DEF Judges
  <2>2. X.held = R.held
    BY <2>1, KeepsFields
  <2>3. R.pc \notin Learning /\ X.pc \notin Learning \cup {"start"} /\ R.pc \in ErrorPcs
    BY <2>1 DEF Learning, InTurn, ErrorPcs
  <2> QED BY <1>q, <2>1, <2>2, <2>3
<1>5. CASE Saves(R, X)
  <2>1. PICK C \in {{"pc"}, {"saved", "pc"}} : Keeps(R, X, C)
    BY <1>5 DEF Saves
  <2>2. X.held = R.held
    BY <2>1, KeepsFields
  <2>3. R.pc \in Saving /\ R.pc \notin Learning
    BY <1>5 DEF Saves, Saving, Learning, InTurn
  <2>4. X.pc \in {"close best", "report", "open", "close", "saved", "done", "stopped"}
    BY <1>5, <1>t DEF Saves, Trained, Ended
  <2>5. X.pc \in ErrorPcs => R.pc \in ErrorPcs
    BY <1>5, <1>t DEF Saves, ErrorPcs, Trained
  <2>6. X.pc \notin Learning \cup {"start"}
    BY <2>4 DEF Learning, InTurn
  <2> QED BY <1>q, <2>1, <2>2, <2>3, <2>5, <2>6
<1>6. CASE Reports(r, R, X)
  <2>1. CASE Advances(r, R, X, Told)
    BY <1>0, <1>6, <2>1, CostAdvances DEF Reports
  <2>2. CASE Keeps(R, X, Told \cup {"pc", "then"}) /\ X.pc \in {"unlink", "saved"}
    <3>1. X.held = R.held
      BY <2>2, KeepsFields DEF Told
    <3>2. R.pc \notin Learning /\ X.pc \notin Learning \cup {"start"} /\ X.pc \notin ErrorPcs
      BY <1>6, <2>2 DEF Reports, Learning, InTurn, ErrorPcs
    <3> DEFINE C == Told \cup {"pc", "then"}
    <3>3. \A f \in {"sumEpoch", "sumIteration", "numIteration", "pending", "iter"} : f \notin C
      BY DEF Told
    <3> HIDE DEF C
    <3>4. Keeps(R, X, C)
      BY <2>2 DEF C
    <3> QED BY <1>q, <3>1, <3>2, <3>3, <3>4
  <2> QED BY <1>6, <2>1, <2>2 DEF Reports
<1>7. CASE ChecksTime(r, R, X)
  <2>1. CASE Advances(r, R, X, {})
    BY <1>0, <1>7, <2>1, CostAdvances DEF ChecksTime
  <2>2. CASE Keeps(R, X, {"pc", "then"}) /\ X.pc = "unlink"
    <3>1. X.held = R.held
      BY <2>2, KeepsFields
    <3>2. R.pc \notin Learning /\ X.pc \notin Learning \cup {"start"} /\ X.pc \notin ErrorPcs
      BY <1>7, <2>2 DEF ChecksTime, Learning, InTurn, ErrorPcs
    <3> QED BY <1>q, <2>2, <3>1, <3>2
  <2> QED BY <1>7, <2>1, <2>2 DEF ChecksTime
<1>8. CASE Begins(R, X)
  BY <1>8, CostStarts
<1>9. CASE Untrains(R, X)
  BY <1>9 DEF Untrains
<1> QED
  BY <1>1, <1>2, <1>3, <1>4, <1>5, <1>6, <1>7, <1>8, <1>9 DEF Effect

\* The losses of all ranks are added up.
LEMMA CostSums ==
    ASSUME TrainInv, PerEpoch # 0, SumCost, \A r \in Ranks : CostOK(r, rank[r]),
           \A r, s \in Ranks : Agree(rank[r], rank[s])
    PROVE  /\ \A r \in Ranks : CostOK(r, rank'[r])
           /\ \A r, s \in Ranks : /\ rank'[r].sumEpoch = rank'[s].sumEpoch
                                  /\ rank'[r].iter = rank'[s].iter
                                  /\ rank'[r].pc \in {"updated", "step"}
<1>0. conf \in Scenarios /\ \A r \in Ranks : RankOK(rank[r])
  BY DEF TrainInv, CacheInv, PrepOK, RankInv
<1>1. PICK q \in Ranks : \A r \in Ranks :
            /\ rank[r].pc = "sum cost" /\ rank[r].iter = rank[q].iter /\ rank[r].turn = rank[q].turn
            /\ SumsCost(rank[r], rank'[r])
  BY SumCostEffect
<1> DEFINE i == rank[q].iter
           k == rank[q].turn
           Q == rank[q].sumEpoch
           P == Ran(i, k)
           own == [s \in Ranks |-> rank[s].sumIteration]
<1>2. \A s \in Ranks : rank[s].pc = "sum cost" /\ rank[s].iter = i /\ rank[s].turn = k
  BY <1>1
<1>3. \A s \in Ranks : rank[s].sumEpoch = Q
  <2>1. ASSUME NEW s \in Ranks PROVE rank[s].sumEpoch = Q
    <3>1. Agree(rank[s], rank[q])
      OBVIOUS
    <3>2. Stage(rank[s]) = Stage(rank[q])
      BY <1>1 DEF Stage
    <3> QED BY <3>1, <3>2 DEF Agree
  <2> QED BY <2>1
<1>4. i \in Nat /\ k \in 1..(Number + 1)
  BY <1>0, RankNumbers
<1> HIDE DEF i, k, Q
<1>5. ASSUME NEW s \in Ranks
      PROVE  /\ SumsTo(Q, own[s], P, {}, s)
             /\ rank[s].pending = 0 <=> P = {}
             /\ rank[s].numIteration = (Additions(P) + 0) * Size
             /\ P # {}
             /\ k \in Turns => ~rank[s].first /\ Unadded(i, P)
  <2> DEFINE R == rank[s]
  <2>1. R.pc = "sum cost" /\ R.iter = i /\ R.turn = k /\ R.sumEpoch = Q /\ own[s] = R.sumIteration
    BY <1>2, <1>3
  <2>2. CostOK(s, R)
    OBVIOUS
  <2> HIDE DEF R, own
  <2>3. SumOK(s, R) /\ NumberOK(R)
    BY <2>1, <2>2 DEF CostOK, Learning
  <2>4. Waited(R) = {} /\ ~AtEnd(R) /\ TurnAfter(R) = k
    BY <2>1 DEF Waited, Waiting, AtEnd, TurnAfter, InTurn
  <2>5. SumsTo(Q, own[s], P, {}, s) /\ (R.pending = 0 <=> P = {})
    BY <2>1, <2>3, <2>4 DEF SumOK
  <2>6. /\ R.numIteration = (Additions(P) + 0) * Size /\ P # {}
        /\ k \in Turns => ~R.first /\ Unadded(i, P)
    BY <2>1, <2>3, <2>4 DEF NumberOK, InTurn
  <2> QED BY <2>5, <2>6 DEF R
<1> DEFINE sum == Q \o Concat(own)
<1>6. ASSUME NEW r PROVE SumsTo(sum, <<>>, P, {}, r)
  <2>1. \A x \in P : x = <<x[1], x[2]>>
    BY <1>0, <1>4, RanTyped
  <2>2. own = [s \in Ranks |-> own[s]]
    OBVIOUS
  <2>3. \A s \in Ranks : SumsTo(Q, own[s], P, {}, s)
    BY <1>5
  <2> HIDE DEF own, P
  <2>4. SumsTo(Q \o Concat([s \in Ranks |-> own[s]]), <<>>, P, {}, r)
    BY <1>0, <2>1, <2>3, SumTogether
  <2> QED BY <2>2, <2>4
<1>7. ASSUME NEW r \in Ranks
      PROVE  /\ rank'[r].sumEpoch = sum /\ rank'[r].iter = i /\ rank'[r].turn = k
             /\ rank'[r].numIteration = rank[r].numIteration + Size
             /\ rank'[r].sumIteration = <<>>
             /\ rank'[r].pending = IF k \notin Turns THEN 0 ELSE rank[r].pending
             /\ rank'[r].pc = IF k \notin Turns THEN "updated" ELSE "step"
             /\ rank'[r].held = rank[r].held /\ rank'[r].first = rank[r].first
  <2> DEFINE R == rank[r]
             X == rank'[r]
  <2>1. R.iter = i /\ R.turn = k /\ R.sumEpoch = Q
    BY <1>2, <1>3
  <2>2. SumsCost(R, X)
    BY <1>1
  <2> HIDE DEF R, X
  <2>3. Keeps(R, X, {"sumEpoch", "numIteration", "sumIteration", "pending", "pc"})
    BY <2>2 DEF SumsCost
  <2>4. X.iter = R.iter /\ X.turn = R.turn /\ X.held = R.held /\ X.first = R.first
    BY <2>3, KeepsFields
  <2> QED BY <2>1, <2>2, <2>4 DEF SumsCost, R, X
<1> HIDE DEF sum, own
<1>8. ASSUME NEW r \in Ranks PROVE CostOK(r, rank'[r])
  <2> DEFINE R == rank[r]
             X == rank'[r]
  <2>1. CostOK(r, R) /\ RankOK(R) /\ R.pc = "sum cost" /\ R.iter = i /\ R.turn = k
    BY <1>0, <1>2
  <2>2. /\ X.sumEpoch = sum /\ X.iter = i /\ X.turn = k
        /\ X.numIteration = R.numIteration + Size
        /\ X.sumIteration = <<>> /\ X.held = R.held /\ X.first = R.first
        /\ k \notin Turns => X.pending = 0 /\ X.pc = "updated"
        /\ k \in Turns => X.pending = R.pending /\ X.pc = "step"
    BY <1>7
  <2>3. /\ R.pending = 0 <=> P = {}
        /\ R.numIteration = (Additions(P) + 0) * Size
        /\ P # {}
        /\ k \in Turns => ~R.first /\ Unadded(i, P)
    BY <1>5
  <2> HIDE DEF R, X, P
  <2>4. DOMAIN X.held = Networks
    BY <2>1, <2>2 DEF CostOK
  <2>5. Trained(R) /\ IsFiniteSet(P) /\ \A x \in P : x = <<x[1], x[2]>> /\ x[1] \in Nat /\ x[1] <= i
    <3>1. Trained(R)
      BY <2>1 DEF RankOK
    <3>2. IsFiniteSet(P) /\ \A x \in P : x = <<x[1], x[2]>> /\ x[1] \in Nat /\ x[1] <= i
      BY <1>0, <1>4, RanTyped DEF P
    <3> QED BY <3>1, <3>2
  <2>6. Size \in Int
    BY <1>0, RanksAre
  <2>7. CASE k \in Turns
    <3> DEFINE A == Ran(i, k + 1)
    <3>1. A = P \cup {<<i, k>>} /\ <<i, k>> \notin P
      BY <1>0, <1>4, <2>1, <2>5, <2>7, RanTurn DEF Trained, P
    <3> HIDE DEF A
    <3>2. /\ Additions(P) \in Int
          /\ Additions(A) = Additions(P) + (IF P # {} /\ Unadded(i, P) THEN 1 ELSE 0)
          /\ Unadded(i, A) <=> P = {}
      BY <1>4, <2>5, <3>1, AdditionsRun
    <3>3. Additions(A) = Additions(P) + 1
      BY <2>3, <2>7, <3>2
    <3>4. X.numIteration = (Additions(A) + 0) * Size
      <4>1. (Additions(P) + 1) * Size = Additions(P) * Size + 1 * Size /\ 1 * Size = Size
        BY <2>6, <3>2, TimesNext
      <4>2. Additions(P) + 0 = Additions(P) /\ Additions(A) + 0 = Additions(A)
        BY <3>2, <3>3
      <4> HIDE DEF P
      <4> QED BY <2>2, <2>3, <3>3, <4>1, <4>2
    <3>5. X.pc = "step" /\ ~Waiting(X) /\ Waited(X) = {} /\ ~AtEnd(X) /\ TurnAfter(X) = k + 1
      BY <2>2, <2>7 DEF Waiting, Waited, AtEnd, TurnAfter, InTurn
    <3>6. SumOK(r, X)
      <4>1. SumsTo(X.sumEpoch, X.sumIteration, P, Waited(X), r)
        BY <1>6, <2>2, <3>5 DEF P
      <4>2. X.pending = 0 <=> P = {}
        BY <2>2, <2>3, <2>7
      <4> QED BY <2>2, <3>5, <4>1, <4>2 DEF SumOK, P
    <3>7. X.first <=> Unadded(i, A)
      BY <2>2, <2>3, <2>7, <3>2
    <3>8. NumberOK(X)
      BY <2>2, <3>4, <3>5, <3>7 DEF NumberOK, A, InTurn
    <3> QED BY <2>4, <3>5, <3>6, <3>8 DEF CostOK, Learning, ErrorPcs, InTurn, X
  <2>8. CASE k \notin Turns
    <3>1. EndsEpoch(i)
      BY <2>1, <2>5, <2>8 DEF Trained
    <3>2. X.pc = "updated" /\ X.pending = 0 /\ X.sumIteration = <<>> /\ TurnAfter(X) = k
      BY <2>2, <2>8 DEF TurnAfter, InTurn
    <3>3. ~Waiting(X) /\ Waited(X) = {} /\ AtEnd(X)
      BY <2>2, <3>1, <3>2 DEF Waiting, Waited, AtEnd
    <3>4. Additions(P) \in Int
      <4>1. <<i + 1, k>> \notin P /\ i + 1 \in Nat
        <5>1. \A x \in P : x # <<i + 1, k>>
          <6>1. \A x \in P : x[1] # i + 1
            BY <1>4, <2>5
          <6> QED BY <6>1
        <5> QED BY <1>4, <5>1
      <4>2. \A x \in P : x = <<x[1], x[2]>> /\ x[1] \in Nat /\ x[1] <= i + 1
        BY <1>4, <2>5
      <4> QED BY <2>5, <4>1, <4>2, AdditionsRun
    <3>5. X.numIteration = (Additions(P) + 1) * Size
      <4>1. (Additions(P) + 1) * Size = Additions(P) * Size + 1 * Size /\ 1 * Size = Size
        BY <2>6, <3>4, TimesNext
      <4>2. Additions(P) + 0 = Additions(P)
        BY <3>4
      <4> QED BY <2>2, <2>3, <4>1, <4>2
    <3>6. SumOK(r, X)
      <4>1. SumsTo(X.sumEpoch, X.sumIteration, P, Waited(X), r)
        BY <1>6, <2>2, <3>3 DEF P
      <4> QED BY <2>2, <3>2, <3>3, <4>1 DEF SumOK, P
    <3>7. NumberOK(X)
      <4>1. (IF AtEnd(X) /\ P # {} THEN 1 ELSE 0) = 1
        BY <2>3, <3>3
      <4> QED BY <2>2, <3>2, <3>5, <4>1 DEF NumberOK, P, InTurn
    <3> QED BY <2>4, <3>2, <3>6, <3>7 DEF CostOK, Learning, ErrorPcs, InTurn, X
  <2> QED BY <2>7, <2>8
<1> QED
  BY <1>7, <1>8

\* A rank of the same epoch, with the same sum.
Alike(R, X) ==
    /\ Stage(X) = Stage(R) /\ X.sumEpoch = R.sumEpoch
    /\ X.pc \in {"start", "broken"} => R.pc \in {"start", "broken"}

\* Such ranks agree as before.
LEMMA AlikeAgree ==
    ASSUME NEW R, NEW S, NEW X, NEW Y, Agree(R, S), Alike(R, X), Alike(S, Y)
    PROVE  Agree(X, Y)
BY DEF Agree, Alike

\* The same program counter on the same side of the end of the epoch.
LEMMA AlikeKeeps ==
    ASSUME NEW R, NEW X, NEW C, Keeps(R, X, C), "iter" \notin C, "sumEpoch" \notin C,
           R.pc \in EndingEpoch \cup {"done", "stopped"} <=> X.pc \in EndingEpoch \cup {"done", "stopped"},
           X.pc \notin {"start", "broken"}
    PROVE  Alike(R, X)
<1>1. X.iter = R.iter /\ X.sumEpoch = R.sumEpoch
  BY KeepsFields
<1> QED
  BY <1>1 DEF Alike, Stage

\* The stages are numbers.
LEMMA StageIs ==
    ASSUME conf \in Scenarios, PerEpoch # 0, NEW R, RankOK(R)
    PROVE  Stage(R) \in Nat
<1>1. R.iter \in Nat /\ PerEpoch \in Nat \ {0}
  BY RankNumbers, Project
<1>2. R.iter \div PerEpoch \in Nat
  BY <1>1, EpochBegins
<1> QED
  BY <1>2 DEF Stage

\* A step of one rank leaves it alike, begins the training, or ends the epoch.
LEMMA AlikeLocal ==
    ASSUME conf \in Scenarios, PerEpoch # 0, NEW r, NEW R, NEW X, RankOK(R), CostOK(r, R), Effect(r, R, X)
    PROVE  \/ Alike(R, X)
           \/ Begins(R, X) /\ R.pc = "start" /\ X.sumEpoch = <<>>
           \/ /\ EndsAnEpoch(R, X)
              /\ Stage(X) = Stage(R) + 1 /\ X.sumEpoch = <<>> /\ X.pc \notin {"start", "broken"}
<1>t. Trained(R) /\ R.iter \in Nat /\ PerEpoch \in Nat \ {0}
  BY RankNumbers, Project DEF RankOK
<1> DEFINE Over == EndingEpoch \cup {"done", "stopped"}
<1>q. ASSUME NEW C, Keeps(R, X, C), "iter" \notin C, "sumEpoch" \notin C,
             R.pc \in Over <=> X.pc \in Over, X.pc \notin {"start", "broken"}
      PROVE  Alike(R, X)
  BY <1>q, AlikeKeeps
<1>1. CASE Skips(R, X) \/ Monitors(R, X) \/ Computes(r, R, X) \/ Applies(R, X) \/ Reserves(R, X) \/ EndsTurns(R, X) \/ Fails(R, X)
  <2>1. PICK C : /\ Keeps(R, X, C)
                 /\ C \in {{"pc", "turn"}, {"sumIteration", "first", "pc"}, {"held", "grads", "pc"},
                           {"applied", "states", "pc"}, {"pending", "turn", "pc"}, {"sumIteration", "pc"}, {"pc"}}
    BY <1>1 DEF Skips, Monitors, Computes, Applies, Reserves, EndsTurns, Fails
  <2>2. "iter" \notin C /\ "sumEpoch" \notin C
    BY <2>1
  <2>3. R.pc \in {"turn", "updated"} \cup InTurn
    BY <1>1 DEF Skips, Monitors, Computes, Applies, Reserves, EndsTurns, Fails, InTurn
  <2>4. X.pc \in {"turn", "sum cost", "updated", "failed"} \cup InTurn
    BY <1>1 DEF Skips, Monitors, Computes, Applies, Reserves, EndsTurns, Fails, InTurn
  <2>5. R.pc \notin Over /\ X.pc \notin Over /\ X.pc \notin {"start", "broken"}
    BY <2>3, <2>4 DEF InTurn, EndingEpoch, Saving
  <2> QED BY <1>q, <2>1, <2>2, <2>5
<1>2. CASE Continues(r, R, X)
  <2>1. R.pc = "updated" /\ ~EndsEpoch(R.iter) /\ Advances(r, R, X, {})
    BY <1>2 DEF Continues
  <2>2. R.iter < MaxIteration
    BY <1>t, <2>1 DEF Trained, Ended
  <2>3. R.iter + 1 < MaxIteration
    <3>1. MaxIteration = conf.maxEpoch * PerEpoch /\ MaxIteration \in Nat /\ conf.maxEpoch \in Nat
      BY Project
    <3>2. R.iter + 1 # MaxIteration
      BY <1>t, <2>1, <3>1, EndIsEndOfEpoch DEF EndsEpoch
    <3> QED BY <1>t, <2>2, <3>1, <3>2
  <2>4. X.pc = "turn" /\ X.iter = R.iter + 1
    BY <2>1, <2>3 DEF Advances
  <2>5. X.sumEpoch = R.sumEpoch
    BY <2>1, AdvanceFields
  <2>6. (R.iter + 1) \div PerEpoch = R.iter \div PerEpoch
    BY <1>t, <2>1, EpochBegins DEF EndsEpoch
  <2>7. R.pc \notin Over /\ X.pc \notin Over
    BY <2>1, <2>4 DEF EndingEpoch, Saving
  <2> QED BY <2>4, <2>5, <2>6, <2>7 DEF Alike, Stage
<1>3. CASE EndsAnEpoch(R, X)
  <2>1. /\ R.pc = "updated" /\ Keeps(R, X, {"average", "sumEpoch", "numIteration", "batch", "pc"})
        /\ X.sumEpoch = <<>> /\ X.pc \in {"evaluate", "report"}
    BY <1>3 DEF EndsAnEpoch
  <2>2. X.iter = R.iter
    <3>1. Keeps(R, X, {"average", "sumEpoch", "numIteration", "batch", "pc"})
      BY <2>1
    <3> QED BY <3>1, KeepsFields
  <2>3. R.pc \notin Over /\ X.pc \in Over
    BY <2>1 DEF EndingEpoch, Saving
  <2>4. R.iter \div PerEpoch \in Nat
    BY <1>t, EpochBegins
  <2>5. Stage(X) = R.iter \div PerEpoch + 1 /\ Stage(R) = R.iter \div PerEpoch
    BY <2>2, <2>3, <2>4 DEF Stage
  <2> QED BY <1>3, <2>1, <2>5
<1>4. CASE MonitorsError(R, X) \/ ForwardsMonitor(r, R, X) \/ Judges(r, R, X) \/ Saves(R, X)
  <2>1. PICK C : /\ Keeps(R, X, C)
                 /\ C \in {{"pc"}, {"held", "batch", "count", "pc"}, {"judged", "best", "pc"}, {"saved", "pc"}}
    BY <1>4 DEF MonitorsError, ForwardsMonitor, Judges, Saves
  <2>2. "iter" \notin C /\ "sumEpoch" \notin C
    BY <2>1
  <2>3. R.pc \in EndingEpoch
    BY <1>4 DEF MonitorsError, ForwardsMonitor, Judges, Saves, EndingEpoch, Saving
  <2>4. X.pc \in EndingEpoch \cup {"done", "stopped"}
    BY <1>4, <1>t DEF MonitorsError, ForwardsMonitor, Judges, Saves, Trained, Ended, EndingEpoch, Saving
  <2>5. X.pc \notin {"start", "broken"}
    BY <2>4 DEF EndingEpoch, Saving
  <2> QED BY <1>q, <2>1, <2>2, <2>3, <2>4, <2>5
<1>5. ASSUME NEW C, Advances(r, R, X, C), R.pc \in {"report", "saved"}, "sumEpoch" \notin C, "iter" \notin C
      PROVE  Alike(R, X)
  <2>1. R.pc \in Over /\ EndsEpoch(R.iter)
    BY <1>t, <1>5 DEF EndingEpoch, Saving, Trained
  <2>2. X.sumEpoch = R.sumEpoch
    BY <1>5, AdvanceFields
  <2>3. CASE X.pc = "turn" /\ X.iter = R.iter + 1
    <3>1. (R.iter + 1) \div PerEpoch = R.iter \div PerEpoch + 1
      BY <1>t, <2>1, EpochBegins DEF EndsEpoch
    <3>2. R.iter \div PerEpoch + 1 \in Nat
      BY <1>t, EpochBegins
    <3>3. X.pc \notin Over
      BY <2>3 DEF EndingEpoch, Saving
    <3> QED BY <2>1, <2>2, <2>3, <3>1, <3>2, <3>3 DEF Alike, Stage
  <2>4. CASE Keeps(R, X, C \cup {"pc", "then"}) /\ X.pc \in {"unlink", "done"}
    <3>1. X.pc \in Over /\ X.pc \notin {"start", "broken"}
      BY <2>4 DEF EndingEpoch, Saving
    <3> DEFINE D == C \cup {"pc", "then"}
    <3>2. "iter" \notin D /\ "sumEpoch" \notin D
      BY <1>5
    <3> HIDE DEF D
    <3>3. Keeps(R, X, D)
      BY <2>4 DEF D
    <3> QED BY <1>q, <2>1, <3>1, <3>2, <3>3
  <2> QED BY <1>5, <2>3, <2>4 DEF Advances
<1>6. ASSUME NEW C, Keeps(R, X, C), R.pc \in {"report", "saved"}, X.pc \in {"unlink", "saved"},
             "sumEpoch" \notin C, "iter" \notin C
      PROVE  Alike(R, X)
  <2>1. R.pc \in Over /\ X.pc \in Over /\ X.pc \notin {"start", "broken"}
    BY <1>6 DEF EndingEpoch, Saving
  <2> QED BY <1>6, <1>q, <2>1
<1>7. CASE Reports(r, R, X)
  <2>1. R.pc = "report" /\ "sumEpoch" \notin Told /\ "iter" \notin Told
        /\ "sumEpoch" \notin Told \cup {"pc", "then"} /\ "iter" \notin Told \cup {"pc", "then"}
    BY <1>7 DEF Reports, Told
  <2>2. CASE Advances(r, R, X, Told)
    BY <1>5, <2>1, <2>2
  <2>3. CASE Keeps(R, X, Told \cup {"pc", "then"}) /\ X.pc \in {"unlink", "saved"}
    BY <1>6, <2>1, <2>3
  <2> QED BY <1>7, <2>2, <2>3 DEF Reports
<1>8. CASE ChecksTime(r, R, X)
  <2>1. R.pc = "saved"
    BY <1>8 DEF ChecksTime
  <2>2. CASE Advances(r, R, X, {})
    BY <1>5, <2>1, <2>2
  <2>3. CASE Keeps(R, X, {"pc", "then"}) /\ X.pc = "unlink"
    BY <1>6, <2>1, <2>3
  <2> QED BY <1>8, <2>2, <2>3 DEF ChecksTime
<1>9. CASE Begins(R, X)
  <2>1. R.pc = "start"
    BY <1>9 DEF Begins
  <2>2. X.sumEpoch = R.sumEpoch
    BY <1>9, KeepsFields DEF Begins
  <2>3. R.sumEpoch = <<>>
    BY <2>1 DEF CostOK, Learning, InTurn
  <2> QED BY <1>9, <2>1, <2>2, <2>3
<1>10. CASE Untrains(R, X)
  BY <1>10 DEF Untrains
<1> QED
  BY <1>1, <1>2, <1>3, <1>4, <1>7, <1>8, <1>9, <1>10 DEF Effect

\* All ranks still agree.
LEMMA AgreeLocal ==
    ASSUME conf \in Scenarios, PerEpoch # 0, NEW r, NEW R, NEW X, RankOK(R), CostOK(r, R), CostOK(r, X),
           Effect(r, R, X), NEW S, RankOK(S), Agree(R, S), Agree(S, R)
    PROVE  Agree(X, S) /\ Agree(S, X) /\ Agree(X, X)
<1>1. Stage(R) \in Nat /\ Stage(S) \in Nat
  BY StageIs
<1>2. X.pc \in {"start", "broken"} => X.sumEpoch = <<>>
  BY DEF CostOK, Learning, InTurn
<1>3. Alike(S, S)
  BY DEF Alike
<1>4. CASE Alike(R, X)
  <2>1. Agree(X, S) /\ Agree(S, X)
    BY <1>3, <1>4, AlikeAgree
  <2>2. Agree(X, X)
    <3>1. Stage(X) \in Nat
      BY <1>1, <1>4 DEF Alike
    <3> QED BY <1>2, <3>1 DEF Agree
  <2> QED BY <2>1, <2>2
<1>5. CASE R.pc = "start" /\ X.sumEpoch = <<>>
  <2>1. S.sumEpoch = <<>>
    BY <1>5 DEF Agree
  <2> QED BY <1>5, <2>1 DEF Agree
<1>6. CASE Stage(X) = Stage(R) + 1 /\ X.sumEpoch = <<>> /\ X.pc \notin {"start", "broken"}
  <2>1. Stage(X) <= Stage(S) => Stage(R) < Stage(S)
    BY <1>1, <1>6
  <2>2. Stage(X) <= Stage(S) => S.sumEpoch = <<>>
    BY <2>1 DEF Agree
  <2>3. Stage(X) \in Nat
    BY <1>1, <1>6
  <2>4. (Stage(X) = Stage(S) \/ Stage(X) < Stage(S)) => Stage(X) <= Stage(S)
    BY <1>1, <2>3
  <2> QED BY <1>6, <2>2, <2>4 DEF Agree
<1> QED
  BY <1>4, <1>5, <1>6, AlikeLocal

\* How often the ranks add up in an epoch: once an iteration, and once more when several
\* optimizers work in the first.
LEMMA AdditionsAre ==
    ASSUME conf \in Scenarios, NEW lo \in Nat, NEW hi \in Nat, NEW P,
           P = {x \in (lo..hi) \X Turns : Active(Opt(x[2]), x[1])}
    PROVE  LET I == Iterations(P)
           IN  /\ Cardinality(I) \in Nat
               /\ Additions(P) + (IF P # {} THEN 1 ELSE 0) = Cardinality(I) + More(I)
<1> DEFINE I == Iterations(P)
           m == Min(I)
           T == TurnsOf(m)
<1>1. \A i, k : <<i, k>> \in P <=> i \in lo..hi /\ k \in TurnsOf(i)
  BY DEF TurnsOf
<1>2. \A x \in P : x = <<x[1], x[2]>>
  OBVIOUS
<1>3. I \subseteq lo..hi /\ I \subseteq Nat
  <2>1. I \subseteq lo..hi
    BY DEF Iterations
  <2>2. \A i \in lo..hi : i \in Nat
    OBVIOUS
  <2> HIDE DEF I
  <2> QED BY <2>1, <2>2
<1>4. Cardinality(I) \in Nat
  <2>1. IsFiniteSet(lo..hi)
    BY FS_Interval
  <2> HIDE DEF I
  <2> QED BY <1>3, <2>1, FS_Subset, FS_CardinalityType
<1>5. \A x \in P : x[1] \in I
  BY DEF Iterations
<1>6. \A i \in I : \E x \in P : x[1] = i
  BY DEF Iterations
<1>7. I = {} <=> P = {}
  BY <1>5, <1>6
<1> HIDE DEF I
<1>8. CASE P = {}
  <2>1. One(P) = 0 /\ More(I) = 0
    BY <1>7, <1>8 DEF One, More
  <2>2. Additions(P) = Cardinality(I) - One(P)
    BY DEF Additions, I
  <2> QED BY <1>4, <1>8, <2>1, <2>2 DEF I
<1>9. CASE P # {}
  <2>1. m \in I /\ (\A i \in I : m <= i) /\ m \in Nat
    <3>1. m \in I /\ \A i \in I : m <= i
      BY <1>3, <1>7, <1>9, MinIs
    <3> QED BY <1>3, <3>1
  <2> HIDE DEF m
  <2>2. IsFiniteSet(T) /\ Cardinality(T) \in Nat
    <3>1. IsFiniteSet(Turns) /\ T \subseteq Turns
      BY Project, FS_Interval DEF TurnsOf
    <3> QED BY <3>1, FS_Subset, FS_CardinalityType
  <2>3. \A k : <<m, k>> \in P <=> k \in T
    BY <1>1, <1>3, <2>1
  <2> HIDE DEF T
  <2>4. \A k \in T : Cardinality(T \ {k}) = Cardinality(T) - 1 /\ IsFiniteSet(T \ {k})
    BY <2>2, FS_RemoveElement
  <2>5. More(I) = IF Cardinality(T) > 1 THEN 1 ELSE 0
    BY <1>7, <1>9 DEF More, T, m
  <2>6. CASE \E x \in P : \A y \in P : y = x \/ x[1] < y[1]
    <3>1. PICK x \in P : \A y \in P : y = x \/ x[1] < y[1]
      BY <2>6
    <3>2. x[1] = m
      <4>1. PICK y \in P : y[1] = m
        BY <1>6, <2>1
      <4>2. x[1] \in Nat /\ m <= x[1]
        BY <1>3, <1>5, <2>1
      <4>3. y = x \/ x[1] < m
        BY <3>1, <4>1
      <4> QED BY <2>1, <4>1, <4>2, <4>3
    <3>3. x[2] \in T /\ \A k \in T : k = x[2]
      <4>1. x = <<m, x[2]>>
        BY <1>2, <3>2
      <4>2. x[2] \in T
        BY <2>3, <4>1
      <4>3. ASSUME NEW k \in T PROVE k = x[2]
        <5>1. <<m, k>> \in P
          BY <2>3
        <5>2. <<m, k>> = x \/ m < m
          BY <3>1, <3>2, <5>1
        <5> QED BY <2>1, <4>1, <5>2
      <4> QED BY <4>2, <4>3
    <3>4. Cardinality(T) = 1
      <4>1. T \ {x[2]} = {} /\ Cardinality({}) = 0
        BY <3>3, FS_EmptySet
      <4>2. Cardinality(T) - 1 = 0
        BY <2>4, <3>3, <4>1
      <4> QED BY <2>2, <4>2
    <3>5. One(P) = 1 /\ More(I) = 0
      BY <2>5, <2>6, <3>4 DEF One
    <3>6. Additions(P) = Cardinality(I) - One(P)
      BY DEF Additions, I
    <3> QED BY <1>4, <1>9, <3>5, <3>6 DEF I
  <2>7. CASE ~\E x \in P : \A y \in P : y = x \/ x[1] < y[1]
    <3>1. PICK x \in P : x[1] = m
      BY <1>6, <2>1
    <3>2. x = <<m, x[2]>> /\ x[2] \in T
      BY <1>2, <2>3, <3>1
    <3>3. PICK y \in P : y # x /\ ~(x[1] < y[1])
      BY <2>7
    <3>4. y[1] = m /\ y[2] \in T /\ y[2] # x[2]
      <4>1. m <= y[1] /\ y[1] \in Nat
        BY <1>3, <1>5, <2>1
      <4>2. y[1] = m
        BY <2>1, <3>1, <3>3, <4>1
      <4>3. y = <<m, y[2]>>
        BY <1>2, <4>2
      <4> QED BY <2>3, <3>2, <3>3, <4>2, <4>3
    <3>5. Cardinality(T) > 1
      <4>1. T \ {x[2]} # {} /\ IsFiniteSet(T \ {x[2]})
        BY <2>4, <3>2, <3>4
      <4>2. Cardinality(T \ {x[2]}) # 0 /\ Cardinality(T \ {x[2]}) \in Nat
        BY <4>1, FS_EmptySet, FS_CardinalityType
      <4>3. Cardinality(T \ {x[2]}) = Cardinality(T) - 1
        BY <2>4, <3>2
      <4> QED BY <2>2, <4>2, <4>3
    <3>6. One(P) = 0 /\ More(I) = 1
      BY <2>5, <2>7, <3>5 DEF One
    <3>7. Additions(P) = Cardinality(I) - One(P)
      BY DEF Additions, I
    <3> QED BY <1>4, <1>9, <3>6, <3>7 DEF I
  <2> QED BY <2>6, <2>7
<1> QED
  BY <1>8, <1>9

\* What is reported is the cost of the epoch.
LEMMA CostReported ==
    ASSUME conf \in Scenarios, PerEpoch # 0, NEW r, NEW R, RankOK(R), CostOK(r, R), R.pc = "report"
    PROVE  CostEntry(Entry(R))
<1> DEFINE e == Entry(R)
           i == R.iter
           f == FirstOf(i)
           P == Ran(i, Number + 1)
           W == Worked(e.epoch)
<1>1. e.epoch = Epoch(i) /\ e.sum = R.average[1] /\ e.number = R.average[2]
  BY DEF Entry
<1>2. EndsEpoch(i) /\ i \in Nat /\ PerEpoch \in Nat \ {0} /\ Number \in Nat /\ Turns = 1..Number
  BY RankNumbers, Project DEF RankOK, Trained, EndingEpoch
<1>3. (e.epoch - 1) * PerEpoch = f /\ e.epoch * PerEpoch - 1 = i
  <2> DEFINE d == i \div PerEpoch
  <2>1. e.epoch = d + 1 /\ d \in Nat
    BY <1>1, <1>2, EpochBegins DEF Epoch
  <2>2. (d + 1) * PerEpoch = i + 1
    BY <1>2, LastOfEpoch DEF EndsEpoch
  <2>3. f = d * PerEpoch
    BY DEF FirstOf
  <2> HIDE DEF e, d, i, f
  <2>4. e.epoch - 1 = d
    BY <2>1
  <2> QED BY <1>2, <2>1, <2>2, <2>3, <2>4
<1>4. f \in 0..i /\ f \in Nat
  <2>1. f \in 0..i
    BY <1>2, RanTyped
  <2>2. \A j \in 0..i : j \in Nat
    BY <1>2
  <2> QED BY <2>1, <2>2
<1> HIDE DEF e, i, f
<1>5. AverageOK(R.average, i)
  BY DEF CostOK, ErrorPcs, i
<1>6. P = {x \in (f..i) \X Turns : Active(Opt(x[2]), x[1])}
  <2>1. \A j, k : j \in f..i /\ k \in Turns => Past(j, k, i, Number + 1)
    BY <1>2, <1>4 DEF Past
  <2> QED BY <2>1 DEF Ran, f
<1>7. W = {j \in f..i : \E k \in Turns : Active(Opt(k), j)}
  BY <1>3 DEF Worked
<1>8. Iterations(P) = W
  <2>1. \A j \in Iterations(P) : j \in W
    BY <1>6, <1>7 DEF Iterations
  <2>2. ASSUME NEW j \in W PROVE j \in Iterations(P)
    <3>1. PICK k \in Turns : j \in f..i /\ Active(Opt(k), j)
      BY <1>7
    <3>2. <<j, k>> \in P
      BY <1>6, <3>1
    <3>3. <<j, k>>[1] = j
      OBVIOUS
    <3> QED BY <3>2, <3>3 DEF Iterations
  <2> QED BY <2>1, <2>2
<1>9. Losses(P) = UNION {{Token(j, k, s) : k \in TurnsOf(j), s \in Ranks} : j \in W}
  <2> DEFINE U == UNION {{Token(j, k, s) : k \in TurnsOf(j), s \in Ranks} : j \in W}
  <2>1. ASSUME NEW z \in Losses(P) PROVE z \in U
    <3>1. PICK x \in P, s \in Ranks : z = Token(x[1], x[2], s)
      BY DEF Losses
    <3>2. x[1] \in W /\ x[2] \in TurnsOf(x[1])
      BY <1>6, <1>7 DEF TurnsOf
    <3> QED BY <3>1, <3>2
  <2>2. ASSUME NEW z \in U PROVE z \in Losses(P)
    <3>0. PICK j \in W : z \in {Token(j, k, s) : k \in TurnsOf(j), s \in Ranks}
      OBVIOUS
    <3>1. PICK k \in TurnsOf(j), s \in Ranks : z = Token(j, k, s)
      BY <3>0
    <3>2. <<j, k>> \in P
      BY <1>6, <1>7, <3>1 DEF TurnsOf
    <3>3. <<j, k>>[1] = j /\ <<j, k>>[2] = k
      OBVIOUS
    <3> QED BY <3>1, <3>2, <3>3 DEF Losses
  <2> QED BY <2>1, <2>2
<1> HIDE DEF P, W
<1>10. Lists(e.sum, Losses(P)) /\ e.number = (Additions(P) + (IF P # {} THEN 1 ELSE 0)) * Size
  BY <1>1, <1>5 DEF AverageOK, P
<1>11. Additions(P) + (IF P # {} THEN 1 ELSE 0) = Cardinality(W) + More(W)
  <2>1. i \in Nat
    BY <1>2 DEF i
  <2> QED BY <1>4, <1>6, <1>8, <2>1, AdditionsAre
<1>12. Distinct(e.sum) /\ Elements(e.sum) = Losses(P)
  BY <1>10, ListsDistinct
<1>13. e.number = (Cardinality(W) + More(W)) * Size
  BY <1>10, <1>11
<1> QED
  BY <1>9, <1>12, <1>13 DEF CostEntry, e, W

\* Every process starts with none.
LEMMA FreshCost ==
    ASSUME NEW r
    PROVE  CostOK(r, Fresh) /\ Agree(Fresh, Fresh)
<1>1. /\ Fresh.pc = "start" /\ Fresh.sumEpoch = <<>> /\ Fresh.sumIteration = <<>> /\ Fresh.numIteration = 0
      /\ Fresh.pending = 0 /\ Fresh.first = TRUE /\ DOMAIN Fresh.held = Networks
  BY DEF Fresh
<1>2. CostOK(r, Fresh)
  BY <1>1 DEF CostOK, Learning, InTurn, ErrorPcs
<1> QED
  BY <1>1, <1>2 DEF Agree

\* All ranks together keep to it, too.
LEMMA CostTogether ==
    ASSUME TrainInv, PerEpoch # 0, \A r \in Ranks : CostOK(r, rank[r]),
           \A r, s \in Ranks : Agree(rank[r], rank[s]), Together
    PROVE  /\ disk' = disk
           /\ \A r \in Ranks : CostOK(r, rank'[r])
           /\ \A r, s \in Ranks : Agree(rank'[r], rank'[s])
<1>0. conf \in Scenarios /\ PerEpoch \in Nat \ {0} /\ \A r \in Ranks : RankOK(rank[r])
  BY Project DEF TrainInv, CacheInv, PrepOK, RankInv
<1>1. CASE SumCost
  <2>1. disk' = disk
    BY <1>1, SumCostEffect
  <2>2. /\ \A r \in Ranks : CostOK(r, rank'[r])
        /\ \A r, s \in Ranks : /\ rank'[r].sumEpoch = rank'[s].sumEpoch
                               /\ rank'[r].iter = rank'[s].iter
                               /\ rank'[r].pc \in {"updated", "step"}
    BY <1>1, CostSums
  <2>3. ASSUME NEW r \in Ranks, NEW s \in Ranks PROVE Agree(rank'[r], rank'[s])
    <3> DEFINE X == rank'[r]
               Y == rank'[s]
    <3>1. /\ X.sumEpoch = Y.sumEpoch /\ X.iter = Y.iter
          /\ X.pc \in {"updated", "step"} /\ Y.pc \in {"updated", "step"}
      BY <2>2
    <3>2. X.iter \in Nat
      <4>1. PICK q \in Ranks : SumsCost(rank[r], X)
        BY <1>1, SumCostEffect
      <4>2. Keeps(rank[r], X, {"sumEpoch", "numIteration", "sumIteration", "pending", "pc"})
        BY <4>1 DEF SumsCost
      <4> HIDE DEF X
      <4>3. X.iter = rank[r].iter
        BY <4>2, KeepsFields
      <4> QED BY <1>0, <4>3, RankNumbers
    <3> HIDE DEF X, Y
    <3>3. X.iter \div PerEpoch \in Nat
      BY <1>0, <3>2, EpochBegins
    <3>4. /\ X.pc \notin EndingEpoch \cup {"done", "stopped"} /\ Y.pc \notin EndingEpoch \cup {"done", "stopped"}
          /\ X.pc \notin {"start", "broken"}
      BY <3>1 DEF EndingEpoch, Saving
    <3>5. Stage(X) = Stage(Y) /\ Stage(X) \in Nat
      BY <3>1, <3>3, <3>4 DEF Stage
    <3>6. Agree(X, Y)
      BY <3>1, <3>4, <3>5 DEF Agree
    <3> QED BY <3>6 DEF X, Y
  <2> QED BY <2>1, <2>2, <2>3
<1>2. CASE ReduceGradients
  <2>1. disk' = disk
    BY <1>2, ReduceEffect
  <2>2. ASSUME NEW r \in Ranks PROVE CostOK(r, rank'[r]) /\ Alike(rank[r], rank'[r])
    <3> DEFINE R == rank[r]
               X == rank'[r]
    <3>1. R.pc = "reduce" /\ Reduces(R, X)
      BY <1>2, ReduceEffect
    <3>2. RankOK(R) /\ CostOK(r, R)
      BY <1>0
    <3> HIDE DEF R, X
    <3>3. CostOK(r, X)
      BY <1>0, <3>1, <3>2, CostComputes
    <3>4. Keeps(R, X, {"grads", "pc"}) /\ X.pc = "apply"
      BY <3>1 DEF Reduces
    <3>5. /\ R.pc \notin EndingEpoch \cup {"done", "stopped"} /\ X.pc \notin EndingEpoch \cup {"done", "stopped"}
          /\ X.pc \notin {"start", "broken"}
      BY <3>1, <3>4 DEF EndingEpoch, Saving
    <3>6. Alike(R, X)
      BY <3>4, <3>5, AlikeKeeps
    <3> QED BY <3>3, <3>6 DEF R, X
  <2> QED BY <2>1, <2>2, AlikeAgree
<1>3. CASE SumError
  <2>1. disk' = disk
    BY <1>3, SumErrorEffect
  <2>2. ASSUME NEW r \in Ranks PROVE CostOK(r, rank'[r]) /\ Alike(rank[r], rank'[r])
    <3> DEFINE R == rank[r]
               X == rank'[r]
    <3>1. R.pc = "sum error" /\ SumsErrors(R, X)
      BY <1>3, SumErrorEffect
    <3>2. RankOK(R) /\ CostOK(r, R)
      BY <1>0
    <3> HIDE DEF R, X
    <3>3. Keeps(R, X, {"errors", "pc"}) /\ X.pc \in {"judge", "forward"}
      BY <3>1 DEF SumsErrors
    <3>4. /\ R.pc \in EndingEpoch \cup {"done", "stopped"} /\ X.pc \in EndingEpoch \cup {"done", "stopped"}
          /\ X.pc \notin {"start", "broken"}
      BY <3>1, <3>3 DEF EndingEpoch
    <3>5. Alike(R, X)
      BY <3>3, <3>4, AlikeKeeps
    <3>6. /\ X.sumEpoch = R.sumEpoch /\ X.sumIteration = R.sumIteration /\ X.numIteration = R.numIteration
          /\ X.pending = R.pending /\ X.held = R.held /\ X.average = R.average /\ X.iter = R.iter
      <4>1. Keeps(R, X, {"errors", "pc"})
        BY <3>3
      <4> QED BY <4>1, KeepsFields
    <3>7. R.pc \notin Learning /\ X.pc \notin Learning \cup {"start"} /\ R.pc \in ErrorPcs
      BY <3>1, <3>3 DEF Learning, InTurn, ErrorPcs
    <3>8. CostOK(r, X)
      BY <3>2, <3>6, <3>7, CostQuiet
    <3> QED BY <3>5, <3>8 DEF R, X
  <2> QED BY <2>1, <2>2, AlikeAgree
<1> QED
  BY <1>1, <1>2, <1>3 DEF Together

\* Every step keeps it.
LEMMA CostNext ==
    ASSUME TrainInv, CostInv, [Next]_vars
    PROVE  CostInv'
<1>0. conf \in Scenarios /\ \A r \in Ranks : RankOK(rank[r])
  BY DEF TrainInv, CacheInv, PrepOK, RankInv
<1>1. conf' = conf
  BY NextEffect
<1>2. Ranks' = Ranks /\ PerEpoch' = PerEpoch
  BY <1>1, SameProject
<1>3. ASSUME PerEpoch # 0 => /\ \A r \in Ranks : CostOK(r, rank'[r])
                             /\ \A r, s \in Ranks : Agree(rank'[r], rank'[s]),
             \E S : disk'.report \in Seq(S) /\ \A e \in S : CostEntry(e)
      PROVE  CostInv'
  BY <1>1, <1>2, <1>3, SameCost DEF CostInv
<1>4. ASSUME NEW r \in Ranks, Train(r) PROVE CostInv'
  <2>1. PerEpoch # 0 => \A s \in Ranks : CostOK(s, rank'[s])
    <3> SUFFICES ASSUME PerEpoch # 0, NEW s \in Ranks PROVE CostOK(s, rank'[s])
      OBVIOUS
    <3>1. CASE s # r
      <4>1. rank'[s] = rank[s]
        BY <1>4, <3>1, TrainEffect
      <4> QED BY <4>1 DEF CostInv
    <3>2. CASE s = r
      <4>1. Effect(r, rank[r], rank'[r]) /\ RankOK(rank[r]) /\ CostOK(r, rank[r])
        BY <1>0, <1>4, TrainEffect DEF CostInv
      <4> QED BY <3>2, <4>1, CostLocal
    <3> QED BY <3>1, <3>2
  <2>2. PerEpoch # 0 => \A s, t \in Ranks : Agree(rank'[s], rank'[t])
    <3> SUFFICES ASSUME PerEpoch # 0, NEW s \in Ranks, NEW t \in Ranks PROVE Agree(rank'[s], rank'[t])
      OBVIOUS
    <3>1. \A q \in Ranks \ {r} : rank'[q] = rank[q]
      BY <1>4, TrainEffect
    <3>2. \A p, q \in Ranks : Agree(rank[p], rank[q])
      BY DEF CostInv
    <3>3. ASSUME NEW q \in Ranks
          PROVE  Agree(rank'[r], rank[q]) /\ Agree(rank[q], rank'[r]) /\ Agree(rank'[r], rank'[r])
      <4>1. Effect(r, rank[r], rank'[r]) /\ RankOK(rank[r]) /\ CostOK(r, rank[r]) /\ CostOK(r, rank'[r])
        BY <1>0, <1>4, <2>1, TrainEffect DEF CostInv
      <4>2. RankOK(rank[q]) /\ Agree(rank[r], rank[q]) /\ Agree(rank[q], rank[r])
        BY <1>0, <3>2
      <4> QED BY <1>0, <4>1, <4>2, AgreeLocal
    <3>4. CASE s = r /\ t = r
      BY <3>3, <3>4
    <3>5. CASE s = r /\ t # r
      BY <3>1, <3>3, <3>5
    <3>6. CASE s # r /\ t = r
      BY <3>1, <3>3, <3>6
    <3>7. CASE s # r /\ t # r
      BY <3>1, <3>2, <3>7
    <3> QED BY <3>4, <3>5, <3>6, <3>7
  <2>3. PICK S : disk.report \in Seq(S) /\ \A e \in S : CostEntry(e)
    BY DEF CostInv
  <2>4. CASE disk'.report = disk.report
    BY <1>3, <2>1, <2>2, <2>3, <2>4
  <2>5. CASE r = 1 /\ rank[r].pc = "report" /\ disk'.report = Append(disk.report, Entry(rank[r]))
    <3> DEFINE e == Entry(rank[r])
    <3>1. PerEpoch # 0
      BY <1>0, <2>5 DEF RankOK, Untrained
    <3>2. CostEntry(e)
      <4>1. RankOK(rank[r]) /\ CostOK(r, rank[r]) /\ rank[r].pc = "report"
        BY <1>0, <2>5, <3>1 DEF CostInv
      <4> QED BY <1>0, <3>1, <4>1, CostReported
    <3> HIDE DEF e
    <3>3. disk'.report \in Seq(S \cup {e})
      BY <2>3, <2>5, ReportGrows DEF e
    <3>4. \A d \in S \cup {e} : CostEntry(d)
      BY <2>3, <3>2
    <3> QED BY <1>3, <2>1, <2>2, <3>3, <3>4
  <2> QED BY <1>4, <2>4, <2>5, TrainEffect
<1>5. CASE Together
  <2>1. PerEpoch # 0
    <3>1. PICK r \in Ranks : rank[r].pc \in {"sum cost", "reduce", "sum error"}
      BY <1>5 DEF Together, SumCost, ReduceGradients, SumError, At
    <3> QED BY <1>0, <3>1 DEF RankOK, Untrained
  <2>2. /\ disk' = disk /\ \A r \in Ranks : CostOK(r, rank'[r])
        /\ \A r, s \in Ranks : Agree(rank'[r], rank'[s])
    BY <1>5, <2>1, CostTogether DEF CostInv
  <2> QED BY <1>3, <2>2 DEF CostInv
<1>6. CASE UNCHANGED <<rank, disk>>
  BY <1>3, <1>6 DEF CostInv
<1>7. CASE rank' = [r \in Ranks |-> Fresh] /\ UNCHANGED disk
  <2>1. \A r, s \in Ranks : CostOK(r, rank'[r]) /\ Agree(rank'[r], rank'[s])
    BY <1>7, FreshCost
  <2> QED BY <1>3, <1>7, <2>1 DEF CostInv
<1> QED
  BY <1>4, <1>5, <1>6, <1>7, NextEffect

\* The cost in monitoring_report.yml is that of every optimizer in every iteration on every rank,
\* each once, over as often as they were added up, for any number of them and of crashes: no loss
\* is left out because it is read only when the next optimizer runs, none is overwritten by the
\* evaluation, and none of another epoch is among them (_update).
THEOREM CostHolds == Spec => []CostIsExact
<1>1. Init => CostInv
  <2> SUFFICES ASSUME Init PROVE CostInv
    OBVIOUS
  <2>1. \A r \in Ranks : rank[r] = Fresh
    BY DEF Init
  <2>2. disk.report \in Seq({})
    BY DEF Init
  <2> QED BY <2>1, <2>2, FreshCost DEF CostInv
<1>2. TrainInv /\ CostInv /\ [Next]_vars => CostInv'
  BY CostNext
<1>3. CostInv => CostIsExact
  <2> SUFFICES ASSUME CostInv PROVE CostIsExact
    OBVIOUS
  <2>1. PICK S : disk.report \in Seq(S) /\ \A e \in S : CostEntry(e)
    BY DEF CostInv
  <2>2. \A n \in DOMAIN disk.report : CostEntry(disk.report[n])
    BY <2>1
  <2>3. CostIsExact <=> \A n \in DOMAIN disk.report : CostEntry(disk.report[n])
    BY DEF CostIsExact, CostEntry, Worked, TurnsOf, More
  <2> QED BY <2>2, <2>3
<1> QED
  BY <1>1, <1>2, <1>3, TrainAlways, PTL DEF Spec

-----------------------------------------------------------------------------
(* Losses that are not numbers. *)

\* The losses there may be, and those of which none is bad but for some that are still looked at.
AllLosses == {Token(i, k, s) : i \in Nat, k \in Turns, s \in Ranks}
Pure(F) == {t \in AllLosses : t \in conf.nan => t \in F}

\* The losses of the epoch a rank is in, the one of the optimizer at work with them.
Fed(R) == IF R.pc \in Learning THEN Losses(Ran(R.iter, TurnAfter(R))) ELSE {}

\* Gradients and updates made from such losses alone.
GradsPure(g, F) == \A p \in Parameters : g[p] \in Seq(Pure(F))
UpdatesPure(A, F) == \A u \in A : \A p \in DOMAIN u.grads : u.grads[p] \in Seq(Pure(F))
PureOK(R) == GradsPure(R.grads, Fed(R)) /\ UpdatesPure(R.applied, Fed(R))

PoisonInv ==
    /\ PerEpoch # 0 => \A r \in Ranks : PureOK(rank[r])
    /\ \A c \in Archives : UpdatesPure(c.applied, {})

\* What the turns of an iteration are: those that may have fed a rank grow with them.
LEMMA SamePure ==
    ASSUME conf' = conf
    PROVE  /\ \A A, F : UpdatesPure(A, F)' <=> UpdatesPure(A, F)
           /\ \A R : PureOK(R)' <=> PureOK(R)
<1>1. Ranks' = Ranks /\ Turns' = Turns /\ PerEpoch' = PerEpoch /\ \A k : Opt(k)' = Opt(k)
  BY SameProject
<1>2. \A F : Pure(F)' = Pure(F)
  BY <1>1 DEF Pure, AllLosses
<1>3. Parameters' = Parameters
  BY <1>1 DEF Parameters
<1>4. \A i, k : Ran(i, k)' = Ran(i, k)
  BY <1>1 DEF Ran, FirstOf
<1>5. \A R : Fed(R)' = Fed(R)
  <2> SUFFICES ASSUME NEW R PROVE Fed(R)' = Fed(R)
    OBVIOUS
  <2>1. Losses(Ran(R.iter, TurnAfter(R)))' = Losses(Ran(R.iter, TurnAfter(R)))
    BY <1>1, <1>4 DEF Losses
  <2> QED BY <2>1 DEF Fed
<1>6. \A A, F : UpdatesPure(A, F)' <=> UpdatesPure(A, F)
  BY <1>2 DEF UpdatesPure
<1>7. \A g, F : GradsPure(g, F)' <=> GradsPure(g, F)
  BY <1>2, <1>3 DEF GradsPure
<1> QED
  BY <1>5, <1>6, <1>7 DEF PureOK

\* More losses that are looked at, or fewer of which none is bad.
LEMMA PureGrows ==
    ASSUME NEW F, NEW G, \A t \in F : t \in conf.nan => t \in G
    PROVE  /\ \A q : q \in Seq(Pure(F)) => q \in Seq(Pure(G))
           /\ \A g : GradsPure(g, F) => GradsPure(g, G)
           /\ \A A : UpdatesPure(A, F) => UpdatesPure(A, G)
<1>1. Pure(F) \subseteq Pure(G)
  BY DEF Pure
<1>2. \A q : q \in Seq(Pure(F)) => q \in Seq(Pure(G))
  <2> DEFINE S == Pure(F)
             T == Pure(G)
  <2>1. S \subseteq T
    BY <1>1
  <2> HIDE DEF S, T
  <2>2. ASSUME NEW q, q \in Seq(S) PROVE q \in Seq(T)
    <3>1. Len(q) \in Nat /\ q \in [1..Len(q) -> S]
      BY <2>2
    <3>2. q \in [1..Len(q) -> T]
      BY <2>1, <3>1
    <3> QED BY <3>1, <3>2
  <2> QED BY <2>2 DEF S, T
<1> QED
  BY <1>2 DEF GradsPure, UpdatesPure

\* A rank whose gradients and updates stay.
LEMMA PureKeeps ==
    ASSUME NEW R, NEW X, PureOK(R), X.grads = R.grads, X.applied = R.applied,
           \A t \in Fed(R) : t \in conf.nan => t \in Fed(X)
    PROVE  PureOK(X)
BY PureGrows DEF PureOK

\* All sequences of a set give one.
LEMMA ConcatIn ==
    ASSUME NEW n \in Nat, NEW seqs, DOMAIN seqs = 1..n, NEW S, \A r \in 1..n : seqs[r] \in Seq(S)
    PROVE  Concat(seqs) \in Seq(S)
<1>1. PICK h : Concat(seqs) = h[n] /\ h[0] = <<>> /\ \A m \in 1..n : h[m] = h[m - 1] \o seqs[m]
  BY ConcatSteps
<1> DEFINE G == {m \in Nat : m <= n => h[m] \in Seq(S)}
<1>2. 0 \in G
  <2>1. <<>> \in Seq(S)
    OBVIOUS
  <2>2. h[0] \in Seq(S)
    BY <1>1, <2>1
  <2> QED BY <2>2
<1>3. ASSUME NEW m \in G, m \in Nat PROVE m + 1 \in G
  <2>1. CASE m + 1 <= n
    <3>1. m <= n /\ m + 1 \in 1..n /\ (m + 1) - 1 = m
      BY <1>3, <2>1
    <3>2. h[m] \in Seq(S) /\ seqs[m + 1] \in Seq(S) /\ h[m + 1] = h[m] \o seqs[m + 1]
      BY <1>1, <1>3, <3>1
    <3>3. h[m + 1] \in Seq(S)
      BY <3>2
    <3> QED BY <1>3, <3>3
  <2>2. CASE ~(m + 1 <= n)
    BY <1>3, <2>2
  <2> QED BY <2>1, <2>2
<1> HIDE DEF G
<1>4. n \in G
  BY <1>2, <1>3, SetByNumbers
<1> QED
  BY <1>1, <1>4 DEF G

\* The losses a rank is fed with as it goes through its turns.
LEMMA FedIs ==
    ASSUME NEW X
    PROVE  /\ X.pc \notin Learning => Fed(X) = {}
           /\ X.pc \in InTurn => Fed(X) = Losses(Ran(X.iter, X.turn + 1))
           /\ X.pc \in {"turn", "sum cost", "updated", "failed"} => Fed(X) = Losses(Ran(X.iter, X.turn))
<1>1. X.pc \notin Learning => Fed(X) = {}
  BY DEF Fed
<1>2. X.pc \in InTurn => Fed(X) = Losses(Ran(X.iter, X.turn + 1))
  BY DEF Fed, TurnAfter, Learning
<1>3. X.pc \in {"turn", "sum cost", "updated", "failed"} => Fed(X) = Losses(Ran(X.iter, X.turn))
  BY DEF Fed, TurnAfter, Learning, InTurn
<1> QED
  BY <1>1, <1>2, <1>3

\* A turn adds its losses to them.
LEMMA LossesGrow ==
    ASSUME conf \in Scenarios, PerEpoch # 0, NEW i \in Nat, NEW k \in Turns
    PROVE  /\ Losses(Ran(i, k)) \subseteq Losses(Ran(i, k + 1))
           /\ ~Active(Opt(k), i) => Ran(i, k + 1) = Ran(i, k)
           /\ Active(Opt(k), i) => \A s \in Ranks : Token(i, k, s) \in Losses(Ran(i, k + 1))
<1> DEFINE P == Ran(i, k)
           A == Ran(i, k + 1)
<1>1. (~Active(Opt(k), i) => A = P) /\ (Active(Opt(k), i) => A = P \cup {<<i, k>>})
  BY RanTurn
<1> HIDE DEF A, P
<1>2. Losses(P) \subseteq Losses(A)
  BY <1>1 DEF Losses
<1>3. ASSUME Active(Opt(k), i), NEW s \in Ranks PROVE Token(i, k, s) \in Losses(A)
  <2>1. <<i, k>> \in A
    BY <1>1, <1>3
  <2>2. Token(<<i, k>>[1], <<i, k>>[2], s) = Token(i, k, s)
    OBVIOUS
  <2> QED BY <2>1, <2>2 DEF Losses
<1> QED
  BY <1>1, <1>2, <1>3 DEF A, P

\* The backward adds its loss to the gradients.
LEMMA PureComputes ==
    ASSUME conf \in Scenarios, PerEpoch # 0, NEW r \in Ranks, NEW R, NEW X, RankOK(R), PureOK(R), Computes(r, R, X)
    PROVE  PureOK(X)
<1>1. /\ Keeps(R, X, {"held", "grads", "pc"}) /\ R.pc = "step" /\ X.pc \in {"reduce", "reserve"}
      /\ X.grads = [p \in Parameters |->
                        IF p \in Opt(R.turn).params
                        THEN Append(GradBefore(R, Opt(R.turn), p), Token(R.iter, R.turn, r)) ELSE R.grads[p]]
  BY DEF Computes
<1>2. X.iter = R.iter /\ X.turn = R.turn /\ X.applied = R.applied
  <2>1. Keeps(R, X, {"held", "grads", "pc"})
    BY <1>1
  <2> QED BY <2>1, KeepsFields
<1>3. R.iter \in Nat /\ R.turn \in Turns /\ Active(Opt(R.turn), R.iter)
  BY <1>1, RankNumbers DEF RankOK, Trained, InTurn
<1> DEFINE F == Fed(R)
           t == Token(R.iter, R.turn, r)
<1>4. Fed(X) = F /\ F = Losses(Ran(R.iter, R.turn + 1))
  BY <1>1, <1>2, FedIs DEF InTurn
<1>5. t \in Pure(F)
  BY <1>3, <1>4, LossesGrow DEF Pure, AllLosses
<1>6. ASSUME NEW p \in Parameters PROVE X.grads[p] \in Seq(Pure(F))
  <2> DEFINE S == Pure(F)
             b == GradBefore(R, Opt(R.turn), p)
  <2>1. R.grads[p] \in Seq(S)
    BY DEF PureOK, GradsPure
  <2>2. b \in Seq(S)
    BY <2>1 DEF GradBefore
  <2>3. X.grads[p] = Append(b, t) \/ X.grads[p] = R.grads[p]
    BY <1>1
  <2>4. t \in S
    BY <1>5
  <2> HIDE DEF S, b, t
  <2>5. Append(b, t) \in Seq(S)
    BY <2>2, <2>4
  <2> QED BY <2>1, <2>3, <2>5 DEF S
<1>7. GradsPure(X.grads, Fed(X))
  BY <1>4, <1>6 DEF GradsPure
<1> QED
  BY <1>2, <1>4, <1>7 DEF PureOK

\* The exchange of the gradients gives every rank those of the others, of the same losses.
LEMMA PureReduces ==
    ASSUME TrainInv, PerEpoch # 0, ReduceGradients, \A r \in Ranks : PureOK(rank[r])
    PROVE  \A r \in Ranks : PureOK(rank'[r])
<1>0. conf \in Scenarios
  BY DEF TrainInv, CacheInv, PrepOK
<1> SUFFICES ASSUME NEW r \in Ranks PROVE PureOK(rank'[r])
  OBVIOUS
<1>1. PICK q \in Ranks : \A s \in Ranks :
            /\ rank[s].pc = "reduce" /\ rank[s].iter = rank[q].iter /\ rank[s].turn = rank[q].turn
            /\ Reduces(rank[s], rank'[s])
  BY ReduceEffect
<1> DEFINE R == rank[r]
           X == rank'[r]
           F == Fed(R)
           all(p) == Concat([s \in Ranks |-> rank[s].grads[p]])
<1>2. \A s \in Ranks : Fed(rank[s]) = F
  <2>1. \A s \in Ranks : Fed(rank[s]) = Losses(Ran(rank[q].iter, rank[q].turn + 1))
    BY <1>0, <1>1, FedIs DEF InTurn
  <2>2. F = Losses(Ran(rank[q].iter, rank[q].turn + 1))
    BY <2>1, Zenon
  <2> QED BY <2>1, <2>2, Zenon
<1>3. ASSUME NEW p \in Parameters PROVE all(p) \in Seq(Pure(F))
  <2> DEFINE S == Pure(F)
             n == Size
             seqs == [s \in Ranks |-> rank[s].grads[p]]
  <2>1. n \in Nat /\ Ranks = 1..n
    BY <1>0, RanksAre
  <2>2. \A s \in Ranks : seqs[s] \in Seq(S)
    <3>1. \A s \in Ranks : rank[s].grads[p] \in Seq(Pure(Fed(rank[s])))
      BY DEF PureOK, GradsPure
    <3> QED BY <1>2, <3>1
  <2>3. DOMAIN seqs = 1..n
    BY <2>1
  <2> HIDE DEF S, n, seqs
  <2>4. Concat(seqs) \in Seq(S)
    BY <2>1, <2>2, <2>3, ConcatIn
  <2> QED BY <2>4 DEF S, seqs
<1>4. R.pc = "reduce" /\ Reduces(R, X) /\ PureOK(R)
  BY <1>1
<1>5. /\ Keeps(R, X, {"grads", "pc"}) /\ X.pc = "apply"
      /\ X.grads = [p \in Parameters |-> IF p \in Opt(R.turn).params THEN all(p) ELSE R.grads[p]]
  BY <1>4 DEF Reduces
<1> HIDE DEF R, X, all, F
<1>6. X.iter = R.iter /\ X.turn = R.turn /\ X.applied = R.applied
  <2>1. Keeps(R, X, {"grads", "pc"})
    BY <1>5
  <2> QED BY <2>1, KeepsFields
<1>7. Fed(X) = F
  BY <1>0, <1>4, <1>5, <1>6, FedIs DEF InTurn, F
<1>8. GradsPure(X.grads, F)
  <2>1. \A p \in Parameters : R.grads[p] \in Seq(Pure(F))
    BY <1>4 DEF PureOK, GradsPure, F
  <2> QED BY <1>3, <1>5, <2>1 DEF GradsPure
<1>9. PureOK(X)
  BY <1>4, <1>6, <1>7, <1>8 DEF PureOK, F
<1> QED
  BY <1>9 DEF X

\* The update is made from them.
LEMMA PureApplies ==
    ASSUME conf \in Scenarios, PerEpoch # 0, NEW R, NEW X, RankOK(R), PureOK(R), Applies(R, X)
    PROVE  PureOK(X)
<1>1. /\ Keeps(R, X, {"applied", "states", "pc"}) /\ R.pc = "apply" /\ X.pc = "reserve"
      /\ X.applied = R.applied \cup {Update(R)}
  BY DEF Applies
<1>2. X.iter = R.iter /\ X.turn = R.turn /\ X.grads = R.grads
  <2>1. Keeps(R, X, {"applied", "states", "pc"})
    BY <1>1
  <2> QED BY <2>1, KeepsFields
<1>3. R.turn \in Turns
  BY <1>1 DEF RankOK, Trained, InTurn
<1>4. Fed(X) = Fed(R)
  BY <1>1, <1>2, FedIs DEF InTurn
<1>5. \A p \in DOMAIN Update(R).grads : p \in Parameters /\ Update(R).grads[p] = R.grads[p]
  BY <1>3 DEF Update, Parameters
<1>6. UpdatesPure(X.applied, Fed(R))
  BY <1>1, <1>5 DEF PureOK, GradsPure, UpdatesPure
<1> QED
  BY <1>2, <1>4, <1>6 DEF PureOK

\* The sum of the epoch is a number: no loss of the epoch is bad.
LEMMA PureEndsAnEpoch ==
    ASSUME conf \in Scenarios, PerEpoch # 0, NEW r, NEW R, NEW X, RankOK(R), CostOK(r, R), PureOK(R), EndsAnEpoch(R, X)
    PROVE  PureOK(X)
<1>1. /\ Keeps(R, X, {"average", "sumEpoch", "numIteration", "batch", "pc"}) /\ R.pc = "updated"
      /\ ~IsNan(R.sumEpoch) /\ X.average = <<R.sumEpoch, R.numIteration>> /\ X.pc \in {"evaluate", "report"}
  BY DEF EndsAnEpoch
<1>2. X.iter = R.iter /\ X.grads = R.grads /\ X.applied = R.applied
  <2>1. Keeps(R, X, {"average", "sumEpoch", "numIteration", "batch", "pc"})
    BY <1>1
  <2> QED BY <2>1, KeepsFields
<1>3. R.turn = Number + 1
  BY <1>1 DEF RankOK, Trained
<1>4. CostOK(r, X)
  BY CostEndsAnEpoch
<1>5. AverageOK(X.average, X.iter)
  BY <1>1, <1>4 DEF CostOK, ErrorPcs
<1>6. Lists(R.sumEpoch, Losses(Ran(R.iter, R.turn)))
  BY <1>1, <1>2, <1>3, <1>5 DEF AverageOK
<1>7. Fed(R) = Losses(Ran(R.iter, R.turn))
  BY <1>1, FedIs
<1>8. \A t \in Fed(R) : t \notin conf.nan
  BY <1>1, <1>6, <1>7 DEF Lists, IsNan
<1> QED
  BY <1>2, <1>8, PureKeeps

\* A turn that goes on or is passed over.
LEMMA PureTurns ==
    ASSUME conf \in Scenarios, PerEpoch # 0, NEW r, NEW R, NEW X, RankOK(R), PureOK(R),
           \/ Skips(R, X) \/ Monitors(R, X) \/ Reserves(R, X) \/ EndsTurns(R, X) \/ Fails(R, X)
           \/ Continues(r, R, X)
    PROVE  PureOK(X)
<1>1. R.iter \in Nat /\ R.turn \in 1..(Number + 1)
  BY RankNumbers
<1>2. CASE Skips(R, X)
  <2>1. /\ Keeps(R, X, {"pc", "turn"}) /\ R.pc = "turn" /\ X.pc = "turn" /\ X.turn = R.turn + 1
        /\ R.turn \in Turns /\ ~Active(Opt(R.turn), R.iter)
    BY <1>2 DEF Skips
  <2>2. Keeps(R, X, {"pc", "turn"})
    BY <2>1
  <2>3. X.iter = R.iter /\ X.grads = R.grads /\ X.applied = R.applied
    BY <2>2, KeepsFields
  <2>4. Fed(R) = Losses(Ran(R.iter, R.turn)) /\ Fed(X) = Losses(Ran(R.iter, R.turn + 1))
    BY <2>1, <2>3, FedIs
  <2>5. Fed(X) = Fed(R)
    BY <1>1, <2>1, <2>4, LossesGrow
  <2> QED BY <2>3, <2>5, PureKeeps
<1>3. CASE Monitors(R, X)
  <2>1. /\ Keeps(R, X, {"sumIteration", "first", "pc"}) /\ R.pc = "turn" /\ X.pc \in {"sum cost", "step"}
        /\ R.turn \in Turns
    BY <1>3 DEF Monitors
  <2>2. Keeps(R, X, {"sumIteration", "first", "pc"})
    BY <2>1
  <2>3. X.iter = R.iter /\ X.turn = R.turn /\ X.grads = R.grads /\ X.applied = R.applied
    BY <2>2, KeepsFields
  <2>4. Fed(R) = Losses(Ran(R.iter, R.turn))
    BY <2>1, FedIs
  <2>5. Fed(X) = Losses(Ran(R.iter, R.turn)) \/ Fed(X) = Losses(Ran(R.iter, R.turn + 1))
    BY <2>1, <2>3, FedIs DEF InTurn
  <2>6. Fed(R) \subseteq Fed(X)
    BY <1>1, <2>1, <2>4, <2>5, LossesGrow
  <2> QED BY <2>3, <2>6, PureKeeps
<1>4. CASE Reserves(R, X)
  <2>1. Keeps(R, X, {"pending", "turn", "pc"}) /\ R.pc = "reserve" /\ X.pc = "turn" /\ X.turn = R.turn + 1
    BY <1>4 DEF Reserves
  <2>2. Keeps(R, X, {"pending", "turn", "pc"})
    BY <2>1
  <2>3. X.iter = R.iter /\ X.grads = R.grads /\ X.applied = R.applied
    BY <2>2, KeepsFields
  <2>4. Fed(R) = Losses(Ran(R.iter, R.turn + 1)) /\ Fed(X) = Losses(Ran(R.iter, R.turn + 1))
    BY <2>1, <2>3, FedIs DEF InTurn
  <2> QED BY <2>3, <2>4, PureKeeps
<1>5. CASE EndsTurns(R, X) \/ Fails(R, X)
  <2>1. PICK C : /\ Keeps(R, X, C) /\ C \in {{"sumIteration", "pc"}, {"pc"}}
                 /\ R.pc \in {"turn", "updated"} /\ X.pc \in {"sum cost", "updated", "failed"}
    BY <1>5 DEF EndsTurns, Fails
  <2>a. "iter" \notin C /\ "turn" \notin C /\ "grads" \notin C /\ "applied" \notin C
    BY <2>1
  <2>2. X.iter = R.iter /\ X.turn = R.turn /\ X.grads = R.grads /\ X.applied = R.applied
    BY <2>1, <2>a, KeepsFields
  <2>3. Fed(R) = Losses(Ran(R.iter, R.turn)) /\ Fed(X) = Losses(Ran(R.iter, R.turn))
    BY <2>1, <2>2, FedIs
  <2> QED BY <2>2, <2>3, PureKeeps
<1>6. CASE Continues(r, R, X)
  <2>1. R.pc = "updated" /\ ~EndsEpoch(R.iter) /\ Advances(r, R, X, {})
    BY <1>6 DEF Continues
  <2>2. R.turn = Number + 1 /\ R.iter < MaxIteration
    BY <2>1 DEF RankOK, Trained, Ended
  <2>3. R.iter + 1 < MaxIteration
    <3>1. MaxIteration = conf.maxEpoch * PerEpoch /\ MaxIteration \in Nat
          /\ PerEpoch \in Nat \ {0} /\ conf.maxEpoch \in Nat
      BY Project
    <3>2. R.iter + 1 # MaxIteration
      BY <1>1, <2>1, <2>2, <3>1, EndIsEndOfEpoch DEF EndsEpoch
    <3> QED BY <1>1, <2>2, <3>1, <3>2
  <2>4. X.pc = "turn" /\ X.iter = R.iter + 1 /\ X.turn = 1
    BY <2>1, <2>3 DEF Advances
  <2>5. X.grads = R.grads /\ X.applied = R.applied
    BY <2>1, AdvanceFields
  <2>6. Fed(R) = Losses(Ran(R.iter, Number + 1)) /\ Fed(X) = Losses(Ran(R.iter + 1, 1))
    BY <2>1, <2>2, <2>4, FedIs
  <2>7. Fed(X) = Fed(R)
    BY <1>1, <2>1, <2>6, RanIteration
  <2> QED BY <2>5, <2>7, PureKeeps
<1> QED
  BY <1>2, <1>3, <1>4, <1>5, <1>6

\* A rank alone stays pure.
LEMMA PureLocal ==
    ASSUME TrainInv, PerEpoch # 0, NEW r \in Ranks, NEW R, NEW X, RankOK(R), CostOK(r, R), PureOK(R),
           \A c \in Archives : UpdatesPure(c.applied, {}), Effect(r, R, X)
    PROVE  PureOK(X)
<1>0. conf \in Scenarios /\ DiskOK
  BY DEF TrainInv, CacheInv, PrepOK
<1>1. CASE \/ Skips(R, X) \/ Monitors(R, X) \/ Reserves(R, X) \/ EndsTurns(R, X) \/ Fails(R, X)
           \/ Continues(r, R, X)
  BY <1>0, <1>1, PureTurns
<1>2. CASE Computes(r, R, X) \/ Applies(R, X) \/ EndsAnEpoch(R, X)
  BY <1>0, <1>2, PureComputes, PureApplies, PureEndsAnEpoch
<1>3. CASE MonitorsError(R, X) \/ ForwardsMonitor(r, R, X) \/ Judges(r, R, X) \/ Saves(R, X)
  <2>1. PICK C : /\ Keeps(R, X, C)
                 /\ C \in {{"pc"}, {"held", "batch", "count", "pc"}, {"judged", "best", "pc"}, {"saved", "pc"}}
    BY <1>3 DEF MonitorsError, ForwardsMonitor, Judges, Saves
  <2>2. X.grads = R.grads /\ X.applied = R.applied
    BY <2>1, KeepsFields
  <2>3. R.pc \notin Learning
    BY <1>3 DEF MonitorsError, ForwardsMonitor, Judges, Saves, Learning, InTurn
  <2> QED BY <2>2, <2>3, FedIs, PureKeeps
<1>4. CASE Reports(r, R, X) \/ ChecksTime(r, R, X)
  <2>1. R.pc \notin Learning
    BY <1>4 DEF Reports, ChecksTime, Learning, InTurn
  <2>2. \/ Advances(r, R, X, Told) \/ Advances(r, R, X, {})
        \/ \E C : Keeps(R, X, C) /\ C \in {Told \cup {"pc", "then"}, {"pc", "then"}}
    BY <1>4 DEF Reports, ChecksTime
  <2>3. CASE Advances(r, R, X, Told) \/ Advances(r, R, X, {})
    <3>1. X.grads = R.grads /\ X.applied = R.applied
      BY <2>3, AdvanceFields DEF Told
    <3> QED BY <2>1, <3>1, FedIs, PureKeeps
  <2>4. ASSUME NEW C, Keeps(R, X, C), C \in {Told \cup {"pc", "then"}, {"pc", "then"}} PROVE PureOK(X)
    <3>1. "grads" \notin C /\ "applied" \notin C
      BY <2>4 DEF Told
    <3>2. X.grads = R.grads /\ X.applied = R.applied
      BY <2>4, <3>1, KeepsFields
    <3> QED BY <2>1, <3>2, FedIs, PureKeeps
  <2> QED BY <2>2, <2>3, <2>4
<1>5. CASE Begins(R, X)
  <2>1. R.pc \notin Learning
    BY <1>5 DEF Begins, Learning, InTurn
  <2>2. X.grads = R.grads
    BY <1>5, KeepsFields DEF Begins
  <2>3. GradsPure(X.grads, Fed(X))
    <3>1. GradsPure(R.grads, {})
      BY <2>1, FedIs DEF PureOK
    <3> QED BY <2>2, <3>1, PureGrows
  <2>4. UpdatesPure(X.applied, {})
    <3>1. CASE Keeps(R, X, {"pc"})
      <4>1. X.applied = R.applied
        BY <3>1, KeepsFields
      <4> QED BY <2>1, <4>1, FedIs DEF PureOK
    <3>2. CASE disk.current # {} /\ X.applied = Latest(disk.current).applied
      BY <1>0, <3>2, LatestOne DEF Archives
    <3> QED BY <1>5, <3>1, <3>2 DEF Begins
  <2>5. UpdatesPure(X.applied, Fed(X))
    BY <2>4, PureGrows
  <2> QED BY <2>3, <2>5 DEF PureOK
<1>6. CASE Untrains(R, X)
  BY <1>6 DEF Untrains
<1> QED
  BY <1>1, <1>2, <1>3, <1>4, <1>5, <1>6 DEF Effect

\* All ranks together do.
LEMMA PureTogether ==
    ASSUME TrainInv, PerEpoch # 0, \A r \in Ranks : PureOK(rank[r]), Together
    PROVE  disk' = disk /\ \A r \in Ranks : PureOK(rank'[r])
<1>0. conf \in Scenarios /\ \A r \in Ranks : RankOK(rank[r])
  BY DEF TrainInv, CacheInv, PrepOK, RankInv
<1>1. CASE ReduceGradients
  BY <1>1, ReduceEffect, PureReduces
<1>2. CASE SumCost
  <2>1. disk' = disk
    BY <1>2, SumCostEffect
  <2>2. ASSUME NEW r \in Ranks PROVE PureOK(rank'[r])
    <3> DEFINE R == rank[r]
               X == rank'[r]
    <3>1. R.pc = "sum cost" /\ SumsCost(R, X)
      BY <1>2, SumCostEffect
    <3>2. RankOK(R) /\ PureOK(R)
      BY <1>0
    <3> HIDE DEF R, X
    <3>3. /\ Keeps(R, X, {"sumEpoch", "numIteration", "sumIteration", "pending", "pc"})
          /\ X.pc = IF R.turn \notin Turns THEN "updated" ELSE "step"
      BY <3>1 DEF SumsCost
    <3>4. X.iter = R.iter /\ X.turn = R.turn /\ X.grads = R.grads /\ X.applied = R.applied
      <4>1. Keeps(R, X, {"sumEpoch", "numIteration", "sumIteration", "pending", "pc"})
        BY <3>3
      <4> QED BY <4>1, KeepsFields
    <3>5. Fed(R) = Losses(Ran(R.iter, R.turn))
      BY <3>1, FedIs
    <3>6. ASSUME R.turn \notin Turns PROVE PureOK(X)
      <4>1. Fed(X) = Losses(Ran(R.iter, R.turn))
        BY <3>3, <3>4, <3>6, FedIs
      <4> QED BY <3>2, <3>4, <3>5, <4>1, PureKeeps
    <3>7. ASSUME R.turn \in Turns PROVE PureOK(X)
      <4>1. Fed(X) = Losses(Ran(R.iter, R.turn + 1))
        BY <3>3, <3>4, <3>7, FedIs DEF InTurn
      <4>2. Fed(R) \subseteq Fed(X)
        BY <1>0, <3>2, <3>5, <3>7, <4>1, RankNumbers, LossesGrow
      <4> QED BY <3>2, <3>4, <4>2, PureKeeps
    <3>8. PureOK(X)
      BY <3>6, <3>7
    <3> QED BY <3>8 DEF X
  <2> QED BY <2>1, <2>2
<1>3. CASE SumError
  <2>1. disk' = disk
    BY <1>3, SumErrorEffect
  <2>2. ASSUME NEW r \in Ranks PROVE PureOK(rank'[r])
    <3> DEFINE R == rank[r]
               X == rank'[r]
    <3>1. R.pc = "sum error" /\ SumsErrors(R, X) /\ PureOK(R)
      BY <1>3, SumErrorEffect
    <3> HIDE DEF R, X
    <3>2. Keeps(R, X, {"errors", "pc"})
      BY <3>1 DEF SumsErrors
    <3>3. X.grads = R.grads /\ X.applied = R.applied
      BY <3>2, KeepsFields
    <3>4. Fed(R) = {}
      BY <3>1, FedIs DEF Learning, InTurn
    <3>5. PureOK(X)
      BY <3>1, <3>3, <3>4, PureKeeps
    <3> QED BY <3>5 DEF X
  <2> QED BY <2>1, <2>2
<1> QED
  BY <1>1, <1>2, <1>3 DEF Together

\* A new process has no gradients.
LEMMA FreshPure == PureOK(Fresh)
<1>1. /\ Fresh.pc = "start" /\ Fresh.applied = {} /\ Fresh.grads = [p \in Parameters |-> <<>>]
  BY DEF Fresh
<1>2. \A S : <<>> \in Seq(S)
  OBVIOUS
<1> QED
  BY <1>1, <1>2 DEF PureOK, GradsPure, UpdatesPure

\* Every step keeps the checkpoints pure.
LEMMA PoisonNext ==
    ASSUME TrainInv, CostInv, PoisonInv, [Next]_vars
    PROVE  PoisonInv'
<1>0. conf \in Scenarios /\ \A r \in Ranks : RankOK(rank[r])
  BY DEF TrainInv, CacheInv, PrepOK, RankInv
<1>1. conf' = conf
  BY NextEffect
<1>2. Ranks' = Ranks /\ PerEpoch' = PerEpoch
  BY <1>1, SameProject
<1>3. ASSUME PerEpoch # 0 => \A r \in Ranks : PureOK(rank'[r]),
             \A c \in Archives' : UpdatesPure(c.applied, {})
      PROVE  PoisonInv'
  BY <1>1, <1>2, <1>3, SamePure DEF PoisonInv
<1>4. ASSUME NEW r \in Ranks, Train(r) PROVE PoisonInv'
  <2>1. PerEpoch # 0 => \A s \in Ranks : PureOK(rank'[s])
    <3> SUFFICES ASSUME PerEpoch # 0, NEW s \in Ranks PROVE PureOK(rank'[s])
      OBVIOUS
    <3>1. CASE s # r
      <4>1. rank'[s] = rank[s]
        BY <1>4, <3>1, TrainEffect
      <4> QED BY <4>1 DEF PoisonInv
    <3>2. CASE s = r
      <4>1. Effect(r, rank[r], rank'[r]) /\ RankOK(rank[r]) /\ CostOK(r, rank[r]) /\ PureOK(rank[r])
        BY <1>0, <1>4, TrainEffect DEF CostInv, PoisonInv
      <4>2. \A c \in Archives : UpdatesPure(c.applied, {})
        BY DEF PoisonInv
      <4>3. PureOK(rank'[r])
        BY <4>1, <4>2, PureLocal
      <4> QED BY <3>2, <4>3
    <3> QED BY <3>1, <3>2
  <2>2. ASSUME NEW c \in Archives' PROVE UpdatesPure(c.applied, {})
    <3>1. CASE c \in Archives
      BY <3>1 DEF PoisonInv
    <3>2. ASSUME NEW whole, rank[r].pc \in Saving, c = Archive(rank[r], whole)
          PROVE  UpdatesPure(c.applied, {})
      <4>1. c.applied = rank[r].applied
        BY <3>2 DEF Archive
      <4>2. CASE PerEpoch = 0
        <5>1. rank[r].applied = {}
          BY <1>0, <4>2 DEF RankOK, Untrained
        <5> QED BY <4>1, <5>1 DEF UpdatesPure
      <4>3. CASE PerEpoch # 0
        <5>1. Fed(rank[r]) = {}
          BY <3>2, FedIs DEF Saving, Learning, InTurn
        <5>2. PureOK(rank[r])
          BY <4>3 DEF PoisonInv
        <5> QED BY <4>1, <5>1, <5>2 DEF PureOK
      <4> QED BY <4>2, <4>3
    <3> QED BY <1>4, <3>1, <3>2, TrainEffect
  <2> QED BY <1>3, <2>1, <2>2
<1>5. CASE Together
  <2>1. PerEpoch # 0
    <3>1. PICK r \in Ranks : rank[r].pc \in {"sum cost", "reduce", "sum error"}
      BY <1>5 DEF Together, SumCost, ReduceGradients, SumError, At
    <3> QED BY <1>0, <3>1 DEF RankOK, Untrained
  <2>2. disk' = disk /\ \A r \in Ranks : PureOK(rank'[r])
    BY <1>5, <2>1, PureTogether DEF PoisonInv
  <2> QED BY <1>3, <2>2 DEF PoisonInv, Archives
<1>6. CASE UNCHANGED <<rank, disk>>
  BY <1>3, <1>6 DEF PoisonInv, Archives
<1>7. CASE rank' = [r \in Ranks |-> Fresh] /\ UNCHANGED disk
  <2>1. \A r \in Ranks : PureOK(rank'[r])
    BY <1>7, FreshPure
  <2> QED BY <1>3, <1>7, <2>1 DEF PoisonInv, Archives
<1> QED
  BY <1>4, <1>5, <1>6, <1>7, NextEffect

\* No checkpoint holds an update made from a loss that was not a number, for any number of ranks,
\* optimizers, iterations and crashes: the sum of the epoch lists every loss whose gradients the
\* updates since the last checkpoint may hold, and it is looked at before they are saved.
THEOREM PoisonHolds == Spec => []NoPoisonedCheckpoint
<1>1. Init => CostInv /\ PoisonInv
  <2> SUFFICES ASSUME Init PROVE CostInv /\ PoisonInv
    OBVIOUS
  <2>1. \A r \in Ranks : rank[r] = Fresh
    BY DEF Init
  <2>2. disk.report \in Seq({}) /\ Archives = {}
    BY DEF Init, Archives
  <2>3. CostInv
    BY <2>1, <2>2, FreshCost DEF CostInv
  <2>4. PoisonInv
    BY <2>1, <2>2, FreshPure DEF PoisonInv
  <2> QED BY <2>3, <2>4
<1>2. TrainInv /\ CostInv /\ PoisonInv /\ [Next]_vars => CostInv' /\ PoisonInv'
  BY CostNext, PoisonNext
<1>3. PoisonInv => NoPoisonedCheckpoint
  <2> SUFFICES ASSUME PoisonInv, NEW c \in Archives, NEW u \in c.applied, NEW p \in DOMAIN u.grads
               PROVE  ~IsNan(u.grads[p])
    BY DEF NoPoisonedCheckpoint, Archives
  <2>1. u.grads[p] \in Seq(Pure({}))
    BY DEF PoisonInv, UpdatesPure
  <2> DEFINE q == u.grads[p]
             S == Pure({})
  <2>2. \A t \in S : t \notin conf.nan
    BY DEF Pure
  <2>3. q \in Seq(S)
    BY <2>1
  <2> HIDE DEF q, S
  <2>4. \A k \in DOMAIN q : q[k] \in S
    BY <2>3
  <2> QED BY <2>2, <2>4 DEF IsNan, q
<1> QED
  BY <1>1, <1>2, <1>3, TrainAlways, PTL DEF Spec

-----------------------------------------------------------------------------
(* The gradients of an update. *)

\* What the iterations J of an optimizer add to its gradients on one rank, and on all.
OwnOf(k, J, r) == {Token(i, k, r) : i \in J}
AllOf(k, J) == {Token(i, k, s) : i \in J, s \in Ranks}

\* The iterations of an update, and those since zero_grad before an iteration.
Window(k, iter, from) == {i \in (iter - Opt(k).interval + 1)..iter : i >= from /\ Active(Opt(k), i)}
Block(k, iter, from) == {i \in (iter - (iter % Opt(k).interval))..(iter - 1) : i >= from /\ Active(Opt(k), i)}

UpdateOK(u) ==
    Separate(u.turn) => \A p \in Opt(u.turn).params : Lists(u.grads[p], AllOf(u.turn, Window(u.turn, u.iter, u.from)))

\* The next iteration of an optimizer.
Upto(R, k) ==
    IF k < R.turn \/ (k = R.turn /\ R.pc \in {"reduce", "apply", "reserve"}) THEN R.iter + 1 ELSE R.iter

Exclusive(k) == \A j \in Turns \ {k} : Opt(j).params \cap Opt(k).params = {}

\* Gradients of its own are there only when the optimizer has run; the next forward adds to
\* those of the iterations since zero_grad.
GradOK(r, R, k, p) ==
    LET n == Upto(R, k)
    IN  /\ Exclusive(k) /\ n < Opt(k).start => R.grads[p] = <<>>
        /\ Active(Opt(k), n) /\ n % Opt(k).interval # 0 => Lists(R.grads[p], OwnOf(k, Block(k, n, R.from), r))

WholeOK(r, R) ==
    /\ \A k \in Turns : Separate(k) => \A p \in Opt(k).params :
            /\ GradOK(r, R, k, p)
            /\ R.turn = k /\ R.pc = "reduce" => Lists(R.grads[p], OwnOf(k, Window(k, R.iter, R.from), r))
            /\ R.turn = k /\ R.pc = "apply" => Lists(R.grads[p], AllOf(k, Window(k, R.iter, R.from)))
    /\ \A u \in R.applied : UpdateOK(u)

\* Where a rank began, and where one that has not may begin at the latest.
FromOK(R) ==
    /\ R.from \in Nat /\ R.from <= FirstOf(R.iter)
    /\ R.pc = "start" => R.from = 0 /\ \A p \in Parameters : R.grads[p] = <<>>
Limit(S) == IF S.pc = "start" THEN MaxIteration ELSE S.from

\* The ranks may begin at different checkpoints, but only when the epochs between them have
\* no optimizer: the losses of an epoch that has one are added up by all.
Aligned(R, S) ==
    /\ \A i \in 0..(MaxIteration - 1) : R.from <= i /\ i < Stage(R) * PerEpoch /\ i < Limit(S) =>
            \A k \in Turns : ~Active(Opt(k), i)
    /\ R.sumEpoch # <<>> => Limit(S) <= Stage(R) * PerEpoch

WholeInv ==
    /\ PerEpoch # 0 => \A r \in Ranks :
            /\ WholeOK(r, rank[r]) /\ FromOK(rank[r])
            /\ \A s \in Ranks : Aligned(rank[r], rank[s])
    /\ \A c \in Archives : \A u \in c.applied : UpdateOK(u)

\* What the project says of an optimizer.
LEMMA OptTyped ==
    ASSUME conf \in Scenarios, NEW k \in Turns
    PROVE  Opt(k).interval \in Nat \ {0} /\ Opt(k).start \in Nat /\ Opt(k).end \in Nat
<1>1. /\ {"start", "end", "interval"} \subseteq DOMAIN conf.opts[k]
      /\ conf.opts[k].start \in Int /\ conf.opts[k].end \in Int /\ conf.opts[k].interval \in Int
  BY ProjectAssumption DEF Turns
<1> DEFINE c == conf.opts[k]
<1>2. /\ Opt(k).start = Shared(c.start) /\ Opt(k).end = Shared(c.end)
      /\ Opt(k).interval = Max({c.interval, 1})
  BY <1>1 DEF Opt
<1>3. ASSUME NEW i \in Int PROVE Shared(i) \in Nat
  <2>1. Size \in Nat \ {0}
    BY RanksAre
  <2>2. CASE i > 0
    <3>1. i - 1 \in Nat
      BY <2>2
    <3>2. (i - 1) \div Size \in Nat
      BY <2>1, <3>1, Division
    <3> QED BY <2>2, <3>2 DEF Shared
  <2>3. CASE ~(i > 0)
    BY <2>3 DEF Shared
  <2> QED BY <2>2, <2>3
<1>4. ASSUME NEW i \in Int PROVE Max({i, 1}) \in Nat \ {0}
  <2>1. \E x \in {i, 1} : \A y \in {i, 1} : x >= y
    <3>1. i >= 1 \/ 1 >= i
      OBVIOUS
    <3> QED BY <3>1
  <2>2. Max({i, 1}) \in {i, 1} /\ \A y \in {i, 1} : Max({i, 1}) >= y
    BY <2>1 DEF Max
  <2> DEFINE m == Max({i, 1})
  <2>3. m \in {i, 1} /\ m >= 1
    BY <2>2
  <2> HIDE DEF m
  <2>4. m \in Nat \ {0}
    BY <2>3
  <2> QED BY <2>4 DEF m
<1> HIDE DEF c
<1> QED
  BY <1>1, <1>2, <1>3, <1>4 DEF c

\* An optimizer that is not active works in the next iteration: that is the one it starts with.
LEMMA ActiveStarts ==
    ASSUME conf \in Scenarios, NEW k \in Turns, NEW n \in Nat, ~Active(Opt(k), n), Active(Opt(k), n + 1)
    PROVE  Opt(k).start = n + 2 /\ \A j \in 0..n : ~Active(Opt(k), j)
<1>1. Opt(k).start \in Nat /\ Opt(k).end \in Nat
  BY OptTyped
<1> DEFINE s == Opt(k).start
           e == Opt(k).end
<1>2. \A j : Active(Opt(k), j) <=> (s = 0 \/ j + 1 >= s) /\ (e = 0 \/ j + 1 <= e)
  BY DEF Active
<1>3. s \in Nat /\ e \in Nat
  BY <1>1
<1>4. ((s = 0 \/ n + 2 >= s) /\ (e = 0 \/ n + 2 <= e)) /\ ~((s = 0 \/ n + 1 >= s) /\ (e = 0 \/ n + 1 <= e))
  <2>1. (n + 1) + 1 = n + 2
    OBVIOUS
  <2> QED BY <1>2, <2>1
<1> HIDE DEF s, e
<1>5. s = n + 2
  BY <1>3, <1>4
<1>6. \A j \in 0..n : ~Active(Opt(k), j)
  BY <1>2, <1>3, <1>5
<1> QED
  BY <1>5, <1>6 DEF s

\* The place of the next iteration in its interval.
LEMMA ModNext ==
    ASSUME NEW n \in Nat, NEW p \in Nat \ {0}
    PROVE  /\ n % p \in 0..(p - 1) /\ n % p <= n
           /\ n % p = p - 1 => (n + 1) % p = 0
           /\ n % p # p - 1 => (n + 1) % p = (n % p) + 1
<1> DEFINE d == n \div p
           t == n % p
           e == (n + 1) \div p
           u == (n + 1) % p
<1>1. d \in Nat /\ t \in 0..(p - 1) /\ n = p * d + t
  BY Division
<1>2. e \in Nat /\ u \in 0..(p - 1) /\ n + 1 = p * e + u
  <2>1. n + 1 \in Nat
    OBVIOUS
  <2> QED BY <2>1, Division
<1> HIDE DEF d, t, e, u
<1>3. p * d \in Nat /\ p * e \in Nat /\ p * d = d * p /\ p * e = e * p
  BY <1>1, <1>2
<1>4. t <= n
  BY <1>1, <1>3
<1>5. CASE e = d
  <2>1. u = t + 1
    BY <1>1, <1>2, <1>3, <1>5
  <2> QED BY <1>1, <1>2, <1>4, <2>1 DEF t, u
<1>6. CASE e = d + 1
  <2>1. p * e = p * d + p
    BY <1>1, <1>6
  <2>2. t = p - 1 /\ u = 0
    BY <1>1, <1>2, <1>3, <2>1
  <2> QED BY <1>1, <1>2, <1>4, <2>2 DEF t, u
<1>7. CASE e < d
  <2>1. (e + 1) * p <= d * p
    BY <1>1, <1>2, <1>7, Times
  <2>2. (e + 1) * p = e * p + p
    BY <1>2
  <2> QED BY <1>1, <1>2, <1>3, <2>1, <2>2
<1>8. CASE d + 1 < e
  <2>1. (d + 2) * p <= e * p
    BY <1>1, <1>2, <1>8, Times
  <2>2. (d + 2) * p = d * p + 2 * p
    BY <1>1
  <2> QED BY <1>1, <1>2, <1>3, <2>1, <2>2
<1> QED
  BY <1>1, <1>2, <1>5, <1>6, <1>7, <1>8

\* A forward adds the loss of its iteration to the gradients of those since zero_grad.
LEMMA BlockNext ==
    ASSUME conf \in Scenarios, NEW r, NEW k \in Turns, NEW i \in Nat, NEW from \in Nat, from <= i, Active(Opt(k), i),
           NEW g, i % Opt(k).interval = 0 => g = <<>>,
           i % Opt(k).interval # 0 => Lists(g, OwnOf(k, Block(k, i, from), r))
    PROVE  LET a == Append(g, Token(i, k, r))
           IN  IF Due(Opt(k), i)
               THEN /\ Lists(a, OwnOf(k, Window(k, i, from), r))
                    /\ (i + 1) % Opt(k).interval = 0
               ELSE Lists(a, OwnOf(k, Block(k, i + 1, from), r))
<1> DEFINE I == Opt(k).interval
           m == i % I
           B == Block(k, i, from)
           A == B \cup {i}
           a == Append(g, Token(i, k, r))
<1>1. I \in Nat \ {0}
  BY OptTyped
<1>2. /\ m \in 0..(I - 1) /\ m <= i
      /\ m = I - 1 => (i + 1) % I = 0
      /\ m # I - 1 => (i + 1) % I = m + 1
  BY <1>1, ModNext
<1>3. Lists(g, OwnOf(k, B, r))
  <2>1. CASE m = 0
    <3>1. \A j : j \notin (i - 0)..(i - 1)
      OBVIOUS
    <3>2. B = {}
      BY <2>1, <3>1 DEF Block
    <3>3. OwnOf(k, {}, r) = {}
      BY DEF OwnOf
    <3>4. Lists(<<>>, {})
      BY DEF Lists
    <3> QED BY <2>1, <3>2, <3>3, <3>4
  <2>2. CASE m # 0
    BY <2>2
  <2> QED BY <2>1, <2>2
<1>4. i \notin B
  <2>1. i \notin (i - m)..(i - 1)
    BY <1>1, <1>2
  <2> QED BY <2>1 DEF Block
<1>5. Lists(a, OwnOf(k, A, r))
  <2>1. \A j \in B : Token(j, k, r) # Token(i, k, r)
    BY <1>4 DEF Token
  <2> HIDE DEF B
  <2>2. Token(i, k, r) \notin OwnOf(k, B, r)
    BY <2>1 DEF OwnOf
  <2>3. OwnOf(k, A, r) = OwnOf(k, B, r) \cup {Token(i, k, r)}
    BY DEF OwnOf
  <2> DEFINE t == Token(i, k, r)
             T == OwnOf(k, B, r)
  <2> HIDE DEF t, T
  <2>4. Lists(g, T) /\ t \notin T
    BY <1>3, <2>2 DEF t, T
  <2>5. Lists(Append(g, t), T \cup {t})
    BY <2>4, ListsAppend
  <2> QED BY <2>3, <2>5 DEF t, T
<1>6. \A j : j \in A <=> j \in (i - m)..i /\ j >= from /\ Active(Opt(k), j)
  <2>1. \A j : j \in (i - m)..i <=> j \in (i - m)..(i - 1) \/ j = i
    BY <1>1, <1>2
  <2>2. i >= from /\ Active(Opt(k), i)
    OBVIOUS
  <2> QED BY <2>1, <2>2 DEF Block
<1> HIDE DEF A, B, a, m, I
<1>7. CASE m = I - 1
  <2>1. i - m = i - I + 1
    BY <1>1, <1>7
  <2>2. A = Window(k, i, from)
    BY <1>6, <2>1 DEF Window, I
  <2>3. Due(Opt(k), i)
    BY <1>7 DEF Due, m, I
  <2> QED BY <1>2, <1>5, <1>7, <2>2, <2>3 DEF a, I
<1>8. CASE m # I - 1
  <2>1. i - m = (i + 1) - ((i + 1) % I) /\ i = (i + 1) - 1
    BY <1>1, <1>2, <1>8
  <2>2. \A j : j \in Block(k, i + 1, from) <=> j \in ((i + 1) - ((i + 1) % I))..((i + 1) - 1) /\ j >= from /\ Active(Opt(k), j)
    BY DEF Block, I
  <2>3. A = Block(k, i + 1, from)
    BY <1>6, <2>1, <2>2
  <2>4. ~Due(Opt(k), i)
    BY <1>8 DEF Due, m, I
  <2> QED BY <1>5, <2>3, <2>4 DEF a
<1> QED
  BY <1>7, <1>8

\* Another optimizer has changed the gradients: this one is about to zero them, if it works at all.
LEMMA OtherTurn ==
    ASSUME conf \in Scenarios, NEW k \in Turns, NEW j \in Turns, j # k, Separate(k), ~Exclusive(k),
           NEW i \in Nat, i < MaxIteration, Active(Opt(j), i), NEW n \in {i, i + 1},
           Active(Opt(k), n)
    PROVE  n % Opt(k).interval = 0
<1>0. Opt(k).interval \in Nat \ {0} /\ Opt(k).start \in Nat /\ MaxIteration \in Nat
  BY OptTyped, Project
<1>1. CASE Opt(k).interval = 1
  <2>1. \A x \in Nat : x % 1 = 0
    OBVIOUS
  <2> QED BY <1>1, <2>1
<1>2. CASE /\ Opt(k).start = 0 \/ (Opt(k).start - 1) % Opt(k).interval = 0
           /\ \A l \in Turns \ {k} : \A x \in 0..(MaxIteration - 1) : ~(Active(Opt(l), x) /\ Active(Opt(k), x))
  <2>1. ~Active(Opt(k), i)
    <3>1. i \in 0..(MaxIteration - 1)
      BY <1>0
    <3> QED BY <1>2, <3>1
  <2>2. n = i + 1
    BY <2>1
  <2>3. Opt(k).start = i + 2
    BY <2>1, <2>2, ActiveStarts
  <2>4. Opt(k).start - 1 = n /\ Opt(k).start # 0
    BY <1>0, <2>2, <2>3
  <2> QED BY <1>2, <2>4
<1> QED
  BY <1>1, <1>2 DEF Separate, Exclusive

\* An optimizer whose gradients stay, as does its next iteration.
LEMMA SameGrad ==
    ASSUME NEW r, NEW R, NEW X, NEW k, NEW p, GradOK(r, R, k, p), X.grads[p] = R.grads[p], X.from = R.from,
           Upto(X, k) = Upto(R, k)
    PROVE  GradOK(r, X, k, p)
BY DEF GradOK

\* A rank whose gradients and updates stay.
LEMMA WholeKeeps ==
    ASSUME NEW r, NEW R, NEW X, WholeOK(r, R), X.grads = R.grads, X.from = R.from, X.applied = R.applied,
           X.pc \notin {"reduce", "apply"}, \A k \in Turns : Upto(X, k) = Upto(R, k)
    PROVE  WholeOK(r, X)
BY SameGrad DEF WholeOK

\* The gradients after a step that changed those of one optimizer.
LEMMA ChangedGrad ==
    ASSUME conf \in Scenarios, NEW r, NEW R, NEW X, NEW K \in Turns, R.turn = K, X.turn = K, R.iter \in Nat,
           R.iter < MaxIteration, Active(Opt(K), R.iter), X.iter = R.iter, X.from = R.from,
           R.pc \in InTurn, X.pc \in InTurn, NEW k \in Turns, k # K, Separate(k), NEW p \in Opt(k).params,
           GradOK(r, R, k, p), p \notin Opt(K).params => X.grads[p] = R.grads[p]
    PROVE  GradOK(r, X, k, p)
<1>1. Upto(X, k) = Upto(R, k) /\ Upto(R, k) \in {R.iter, R.iter + 1}
  BY DEF Upto
<1>2. CASE Exclusive(k)
  <2>1. p \notin Opt(K).params
    BY <1>2 DEF Exclusive
  <2> QED BY <1>1, <2>1, SameGrad
<1>3. CASE ~Exclusive(k)
  <2>1. Active(Opt(k), Upto(R, k)) => Upto(R, k) % Opt(k).interval = 0
    BY <1>1, <1>3, OtherTurn
  <2> QED BY <1>1, <1>3, <2>1 DEF GradOK
<1> QED
  BY <1>2, <1>3

\* The backward.
LEMMA WholeComputes ==
    ASSUME conf \in Scenarios, PerEpoch # 0, NEW r, NEW R, NEW X, RankOK(R), FromOK(R), WholeOK(r, R), Computes(r, R, X)
    PROVE  WholeOK(r, X)
<1>1. /\ Keeps(R, X, {"held", "grads", "pc"}) /\ R.pc = "step"
      /\ X.pc = IF Due(Opt(R.turn), R.iter) THEN "reduce" ELSE "reserve"
      /\ X.grads = [p \in Parameters |->
                        IF p \in Opt(R.turn).params
                        THEN Append(GradBefore(R, Opt(R.turn), p), Token(R.iter, R.turn, r)) ELSE R.grads[p]]
  BY DEF Computes
<1>2. X.iter = R.iter /\ X.turn = R.turn /\ X.from = R.from /\ X.applied = R.applied
  <2>1. Keeps(R, X, {"held", "grads", "pc"})
    BY <1>1
  <2> QED BY <2>1, KeepsFields
<1>3. /\ R.iter \in Nat /\ R.turn \in Turns /\ Active(Opt(R.turn), R.iter) /\ R.iter < MaxIteration
      /\ R.turn \in Nat
  BY <1>1, RankNumbers DEF RankOK, Trained, InTurn, Ended
<1>4. R.from \in Nat /\ R.from <= R.iter
  <2>1. FirstOf(R.iter) \in 0..R.iter
    BY <1>3, RanTyped
  <2> QED BY <1>3, <2>1 DEF FromOK
<1>5. \A k \in Turns : \A p \in Opt(k).params : p \in Parameters
  BY DEF Parameters
<1> DEFINE K == R.turn
           I == Opt(K).interval
           token == Token(R.iter, K, r)
<1>6. \A p \in Opt(K).params : X.grads[p] = Append(IF R.iter % I = 0 THEN <<>> ELSE R.grads[p], token)
  BY <1>1, <1>3, <1>5 DEF GradBefore
<1>7. \A p \in Parameters : p \notin Opt(K).params => X.grads[p] = R.grads[p]
  BY <1>1
<1>8. ASSUME NEW k \in Turns, Separate(k), NEW p \in Opt(k).params, k # K PROVE GradOK(r, X, k, p)
  <2>1. GradOK(r, R, k, p)
    BY <1>8 DEF WholeOK
  <2>2. R.pc \in InTurn /\ X.pc \in InTurn
    BY <1>1 DEF InTurn
  <2> QED BY <1>2, <1>3, <1>5, <1>7, <1>8, <2>1, <2>2, ChangedGrad
<1>9. ASSUME Separate(K), NEW p \in Opt(K).params
      PROVE  IF Due(Opt(K), R.iter)
             THEN Lists(X.grads[p], OwnOf(K, Window(K, R.iter, R.from), r)) /\ (R.iter + 1) % I = 0
             ELSE Lists(X.grads[p], OwnOf(K, Block(K, R.iter + 1, R.from), r))
  <2> DEFINE g == IF R.iter % I = 0 THEN <<>> ELSE R.grads[p]
  <2>1. GradOK(r, R, K, p) /\ Upto(R, K) = R.iter
    BY <1>1, <1>3, <1>9 DEF WholeOK, Upto
  <2>2. R.iter % I # 0 => Lists(R.grads[p], OwnOf(K, Block(K, R.iter, R.from), r))
    BY <1>3, <2>1 DEF GradOK
  <2>3. /\ R.iter % I = 0 => g = <<>>
        /\ R.iter % I # 0 => Lists(g, OwnOf(K, Block(K, R.iter, R.from), r))
    BY <2>2
  <2>4. X.grads[p] = Append(g, token)
    BY <1>6
  <2> HIDE DEF g
  <2> QED BY <1>3, <1>4, <2>3, <2>4, BlockNext
<1>10. ASSUME Separate(K), NEW p \in Opt(K).params PROVE GradOK(r, X, K, p)
  <2>1. Upto(X, K) = R.iter + 1
    BY <1>1, <1>2 DEF Upto
  <2>2. ~(R.iter + 1 < Opt(K).start)
    <3>1. Opt(K).start \in Nat
      BY <1>3, OptTyped
    <3>2. Opt(K).start = 0 \/ R.iter + 1 >= Opt(K).start
      BY <1>3 DEF Active
    <3> QED BY <1>3, <3>1, <3>2
  <2>3. (R.iter + 1) % I # 0 => Lists(X.grads[p], OwnOf(K, Block(K, R.iter + 1, R.from), r))
    BY <1>9, <1>10
  <2> QED BY <1>2, <2>1, <2>2, <2>3 DEF GradOK
<1>11. ASSUME Separate(K), NEW p \in Opt(K).params, X.pc = "reduce"
       PROVE  Lists(X.grads[p], OwnOf(K, Window(K, R.iter, R.from), r))
  BY <1>1, <1>9, <1>11
<1>12. X.pc # "apply" /\ \A u \in X.applied : UpdateOK(u)
  BY <1>1, <1>2 DEF WholeOK
<1> QED
  BY <1>2, <1>8, <1>10, <1>11, <1>12 DEF WholeOK

\* A turn that is passed over.
LEMMA WholeSkips ==
    ASSUME conf \in Scenarios, PerEpoch # 0, NEW r, NEW R, NEW X, RankOK(R), FromOK(R), WholeOK(r, R), Skips(R, X)
    PROVE  WholeOK(r, X)
<1>1. /\ Keeps(R, X, {"pc", "turn"}) /\ R.pc = "turn" /\ X.pc = "turn" /\ X.turn = R.turn + 1
      /\ R.turn \in Turns /\ ~Active(Opt(R.turn), R.iter)
  BY DEF Skips
<1>2. X.iter = R.iter /\ X.from = R.from /\ X.grads = R.grads /\ X.applied = R.applied
  <2>1. Keeps(R, X, {"pc", "turn"})
    BY <1>1
  <2> QED BY <2>1, KeepsFields
<1>3. R.iter \in Nat /\ R.turn \in Nat /\ R.from \in Nat /\ Turns \subseteq Nat
  BY RankNumbers, Project DEF FromOK
<1> DEFINE K == R.turn
<1>4. ASSUME NEW k \in Turns, k # K PROVE Upto(X, k) = Upto(R, k)
  <2>1. k < K <=> k < X.turn
    BY <1>1, <1>3, <1>4
  <2> QED BY <1>1, <1>2, <1>3, <1>4, <2>1 DEF Upto
<1>5. Upto(R, K) = R.iter /\ Upto(X, K) = R.iter + 1
  BY <1>1, <1>2, <1>3 DEF Upto
<1>6. ASSUME Separate(K), NEW p \in Opt(K).params PROVE GradOK(r, X, K, p)
  <2>1. GradOK(r, R, K, p)
    BY <1>1, <1>6 DEF WholeOK
  <2>2. Exclusive(K) /\ R.iter < Opt(K).start => R.grads[p] = <<>>
    BY <1>5, <2>1 DEF GradOK
  <2>3. Opt(K).start \in Nat /\ Opt(K).interval \in Nat \ {0}
    BY <1>1, OptTyped
  <2>4. Exclusive(K) /\ R.iter + 1 < Opt(K).start => X.grads[p] = <<>>
    BY <1>2, <1>3, <2>2, <2>3
  <2>5. ASSUME Active(Opt(K), R.iter + 1), (R.iter + 1) % Opt(K).interval # 0
        PROVE  Lists(X.grads[p], OwnOf(K, Block(K, R.iter + 1, R.from), r))
    <3>1. Opt(K).start = R.iter + 2 /\ \A j \in 0..R.iter : ~Active(Opt(K), j)
      BY <1>1, <1>3, <2>5, ActiveStarts
    <3>2. Exclusive(K)
      <4>1. Opt(K).interval # 1
        <5>1. (R.iter + 1) % 1 = 0
          BY <1>3
        <5> QED BY <2>5, <5>1
      <4>2. ~(Opt(K).start = 0 \/ (Opt(K).start - 1) % Opt(K).interval = 0)
        <5>1. Opt(K).start - 1 = R.iter + 1 /\ Opt(K).start # 0
          BY <1>3, <3>1
        <5> QED BY <2>5, <5>1
      <4> QED BY <1>6, <4>1, <4>2 DEF Separate, Exclusive
    <3>3. X.grads[p] = <<>>
      BY <1>2, <1>3, <2>2, <3>1, <3>2
    <3>4. Block(K, R.iter + 1, R.from) = {}
      <4>1. (R.iter + 1) % Opt(K).interval \in Nat /\ (R.iter + 1) % Opt(K).interval <= R.iter + 1
        <5>1. R.iter + 1 \in Nat
          BY <1>3
        <5>2. \A q \in Nat \ {0} : \A m \in 0..(q - 1) : m \in Nat
          OBVIOUS
        <5> QED BY <2>3, <5>1, <5>2, ModNext
      <4>2. \A j : j \in ((R.iter + 1) - ((R.iter + 1) % Opt(K).interval))..((R.iter + 1) - 1) => j \in 0..R.iter
        BY <1>3, <4>1
      <4> QED BY <3>1, <4>2 DEF Block
    <3>5. OwnOf(K, {}, r) = {} /\ Lists(<<>>, {})
      BY DEF OwnOf, Lists
    <3> QED BY <3>3, <3>4, <3>5
  <2> QED BY <1>2, <1>5, <2>4, <2>5 DEF GradOK
<1>7. ASSUME NEW k \in Turns, Separate(k), NEW p \in Opt(k).params PROVE GradOK(r, X, k, p)
  <2>1. CASE k = K
    BY <1>6, <1>7, <2>1
  <2>2. CASE k # K
    <3>1. GradOK(r, R, k, p)
      BY <1>7 DEF WholeOK
    <3> QED BY <1>2, <1>4, <2>2, <3>1, SameGrad
  <2> QED BY <2>1, <2>2
<1>8. \A u \in X.applied : UpdateOK(u)
  BY <1>2 DEF WholeOK
<1> QED
  BY <1>1, <1>7, <1>8 DEF WholeOK

\* The update.
LEMMA WholeApplies ==
    ASSUME conf \in Scenarios, PerEpoch # 0, NEW r, NEW R, NEW X, RankOK(R), WholeOK(r, R), Applies(R, X)
    PROVE  WholeOK(r, X)
<1>1. /\ Keeps(R, X, {"applied", "states", "pc"}) /\ R.pc = "apply" /\ X.pc = "reserve"
      /\ X.applied = R.applied \cup {Update(R)}
  BY DEF Applies
<1>2. X.iter = R.iter /\ X.turn = R.turn /\ X.grads = R.grads /\ X.from = R.from
  <2>1. Keeps(R, X, {"applied", "states", "pc"})
    BY <1>1
  <2> QED BY <2>1, KeepsFields
<1>3. R.turn \in Turns
  BY <1>1 DEF RankOK, Trained, InTurn
<1>4. \A k : Upto(X, k) = Upto(R, k)
  BY <1>1, <1>2 DEF Upto
<1>5. UpdateOK(Update(R))
  <2> DEFINE u == Update(R)
  <2>1. /\ u.turn = R.turn /\ u.iter = R.iter /\ u.from = R.from
        /\ \A p \in Opt(R.turn).params : u.grads[p] = R.grads[p]
    BY DEF Update
  <2>2. Separate(R.turn) => \A p \in Opt(R.turn).params :
            Lists(R.grads[p], AllOf(R.turn, Window(R.turn, R.iter, R.from)))
    BY <1>1, <1>3 DEF WholeOK
  <2> HIDE DEF u
  <2>3. UpdateOK(u)
    BY <2>1, <2>2 DEF UpdateOK
  <2> QED BY <2>3 DEF u
<1>6. \A u \in X.applied : UpdateOK(u)
  BY <1>1, <1>5 DEF WholeOK
<1>7. ASSUME NEW k \in Turns, Separate(k), NEW p \in Opt(k).params PROVE GradOK(r, X, k, p)
  <2>1. GradOK(r, R, k, p)
    BY <1>7 DEF WholeOK
  <2> QED BY <1>2, <1>4, <2>1, SameGrad
<1> QED
  BY <1>1, <1>6, <1>7 DEF WholeOK

\* A training begins with no gradients.
LEMMA WholeStarts ==
    ASSUME conf \in Scenarios, PerEpoch # 0, NEW r, NEW X, X.turn = 1, X.pc \notin {"reduce", "apply", "reserve"},
           X.from \in Nat, X.iter = X.from, \A p \in Parameters : X.grads[p] = <<>>, \A u \in X.applied : UpdateOK(u)
    PROVE  WholeOK(r, X)
<1>1. ASSUME NEW k \in Turns, NEW p \in Opt(k).params PROVE GradOK(r, X, k, p)
  <2>1. X.grads[p] = <<>>
    BY DEF Parameters
  <2>2. Upto(X, k) = X.iter
    <3>1. k \in Nat /\ k # 0
      BY Project
    <3> QED BY <3>1 DEF Upto
  <2>3. Block(k, X.iter, X.from) = {}
    <3>1. Opt(k).interval \in Nat \ {0}
      BY OptTyped
    <3>2. X.iter % Opt(k).interval \in Nat
      <4>1. \A q \in Nat \ {0} : \A m \in 0..(q - 1) : m \in Nat
        OBVIOUS
      <4> QED BY <3>1, <4>1, ModNext
    <3> DEFINE t == X.iter % Opt(k).interval
    <3>3. t \in Nat
      BY <3>2
    <3> HIDE DEF t
    <3>4. \A j : ~(j \in (X.iter - t)..(X.iter - 1) /\ j >= X.iter)
      BY <3>3
    <3> QED BY <3>4 DEF Block, t
  <2>4. OwnOf(k, {}, r) = {} /\ Lists(<<>>, {})
    BY DEF OwnOf, Lists
  <2> QED BY <2>1, <2>2, <2>3, <2>4 DEF GradOK
<1> QED
  BY <1>1 DEF WholeOK

\* A step that changes neither gradients nor updates, but where the rank is.
LEMMA WholeMoves ==
    ASSUME conf \in Scenarios, PerEpoch # 0, NEW r, NEW R, NEW X, RankOK(R), WholeOK(r, R),
           \/ Monitors(R, X) \/ Reserves(R, X) \/ EndsTurns(R, X) \/ Fails(R, X) \/ EndsAnEpoch(R, X)
           \/ MonitorsError(R, X) \/ ForwardsMonitor(r, R, X) \/ Judges(r, R, X) \/ Saves(R, X)
           \/ Continues(r, R, X) \/ Reports(r, R, X) \/ ChecksTime(r, R, X)
    PROVE  WholeOK(r, X)
<1>t. Trained(R) /\ R.iter \in Nat /\ R.turn \in Nat /\ Turns = 1..Number /\ Number \in Nat
  BY RankNumbers, Project DEF RankOK
<1>1. ASSUME NEW C, Keeps(R, X, C), \A f \in {"grads", "from", "applied", "iter", "turn"} : f \notin C,
             R.pc \notin {"reduce", "apply", "reserve"}, X.pc \notin {"reduce", "apply", "reserve"}
      PROVE  WholeOK(r, X)
  <2>1. X.grads = R.grads /\ X.from = R.from /\ X.applied = R.applied /\ X.iter = R.iter /\ X.turn = R.turn
    BY <1>1, KeepsFields
  <2>2. \A k \in Turns : Upto(X, k) = Upto(R, k)
    BY <1>1, <2>1 DEF Upto
  <2> QED BY <1>1, <2>1, <2>2, WholeKeeps
<1>2. CASE \/ Monitors(R, X) \/ EndsTurns(R, X) \/ Fails(R, X) \/ EndsAnEpoch(R, X)
           \/ MonitorsError(R, X) \/ ForwardsMonitor(r, R, X) \/ Judges(r, R, X) \/ Saves(R, X)
  <2>1. PICK C : /\ Keeps(R, X, C)
                 /\ C \in {{"sumIteration", "first", "pc"}, {"sumIteration", "pc"}, {"pc"},
                           {"average", "sumEpoch", "numIteration", "batch", "pc"},
                           {"held", "batch", "count", "pc"}, {"judged", "best", "pc"}, {"saved", "pc"}}
    BY <1>2 DEF Monitors, EndsTurns, Fails, EndsAnEpoch, MonitorsError, ForwardsMonitor, Judges, Saves
  <2>2. R.pc \notin {"reduce", "apply", "reserve"}
    BY <1>2 DEF Monitors, EndsTurns, Fails, EndsAnEpoch, MonitorsError, ForwardsMonitor, Judges, Saves
  <2>3. X.pc \notin {"reduce", "apply", "reserve"}
    BY <1>2, <1>t DEF Monitors, EndsTurns, Fails, EndsAnEpoch, MonitorsError, ForwardsMonitor, Judges, Saves, Trained
  <2>4. \A f \in {"grads", "from", "applied", "iter", "turn"} : f \notin C
    BY <2>1
  <2> QED BY <1>1, <2>1, <2>2, <2>3, <2>4
<1>3. CASE Reserves(R, X)
  <2>1. Keeps(R, X, {"pending", "turn", "pc"}) /\ R.pc = "reserve" /\ X.pc = "turn" /\ X.turn = R.turn + 1
    BY <1>3 DEF Reserves
  <2>2. X.grads = R.grads /\ X.from = R.from /\ X.applied = R.applied /\ X.iter = R.iter
    <3>1. Keeps(R, X, {"pending", "turn", "pc"})
      BY <2>1
    <3> QED BY <3>1, KeepsFields
  <2>3. \A k \in Turns : Upto(X, k) = Upto(R, k)
    <3>1. \A k \in Turns : k < R.turn + 1 <=> k < R.turn \/ k = R.turn
      BY <1>t
    <3> QED BY <2>1, <2>2, <3>1 DEF Upto
  <2> QED BY <2>1, <2>2, <2>3, WholeKeeps
<1>4. ASSUME NEW C, Advances(r, R, X, C), \A f \in {"grads", "from", "applied", "iter", "turn"} : f \notin C,
             R.pc \in {"updated"} \cup EndingEpoch
      PROVE  WholeOK(r, X)
  <2>1. R.turn = Number + 1
    BY <1>t, <1>4 DEF Trained
  <2>2. X.grads = R.grads /\ X.from = R.from /\ X.applied = R.applied
    BY <1>4, AdvanceFields
  <2>3. \A k \in Turns : Upto(R, k) = R.iter + 1
    <3>1. \A k \in Turns : k < Number + 1
      BY <1>t
    <3> QED BY <2>1, <3>1 DEF Upto
  <2>4. CASE X.pc = "turn" /\ X.iter = R.iter + 1 /\ X.turn = 1
    <3>1. \A k \in Turns : Upto(X, k) = R.iter + 1
      <4>1. \A k \in Turns : ~(k < 1)
        BY <1>t
      <4> QED BY <2>4, <4>1 DEF Upto
    <3> QED BY <2>2, <2>3, <2>4, <3>1, WholeKeeps
  <2>5. CASE Keeps(R, X, C \cup {"pc", "then"}) /\ X.pc \in {"unlink", "done"}
    <3> DEFINE D == C \cup {"pc", "then"}
    <3>1. Keeps(R, X, D) /\ \A f \in {"grads", "from", "applied", "iter", "turn"} : f \notin D
      BY <1>4, <2>5
    <3> HIDE DEF D
    <3>2. R.pc \notin {"reduce", "apply", "reserve"}
      BY <1>4 DEF EndingEpoch, Saving
    <3> QED BY <1>1, <2>5, <3>1, <3>2
  <2> QED BY <1>4, <2>4, <2>5 DEF Advances
<1>5. CASE Continues(r, R, X)
  <2>1. Advances(r, R, X, {}) /\ R.pc = "updated"
    BY <1>5 DEF Continues
  <2> QED BY <1>4, <2>1
<1>6. CASE Reports(r, R, X)
  <2>1. R.pc = "report" /\ R.pc \in EndingEpoch
    BY <1>6 DEF Reports, EndingEpoch
  <2>2. CASE Advances(r, R, X, Told)
    <3>1. \A f \in {"grads", "from", "applied", "iter", "turn"} : f \notin Told
      BY DEF Told
    <3> QED BY <1>4, <2>1, <2>2, <3>1
  <2>3. CASE Keeps(R, X, Told \cup {"pc", "then"}) /\ X.pc \in {"unlink", "saved"}
    <3> DEFINE D == Told \cup {"pc", "then"}
    <3>1. Keeps(R, X, D) /\ \A f \in {"grads", "from", "applied", "iter", "turn"} : f \notin D
      BY <2>3 DEF Told
    <3> HIDE DEF D
    <3> QED BY <1>1, <2>1, <2>3, <3>1
  <2> QED BY <1>6, <2>2, <2>3 DEF Reports
<1>7. CASE ChecksTime(r, R, X)
  <2>1. R.pc = "saved" /\ R.pc \in EndingEpoch
    BY <1>7 DEF ChecksTime, EndingEpoch, Saving
  <2>2. CASE Advances(r, R, X, {})
    BY <1>4, <2>1, <2>2
  <2>3. CASE Keeps(R, X, {"pc", "then"}) /\ X.pc = "unlink"
    BY <1>1, <2>1, <2>3
  <2> QED BY <1>7, <2>2, <2>3 DEF ChecksTime
<1> QED
  BY <1>2, <1>3, <1>5, <1>6, <1>7

\* Only the beginning changes where a rank began.
LEMMA StaysFrom ==
    ASSUME PerEpoch # 0, NEW r, NEW R, NEW X, RankOK(R), Effect(r, R, X), ~Begins(R, X)
    PROVE  /\ X.from = R.from /\ X.iter \in {R.iter, R.iter + 1}
           /\ R.pc # "start" /\ X.pc # "start"
<1>t. Trained(R)
  BY DEF RankOK
<1>1. \/ \E C : Keeps(R, X, C) /\ "from" \notin C /\ "iter" \notin C
      \/ \E C : Advances(r, R, X, C) /\ "from" \notin C /\ "iter" \notin C
  <2>1. CASE \/ Skips(R, X) \/ Monitors(R, X) \/ Computes(r, R, X) \/ Applies(R, X) \/ Reserves(R, X)
             \/ EndsTurns(R, X) \/ Fails(R, X) \/ EndsAnEpoch(R, X) \/ MonitorsError(R, X)
             \/ ForwardsMonitor(r, R, X) \/ Judges(r, R, X) \/ Saves(R, X)
    <3>1. PICK C : /\ Keeps(R, X, C)
                   /\ C \in {{"pc", "turn"}, {"sumIteration", "first", "pc"}, {"held", "grads", "pc"},
                             {"applied", "states", "pc"}, {"pending", "turn", "pc"}, {"sumIteration", "pc"}, {"pc"},
                             {"average", "sumEpoch", "numIteration", "batch", "pc"},
                             {"held", "batch", "count", "pc"}, {"judged", "best", "pc"}, {"saved", "pc"}}
      BY <2>1 DEF Skips, Monitors, Computes, Applies, Reserves, EndsTurns, Fails, EndsAnEpoch, MonitorsError,
                  ForwardsMonitor, Judges, Saves
    <3>2. "from" \notin C /\ "iter" \notin C
      BY <3>1
    <3> QED BY <3>1, <3>2
  <2>2. CASE Continues(r, R, X) \/ Reports(r, R, X) \/ ChecksTime(r, R, X)
    <3>1. "from" \notin Told /\ "iter" \notin Told /\ "from" \notin Told \cup {"pc", "then"} /\ "iter" \notin Told \cup {"pc", "then"}
      BY DEF Told
    <3> QED BY <2>2, <3>1 DEF Continues, Reports, ChecksTime
  <2> QED BY <2>1, <2>2 DEF Effect, Untrains
<1>2. X.from = R.from
  BY <1>1, KeepsFields, AdvanceFields
<1>3. X.iter \in {R.iter, R.iter + 1}
  <2>1. ASSUME NEW C, Keeps(R, X, C), "iter" \notin C PROVE X.iter = R.iter
    BY <2>1, KeepsFields
  <2>2. ASSUME NEW C, Advances(r, R, X, C), "iter" \notin C PROVE X.iter \in {R.iter, R.iter + 1}
    <3>1. CASE X.iter = R.iter + 1
      BY <3>1
    <3>2. CASE Keeps(R, X, C \cup {"pc", "then"})
      <4>1. "iter" \notin C \cup {"pc", "then"}
        BY <2>2
      <4> QED BY <3>2, <4>1, KeepsFields
    <3> QED BY <2>2, <3>1, <3>2 DEF Advances
  <2> QED BY <1>1, <2>1, <2>2
<1>4. R.pc # "start"
  BY DEF Effect, Untrains, Skips, Monitors, Computes, Applies, Reserves, EndsTurns, Fails, EndsAnEpoch, MonitorsError,
         ForwardsMonitor, Judges, Saves, Continues, Reports, ChecksTime
<1>5. X.pc # "start"
  BY <1>t DEF Effect, Untrains, Skips, Monitors, Computes, Applies, Reserves, EndsTurns, Fails, EndsAnEpoch, MonitorsError,
         ForwardsMonitor, Judges, Saves, Continues, Reports, ChecksTime, Advances, Trained, Ended
<1> QED
  BY <1>2, <1>3, <1>4, <1>5

\* Where a training begins: at the start or after the epochs of a checkpoint.
LEMMA BeginFields ==
    ASSUME TrainInv, PerEpoch # 0, NEW R, NEW X, RankOK(R), FromOK(R), Begins(R, X)
    PROVE  /\ X.iter = X.from /\ X.from \in Nat /\ X.from <= MaxIteration /\ FirstOf(X.from) = X.from
           /\ X.turn = 1 /\ X.grads = R.grads /\ X.sumEpoch = R.sumEpoch
           /\ X.pc \in {"turn", "broken", "done"} /\ (X.pc = "done" => MaxIteration <= X.from)
           /\ X.applied = R.applied \/ \E c \in Archives : X.applied = c.applied
<1>0. conf \in Scenarios /\ PerEpoch \in Nat \ {0} /\ MaxIteration \in Nat
  BY Project DEF TrainInv, CacheInv, PrepOK
<1>1. R.iter = 0 /\ R.turn = 1 /\ R.from = 0 /\ R.pc = "start"
  BY DEF RankOK, FromOK, Begins
<1>2. X.turn = 1 /\ X.grads = R.grads /\ X.sumEpoch = R.sumEpoch
  BY <1>1, KeepsFields DEF Begins
<1>3. \A m \in Nat : FirstOf(m * PerEpoch) = m * PerEpoch
  BY <1>0, EpochBegins DEF FirstOf
<1>4. CASE Keeps(R, X, {"pc"}) /\ X.pc \in {"turn", "broken"}
  <2>1. X.iter = 0 /\ X.from = 0 /\ X.applied = R.applied
    BY <1>1, <1>4, KeepsFields
  <2>2. FirstOf(0) = 0
    <3>1. 0 * PerEpoch = 0
      BY <1>0
    <3> QED BY <1>3, <3>1
  <2> QED BY <1>0, <1>2, <1>4, <2>1, <2>2
<1>5. ASSUME NEW c, c = Latest(disk.current), disk.current # {},
             X.pc = (IF Resumed(c) < MaxIteration THEN "turn" ELSE "done"),
             X.iter = Resumed(c), X.from = Resumed(c), X.applied = c.applied
      PROVE  /\ X.iter = X.from /\ X.from \in Nat /\ X.from <= MaxIteration /\ FirstOf(X.from) = X.from
             /\ X.pc \in {"turn", "done"} /\ (X.pc = "done" => MaxIteration <= X.from)
             /\ \E d \in Archives : X.applied = d.applied
  <2>1. c \in disk.current /\ ArchiveOK(c)
    BY <1>0, <1>5, LatestOne DEF TrainInv, DiskOK
  <2>2. c.epoch \in Nat
    <3>1. \A n \in Nat : \A e \in 1..n : e \in Nat
      OBVIOUS
    <3> QED BY <1>0, <2>1, <3>1, Project DEF ArchiveOK
  <2>3. FirstOf(X.from) = X.from
    BY <1>3, <1>5, <2>2 DEF Resumed
  <2>4. X.from \in 0..MaxIteration
    BY <1>0, <1>5, <2>1, ResumedInRange
  <2>5. X.from \in Nat /\ X.from <= MaxIteration
    BY <1>0, <2>4
  <2>6. X.pc \in {"turn", "done"} /\ (X.pc = "done" => ~(X.from < MaxIteration))
    BY <1>5
  <2>7. c \in Archives
    BY <2>1 DEF Archives
  <2> QED BY <1>0, <1>5, <2>3, <2>5, <2>6, <2>7
<1> QED
  BY <1>2, <1>4, <1>5 DEF Begins

\* A rank goes on from where it began, or begins.
LEMMA FromLocal ==
    ASSUME TrainInv, PerEpoch # 0, NEW r, NEW R, NEW X, RankOK(R), FromOK(R), Effect(r, R, X)
    PROVE  FromOK(X) /\ Limit(X) \in Nat /\ Limit(X) <= Limit(R)
<1>0. conf \in Scenarios /\ PerEpoch \in Nat \ {0} /\ MaxIteration \in Nat
  BY Project DEF TrainInv, CacheInv, PrepOK
<1>1. CASE Begins(R, X)
  <2>1. /\ X.iter = X.from /\ X.from \in Nat /\ X.from <= MaxIteration /\ FirstOf(X.from) = X.from
        /\ X.pc \in {"turn", "broken", "done"}
    BY <1>1, BeginFields
  <2>2. R.pc = "start"
    BY <1>1 DEF Begins
  <2> QED BY <1>0, <2>1, <2>2 DEF FromOK, Limit
<1>2. CASE ~Begins(R, X)
  <2>1. X.from = R.from /\ X.iter \in {R.iter, R.iter + 1} /\ R.pc # "start" /\ X.pc # "start"
    BY <1>2, StaysFrom
  <2>2. R.iter \in Nat /\ R.from \in Nat /\ R.from <= FirstOf(R.iter)
    BY <1>0, RankNumbers DEF FromOK
  <2>3. FirstOf(R.iter) \in Nat /\ FirstOf(R.iter + 1) \in Nat /\ FirstOf(R.iter) <= FirstOf(R.iter + 1)
    <3> DEFINE d == R.iter \div PerEpoch
               e == (R.iter + 1) \div PerEpoch
    <3>1. d \in Nat /\ e \in {d, d + 1}
      BY <1>0, <2>2, EpochBegins
    <3> HIDE DEF d, e
    <3>2. d * PerEpoch \in Nat /\ e * PerEpoch \in Nat /\ d * PerEpoch <= e * PerEpoch
      BY <1>0, <3>1, Times
    <3> QED BY <3>2 DEF FirstOf, d, e
  <2>4. R.from <= FirstOf(X.iter)
    BY <2>1, <2>2, <2>3
  <2> QED BY <2>1, <2>2, <2>4 DEF FromOK, Limit
<1> QED
  BY <1>1, <1>2

\* A rank that stays at its stage, and one that is another's limit.
LEMMA AlignedKeeps ==
    ASSUME NEW R, NEW X, NEW S, Aligned(R, S), Alike(R, X), X.from = R.from
    PROVE  Aligned(X, S)
BY DEF Aligned, Alike

\* The limit of the others only comes down.
LEMMA AlignedOther ==
    ASSUME conf \in Scenarios, PerEpoch # 0, NEW R, NEW S, NEW Y, Stage(R) \in Nat, Aligned(R, S),
           Limit(S) \in Nat, Limit(Y) \in Nat, Limit(Y) <= Limit(S)
    PROVE  Aligned(R, Y)
<1> DEFINE a == Limit(S)
           b == Limit(Y)
           c == Stage(R) * PerEpoch
<1>1. c \in Nat /\ MaxIteration \in Nat
  BY Project
<1>2. a \in Nat /\ b \in Nat /\ b <= a
  OBVIOUS
<1>3. /\ \A i \in 0..(MaxIteration - 1) : R.from <= i /\ i < c /\ i < a => \A k \in Turns : ~Active(Opt(k), i)
      /\ R.sumEpoch # <<>> => a <= c
  BY DEF Aligned
<1> HIDE DEF a, b, c
<1>4. \A i \in 0..(MaxIteration - 1) : i < b => i < a
  BY <1>1, <1>2
<1>5. R.sumEpoch # <<>> => b <= c
  BY <1>1, <1>2, <1>3
<1>6. \A i \in 0..(MaxIteration - 1) : R.from <= i /\ i < c /\ i < b => \A k \in Turns : ~Active(Opt(k), i)
  BY <1>3, <1>4
<1> QED
  BY <1>5, <1>6 DEF Aligned, b, c

\* A rank that begins has ended no epoch of its own.
LEMMA AlignedBegins ==
    ASSUME TrainInv, PerEpoch # 0, NEW r, NEW R, NEW X, RankOK(R), FromOK(R), CostOK(r, R), Begins(R, X), NEW S
    PROVE  Aligned(X, S)
<1>0. conf \in Scenarios /\ PerEpoch \in Nat \ {0} /\ MaxIteration \in Nat
  BY Project DEF TrainInv, CacheInv, PrepOK
<1>1. /\ X.iter = X.from /\ X.from \in Nat /\ FirstOf(X.from) = X.from /\ X.sumEpoch = R.sumEpoch
      /\ X.pc \in {"turn", "broken", "done"} /\ (X.pc = "done" => MaxIteration <= X.from)
  BY BeginFields
<1>2. X.sumEpoch = <<>>
  BY <1>1 DEF Begins, CostOK, Learning, InTurn
<1>3. ASSUME NEW i \in 0..(MaxIteration - 1), X.from <= i, i < Stage(X) * PerEpoch PROVE FALSE
  <2>1. CASE X.pc = "done"
    BY <1>0, <1>1, <1>3, <2>1
  <2>2. CASE X.pc # "done"
    <3>1. X.pc \notin EndingEpoch \cup {"done", "stopped"}
      BY <1>1, <2>2 DEF EndingEpoch, Saving
    <3>2. X.iter \div PerEpoch \in Nat
      BY <1>0, <1>1, EpochBegins
    <3>3. Stage(X) = X.iter \div PerEpoch
      BY <3>1, <3>2 DEF Stage
    <3>4. Stage(X) * PerEpoch = X.from
      BY <1>1, <3>3 DEF FirstOf
    <3> QED BY <1>0, <1>1, <1>3, <3>4
  <2> QED BY <2>1, <2>2
<1> QED
  BY <1>2, <1>3 DEF Aligned

\* An epoch ends in which all have added up, or that had no optimizer.
LEMMA AlignedEnds ==
    ASSUME conf \in Scenarios, PerEpoch # 0, NEW r, NEW R, NEW X, NEW S, RankOK(R), CostOK(r, R), CostOK(r, X),
           EndsAnEpoch(R, X), Stage(X) = Stage(R) + 1, X.sumEpoch = <<>>, X.from = R.from,
           Aligned(R, S), Limit(S) \in Nat, R.from \in Nat
    PROVE  Aligned(X, S)
<1> DEFINE c == Stage(R) * PerEpoch
           d == Stage(X) * PerEpoch
           a == Limit(S)
<1>0. PerEpoch \in Nat \ {0} /\ MaxIteration \in Nat /\ Number \in Nat /\ Turns = 1..Number
  BY Project
<1>1. /\ Keeps(R, X, {"average", "sumEpoch", "numIteration", "batch", "pc"})
      /\ R.pc = "updated" /\ EndsEpoch(R.iter) /\ X.pc \in {"evaluate", "report"}
      /\ X.average = <<R.sumEpoch, R.numIteration>>
  BY DEF EndsAnEpoch
<1>2. X.iter = R.iter /\ R.iter \in Nat
  <2>1. Keeps(R, X, {"average", "sumEpoch", "numIteration", "batch", "pc"})
    BY <1>1
  <2> QED BY <2>1, KeepsFields, RankNumbers
<1>3. c = FirstOf(R.iter) /\ d = R.iter + 1 /\ c \in 0..R.iter
  <2>1. R.pc \notin EndingEpoch \cup {"done", "stopped"}
    BY <1>1 DEF EndingEpoch, Saving
  <2>2. R.iter \div PerEpoch \in Nat
    BY <1>0, <1>2, EpochBegins
  <2>3. Stage(R) = R.iter \div PerEpoch
    BY <2>1, <2>2 DEF Stage
  <2>4. (R.iter \div PerEpoch + 1) * PerEpoch = R.iter + 1
    BY <1>0, <1>1, <1>2, LastOfEpoch DEF EndsEpoch
  <2>5. FirstOf(R.iter) \in 0..R.iter
    BY <1>2, RanTyped
  <2> QED BY <2>3, <2>4, <2>5 DEF FirstOf
<1>4. /\ \A i \in 0..(MaxIteration - 1) : R.from <= i /\ i < c /\ i < a => \A k \in Turns : ~Active(Opt(k), i)
      /\ R.sumEpoch # <<>> => a <= c
  BY DEF Aligned
<1>5. R.sumEpoch = <<>> => \A i \in c..R.iter : \A k \in Turns : ~Active(Opt(k), i)
  <2> SUFFICES ASSUME R.sumEpoch = <<>>, NEW i \in c..R.iter, NEW k \in Turns, Active(Opt(k), i) PROVE FALSE
    OBVIOUS
  <2>1. Lists(<<>>, Losses(Ran(R.iter, Number + 1)))
    <3>1. AverageOK(X.average, R.iter)
      BY <1>1, <1>2 DEF CostOK, ErrorPcs
    <3>2. X.average[1] = <<>>
      BY <1>1
    <3> QED BY <3>1, <3>2 DEF AverageOK
  <2>2. Losses(Ran(R.iter, Number + 1)) = {}
    BY <2>1, ListsNone
  <2>3. <<i, k>> \in Ran(R.iter, Number + 1)
    <3>1. Past(i, k, R.iter, Number + 1)
      <4>1. i < R.iter \/ i = R.iter
        BY <1>2, <1>3
      <4>2. k < Number + 1
        BY <1>0
      <4> QED BY <4>1, <4>2 DEF Past
    <3>2. i \in FirstOf(R.iter)..R.iter
      BY <1>3
    <3> QED BY <3>1, <3>2 DEF Ran
  <2>4. 1 \in Ranks
    BY Project
  <2> DEFINE P == Ran(R.iter, Number + 1)
             x == <<i, k>>
  <2>5. x \in P /\ Losses(P) = {}
    BY <2>2, <2>3
  <2> HIDE DEF P, x
  <2>6. Token(x[1], x[2], 1) \in Losses(P)
    BY <2>4, <2>5 DEF Losses
  <2> QED BY <2>5, <2>6
<1> HIDE DEF a, c, d
<1>6. a \in Nat /\ c \in Nat
  <2>1. c \in Nat
    BY <1>2, <1>3
  <2> QED BY <2>1 DEF a
<1>7. ASSUME NEW i \in 0..(MaxIteration - 1), R.from <= i, i < d, i < a, NEW k \in Turns
      PROVE  ~Active(Opt(k), i)
  <2>1. CASE i < c
    BY <1>4, <1>7, <2>1
  <2>2. CASE ~(i < c)
    <3>1. i \in c..R.iter
      BY <1>0, <1>2, <1>3, <1>6, <1>7, <2>2
    <3>2. R.sumEpoch = <<>>
      BY <1>0, <1>4, <1>6, <1>7, <2>2
    <3> QED BY <1>5, <3>1, <3>2
  <2> QED BY <2>1, <2>2
<1> QED
  BY <1>7 DEF Aligned, a, d

\* So a step of one rank keeps all aligned.
LEMMA AlignedLocal ==
    ASSUME TrainInv, PerEpoch # 0, NEW r, NEW R, NEW X, RankOK(R), FromOK(R), CostOK(r, R), CostOK(r, X),
           Effect(r, R, X), Limit(R) \in Nat, Aligned(R, R)
    PROVE  /\ \A S : Aligned(R, S) /\ Limit(S) \in Nat => Aligned(X, S)
           /\ \A S : Aligned(S, R) /\ RankOK(S) => Aligned(S, X)
           /\ Aligned(X, X)
<1>0. conf \in Scenarios /\ PerEpoch \in Nat \ {0}
  BY Project DEF TrainInv, CacheInv, PrepOK
<1>1. Limit(X) \in Nat /\ Limit(X) <= Limit(R)
  BY FromLocal
<1>2. ASSUME NEW S, Aligned(R, S), Limit(S) \in Nat PROVE Aligned(X, S)
  <2>1. CASE Begins(R, X)
    BY <2>1, AlignedBegins
  <2>2. CASE ~Begins(R, X)
    <3>1. X.from = R.from
      BY <2>2, StaysFrom
    <3>2. CASE Alike(R, X)
      BY <1>2, <3>1, <3>2, AlignedKeeps
    <3>3. CASE EndsAnEpoch(R, X) /\ Stage(X) = Stage(R) + 1 /\ X.sumEpoch = <<>>
      <4>1. R.from \in Nat
        BY DEF FromOK
      <4> QED BY <1>0, <1>2, <3>1, <3>3, <4>1, AlignedEnds
    <3> QED BY <1>0, <2>2, <3>2, <3>3, AlikeLocal
  <2> QED BY <2>1, <2>2
<1>3. ASSUME NEW S, Aligned(S, R), RankOK(S) PROVE Aligned(S, X)
  <2>1. Stage(S) \in Nat
    BY <1>0, <1>3, StageIs
  <2> QED BY <1>0, <1>1, <1>3, <2>1, AlignedOther
<1>4. Aligned(X, X)
  <2>1. Aligned(X, R)
    BY <1>2
  <2>2. X.iter \in Nat
    <3>1. R.iter \in Nat
      BY <1>0, RankNumbers
    <3> QED BY <3>1, BeginFields, StaysFrom
  <2>3. X.iter \div PerEpoch \in Nat
    BY <1>0, <2>2, EpochBegins
  <2>4. Stage(X) \in Nat
    BY <2>3 DEF Stage
  <2> QED BY <1>0, <1>1, <2>1, <2>4, AlignedOther
<1> QED
  BY <1>2, <1>3, <1>4

\* At the same stage the iterations of an update are the same on all ranks.
LEMMA SameWindow ==
    ASSUME conf \in Scenarios, PerEpoch # 0, NEW R, NEW S, RankOK(R), FromOK(R), FromOK(S), Aligned(R, S),
           R.iter = S.iter, R.iter < MaxIteration, R.pc = "reduce", S.pc = "reduce", NEW k \in Turns
    PROVE  Window(k, R.iter, R.from) \subseteq Window(k, R.iter, S.from)
<1>1. R.iter \in Nat /\ MaxIteration \in Nat /\ PerEpoch \in Nat \ {0}
  BY RankNumbers, Project
<1>2. R.from \in Nat /\ S.from \in Nat /\ R.from <= FirstOf(R.iter) /\ S.from <= FirstOf(R.iter)
  BY DEF FromOK
<1>3. Stage(R) * PerEpoch = FirstOf(R.iter) /\ Limit(S) = S.from /\ FirstOf(R.iter) \in Nat
  <2>1. R.iter \div PerEpoch \in Nat
    BY <1>1, EpochBegins
  <2>2. Stage(R) = R.iter \div PerEpoch
    BY <2>1 DEF Stage, EndingEpoch, Saving
  <2>3. FirstOf(R.iter) \in 0..R.iter
    BY <1>1, RanTyped
  <2> QED BY <1>1, <2>2, <2>3 DEF FirstOf, Limit
<1>4. Opt(k).interval \in Nat \ {0}
  BY OptTyped
<1>5. ASSUME NEW i \in (R.iter - Opt(k).interval + 1)..R.iter, i >= R.from, Active(Opt(k), i)
      PROVE  i >= S.from
  <2>1. i \in Int /\ i <= R.iter
    BY <1>1, <1>4
  <2>2. i \in 0..(MaxIteration - 1)
    BY <1>1, <1>2, <1>5, <2>1
  <2>3. R.from <= i /\ i < FirstOf(R.iter) /\ i < S.from => ~Active(Opt(k), i)
    BY <1>3, <2>2 DEF Aligned
  <2> QED BY <1>2, <1>3, <1>5, <2>1, <2>3
<1> QED
  BY <1>5 DEF Window

\* The gradients of all ranks together are those of the whole update.
LEMMA ReducedLists ==
    ASSUME TrainInv, PerEpoch # 0, \A s \in Ranks : WholeOK(s, rank[s]) /\ FromOK(rank[s]),
           \A s, t \in Ranks : Aligned(rank[s], rank[t]), NEW r \in Ranks,
           \A s \in Ranks : /\ rank[s].pc = "reduce" /\ rank[s].iter = rank[r].iter
                            /\ rank[s].turn = rank[r].turn,
           Separate(rank[r].turn), NEW p \in Opt(rank[r].turn).params
    PROVE  Lists(Concat([s \in Ranks |-> rank[s].grads[p]]),
                 AllOf(rank[r].turn, Window(rank[r].turn, rank[r].iter, rank[r].from)))
<1>0. conf \in Scenarios /\ \A s \in Ranks : RankOK(rank[s])
  BY DEF TrainInv, CacheInv, PrepOK, RankInv
<1> DEFINE K == rank[r].turn
           i == rank[r].iter
           W == Window(K, i, rank[r].from)
           n == Size
           seqs == [s \in Ranks |-> rank[s].grads[p]]
           F == [s \in Ranks |-> OwnOf(K, W, s)]
<1>1. K \in Turns /\ i < MaxIteration
  BY <1>0 DEF RankOK, Trained, InTurn, Ended
<1>2. ASSUME NEW s \in Ranks PROVE Window(K, i, rank[s].from) = W
  <2>1. /\ RankOK(rank[r]) /\ RankOK(rank[s]) /\ FromOK(rank[r]) /\ FromOK(rank[s])
        /\ Aligned(rank[r], rank[s]) /\ Aligned(rank[s], rank[r])
        /\ rank[r].pc = "reduce" /\ rank[s].pc = "reduce" /\ rank[s].iter = i
    BY <1>0
  <2>2. W \subseteq Window(K, i, rank[s].from)
    BY <1>0, <1>1, <2>1, SameWindow
  <2>3. Window(K, i, rank[s].from) \subseteq W
    BY <1>0, <1>1, <2>1, SameWindow
  <2> QED BY <2>2, <2>3
<1>3. n \in Nat /\ Ranks = 1..n /\ DOMAIN seqs = Ranks
  BY <1>0, RanksAre
<1>4. ASSUME NEW s \in Ranks PROVE Lists(seqs[s], F[s])
  <2>1. /\ WholeOK(s, rank[s]) /\ rank[s].turn = K /\ rank[s].pc = "reduce" /\ rank[s].iter = i
        /\ Separate(K) /\ p \in Opt(K).params
    OBVIOUS
  <2>2. Lists(rank[s].grads[p], OwnOf(K, Window(K, rank[s].iter, rank[s].from), s))
    BY <1>1, <2>1 DEF WholeOK
  <2>3. Lists(rank[s].grads[p], OwnOf(K, W, s))
    BY <1>2, <2>1, <2>2
  <2> QED BY <2>3
<1>5. ASSUME NEW s \in Ranks, NEW t \in Ranks, s # t PROVE F[s] \cap F[t] = {}
  <2>1. \A j, l : Token(j, K, s) # Token(l, K, t)
    BY <1>5 DEF Token
  <2> QED BY <2>1 DEF OwnOf
<1>6. UNION {F[s] : s \in Ranks} = AllOf(K, W)
  BY DEF OwnOf, AllOf
<1> HIDE DEF K, i, W, n, seqs, F
<1>7. Lists(Concat(seqs), UNION {F[s] : s \in 1..n})
  BY <1>3, <1>4, <1>5, ConcatLists
<1>8. Lists(Concat(seqs), AllOf(K, W))
  BY <1>3, <1>6, <1>7
<1> QED
  BY <1>8 DEF K, i, W, seqs

\* The exchange of the gradients.
LEMMA WholeReduces ==
    ASSUME TrainInv, PerEpoch # 0, \A s \in Ranks : WholeOK(s, rank[s]) /\ FromOK(rank[s]),
           \A s, t \in Ranks : Aligned(rank[s], rank[t]), ReduceGradients
    PROVE  \A r \in Ranks : WholeOK(r, rank'[r])
<1>0. conf \in Scenarios /\ \A s \in Ranks : RankOK(rank[s])
  BY DEF TrainInv, CacheInv, PrepOK, RankInv
<1> SUFFICES ASSUME NEW r \in Ranks PROVE WholeOK(r, rank'[r])
  OBVIOUS
<1>1. PICK q \in Ranks : \A s \in Ranks :
            /\ rank[s].pc = "reduce" /\ rank[s].iter = rank[q].iter /\ rank[s].turn = rank[q].turn
            /\ Reduces(rank[s], rank'[s])
  BY ReduceEffect
<1> DEFINE R == rank[r]
           X == rank'[r]
           K == R.turn
           all(p) == Concat([s \in Ranks |-> rank[s].grads[p]])
<1>2. ASSUME Separate(K), NEW p \in Opt(K).params
      PROVE  Lists(all(p), AllOf(K, Window(K, R.iter, R.from)))
  <2>1. \A s \in Ranks : rank[s].pc = "reduce" /\ rank[s].iter = rank[r].iter /\ rank[s].turn = rank[r].turn
    BY <1>1
  <2> QED BY <1>2, <2>1, ReducedLists
<1>3. R.pc = "reduce" /\ Reduces(R, X) /\ RankOK(R) /\ WholeOK(r, R)
  BY <1>0, <1>1
<1>4. /\ Keeps(R, X, {"grads", "pc"}) /\ X.pc = "apply"
      /\ X.grads = [p \in Parameters |-> IF p \in Opt(R.turn).params THEN all(p) ELSE R.grads[p]]
  BY <1>3 DEF Reduces
<1> HIDE DEF R, X, all
<1>5. X.iter = R.iter /\ X.turn = R.turn /\ X.applied = R.applied /\ X.from = R.from
  <2>1. Keeps(R, X, {"grads", "pc"})
    BY <1>4
  <2> QED BY <2>1, KeepsFields
<1>6. /\ K \in Turns /\ K \in Nat /\ R.iter \in Nat /\ R.iter < MaxIteration /\ Active(Opt(K), R.iter)
      /\ Due(Opt(K), R.iter)
  BY <1>0, <1>3, RankNumbers DEF RankOK, Trained, InTurn, Ended
<1>7. \A k \in Turns : \A p \in Opt(k).params : p \in Parameters
  BY DEF Parameters
<1>8. \A p \in Opt(K).params : X.grads[p] = all(p)
  BY <1>4, <1>6, <1>7
<1>9. ASSUME NEW k \in Turns, Separate(k), NEW p \in Opt(k).params, k # K PROVE GradOK(r, X, k, p)
  <2>1. GradOK(r, R, k, p)
    BY <1>3, <1>9 DEF WholeOK
  <2>2. R.pc \in InTurn /\ X.pc \in InTurn
    BY <1>3, <1>4 DEF InTurn
  <2>3. p \notin Opt(K).params => X.grads[p] = R.grads[p]
    BY <1>4, <1>7
  <2> QED BY <1>0, <1>5, <1>6, <1>9, <2>1, <2>2, <2>3, ChangedGrad
<1>10. ASSUME NEW p \in Opt(K).params PROVE GradOK(r, X, K, p)
  <2>1. Upto(X, K) = R.iter + 1
    BY <1>4, <1>5 DEF Upto
  <2>2. Opt(K).start \in Nat /\ Opt(K).interval \in Nat \ {0}
    BY <1>0, <1>6, OptTyped
  <2>3. ~(R.iter + 1 < Opt(K).start)
    <3>1. Opt(K).start = 0 \/ R.iter + 1 >= Opt(K).start
      BY <1>6 DEF Active
    <3> QED BY <1>6, <2>2, <3>1
  <2>4. (R.iter + 1) % Opt(K).interval = 0
    BY <1>6, <2>2, ModNext DEF Due
  <2> QED BY <1>5, <2>1, <2>3, <2>4 DEF GradOK
<1>11. ASSUME Separate(K), NEW p \in Opt(K).params
       PROVE  Lists(X.grads[p], AllOf(K, Window(K, X.iter, X.from)))
  BY <1>2, <1>5, <1>8, <1>11
<1>12. \A u \in X.applied : UpdateOK(u)
  BY <1>3, <1>5 DEF WholeOK
<1>13. WholeOK(r, X)
  <2>1. \A k \in Turns : Separate(k) => \A p \in Opt(k).params : GradOK(r, X, k, p)
    BY <1>9, <1>10
  <2>2. \A k \in Turns : Separate(k) => \A p \in Opt(k).params :
            X.turn = k => Lists(X.grads[p], AllOf(k, Window(k, X.iter, X.from)))
    BY <1>5, <1>11
  <2> QED BY <1>4, <1>12, <2>1, <2>2 DEF WholeOK
<1> QED
  BY <1>13 DEF X

\* Whatever a rank does, its gradients and updates stay whole.
LEMMA WholeLocal ==
    ASSUME TrainInv, PerEpoch # 0, NEW r, NEW R, NEW X, RankOK(R), FromOK(R), WholeOK(r, R), Effect(r, R, X),
           \A c \in Archives : \A u \in c.applied : UpdateOK(u)
    PROVE  WholeOK(r, X)
<1>0. conf \in Scenarios
  BY DEF TrainInv, CacheInv, PrepOK
<1>1. CASE Begins(R, X)
  <2>1. /\ X.iter = X.from /\ X.from \in Nat /\ X.turn = 1 /\ X.grads = R.grads
        /\ X.pc \in {"turn", "broken", "done"}
        /\ X.applied = R.applied \/ \E c \in Archives : X.applied = c.applied
    BY <1>1, BeginFields
  <2>2. \A p \in Parameters : X.grads[p] = <<>>
    BY <1>1, <2>1 DEF Begins, FromOK
  <2>3. \A u \in X.applied : UpdateOK(u)
    BY <2>1 DEF WholeOK
  <2> QED BY <1>0, <2>1, <2>2, <2>3, WholeStarts
<1>2. CASE Skips(R, X)
  BY <1>0, <1>2, WholeSkips
<1>3. CASE Computes(r, R, X)
  BY <1>0, <1>3, WholeComputes
<1>4. CASE Applies(R, X)
  BY <1>0, <1>4, WholeApplies
<1>5. CASE \/ Monitors(R, X) \/ Reserves(R, X) \/ EndsTurns(R, X) \/ Fails(R, X) \/ EndsAnEpoch(R, X)
           \/ MonitorsError(R, X) \/ ForwardsMonitor(r, R, X) \/ Judges(r, R, X) \/ Saves(R, X)
           \/ Continues(r, R, X) \/ Reports(r, R, X) \/ ChecksTime(r, R, X)
  BY <1>0, <1>5, WholeMoves
<1> QED
  BY <1>1, <1>2, <1>3, <1>4, <1>5 DEF Effect, Untrains

\* A new process.
LEMMA FreshWhole ==
    ASSUME conf \in Scenarios, PerEpoch # 0
    PROVE  /\ \A r : WholeOK(r, Fresh)
           /\ FromOK(Fresh) /\ Limit(Fresh) \in Nat /\ Aligned(Fresh, Fresh)
<1>1. /\ Fresh.pc = "start" /\ Fresh.applied = {} /\ Fresh.iter = 0 /\ Fresh.from = 0 /\ Fresh.turn = 1
      /\ Fresh.sumEpoch = <<>> /\ \A p \in Parameters : Fresh.grads[p] = <<>>
  BY DEF Fresh
<1>2. PerEpoch \in Nat \ {0} /\ MaxIteration \in Nat
  BY Project
<1>3. \A r : WholeOK(r, Fresh)
  <2> SUFFICES ASSUME NEW r PROVE WholeOK(r, Fresh)
    OBVIOUS
  <2> DEFINE X == Fresh
  <2>1. /\ X.turn = 1 /\ X.pc \notin {"reduce", "apply", "reserve"} /\ X.from \in Nat /\ X.iter = X.from
        /\ \A p \in Parameters : X.grads[p] = <<>>
        /\ \A u \in X.applied : UpdateOK(u)
    BY <1>1
  <2> HIDE DEF X
  <2>2. WholeOK(r, X)
    BY <1>2, <2>1, WholeStarts
  <2> QED BY <2>2 DEF X
<1>4. FirstOf(0) = 0 /\ (0 \div PerEpoch) * PerEpoch = 0
  <2>1. (0 \div PerEpoch) * PerEpoch \in 0..0
    BY <1>2, EpochBegins
  <2> QED BY <2>1 DEF FirstOf
<1>5. Stage(Fresh) * PerEpoch = 0
  <2>1. 0 \div PerEpoch \in Nat
    BY <1>2, EpochBegins
  <2>2. Stage(Fresh) = 0 \div PerEpoch
    BY <1>1, <2>1 DEF Stage, EndingEpoch, Saving
  <2> QED BY <1>4, <2>2
<1>6. FromOK(Fresh) /\ Limit(Fresh) = MaxIteration
  BY <1>1, <1>4 DEF FromOK, Limit
<1>7. Aligned(Fresh, Fresh)
  <2>1. \A i \in 0..(MaxIteration - 1) : ~(i < 0)
    BY <1>2
  <2> QED BY <1>1, <1>5, <2>1 DEF Aligned
<1> QED
  BY <1>2, <1>3, <1>6, <1>7

\* All ranks together keep their updates whole, too.
LEMMA WholeTogether ==
    ASSUME TrainInv, PerEpoch # 0, \A s \in Ranks : CostOK(s, rank[s]) /\ WholeOK(s, rank[s]) /\ FromOK(rank[s]),
           \A s, t \in Ranks : Aligned(rank[s], rank[t]), Together
    PROVE  /\ disk' = disk
           /\ \A r \in Ranks : WholeOK(r, rank'[r]) /\ FromOK(rank'[r])
           /\ \A s, t \in Ranks : Aligned(rank'[s], rank'[t])
<1>0. conf \in Scenarios /\ PerEpoch \in Nat \ {0} /\ \A r \in Ranks : RankOK(rank[r])
  BY Project DEF TrainInv, CacheInv, PrepOK, RankInv
<1>1. ASSUME \A s \in Ranks : /\ rank'[s].from = rank[s].from /\ rank'[s].iter = rank[s].iter
                              /\ rank[s].pc # "start" /\ rank'[s].pc # "start"
      PROVE  \A s \in Ranks : FromOK(rank'[s]) /\ Limit(rank'[s]) = Limit(rank[s])
  BY <1>1 DEF FromOK, Limit
<1>2. ASSUME \A s \in Ranks : rank'[s].from = rank[s].from /\ Alike(rank[s], rank'[s]),
             \A s \in Ranks : Limit(rank'[s]) = Limit(rank[s])
      PROVE  \A s, t \in Ranks : Aligned(rank'[s], rank'[t])
  <2> SUFFICES ASSUME NEW s \in Ranks, NEW t \in Ranks PROVE Aligned(rank'[s], rank'[t])
    OBVIOUS
  <2>1. Aligned(rank'[s], rank[t])
    BY <1>2, AlignedKeeps
  <2>2. Limit(rank'[t]) = Limit(rank[t])
    BY <1>2
  <2> QED BY <2>1, <2>2 DEF Aligned
<1>3. CASE ReduceGradients
  <2>1. disk' = disk
    BY <1>3, ReduceEffect
  <2>2. \A r \in Ranks : WholeOK(r, rank'[r])
    BY <1>3, WholeReduces
  <2>3. ASSUME NEW r \in Ranks
        PROVE  /\ rank'[r].from = rank[r].from /\ rank'[r].iter = rank[r].iter /\ Alike(rank[r], rank'[r])
               /\ rank[r].pc # "start" /\ rank'[r].pc # "start"
    <3> DEFINE R == rank[r]
               X == rank'[r]
    <3>1. R.pc = "reduce" /\ Reduces(R, X)
      BY <1>3, ReduceEffect
    <3> HIDE DEF R, X
    <3>2. Keeps(R, X, {"grads", "pc"}) /\ X.pc = "apply"
      BY <3>1 DEF Reduces
    <3>3. /\ R.pc \notin EndingEpoch \cup {"done", "stopped"} /\ X.pc \notin EndingEpoch \cup {"done", "stopped"}
          /\ X.pc \notin {"start", "broken"}
      BY <3>1, <3>2 DEF EndingEpoch, Saving
    <3>4. Alike(R, X)
      BY <3>2, <3>3, AlikeKeeps
    <3>5. X.from = R.from /\ X.iter = R.iter
      BY <3>2, KeepsFields
    <3>6. R.pc # "start" /\ X.pc # "start"
      BY <3>1, <3>2
    <3> QED BY <3>4, <3>5, <3>6 DEF R, X
  <2> QED BY <1>1, <1>2, <2>1, <2>2, <2>3
<1>4. CASE SumError
  <2>1. disk' = disk
    BY <1>4, SumErrorEffect
  <2>2. ASSUME NEW r \in Ranks
        PROVE  /\ rank'[r].from = rank[r].from /\ rank'[r].iter = rank[r].iter /\ Alike(rank[r], rank'[r])
               /\ rank[r].pc # "start" /\ rank'[r].pc # "start" /\ WholeOK(r, rank'[r])
    <3> DEFINE R == rank[r]
               X == rank'[r]
    <3>1. R.pc = "sum error" /\ SumsErrors(R, X) /\ WholeOK(r, R)
      BY <1>4, SumErrorEffect
    <3> HIDE DEF R, X
    <3>2. Keeps(R, X, {"errors", "pc"}) /\ X.pc \in {"judge", "forward"}
      BY <3>1 DEF SumsErrors
    <3>3. /\ R.pc \in EndingEpoch \cup {"done", "stopped"} /\ X.pc \in EndingEpoch \cup {"done", "stopped"}
          /\ X.pc \notin {"start", "broken"}
      BY <3>1, <3>2 DEF EndingEpoch
    <3>4. Alike(R, X)
      BY <3>2, <3>3, AlikeKeeps
    <3>5. /\ X.from = R.from /\ X.iter = R.iter /\ X.turn = R.turn /\ X.grads = R.grads
          /\ X.applied = R.applied
      <4>1. Keeps(R, X, {"errors", "pc"})
        BY <3>2
      <4> QED BY <4>1, KeepsFields
    <3>6. R.pc \notin {"start", "reduce", "apply", "reserve"} /\ X.pc \notin {"start", "reduce", "apply", "reserve"}
      BY <3>1, <3>2
    <3>7. \A k \in Turns : Upto(X, k) = Upto(R, k)
      BY <3>5, <3>6 DEF Upto
    <3>8. WholeOK(r, X)
      BY <3>1, <3>5, <3>6, <3>7, WholeKeeps
    <3> QED BY <3>4, <3>5, <3>6, <3>8 DEF R, X
  <2> QED BY <1>1, <1>2, <2>1, <2>2
<1>5. CASE SumCost
  <2>1. disk' = disk
    BY <1>5, SumCostEffect
  <2>2. PICK q \in Ranks : \A r \in Ranks :
            /\ rank[r].pc = "sum cost" /\ rank[r].iter = rank[q].iter /\ rank[r].turn = rank[q].turn
            /\ SumsCost(rank[r], rank'[r])
    BY <1>5, SumCostEffect
  <2>3. ASSUME NEW r \in Ranks
        PROVE  /\ rank'[r].from = rank[r].from /\ rank'[r].iter = rank[r].iter
               /\ rank[r].pc # "start" /\ rank'[r].pc # "start" /\ WholeOK(r, rank'[r])
               /\ Stage(rank[r]) * PerEpoch = FirstOf(rank[r].iter)
               /\ Stage(rank'[r]) * PerEpoch = FirstOf(rank[r].iter)
    <3> DEFINE R == rank[r]
               X == rank'[r]
    <3>1. R.pc = "sum cost" /\ SumsCost(R, X) /\ WholeOK(r, R) /\ R.iter \in Nat
      BY <1>0, <2>2, RankNumbers
    <3> HIDE DEF R, X
    <3>2. /\ Keeps(R, X, {"sumEpoch", "numIteration", "sumIteration", "pending", "pc"})
          /\ X.pc \in {"updated", "step"}
      BY <3>1 DEF SumsCost
    <3>3. /\ X.from = R.from /\ X.iter = R.iter /\ X.turn = R.turn /\ X.grads = R.grads
          /\ X.applied = R.applied
      <4>1. Keeps(R, X, {"sumEpoch", "numIteration", "sumIteration", "pending", "pc"})
        BY <3>2
      <4> QED BY <4>1, KeepsFields
    <3>4. R.pc \notin {"start", "reduce", "apply", "reserve"} /\ X.pc \notin {"start", "reduce", "apply", "reserve"}
      BY <3>1, <3>2
    <3>5. \A k \in Turns : Upto(X, k) = Upto(R, k)
      BY <3>3, <3>4 DEF Upto
    <3>6. WholeOK(r, X)
      BY <3>1, <3>3, <3>4, <3>5, WholeKeeps
    <3>7. Stage(R) * PerEpoch = FirstOf(R.iter) /\ Stage(X) * PerEpoch = FirstOf(R.iter)
      <4>1. R.iter \div PerEpoch \in Nat
        BY <1>0, <3>1, EpochBegins
      <4>2. /\ R.pc \notin EndingEpoch \cup {"done", "stopped"}
            /\ X.pc \notin EndingEpoch \cup {"done", "stopped"}
        BY <3>1, <3>2 DEF EndingEpoch, Saving
      <4>3. Stage(R) = R.iter \div PerEpoch /\ Stage(X) = R.iter \div PerEpoch
        BY <3>3, <4>1, <4>2 DEF Stage
      <4> QED BY <4>3 DEF FirstOf
    <3> QED BY <3>3, <3>4, <3>6, <3>7 DEF R, X
  <2>4. \A s \in Ranks : FromOK(rank'[s]) /\ Limit(rank'[s]) = Limit(rank[s])
    BY <1>1, <2>3
  <2>5. ASSUME NEW s \in Ranks, NEW t \in Ranks PROVE Aligned(rank'[s], rank'[t])
    <3>1. Limit(rank'[t]) = rank[t].from /\ Limit(rank[t]) = rank[t].from
      BY <2>3, <2>4 DEF Limit
    <3>2. rank[t].from <= FirstOf(rank[t].iter) /\ rank[t].iter = rank[s].iter
      BY <2>2 DEF FromOK
    <3>3. Limit(rank'[t]) <= Stage(rank'[s]) * PerEpoch
      BY <2>3, <3>1, <3>2
    <3>4. /\ rank'[s].from = rank[s].from /\ Limit(rank'[t]) = Limit(rank[t])
          /\ Stage(rank'[s]) * PerEpoch = Stage(rank[s]) * PerEpoch
      BY <2>3, <2>4
    <3>5. Aligned(rank[s], rank[t])
      OBVIOUS
    <3> QED BY <3>3, <3>4, <3>5 DEF Aligned
  <2> QED BY <2>1, <2>3, <2>4, <2>5
<1> QED
  BY <1>3, <1>4, <1>5 DEF Together

\* The same project, the same iterations.
LEMMA SameWhole ==
    ASSUME conf' = conf
    PROVE  /\ \A r, R : WholeOK(r, R)' <=> WholeOK(r, R)
           /\ \A R : FromOK(R)' <=> FromOK(R)
           /\ \A R, S : Aligned(R, S)' <=> Aligned(R, S)
           /\ \A u : UpdateOK(u)' <=> UpdateOK(u)
<1>1. /\ Ranks' = Ranks /\ Turns' = Turns /\ PerEpoch' = PerEpoch /\ MaxIteration' = MaxIteration
      /\ \A k : Opt(k)' = Opt(k)
  BY SameProject DEF MaxIteration
<1>2. /\ \A k, i, f : Window(k, i, f)' = Window(k, i, f) /\ Block(k, i, f)' = Block(k, i, f)
      /\ \A k, J : AllOf(k, J)' = AllOf(k, J)
      /\ Parameters' = Parameters
  BY <1>1 DEF Window, Block, AllOf, Parameters
<1>3. \A k : (Separate(k)' <=> Separate(k)) /\ (Exclusive(k)' <=> Exclusive(k))
  BY <1>1 DEF Separate, Exclusive
<1>4. \A u : UpdateOK(u)' <=> UpdateOK(u)
  BY <1>1, <1>2, <1>3 DEF UpdateOK
<1>5. \A r, R, k, p : GradOK(r, R, k, p)' <=> GradOK(r, R, k, p)
  BY <1>1, <1>2, <1>3 DEF GradOK
<1>6. \A r, R : WholeOK(r, R)' <=> WholeOK(r, R)
  BY <1>1, <1>2, <1>3, <1>4, <1>5 DEF WholeOK
<1>7. \A R : FromOK(R)' <=> FromOK(R)
  BY <1>1, <1>2 DEF FromOK, FirstOf
<1>8. \A R, S : Aligned(R, S)' <=> Aligned(R, S)
  BY <1>1 DEF Aligned, Stage, Limit
<1> QED
  BY <1>4, <1>6, <1>7, <1>8

\* Every step keeps the updates whole.
LEMMA WholeNext ==
    ASSUME TrainInv, CostInv, CostInv', WholeInv, [Next]_vars
    PROVE  WholeInv'
<1>0. conf \in Scenarios /\ MaxIteration \in Nat /\ \A r \in Ranks : RankOK(rank[r])
  BY Project DEF TrainInv, CacheInv, PrepOK, RankInv
<1>1. conf' = conf
  BY NextEffect
<1>2. Ranks' = Ranks /\ PerEpoch' = PerEpoch
  BY <1>1, SameProject
<1>3. ASSUME PerEpoch # 0 => \A r \in Ranks : WholeOK(r, rank'[r]) /\ FromOK(rank'[r]),
             PerEpoch # 0 => \A s, t \in Ranks : Aligned(rank'[s], rank'[t]),
             \A c \in Archives' : \A u \in c.applied : UpdateOK(u)
      PROVE  WholeInv'
  BY <1>1, <1>2, <1>3, SameWhole DEF WholeInv
<1>4. ASSUME NEW r \in Ranks, Train(r) PROVE WholeInv'
  <2>1. \A s \in Ranks \ {r} : rank'[s] = rank[s]
    BY <1>4, TrainEffect
  <2>2. ASSUME PerEpoch # 0
        PROVE  /\ WholeOK(r, rank'[r]) /\ FromOK(rank'[r]) /\ Aligned(rank'[r], rank'[r])
               /\ \A s \in Ranks : Aligned(rank'[r], rank[s]) /\ Aligned(rank[s], rank'[r])
    <3> DEFINE R == rank[r]
               X == rank'[r]
    <3>1. Effect(r, R, X) /\ RankOK(R)
      BY <1>0, <1>4, TrainEffect
    <3>2. CostOK(r, R) /\ CostOK(r, X)
      <4>1. CostOK(r, R)
        BY <2>2 DEF CostInv
      <4>2. CostOK(r, X)
        BY <1>1, <1>2, <2>2, SameCost DEF CostInv
      <4> QED BY <4>1, <4>2
    <3>3. WholeOK(r, R) /\ FromOK(R) /\ \A s \in Ranks : Aligned(R, rank[s]) /\ Aligned(rank[s], R)
      BY <2>2 DEF WholeInv
    <3>4. \A s \in Ranks : Limit(rank[s]) \in Nat
      BY <1>0, <2>2 DEF WholeInv, FromOK, Limit
    <3>5. \A c \in Archives : \A u \in c.applied : UpdateOK(u)
      BY DEF WholeInv
    <3>6. Limit(R) \in Nat /\ Aligned(R, R)
      BY <3>3, <3>4
    <3> HIDE DEF R, X
    <3>7. WholeOK(r, X)
      BY <2>2, <3>1, <3>3, <3>5, WholeLocal
    <3>8. FromOK(X)
      BY <2>2, <3>1, <3>3, FromLocal
    <3>9. /\ \A S : Aligned(R, S) /\ Limit(S) \in Nat => Aligned(X, S)
          /\ \A S : Aligned(S, R) /\ RankOK(S) => Aligned(S, X)
          /\ Aligned(X, X)
      BY <2>2, <3>1, <3>2, <3>3, <3>6, AlignedLocal
    <3>10. \A s \in Ranks : Aligned(X, rank[s]) /\ Aligned(rank[s], X)
      BY <1>0, <3>3, <3>4, <3>9
    <3> QED BY <3>7, <3>8, <3>9, <3>10 DEF X
  <2>3. PerEpoch # 0 => \A s \in Ranks : WholeOK(s, rank'[s]) /\ FromOK(rank'[s])
    <3> SUFFICES ASSUME PerEpoch # 0, NEW s \in Ranks PROVE WholeOK(s, rank'[s]) /\ FromOK(rank'[s])
      OBVIOUS
    <3>1. CASE s = r
      BY <2>2, <3>1
    <3>2. CASE s # r
      BY <2>1, <3>2 DEF WholeInv
    <3> QED BY <3>1, <3>2
  <2>4. PerEpoch # 0 => \A s, t \in Ranks : Aligned(rank'[s], rank'[t])
    <3> SUFFICES ASSUME PerEpoch # 0, NEW s \in Ranks, NEW t \in Ranks PROVE Aligned(rank'[s], rank'[t])
      OBVIOUS
    <3>1. CASE s = r /\ t = r
      BY <2>2, <3>1
    <3>2. CASE s = r /\ t # r
      BY <2>1, <2>2, <3>2
    <3>3. CASE s # r /\ t = r
      BY <2>1, <2>2, <3>3
    <3>4. CASE s # r /\ t # r
      BY <2>1, <3>4 DEF WholeInv
    <3> QED BY <3>1, <3>2, <3>3, <3>4
  <2>5. ASSUME NEW c \in Archives', NEW u \in c.applied PROVE UpdateOK(u)
    <3>1. CASE c \in Archives
      BY <2>5, <3>1 DEF WholeInv
    <3>2. ASSUME NEW whole, c = Archive(rank[r], whole) PROVE UpdateOK(u)
      <4>1. u \in rank[r].applied
        BY <2>5, <3>2 DEF Archive
      <4>2. CASE PerEpoch = 0
        BY <1>0, <4>1, <4>2 DEF RankOK, Untrained
      <4>3. CASE PerEpoch # 0
        BY <4>1, <4>3 DEF WholeInv, WholeOK
      <4> QED BY <4>2, <4>3
    <3> QED BY <1>4, <3>1, <3>2, TrainEffect
  <2> QED BY <1>3, <2>3, <2>4, <2>5
<1>5. CASE Together
  <2>1. PerEpoch # 0
    <3>1. PICK r \in Ranks : rank[r].pc \in {"sum cost", "reduce", "sum error"}
      BY <1>5 DEF Together, SumCost, ReduceGradients, SumError, At
    <3> QED BY <1>0, <3>1 DEF RankOK, Untrained
  <2>2. /\ \A s \in Ranks : CostOK(s, rank[s]) /\ WholeOK(s, rank[s]) /\ FromOK(rank[s])
        /\ \A s, t \in Ranks : Aligned(rank[s], rank[t])
    BY <2>1 DEF CostInv, WholeInv
  <2>3. /\ disk' = disk
        /\ \A r \in Ranks : WholeOK(r, rank'[r]) /\ FromOK(rank'[r])
        /\ \A s, t \in Ranks : Aligned(rank'[s], rank'[t])
    BY <1>5, <2>1, <2>2, WholeTogether
  <2> QED BY <1>3, <2>3 DEF WholeInv, Archives
<1>6. CASE UNCHANGED <<rank, disk>>
  BY <1>3, <1>6 DEF WholeInv, Archives
<1>7. CASE rank' = [r \in Ranks |-> Fresh] /\ UNCHANGED disk
  <2>1. \A r \in Ranks : rank'[r] = Fresh
    BY <1>7
  <2>2. PerEpoch # 0 => \A r \in Ranks : WholeOK(r, rank'[r]) /\ FromOK(rank'[r])
    BY <1>0, <2>1, FreshWhole
  <2>3. PerEpoch # 0 => \A s, t \in Ranks : Aligned(rank'[s], rank'[t])
    BY <1>0, <2>1, FreshWhole
  <2> QED BY <1>3, <1>7, <2>2, <2>3 DEF WholeInv, Archives
<1> QED
  BY <1>4, <1>5, <1>6, <1>7, NextEffect

\* Every update is made from the gradients of the update_interval iterations that lead to it on
\* all ranks, each once and no others, for any number of ranks, optimizers, iterations and crashes,
\* if the optimizer has its gradients to itself: one that a restart cut off at the front uses what
\* is left, and all ranks leave out the same (train.py, _update and _get_current_parameter).
THEOREM WholeHolds == Spec => []UpdatesAreWhole
<1>1. Init => CostInv /\ WholeInv
  <2> SUFFICES ASSUME Init PROVE CostInv /\ WholeInv
    OBVIOUS
  <2>1. \A r \in Ranks : rank[r] = Fresh
    BY DEF Init
  <2>2. disk.report \in Seq({}) /\ Archives = {} /\ conf \in Scenarios
    BY DEF Init, Archives
  <2>3. CostInv
    BY <2>1, <2>2, FreshCost DEF CostInv
  <2>4. WholeInv
    BY <2>1, <2>2, FreshWhole DEF WholeInv
  <2> QED BY <2>3, <2>4
<1>2. TrainInv /\ CostInv /\ WholeInv /\ [Next]_vars => CostInv' /\ WholeInv'
  BY CostNext, WholeNext
<1>3. TrainInv /\ WholeInv => UpdatesAreWhole
  <2> SUFFICES ASSUME TrainInv, WholeInv, NEW r \in Ranks, NEW u \in rank[r].applied, Separate(u.turn),
                      NEW p \in Opt(u.turn).params
               PROVE  /\ Distinct(u.grads[p])
                      /\ Elements(u.grads[p]) =
                            AllOf(u.turn, Window(u.turn, u.iter, u.from))
    BY DEF UpdatesAreWhole, AllOf, Window
  <2>1. PerEpoch # 0
    BY DEF TrainInv, RankInv, RankOK, Untrained
  <2>2. UpdateOK(u)
    BY <2>1 DEF WholeInv, WholeOK
  <2>3. Lists(u.grads[p], AllOf(u.turn, Window(u.turn, u.iter, u.from)))
    BY <2>2 DEF UpdateOK
  <2> QED BY <2>3, ListsDistinct
<1> QED
  BY <1>1, <1>2, <1>3, TrainAlways, PTL DEF Spec

-----------------------------------------------------------------------------
(* The ranks call the same collectives. *)

\* What the ranks have to add up together: the cost when an optimizer's turn comes and a loss has to be
\* added, and at the end of an epoch, the gradients of an update, the error of a batch.
Meeting(what, i, k) ==
    /\ i \in 0..(MaxIteration - 1)
    /\ \/ what = "cost" /\ k \in Turns /\ Active(Opt(k), i) /\ Ran(i, k) # {} /\ Unadded(i, Ran(i, k))
       \/ what = "cost" /\ k = Number + 1 /\ EndsEpoch(i) /\ Ran(i, k) # {}
       \/ what = "grads" /\ IsDue(i, k)
       \/ /\ what = "error" /\ EndsEpoch(i) /\ Evaluated(Epoch(i))
          /\ k \in 0..conf.monitor.batches /\ (k = 0 => k = conf.monitor.batches)

\* Where that is behind a rank.
Passed(R, what, i, k) ==
    \/ i < R.iter
    \/ /\ i = R.iter
       /\ \/ what = "cost" /\ (k < R.turn \/ (k = R.turn /\ R.pc \notin {"turn", "sum cost"}))
          \/ what = "grads" /\ (k < R.turn \/ (k = R.turn /\ R.pc \in {"apply", "reserve"}))
          \/ what = "error" /\ \/ R.pc \in {"evaluate", "sum error"} /\ k < R.batch
                               \/ R.pc = "forward" /\ k <= R.batch
                               \/ R.pc \in {"judge", "report", "done", "stopped"} \cup Saving

Begun(R) == R.pc \notin {"start", "broken"}

\* Two ranks have begun at the same iteration and met the same times; one that has not begun yet has
\* missed nothing.
InStep(R, S) ==
    /\ S.pc = "start" /\ Begun(R) => \A what, i, k : Meeting(what, i, k) /\ Passed(R, what, i, k) => i < R.from
    /\ S.pc = "broken" => ~Begun(R)
    /\ Begun(R) /\ Begun(S) =>
            /\ R.from = S.from
            /\ \A what, i, k : Meeting(what, i, k) => (Passed(R, what, i, k) <=> Passed(S, what, i, k))

\* The updates of a rank, the one it is about to make included.
Updates(R) == R.applied \cup (IF R.pc = "apply" THEN {Update(R)} ELSE {})
Matching(R, S) == \A u \in Updates(R), v \in Updates(S) : u.iter = v.iter /\ u.turn = v.turn => u = v

\* Who begins now finds the checkpoint the others began with.
Finds == crashes # 0 /\ disk.current # {}
Old(R) == {u \in R.applied : u.iter < R.from}
Loaded(R) ==
    /\ Begun(R) => IF Finds THEN LET c == Latest(disk.current)
                                 IN  c.whole /\ R.from = Resumed(c) /\ Old(R) = c.applied
                            ELSE R.from = 0
    /\ R.pc = "broken" => Finds /\ ~Latest(disk.current).whole

MeetInv ==
    /\ PerEpoch = 0 \/ EpochsMeet
    /\ PerEpoch = 0 => \A r \in Ranks : rank[r].sumEpoch = <<>>
    /\ PerEpoch # 0 => \A r, s \in Ranks :
            /\ InStep(rank[r], rank[s]) /\ Matching(rank[r], rank[s])
            /\ rank[s].pc = "start" => Loaded(rank[r])

\* The same project, the same collectives.
LEMMA SameMeeting ==
    ASSUME conf' = conf
    PROVE  /\ \A R, S : InStep(R, S)' <=> InStep(R, S)
           /\ \A R, S : Matching(R, S)' <=> Matching(R, S)
           /\ EpochsMeet' <=> EpochsMeet
           /\ \A c : Resumed(c)' = Resumed(c)
<1>1. /\ Ranks' = Ranks /\ Turns' = Turns /\ PerEpoch' = PerEpoch /\ Number' = Number
      /\ MaxIteration' = MaxIteration /\ \A k : Opt(k)' = Opt(k)
  BY SameProject
<1>2. /\ \A i : EndsEpoch(i)' <=> EndsEpoch(i)
      /\ \A i : Epoch(i)' = Epoch(i)
      /\ \A e : Evaluated(e)' <=> Evaluated(e)
  BY <1>1 DEF EndsEpoch, Epoch, Evaluated
<1>3. /\ \A i, k : Ran(i, k)' = Ran(i, k)
      /\ \A i, k : IsDue(i, k)' <=> IsDue(i, k)
  BY <1>1 DEF Ran, FirstOf, IsDue
<1>4. \A w, i, k : Meeting(w, i, k)' <=> Meeting(w, i, k)
  <2> SUFFICES ASSUME NEW w, NEW i, NEW k PROVE Meeting(w, i, k)' <=> Meeting(w, i, k)
    OBVIOUS
  <2>1. Ran(i, k)' = Ran(i, k) /\ (Evaluated(Epoch(i))' <=> Evaluated(Epoch(i))) /\ (EndsEpoch(i)' <=> EndsEpoch(i))
    BY <1>2, <1>3
  <2>2. conf'.monitor = conf.monitor
    OBVIOUS
  <2> QED BY <1>1, <1>3, <2>1, <2>2 DEF Meeting
<1>5. \A R, S : InStep(R, S)' <=> InStep(R, S)
  BY <1>4 DEF InStep
<1>6. \A R : Updates(R)' = Updates(R)
  BY <1>1 DEF Updates, Update
<1>7. \A R, S : Matching(R, S)' <=> Matching(R, S)
  BY <1>6 DEF Matching
<1>8. EpochsMeet' <=> EpochsMeet
  BY <1>1, <1>2 DEF EpochsMeet
<1> QED
  BY <1>1, <1>5, <1>7, <1>8 DEF Resumed

\* On the way through the turns a rank leaves no collective behind without a call.
LEMMA PassedTurns ==
    ASSUME conf \in Scenarios, PerEpoch # 0, NEW r, NEW R, NEW X, RankOK(R), CostOK(r, R),
           \/ Skips(R, X) \/ Monitors(R, X) \/ Computes(r, R, X) \/ Applies(R, X) \/ Reserves(R, X)
           \/ EndsTurns(R, X) \/ Fails(R, X),
           NEW what, NEW i, NEW k, Meeting(what, i, k)
    PROVE  Passed(X, what, i, k) <=> Passed(R, what, i, k)
<1>0. Turns = 1..Number /\ Number \in Nat /\ R.iter \in Nat /\ R.turn \in Nat /\ R.turn \in 1..(Number + 1)
  BY Project, RankNumbers
<1>1. conf.monitor.batches \in Nat
  BY BatchNumbers
<1>2. Trained(R) /\ k \in Int
  BY <1>0, <1>1 DEF RankOK, Meeting, IsDue
<1>3. CASE Skips(R, X)
  <2>1. /\ R.pc = "turn" /\ R.turn \in Turns /\ ~Active(Opt(R.turn), R.iter)
        /\ X.pc = "turn" /\ X.turn = R.turn + 1 /\ X.iter = R.iter
    BY <1>3, KeepsFields DEF Skips
  <2>2. i = R.iter /\ k = R.turn => ~(what \in {"cost", "grads"})
    BY <1>0, <2>1 DEF Meeting, IsDue
  <2>3. k < X.turn <=> k < R.turn \/ k = R.turn
    BY <1>0, <1>2, <2>1
  <2>4. k = X.turn => ~(k < R.turn \/ k = R.turn)
    BY <1>0, <2>1
  <2> QED BY <2>1, <2>2, <2>3, <2>4 DEF Passed, Saving
<1>4. CASE Monitors(R, X)
  <2>1. /\ R.pc = "turn" /\ R.turn \in Turns /\ X.turn = R.turn /\ X.iter = R.iter
        /\ X.pc = IF R.pending # 0 /\ R.first THEN "sum cost" ELSE "step"
    <3>1. Keeps(R, X, {"sumIteration", "first", "pc"})
      BY <1>4 DEF Monitors
    <3>2. X.turn = R.turn /\ X.iter = R.iter
      BY <3>1, KeepsFields
    <3> QED BY <1>4, <3>2 DEF Monitors
  <2>2. SumOK(r, R) /\ NumberOK(R)
    BY <2>1 DEF CostOK, Learning
  <2>3. R.pending = 0 <=> Ran(R.iter, R.turn) = {}
    BY <2>1, <2>2 DEF SumOK, AtEnd
  <2>4. R.first <=> Unadded(R.iter, Ran(R.iter, R.turn))
    BY <2>1, <2>2 DEF NumberOK, TurnAfter, InTurn
  <2>5. i = R.iter /\ k = R.turn /\ what = "cost" => X.pc = "sum cost"
    <3> SUFFICES ASSUME i = R.iter, k = R.turn, what = "cost" PROVE X.pc = "sum cost"
      OBVIOUS
    <3>1. Ran(R.iter, R.turn) # {} /\ Unadded(R.iter, Ran(R.iter, R.turn))
      <4>1. R.turn # Number + 1
        <5>1. R.turn \in 1..Number
          BY <1>0, <2>1
        <5> QED BY <1>0, <5>1
      <4> QED BY <4>1 DEF Meeting
    <3> QED BY <2>1, <2>3, <2>4, <3>1
  <2> QED BY <2>1, <2>5 DEF Passed, Saving
<1>5. CASE Computes(r, R, X)
  <2>1. /\ R.pc = "step" /\ X.turn = R.turn /\ X.iter = R.iter
        /\ X.pc = IF Due(Opt(R.turn), R.iter) THEN "reduce" ELSE "reserve"
    BY <1>5, KeepsFields DEF Computes
  <2>2. i = R.iter /\ k = R.turn /\ what = "grads" => X.pc = "reduce"
    BY <2>1 DEF Meeting, IsDue
  <2> QED BY <2>1, <2>2 DEF Passed, Saving
<1>6. CASE Applies(R, X)
  <2>1. R.pc = "apply" /\ X.turn = R.turn /\ X.iter = R.iter /\ X.pc = "reserve"
    BY <1>6, KeepsFields DEF Applies
  <2> QED BY <2>1 DEF Passed, Saving
<1>7. CASE Reserves(R, X)
  <2>1. R.pc = "reserve" /\ X.turn = R.turn + 1 /\ X.iter = R.iter /\ X.pc = "turn"
    BY <1>7, KeepsFields DEF Reserves
  <2>2. k < X.turn <=> k < R.turn \/ k = R.turn
    BY <1>0, <1>2, <2>1
  <2>3. k = X.turn => ~(k < R.turn \/ k = R.turn)
    BY <1>0, <2>1
  <2> QED BY <2>1, <2>2, <2>3 DEF Passed, Saving
<1>8. CASE EndsTurns(R, X)
  <2>1. /\ R.pc = "turn" /\ R.turn \notin Turns /\ X.turn = R.turn /\ X.iter = R.iter
        /\ \/ SumsAtEnd(R) /\ X.pc = "sum cost"
           \/ ~SumsAtEnd(R) /\ X.pc = "updated"
    <3>1. Keeps(R, X, {"sumIteration", "pc"})
      BY <1>8 DEF EndsTurns
    <3>2. X.turn = R.turn /\ X.iter = R.iter
      BY <3>1, KeepsFields
    <3> QED BY <1>8, <3>2 DEF EndsTurns
  <2>2. SumOK(r, R)
    BY <2>1 DEF CostOK, Learning
  <2>3. R.pending = 0 <=> Ran(R.iter, R.turn) = {}
    BY <2>1, <2>2 DEF SumOK, AtEnd
  <2>4. i = R.iter /\ k = R.turn /\ what = "cost" => X.pc = "sum cost"
    BY <2>1, <2>3 DEF Meeting, SumsAtEnd
  <2>5. ~(k = R.turn /\ what = "grads")
    BY <2>1 DEF Meeting, IsDue
  <2> QED BY <2>1, <2>4, <2>5 DEF Passed, Saving
<1>9. CASE Fails(R, X)
  <2>1. R.pc = "updated" /\ X.turn = R.turn /\ X.iter = R.iter /\ X.pc = "failed"
    BY <1>9, KeepsFields DEF Fails
  <2> QED BY <2>1 DEF Passed, Saving
<1> QED
  BY <1>3, <1>4, <1>5, <1>6, <1>7, <1>8, <1>9

\* When a rank goes on to the next iteration, it has left all those of this one behind.
LEMMA PassedIteration ==
    ASSUME conf \in Scenarios, PerEpoch # 0, NEW r, NEW R, NEW X, NEW C, RankOK(R), Advances(r, R, X, C),
           "iter" \notin C, "turn" \notin C, "pc" \notin C,
           \/ R.pc = "updated" /\ ~EndsEpoch(R.iter)
           \/ R.pc \in {"report", "saved"},
           NEW what, NEW i, NEW k, Meeting(what, i, k)
    PROVE  Passed(X, what, i, k) <=> Passed(R, what, i, k)
<1>0. /\ Turns = 1..Number /\ Number \in Nat /\ R.iter \in Nat /\ PerEpoch \in Nat \ {0}
      /\ MaxIteration \in Nat /\ MaxIteration = conf.maxEpoch * PerEpoch /\ conf.maxEpoch \in Nat
  BY Project, RankNumbers
<1>1. R.turn = Number + 1 /\ R.iter < MaxIteration
  BY DEF RankOK, Trained, EndingEpoch, Saving, Ended
<1>2. conf.monitor.batches \in Nat
  BY BatchNumbers
<1>3. k \in Int /\ i \in Int /\ (what \in {"cost", "grads"} => k < Number + 1 \/ k = Number + 1)
      /\ (what = "grads" => k < Number + 1)
  BY <1>0, <1>2 DEF Meeting, IsDue
<1>4. i = R.iter => Passed(R, what, i, k)
  <2>1. CASE what \in {"cost", "grads"}
    BY <1>1, <1>3, <2>1 DEF Passed
  <2>2. CASE what = "error"
    BY <2>2 DEF Passed, Meeting, Saving
  <2> QED BY <2>1, <2>2 DEF Meeting
<1>5. Passed(R, what, i, k) <=> i < R.iter + 1
  <2>1. i < R.iter + 1 <=> i < R.iter \/ i = R.iter
    BY <1>0, <1>3
  <2> QED BY <1>4, <2>1 DEF Passed
<1>6. CASE R.iter + 1 < MaxIteration
  <2>1. X.iter = R.iter + 1 /\ X.turn = 1 /\ X.pc = "turn"
    BY <1>6 DEF Advances
  <2>2. ~(i = X.iter /\ Passed(X, what, i, k))
    <3>1. k < 1 => ~(what \in {"cost", "grads"})
      BY <1>0 DEF Meeting, IsDue
    <3>2. i = X.iter => ~(i < X.iter)
      BY <1>0, <2>1
    <3> QED BY <2>1, <3>1, <3>2 DEF Passed, Saving
  <2>3. Passed(X, what, i, k) <=> i < X.iter
    BY <2>2 DEF Passed
  <2> QED BY <1>5, <2>1, <2>3
<1>7. CASE ~(R.iter + 1 < MaxIteration)
  <2>1. /\ X.iter = R.iter /\ X.turn = R.turn
        /\ X.pc \in {"unlink", "done"}
    <3>1. Keeps(R, X, C \cup {"pc", "then"}) /\ X.pc \in {"unlink", "done"}
      BY <1>7 DEF Advances
    <3> QED BY <3>1, KeepsFields
  <2>2. i = R.iter => Passed(X, what, i, k)
    <3>1. CASE what \in {"cost", "grads"}
      BY <1>1, <1>3, <2>1, <3>1 DEF Passed
    <3>2. CASE what = "error"
      BY <2>1, <3>2 DEF Passed, Saving
    <3> QED BY <3>1, <3>2 DEF Meeting
  <2>3. Passed(X, what, i, k) <=> i < R.iter + 1
    <3>1. i < R.iter + 1 <=> i < R.iter \/ i = R.iter
      BY <1>0, <1>3
    <3> QED BY <2>1, <2>2, <3>1 DEF Passed
  <2> QED BY <1>5, <2>3
<1> QED
  BY <1>6, <1>7

\* Nor does it at the end of an epoch.
LEMMA PassedEpoch ==
    ASSUME conf \in Scenarios, PerEpoch # 0, NEW r, NEW R, NEW X, RankOK(R), ErrorOK(r, R),
           \/ EndsAnEpoch(R, X) \/ MonitorsError(R, X) \/ ForwardsMonitor(r, R, X) \/ Judges(r, R, X) \/ Saves(R, X)
           \/ Continues(r, R, X) \/ Reports(r, R, X) \/ ChecksTime(r, R, X),
           NEW what, NEW i, NEW k, Meeting(what, i, k)
    PROVE  Passed(X, what, i, k) <=> Passed(R, what, i, k)
<1>0. Turns = 1..Number /\ Number \in Nat /\ R.iter \in Nat /\ R.turn = Number + 1
  <2>1. R.turn = Number + 1
    BY DEF RankOK, Trained, EndingEpoch, Saving, Ended, EndsAnEpoch, MonitorsError, ForwardsMonitor, Judges, Saves,
           Continues, Reports, ChecksTime
  <2> QED BY <2>1, Project, RankNumbers
<1>1. conf.monitor.batches \in Nat /\ Size \in Nat \ {0}
  BY BatchNumbers, RanksAre
<1>2. what = "grads" => k # R.turn
  <2>1. what = "grads" => k \in 1..Number
    BY <1>0 DEF Meeting, IsDue
  <2> QED BY <1>0, <2>1
<1>3. what = "error" => k \in 0..conf.monitor.batches /\ Evaluated(Epoch(i)) /\ (k = 0 => k = conf.monitor.batches)
  BY DEF Meeting
<1>4. CASE EndsAnEpoch(R, X)
  <2>1. /\ R.pc = "updated" /\ X.turn = R.turn /\ X.iter = R.iter /\ X.batch = 0
        /\ X.pc = IF Evaluated(Epoch(R.iter)) THEN "evaluate" ELSE "report"
    <3>1. Keeps(R, X, {"average", "sumEpoch", "numIteration", "batch", "pc"})
      BY <1>4 DEF EndsAnEpoch
    <3>2. X.turn = R.turn /\ X.iter = R.iter
      BY <3>1, KeepsFields
    <3> QED BY <1>4, <3>2 DEF EndsAnEpoch
  <2>2. what = "error" /\ i = R.iter => X.pc = "evaluate" /\ ~(k < X.batch)
    BY <1>1, <1>3, <2>1
  <2> QED BY <1>2, <2>1, <2>2 DEF Passed, Saving
<1>5. CASE MonitorsError(R, X)
  <2>1. /\ R.pc = "evaluate" /\ X.turn = R.turn /\ X.iter = R.iter /\ X.batch = R.batch
        /\ X.pc = IF SumsError(R) THEN "sum error" ELSE "forward"
    <3>1. Keeps(R, X, {"pc"})
      BY <1>5 DEF MonitorsError
    <3>2. X.turn = R.turn /\ X.iter = R.iter /\ X.batch = R.batch
      BY <3>1, KeepsFields
    <3> QED BY <1>5, <3>2 DEF MonitorsError
  <2>2. R.batch \in 0..conf.monitor.batches /\ R.count = R.batch * Size
    BY <2>1 DEF ErrorOK, CountOf
  <2>3. CASE SumsError(R)
    BY <1>2, <2>1, <2>3 DEF Passed, Saving
  <2>4. CASE ~SumsError(R)
    <3>1. R.batch # conf.monitor.batches /\ ~(R.count > 0)
      BY <2>4 DEF SumsError
    <3>2. R.batch = 0
      <4>1. R.batch \in Nat
        BY <1>1, <2>2
      <4>2. R.batch # 0 => R.batch * Size > 0
        BY <1>1, <4>1
      <4> QED BY <2>2, <3>1, <4>2
    <3>3. what = "error" => ~(k <= R.batch) /\ ~(k < R.batch)
      BY <1>1, <1>3, <3>1, <3>2
    <3> QED BY <1>2, <2>1, <2>4, <3>3 DEF Passed, Saving
  <2> QED BY <2>3, <2>4
<1>6. CASE ForwardsMonitor(r, R, X)
  <2>1. R.pc = "forward" /\ X.turn = R.turn /\ X.iter = R.iter /\ X.batch = R.batch + 1 /\ X.pc = "evaluate"
    <3>1. Keeps(R, X, {"held", "batch", "count", "pc"})
      BY <1>6 DEF ForwardsMonitor
    <3>2. X.turn = R.turn /\ X.iter = R.iter
      BY <3>1, KeepsFields
    <3> QED BY <1>6, <3>2 DEF ForwardsMonitor
  <2>2. R.batch \in 0..conf.monitor.batches
    BY <2>1 DEF ErrorOK
  <2>3. what = "error" => (k <= R.batch <=> k < X.batch)
    BY <1>1, <1>3, <2>1, <2>2
  <2> QED BY <1>2, <2>1, <2>3 DEF Passed, Saving
<1>7. CASE Judges(r, R, X)
  <2>1. R.pc = "judge" /\ X.turn = R.turn /\ X.iter = R.iter /\ X.pc \in {"best", "report"}
    <3>1. Keeps(R, X, {"judged", "best", "pc"})
      BY <1>7 DEF Judges
    <3>2. X.turn = R.turn /\ X.iter = R.iter
      BY <3>1, KeepsFields
    <3> QED BY <1>7, <3>2 DEF Judges
  <2> QED BY <1>2, <2>1 DEF Passed, Saving
<1>8. CASE Saves(R, X)
  <2>1. R.pc \in Saving /\ X.turn = R.turn /\ X.iter = R.iter
    <3>1. Keeps(R, X, {"pc"}) \/ Keeps(R, X, {"saved", "pc"})
      BY <1>8 DEF Saves
    <3>2. X.turn = R.turn /\ X.iter = R.iter
      BY <3>1, KeepsFields
    <3> QED BY <1>8, <3>2 DEF Saves, Saving
  <2>2. X.pc \in {"done", "report", "stopped"} \cup Saving
    <3>1. R.pc = "close" => R.then \in {"next", "done", "stopped"}
      BY DEF RankOK, Trained
    <3> QED BY <1>8, <3>1 DEF Saves, Saving
  <2> QED BY <1>2, <2>1, <2>2 DEF Passed, Saving
<1>9. CASE Continues(r, R, X)
  BY <1>9, PassedIteration DEF Continues
<1>10. CASE Reports(r, R, X)
  <2>1. CASE Advances(r, R, X, Told)
    BY <1>10, <2>1, PassedIteration DEF Reports, Told
  <2>2. CASE Keeps(R, X, Told \cup {"pc", "then"}) /\ X.pc \in {"unlink", "saved"}
    <3>1. X.turn = R.turn /\ X.iter = R.iter
      <4>1. "turn" \notin Told \cup {"pc", "then"} /\ "iter" \notin Told \cup {"pc", "then"}
        BY DEF Told
      <4> QED BY <2>2, <4>1, KeepsFields
    <3>2. R.pc = "report"
      BY <1>10 DEF Reports
    <3> QED BY <1>2, <2>2, <3>1, <3>2 DEF Passed, Saving
  <2> QED BY <1>10, <2>1, <2>2 DEF Reports
<1>11. CASE ChecksTime(r, R, X)
  <2>1. CASE Advances(r, R, X, {})
    BY <1>11, <2>1, PassedIteration DEF ChecksTime
  <2>2. CASE Keeps(R, X, {"pc", "then"}) /\ X.pc = "unlink"
    <3>1. X.turn = R.turn /\ X.iter = R.iter
      BY <2>2, KeepsFields
    <3>2. R.pc = "saved"
      BY <1>11 DEF ChecksTime
    <3> QED BY <1>2, <2>2, <3>1, <3>2 DEF Passed, Saving
  <2> QED BY <1>11, <2>1, <2>2 DEF ChecksTime
<1> QED
  BY <1>4, <1>5, <1>6, <1>7, <1>8, <1>9, <1>10, <1>11

\* A step of a rank that has begun, but for the update it makes.
LEMMA PassedLocal ==
    ASSUME conf \in Scenarios, PerEpoch # 0, NEW r, NEW R, NEW X, RankOK(R), CostOK(r, R), ErrorOK(r, R),
           Effect(r, R, X), ~Begins(R, X)
    PROVE  /\ Begun(R) /\ Begun(X) /\ X.from = R.from
           /\ \A what, i, k : Meeting(what, i, k) => (Passed(X, what, i, k) <=> Passed(R, what, i, k))
           /\ Updates(X) = Updates(R)
<1>1. X.from = R.from /\ R.pc # "start" /\ X.pc # "start"
  BY StaysFrom
<1>t. Trained(R)
  BY DEF RankOK
<1>2. R.pc # "broken" /\ X.pc # "broken"
  BY <1>t DEF Trained, Effect, Untrains, Skips, Monitors, Computes, Applies, Reserves, EndsTurns, Fails, EndsAnEpoch, MonitorsError,
         ForwardsMonitor, Judges, Saves, Continues, Reports, ChecksTime, Advances
<1>3. ASSUME NEW what, NEW i, NEW k, Meeting(what, i, k)
      PROVE  Passed(X, what, i, k) <=> Passed(R, what, i, k)
  <2>1. CASE \/ Skips(R, X) \/ Monitors(R, X) \/ Computes(r, R, X) \/ Applies(R, X) \/ Reserves(R, X)
             \/ EndsTurns(R, X) \/ Fails(R, X)
    BY <1>3, <2>1, PassedTurns
  <2>2. CASE \/ EndsAnEpoch(R, X) \/ MonitorsError(R, X) \/ ForwardsMonitor(r, R, X) \/ Judges(r, R, X)
             \/ Saves(R, X) \/ Continues(r, R, X) \/ Reports(r, R, X) \/ ChecksTime(r, R, X)
    BY <1>3, <2>2, PassedEpoch
  <2> QED BY <2>1, <2>2 DEF Effect, Untrains
<1>4. Updates(X) = Updates(R)
  <2>1. CASE Applies(R, X)
    BY <2>1 DEF Applies, Updates
  <2>2. ASSUME NEW C, Keeps(R, X, C), "applied" \notin C, R.pc # "apply", X.pc # "apply"
        PROVE  Updates(X) = Updates(R)
    <3>1. X.applied = R.applied
      BY <2>2, KeepsFields
    <3> QED BY <2>2, <3>1 DEF Updates
  <2>3. ASSUME NEW C, Advances(r, R, X, C), "applied" \notin C, R.pc # "apply"
        PROVE  Updates(X) = Updates(R)
    <3>1. X.pc # "apply"
      BY <2>3 DEF Advances
    <3>2. X.applied = R.applied
      BY <2>3, AdvanceFields
    <3> QED BY <2>3, <3>1, <3>2 DEF Updates
  <2>4. CASE \/ Skips(R, X) \/ Monitors(R, X) \/ Computes(r, R, X) \/ Reserves(R, X)
             \/ EndsTurns(R, X) \/ Fails(R, X) \/ EndsAnEpoch(R, X) \/ MonitorsError(R, X)
             \/ ForwardsMonitor(r, R, X) \/ Judges(r, R, X) \/ Saves(R, X)
    <3>1. PICK C : /\ Keeps(R, X, C)
                   /\ C \in {{"pc", "turn"}, {"sumIteration", "first", "pc"}, {"held", "grads", "pc"},
                             {"pending", "turn", "pc"}, {"sumIteration", "pc"}, {"pc"},
                             {"average", "sumEpoch", "numIteration", "batch", "pc"},
                             {"held", "batch", "count", "pc"}, {"judged", "best", "pc"}, {"saved", "pc"}}
      BY <2>4 DEF Skips, Monitors, Computes, Reserves, EndsTurns, Fails, EndsAnEpoch, MonitorsError,
                  ForwardsMonitor, Judges, Saves
    <3>2. "applied" \notin C
      BY <3>1
    <3>3. R.pc # "apply" /\ X.pc # "apply"
      <4>1. R.pc = "close" => R.then \in {"next", "done", "stopped"}
        BY <1>t DEF Trained
      <4> QED BY <2>4, <4>1 DEF Skips, Monitors, Computes, Reserves, EndsTurns, Fails, EndsAnEpoch, MonitorsError,
                                ForwardsMonitor, Judges, Saves
    <3> QED BY <2>2, <3>1, <3>2, <3>3
  <2>5. CASE Continues(r, R, X)
    BY <2>3, <2>5 DEF Continues
  <2>6. CASE Reports(r, R, X)
    <3>1. "applied" \notin Told /\ "applied" \notin Told \cup {"pc", "then"}
      BY DEF Told
    <3> QED BY <2>2, <2>3, <2>6, <3>1 DEF Reports
  <2>7. CASE ChecksTime(r, R, X)
    BY <2>2, <2>3, <2>7 DEF ChecksTime
  <2> QED BY <2>1, <2>4, <2>5, <2>6, <2>7 DEF Effect, Untrains
<1> QED
  BY <1>1, <1>2, <1>3, <1>4 DEF Begun

\* What a rank did before it began is among its updates.
LEMMA OldUpdates ==
    ASSUME conf \in Scenarios, PerEpoch # 0, NEW R, RankOK(R), FromOK(R)
    PROVE  /\ R.from \in Nat /\ R.from <= R.iter /\ R.iter \in Nat
           /\ Old(R) = {u \in Updates(R) : u.iter < R.from}
<1>1. R.iter \in Nat /\ PerEpoch \in Nat \ {0}
  BY Project, RankNumbers
<1>2. FirstOf(R.iter) \in Nat /\ FirstOf(R.iter) <= R.iter
  <2>1. FirstOf(R.iter) \in 0..R.iter
    BY <1>1, EpochBegins DEF FirstOf
  <2> QED BY <1>1, <2>1
<1>3. R.from \in Nat /\ R.from <= R.iter
  BY <1>1, <1>2 DEF FromOK
<1>4. ~(Update(R).iter < R.from)
  BY <1>1, <1>3 DEF Update
<1> QED
  BY <1>1, <1>3, <1>4 DEF Old, Updates

\* A rank makes each of its updates once.
LEMMA MatchingSelf ==
    ASSUME conf \in Scenarios, NEW R, RankOK(R)
    PROVE  Matching(R, R)
<1>1. Exact(R.applied, R.iter, NextTurnOf(R)) /\ R.iter \in Nat /\ R.turn \in Nat
  BY RankNumbers DEF RankOK
<1>2. R.pc = "apply" => \A u \in R.applied : ~(u.iter = R.iter /\ u.turn = R.turn)
  BY <1>1 DEF Exact, Past, NextTurnOf
<1>3. Update(R).iter = R.iter /\ Update(R).turn = R.turn
  BY DEF Update
<1>4. CASE R.pc = "apply"
  BY <1>1, <1>2, <1>3, <1>4 DEF Matching, Updates, Exact
<1>5. CASE R.pc # "apply"
  BY <1>1, <1>5 DEF Matching, Updates, Exact
<1> QED
  BY <1>4, <1>5

\* The current checkpoint is in the hands of rank 1.
LEMMA CheckpointStays ==
    ASSUME TrainInv, NEW r \in Ranks, Train(r)
    PROVE  /\ crashes' = crashes
           /\ \/ disk'.current = disk.current
              \/ rank[1].pc \in {"unlink", "open", "close"}
<1>1. crashes' = crashes
  BY TrainFrame
<1>2. "current" \in DOMAIN disk /\ DOMAIN disk = {"current", "best", "report", "newest"}
  BY DEF TrainInv, DiskOK
<1>3. CASE \/ Begin(r) \/ SaveUntrained(r) \/ SkipOptimizer(r) \/ MonitorLoss(r) \/ Step(r)
           \/ ApplyUpdate(r) \/ ReserveLoss(r) \/ EndUpdate(r)
  BY <1>3 DEF Begin, SaveUntrained, SkipOptimizer, MonitorLoss, Step, ApplyUpdate, ReserveLoss, EndUpdate, Local
<1>4. CASE \/ Fail(r) \/ Continue(r) \/ EndEpoch(r) \/ MonitorError(r) \/ ForwardMonitor(r) \/ Judge(r)
           \/ CheckTrainingTime(r)
  BY <1>4 DEF Fail, Continue, EndEpoch, MonitorError, ForwardMonitor, Judge, CheckTrainingTime, Local
<1>5. CASE Report(r) \/ OpenBest(r) \/ CloseBest(r)
  <2>1. disk'.current = disk.current
    BY <1>2, <1>5 DEF Report, OpenBest, CloseBest
  <2> QED BY <1>1, <2>1
<1>6. CASE Unlink(r) \/ OpenCurrent(r) \/ CloseCurrent(r)
  <2>1. rank[r].pc \in {"unlink", "open", "close"}
    BY <1>6 DEF Unlink, OpenCurrent, CloseCurrent, At
  <2>2. r = 1
    BY <2>1 DEF TrainInv, RankInv, Saving
  <2> QED BY <1>1, <2>1, <2>2
<1> QED
  BY <1>1, <1>3, <1>4, <1>5, <1>6 DEF Train

\* Who ends an epoch has met the others in it, so all have begun.
LEMMA AllHaveBegun ==
    ASSUME conf \in Scenarios, PerEpoch # 0, EpochsMeet, NEW R, NEW S, RankOK(R), FromOK(R), InStep(R, S),
           R.pc \in {"unlink", "open", "close"}
    PROVE  S.pc # "start"
<1> SUFFICES ASSUME S.pc = "start" PROVE FALSE
  OBVIOUS
<1> DEFINE i == R.iter
<1>0. /\ Turns = 1..Number /\ Number \in Nat /\ PerEpoch \in Nat \ {0} /\ conf.maxEpoch \in Nat
      /\ MaxIteration = conf.maxEpoch * PerEpoch /\ MaxIteration \in Nat
      /\ i \in Nat /\ R.from \in Nat /\ R.from <= i
  BY Project, OldUpdates
<1>1. R.turn = Number + 1 /\ EndsEpoch(i) /\ i < MaxIteration
  BY DEF RankOK, Trained, EndingEpoch, Saving, Ended
<1>2. \A what, k : Meeting(what, i, k) => ~Passed(R, what, i, k)
  <2>1. Begun(R)
    BY DEF Begun
  <2> QED BY <1>0, <2>1 DEF InStep
<1>3. i \in 0..(MaxIteration - 1)
  BY <1>0, <1>1
<1>4. CASE Evaluated(Epoch(i))
  <2>1. conf.monitor.batches \in Nat
    BY BatchNumbers
  <2>2. Meeting("error", i, conf.monitor.batches)
    BY <1>1, <1>3, <1>4, <2>1 DEF Meeting
  <2>3. Passed(R, "error", i, conf.monitor.batches)
    BY DEF Passed, Saving
  <2> QED BY <1>2, <2>2, <2>3
<1>5. CASE ~Evaluated(Epoch(i))
  <2> DEFINE e == i \div PerEpoch + 1
  <2>1. Epoch(i) = e /\ e \in 1..conf.maxEpoch
    BY <1>0, <1>1, EpochInRange DEF Epoch
  <2>2. PICK j \in ((e - 1) * PerEpoch)..(e * PerEpoch - 1), k \in Turns : Active(Opt(k), j)
    BY <1>5, <2>1 DEF EpochsMeet
  <2>3. e * PerEpoch = i + 1
    BY <1>0, <1>1, LastOfEpoch DEF EndsEpoch
  <2>4. (e - 1) * PerEpoch = FirstOf(i)
    <3>1. i \div PerEpoch \in Nat
      BY <1>0, EpochBegins
    <3>2. e - 1 = i \div PerEpoch
      BY <3>1
    <3> QED BY <3>2 DEF FirstOf
  <2> HIDE DEF e
  <2>5. FirstOf(i) \in Nat
    <3>1. FirstOf(i) \in 0..i
      BY <1>0, EpochBegins DEF FirstOf
    <3> QED BY <1>0, <3>1
  <2>6. j \in FirstOf(i)..i
    BY <1>0, <2>2, <2>3, <2>4, <2>5
  <2>7. Past(j, k, i, Number + 1)
    BY <1>0, <2>2, <2>5, <2>6 DEF Past
  <2>8. <<j, k>> \in Ran(i, Number + 1)
    BY <2>2, <2>6, <2>7 DEF Ran
  <2>9. Meeting("cost", i, Number + 1)
    BY <1>1, <1>3, <2>8 DEF Meeting
  <2>10. Passed(R, "cost", i, Number + 1)
    BY <1>1 DEF Passed
  <2> QED BY <1>2, <2>9, <2>10
<1> QED
  BY <1>4, <1>5

\* A rank that begins has met the others in all iterations before, and has their updates.
LEMMA BeganAt ==
    ASSUME conf \in Scenarios, PerEpoch # 0, NEW X, RankOK(X), X.iter = X.from, X.turn = 1,
           X.pc \in {"turn", "done"}, X.pc = "done" => MaxIteration <= X.from
    PROVE  /\ \A what, i, k : Meeting(what, i, k) => (Passed(X, what, i, k) <=> i < X.from)
           /\ Updates(X) = X.applied /\ Old(X) = X.applied
<1>0. Turns = 1..Number /\ Number \in Nat /\ X.iter \in Nat /\ MaxIteration \in Nat
  BY Project, RankNumbers
<1>1. ASSUME NEW what, NEW i, NEW k, Meeting(what, i, k) PROVE Passed(X, what, i, k) <=> i < X.from
  <2>1. i \in Nat /\ i < MaxIteration
    BY <1>0, <1>1 DEF Meeting
  <2>2. CASE X.pc = "done"
    <3>1. i < X.iter
      BY <1>0, <2>1, <2>2
    <3> QED BY <3>1 DEF Passed
  <2>3. CASE X.pc = "turn"
    <3>1. what \in {"cost", "grads"} => ~(k < 1)
      BY <1>0, <1>1 DEF Meeting, IsDue
    <3> QED BY <2>3, <3>1 DEF Passed, Saving
  <2> QED BY <2>2, <2>3
<1>2. NextTurnOf(X) = 1 /\ Exact(X.applied, X.from, 1)
  BY DEF RankOK, NextTurnOf
<1>3. \A u \in X.applied : u.iter < X.from
  <2> SUFFICES ASSUME NEW u \in X.applied PROVE u.iter < X.from
    OBVIOUS
  <2>1. u.turn \in 1..Number /\ Past(u.iter, u.turn, X.from, 1)
    BY <1>0, <1>2 DEF Exact, IsDue
  <2> QED BY <1>0, <2>1 DEF Past
<1> QED
  BY <1>1, <1>3 DEF Updates, Old

\* What a rank begins with.
LEMMA BeginLoads ==
    ASSUME TrainInv, TrainInv', NEW r \in Ranks, Begin(r), FromOK(rank[r]), PerEpoch # 0
    PROVE  LET X == rank'[r]
           IN  /\ RankOK(X) /\ FromOK(X) /\ X.pc # "start" /\ Loaded(X)
               /\ Begun(X) => /\ \A what, i, k : Meeting(what, i, k) => (Passed(X, what, i, k) <=> i < X.from)
                              /\ Updates(X) = Old(X)
               /\ ~Begun(X) => X.pc = "broken" /\ Updates(X) = {}
<1> DEFINE R == rank[r]
           X == rank'[r]
           c == Latest(disk.current)
<1>0. conf \in Scenarios /\ RankOK(R) /\ DOMAIN rank = Ranks /\ conf' = conf
  BY DEF TrainInv, RankInv, CacheInv, PrepOK, Begin, Local
<1>1. R.pc = "start" /\ DOMAIN R = Fields /\ R.applied = {} /\ R.iter = 0 /\ R.from = 0
  BY <1>0 DEF Begin, At, RankOK, Typed, FromOK
<1>2. Begins(R, X)
  BY <1>0, StartEffect DEF Untrains, Begin, At, TrainInv, RankInv, Gate
<1>3. RankOK(X)
  <2>1. Ranks' = Ranks
    BY <1>0, SameProject
  <2>2. RankOK(rank[r])'
    BY <2>1 DEF TrainInv, RankInv
  <2>3. RankOK(rank[r])' <=> RankOK(X)
    BY <1>0, SameRankOK
  <2> QED BY <2>2, <2>3
<1>4. /\ X.iter = X.from /\ X.turn = 1 /\ X.pc \in {"turn", "broken", "done"} /\ (X.pc = "done" => MaxIteration <= X.from)
  BY <1>0, <1>2, BeginFields
<1>5. FromOK(X)
  BY <1>0, <1>2, FromLocal DEF Effect
<1>6. X = IF ~Finds THEN [R EXCEPT !.pc = "turn"]
          ELSE IF ~c.whole THEN [R EXCEPT !.pc = "broken"]
          ELSE [R EXCEPT !.pc = IF Resumed(c) < MaxIteration THEN "turn" ELSE "done",
                         !.iter = Resumed(c), !.from = Resumed(c),
                         !.applied = c.applied, !.states = c.states]
  BY <1>0 DEF Begin, Finds
<1> HIDE DEF R, X, c
<1>7. /\ ~Finds => X.from = 0 /\ X.pc = "turn"
      /\ Finds /\ ~c.whole => X.pc = "broken" /\ X.applied = {}
      /\ Finds /\ c.whole => X.from = Resumed(c) /\ X.applied = c.applied /\ X.pc \in {"turn", "done"}
  BY <1>1, <1>6 DEF Fields
<1>8. Begun(X) => /\ \A what, i, k : Meeting(what, i, k) => (Passed(X, what, i, k) <=> i < X.from)
                  /\ Updates(X) = X.applied /\ Old(X) = X.applied
  <2>1. Begun(X) => X.pc \in {"turn", "done"}
    BY <1>4 DEF Begun
  <2> QED BY <1>0, <1>3, <1>4, <2>1, BeganAt
<1>9. Loaded(X)
  BY <1>7, <1>8 DEF Loaded, Begun, c
<1>10. ~Begun(X) => X.pc = "broken" /\ Updates(X) = {}
  <2>1. ~Begun(X) => X.pc = "broken"
    BY <1>4 DEF Begun
  <2>2. X.pc = "broken" => X.applied = {}
    BY <1>7
  <2> QED BY <2>1, <2>2 DEF Updates
<1>11. X.pc # "start"
  BY <1>4
<1> QED
  BY <1>3, <1>5, <1>8, <1>9, <1>10, <1>11 DEF X

\* It is in step with a rank that began before.
LEMMA LoadedTogether ==
    ASSUME conf \in Scenarios, PerEpoch # 0, NEW R, NEW X, NEW S, R.pc = "start", InStep(S, R),
           RankOK(X), FromOK(X), RankOK(S), FromOK(S), Loaded(X), Loaded(S), X.pc # "start",
           Begun(X) => /\ \A what, i, k : Meeting(what, i, k) => (Passed(X, what, i, k) <=> i < X.from)
                       /\ Updates(X) = Old(X),
           ~Begun(X) => Updates(X) = {}
    PROVE  InStep(X, S) /\ InStep(S, X) /\ Matching(X, S) /\ Matching(S, X)
<1>1. S.pc = "start" => Updates(S) = {}
  BY DEF RankOK, Updates
<1>2. ~(S.pc = "broken" /\ Begun(X)) /\ ~(X.pc = "broken" /\ Begun(S))
  BY DEF Loaded
<1>3. Begun(X) /\ Begun(S) => X.from = S.from /\ (Finds => Old(X) = Old(S))
  BY DEF Loaded
<1>4. ASSUME Begun(X), Begun(S), NEW what, NEW i, NEW k, Meeting(what, i, k)
      PROVE  Passed(X, what, i, k) <=> Passed(S, what, i, k)
  <2>1. i \in Int /\ S.from \in Nat /\ S.iter \in Nat /\ S.from <= S.iter
    BY <1>4, OldUpdates DEF Meeting
  <2>2. Passed(S, what, i, k) => i < S.from
    BY <1>4 DEF InStep
  <2>3. i < S.from => Passed(S, what, i, k)
    <3>1. i < S.from => i < S.iter
      BY <2>1
    <3> QED BY <3>1 DEF Passed
  <2>4. Passed(X, what, i, k) <=> i < S.from
    BY <1>3, <1>4
  <2> QED BY <2>2, <2>3, <2>4
<1>5. InStep(X, S)
  BY <1>2, <1>3, <1>4 DEF InStep
<1>6. InStep(S, X)
  BY <1>2, <1>3, <1>4 DEF InStep
<1>7. ASSUME NEW u \in Updates(X), NEW v \in Updates(S), u.iter = v.iter, u.turn = v.turn PROVE u = v
  <2>1. Begun(X) /\ Begun(S)
    BY <1>1, <1>2, <1>7 DEF Begun
  <2>2. /\ Old(S) = {w \in Updates(S) : w.iter < S.from}
        /\ u \in Old(X) /\ X.from = S.from
    BY <1>3, <1>7, <2>1, OldUpdates
  <2>3. u \in X.applied /\ u.iter < X.from
    BY <2>2 DEF Old
  <2>4. Exact(X.applied, X.iter, NextTurnOf(X))
    BY DEF RankOK
  <2>5. v \in Old(S)
    BY <1>7, <2>2, <2>3
  <2>6. CASE Finds
    <3>1. v \in X.applied
      BY <1>3, <2>1, <2>5, <2>6 DEF Old
    <3> QED BY <1>7, <2>3, <2>4, <3>1 DEF Exact
  <2>7. CASE ~Finds
    <3>1. X.from = 0
      BY <2>1, <2>7 DEF Loaded
    <3>2. u.iter \in 0..(MaxIteration - 1) /\ MaxIteration \in Nat
      BY <2>3, <2>4, Project DEF Exact, IsDue
    <3> QED BY <2>3, <3>1, <3>2
  <2> QED BY <2>6, <2>7
<1>8. Matching(X, S) /\ Matching(S, X)
  BY <1>7 DEF Matching
<1> QED
  BY <1>5, <1>6, <1>8

\* The same checkpoint, the same beginning.
LEMMA SameLoaded ==
    ASSUME conf' = conf, crashes' = crashes, disk'.current = disk.current
    PROVE  \A R : Loaded(R)' <=> Loaded(R)
<1>1. (Finds' <=> Finds) /\ (\A c : Resumed(c)' = Resumed(c))
  BY SameMeeting DEF Finds
<1>2. \A R : Old(R)' = Old(R)
  BY DEF Old
<1> QED
  BY <1>1, <1>2 DEF Loaded, Begun

\* A rank that goes on stays in step with the others.
LEMMA StepsKeep ==
    ASSUME NEW R, NEW X, NEW S, Begun(R), Begun(X), X.from = R.from, Updates(X) = Updates(R),
           \A what, i, k : Meeting(what, i, k) => (Passed(X, what, i, k) <=> Passed(R, what, i, k))
    PROVE  /\ InStep(R, S) => InStep(X, S)
           /\ InStep(S, R) => InStep(S, X)
           /\ Matching(R, S) => Matching(X, S)
           /\ Matching(S, R) => Matching(S, X)
<1>1. X.pc # "start" /\ X.pc # "broken"
  BY DEF Begun
<1>2. InStep(R, S) => InStep(X, S)
  BY DEF InStep
<1>3. InStep(S, R) => InStep(S, X)
  BY <1>1 DEF InStep, Begun
<1> QED
  BY <1>2, <1>3 DEF Matching

\* A rank in step with itself.
LEMMA StepSelf ==
    ASSUME NEW X, X.pc # "start"
    PROVE  InStep(X, X)
BY DEF InStep, Begun

\* One rank alone keeps the ranks in step.
LEMMA MeetLocal ==
    ASSUME TrainInv, TrainInv', CostInv, ErrorInv, WholeInv, MeetInv, PerEpoch # 0, NEW r \in Ranks, Train(r)
    PROVE  \A s, t \in Ranks : /\ InStep(rank'[s], rank'[t]) /\ Matching(rank'[s], rank'[t])
                               /\ rank'[t].pc = "start" => Loaded(rank[s])'
<1> DEFINE R == rank[r]
           X == rank'[r]
<1>0. /\ conf \in Scenarios /\ conf' = conf /\ crashes' = crashes /\ 1 \in Ranks
      /\ Effect(r, R, X) /\ \A s \in Ranks \ {r} : rank'[s] = rank[s]
  BY TrainEffect, CheckpointStays, Project DEF TrainInv, CacheInv, PrepOK
<1>1. \A s \in Ranks : RankOK(rank[s]) /\ FromOK(rank[s]) /\ CostOK(s, rank[s]) /\ ErrorOK(s, rank[s])
  BY DEF TrainInv, RankInv, CostInv, ErrorInv, WholeInv
<1>2. \A s, t \in Ranks : /\ InStep(rank[s], rank[t]) /\ Matching(rank[s], rank[t])
                          /\ rank[t].pc = "start" => Loaded(rank[s])
  BY DEF MeetInv
<1>3. RankOK(X)
  <2>1. Ranks' = Ranks
    BY <1>0, SameProject
  <2>2. RankOK(rank[r])'
    BY <2>1 DEF TrainInv, RankInv
  <2>3. RankOK(rank[r])' <=> RankOK(X)
    BY <1>0, SameRankOK
  <2> QED BY <2>2, <2>3
<1>4. /\ X.pc # "start"
      /\ \A s \in Ranks \ {r} : /\ InStep(X, rank[s]) /\ InStep(rank[s], X)
                                /\ Matching(X, rank[s]) /\ Matching(rank[s], X)
      /\ (\E t \in Ranks : rank'[t].pc = "start") =>
            disk'.current = disk.current /\ \A s \in Ranks : Loaded(rank'[s])
  <2>1. CASE Begins(R, X)
    <3>1. Begin(r)
      <4>1. R.pc = "start"
        BY <2>1 DEF Begins
      <4>2. Begin(r) \/ SaveUntrained(r)
        BY <4>1 DEF Train, SkipOptimizer, MonitorLoss, Step, ApplyUpdate, ReserveLoss, EndUpdate, Fail, Continue,
                    EndEpoch, MonitorError, ForwardMonitor, Judge, OpenBest, CloseBest, Report, Unlink,
                    OpenCurrent, CloseCurrent, CheckTrainingTime, At
      <4> QED BY <4>2 DEF SaveUntrained
    <3>2. disk' = disk /\ R.pc = "start"
      BY <3>1 DEF Begin, Local, At
    <3>3. /\ RankOK(X) /\ FromOK(X) /\ X.pc # "start" /\ Loaded(X)
          /\ Begun(X) => /\ \A what, i, k : Meeting(what, i, k) => (Passed(X, what, i, k) <=> i < X.from)
                         /\ Updates(X) = Old(X)
          /\ ~Begun(X) => X.pc = "broken" /\ Updates(X) = {}
      BY <1>1, <3>1, BeginLoads
    <3>4. \A s \in Ranks : Loaded(rank[s]) /\ InStep(rank[s], R)
      BY <1>2, <3>2
    <3> HIDE DEF X, R
    <3>5. \A s \in Ranks : InStep(X, rank[s]) /\ InStep(rank[s], X) /\ Matching(X, rank[s]) /\ Matching(rank[s], X)
      <4> SUFFICES ASSUME NEW s \in Ranks
                   PROVE  InStep(X, rank[s]) /\ InStep(rank[s], X) /\ Matching(X, rank[s]) /\ Matching(rank[s], X)
        OBVIOUS
      <4>1. RankOK(rank[s]) /\ FromOK(rank[s]) /\ Loaded(rank[s]) /\ InStep(rank[s], R)
        BY <1>1, <3>4
      <4> QED BY <1>0, <3>2, <3>3, <4>1, LoadedTogether
    <3>6. \A s \in Ranks : Loaded(rank'[s])
      BY <1>0, <3>3, <3>4 DEF X
    <3> QED BY <3>2, <3>3, <3>5, <3>6
  <2>2. CASE ~Begins(R, X)
    <3>1. /\ Begun(R) /\ Begun(X) /\ X.from = R.from
          /\ \A what, i, k : Meeting(what, i, k) => (Passed(X, what, i, k) <=> Passed(R, what, i, k))
          /\ Updates(X) = Updates(R)
      BY <1>0, <1>1, <2>2, PassedLocal
    <3>2. Old(X) = Old(R)
      <4>1. FromOK(X)
        BY <1>0, <1>1, FromLocal
      <4>2. Old(R) = {u \in Updates(R) : u.iter < R.from} /\ Old(X) = {u \in Updates(X) : u.iter < X.from}
        BY <1>0, <1>1, <1>3, <4>1, OldUpdates
      <4> QED BY <3>1, <4>2
    <3>3. Loaded(R) => Loaded(X)
      BY <3>1, <3>2 DEF Loaded, Begun
    <3>4. X.pc # "start"
      BY <3>1 DEF Begun
    <3>5. ASSUME NEW t \in Ranks, rank'[t].pc = "start"
          PROVE  disk'.current = disk.current /\ \A s \in Ranks : Loaded(rank'[s])
      <4>1. rank[t].pc = "start"
        BY <1>0, <3>4, <3>5
      <4>2. rank[1].pc \notin {"unlink", "open", "close"}
        <5>1. RankOK(rank[1]) /\ FromOK(rank[1]) /\ InStep(rank[1], rank[t])
          BY <1>0, <1>1, <1>2
        <5> QED BY <1>0, <4>1, <5>1, AllHaveBegun DEF MeetInv
      <4>3. \A s \in Ranks : Loaded(rank[s])
        BY <1>2, <4>1
      <4>4. \A s \in Ranks : Loaded(rank'[s])
        BY <1>0, <3>3, <4>3
      <4> QED BY <4>2, <4>4, CheckpointStays
    <3> HIDE DEF X, R
    <3>6. \A s \in Ranks : InStep(X, rank[s]) /\ InStep(rank[s], X) /\ Matching(X, rank[s]) /\ Matching(rank[s], X)
      BY <1>2, <3>1, StepsKeep DEF R
    <3> QED BY <3>4, <3>5, <3>6
  <2> QED BY <2>1, <2>2
<1>5. InStep(X, X) /\ Matching(X, X)
  BY <1>0, <1>3, <1>4, StepSelf, MatchingSelf
<1>6. ASSUME NEW s \in Ranks, NEW t \in Ranks PROVE InStep(rank'[s], rank'[t]) /\ Matching(rank'[s], rank'[t])
  <2>1. CASE s = r /\ t = r
    BY <1>5, <2>1
  <2>2. CASE s = r /\ t # r
    BY <1>0, <1>4, <2>2
  <2>3. CASE s # r /\ t = r
    BY <1>0, <1>4, <2>3
  <2>4. CASE s # r /\ t # r
    BY <1>0, <1>2, <2>4
  <2> QED BY <2>1, <2>2, <2>3, <2>4
<1>7. ASSUME NEW s \in Ranks, NEW t \in Ranks, rank'[t].pc = "start" PROVE Loaded(rank[s])'
  <2>1. disk'.current = disk.current /\ Loaded(rank'[s])
    BY <1>4, <1>7
  <2> QED BY <1>0, <2>1, SameLoaded
<1> QED
  BY <1>6, <1>7

\* A rank R has met the others there and becomes X.
Meets(R, X, what0, i0, k0) ==
    /\ Begun(R) /\ Begun(X) /\ X.from = R.from
    /\ \A what, i, k : Meeting(what, i, k) =>
            (Passed(X, what, i, k) <=> Passed(R, what, i, k) \/ (what = what0 /\ i = i0 /\ k = k0))

\* When all ranks meet, all have met.
LEMMA StepsTogether ==
    ASSUME NEW what0, NEW i0, NEW k0,
           \A r, s \in Ranks : InStep(rank[r], rank[s]),
           \A r \in Ranks : Meets(rank[r], rank'[r], what0, i0, k0)
    PROVE  \A r, s \in Ranks : InStep(rank'[r], rank'[s])
<1> SUFFICES ASSUME NEW r \in Ranks, NEW s \in Ranks PROVE InStep(rank'[r], rank'[s])
  OBVIOUS
<1>0. Meets(rank[r], rank'[r], what0, i0, k0) /\ Meets(rank[s], rank'[s], what0, i0, k0) /\ InStep(rank[r], rank[s])
  OBVIOUS
<1>1. rank'[s].pc # "start" /\ rank'[s].pc # "broken"
  BY <1>0 DEF Meets, Begun
<1>2. rank'[r].from = rank'[s].from
  BY <1>0 DEF Meets, InStep
<1>3. ASSUME NEW what, NEW i, NEW k, Meeting(what, i, k)
      PROVE  Passed(rank'[r], what, i, k) <=> Passed(rank'[s], what, i, k)
  <2>1. Passed(rank[r], what, i, k) <=> Passed(rank[s], what, i, k)
    BY <1>0, <1>3 DEF Meets, InStep
  <2> QED BY <1>0, <1>3, <2>1 DEF Meets
<1> QED
  BY <1>1, <1>2, <1>3 DEF InStep

\* What a rank has met when the cost is added up, ...
LEMMA MeetsCost ==
    ASSUME NEW R, NEW X, R.pc = "sum cost", SumsCost(R, X)
    PROVE  Meets(R, X, "cost", R.iter, R.turn) /\ Updates(X) = Updates(R)
<1>1. /\ Keeps(R, X, {"sumEpoch", "numIteration", "sumIteration", "pending", "pc"})
      /\ X.pc \in {"updated", "step"}
  BY DEF SumsCost
<1>2. X.from = R.from /\ X.iter = R.iter /\ X.turn = R.turn /\ X.applied = R.applied
  <2> DEFINE C == {"sumEpoch", "numIteration", "sumIteration", "pending", "pc"}
  <2>1. Keeps(R, X, C)
    BY <1>1
  <2>2. "from" \notin C /\ "iter" \notin C /\ "turn" \notin C /\ "applied" \notin C /\ "batch" \notin C
    OBVIOUS
  <2> HIDE DEF C
  <2> QED BY <2>1, <2>2, KeepsFields
<1>3. Updates(X) = Updates(R)
  BY <1>1, <1>2 DEF Updates
<1>4. \A what, i, k : Meeting(what, i, k) =>
            (Passed(X, what, i, k) <=> Passed(R, what, i, k) \/ (what = "cost" /\ i = R.iter /\ k = R.turn))
  BY <1>1, <1>2 DEF Passed, Saving
<1> QED
  BY <1>1, <1>2, <1>3, <1>4 DEF Meets, Begun

\* ... the gradients ...
LEMMA MeetsGrads ==
    ASSUME NEW R, NEW X, R.pc = "reduce", Reduces(R, X)
    PROVE  /\ Meets(R, X, "grads", R.iter, R.turn)
           /\ Updates(R) = R.applied /\ Updates(X) = R.applied \cup {Update(X)}
           /\ X.iter = R.iter /\ X.turn = R.turn
<1>1. Keeps(R, X, {"grads", "pc"}) /\ X.pc = "apply"
  BY DEF Reduces
<1>2. X.from = R.from /\ X.iter = R.iter /\ X.turn = R.turn /\ X.applied = R.applied
  BY <1>1, KeepsFields
<1>3. \A what, i, k : Meeting(what, i, k) =>
            (Passed(X, what, i, k) <=> Passed(R, what, i, k) \/ (what = "grads" /\ i = R.iter /\ k = R.turn))
  BY <1>1, <1>2 DEF Passed, Saving
<1> QED
  BY <1>1, <1>2, <1>3 DEF Meets, Begun, Updates

\* How numbers are ordered, for the proofs that compare the batches of two ranks.
LEMMA OrderOfNumbers ==
    /\ \A a, b \in Int : /\ a <= b <=> a < b \/ a = b
                         /\ ~(a < b /\ b < a) /\ ~(a < a)
                         /\ a < b \/ a = b \/ b < a
    /\ \A n \in Nat : \A a \in 0..n : a \in Int /\ a <= n
OBVIOUS

\* ... or the error.
LEMMA MeetsError ==
    ASSUME conf \in Scenarios, NEW R, NEW X, R.pc = "sum error", SumsErrors(R, X), R.batch \in 0..conf.monitor.batches
    PROVE  Meets(R, X, "error", R.iter, R.batch) /\ Updates(X) = Updates(R)
<1>0. conf.monitor.batches \in Nat
  BY BatchNumbers
<1>1. Keeps(R, X, {"errors", "pc"}) /\ X.pc = IF R.batch = conf.monitor.batches THEN "judge" ELSE "forward"
  BY DEF SumsErrors
<1>2. X.from = R.from /\ X.iter = R.iter /\ X.turn = R.turn /\ X.applied = R.applied /\ X.batch = R.batch
  <2> DEFINE C == {"errors", "pc"}
  <2>1. Keeps(R, X, C)
    BY <1>1
  <2>2. "from" \notin C /\ "iter" \notin C /\ "turn" \notin C /\ "applied" \notin C /\ "batch" \notin C
    OBVIOUS
  <2> HIDE DEF C
  <2> QED BY <2>1, <2>2, KeepsFields
<1>3. Updates(X) = Updates(R)
  BY <1>1, <1>2 DEF Updates
<1>4. ASSUME NEW what, NEW i, NEW k, Meeting(what, i, k)
      PROVE  Passed(X, what, i, k) <=> Passed(R, what, i, k) \/ (what = "error" /\ i = R.iter /\ k = R.batch)
  <2>1. CASE what # "error"
    BY <1>1, <1>2, <2>1 DEF Passed, Saving
  <2>2. CASE what = "error"
    <3>1. k \in 0..conf.monitor.batches
      BY <1>4, <2>2 DEF Meeting
    <3>0. /\ \A a, b \in Int : a <= b <=> a < b \/ a = b
          /\ \A n \in Nat : \A a \in 0..n : a \in Int /\ a <= n
      BY OrderOfNumbers
    <3>2. k <= R.batch <=> k < R.batch \/ k = R.batch
      BY <1>0, <3>0, <3>1
    <3>3. R.batch = conf.monitor.batches => k <= R.batch
      BY <1>0, <3>0, <3>1
    <3>4. Passed(R, what, i, k) <=> i < R.iter \/ (i = R.iter /\ k < R.batch)
      BY <2>2 DEF Passed, Saving
    <3>5. Passed(X, what, i, k) <=> i < R.iter \/ (i = R.iter /\ k <= R.batch)
      BY <1>1, <1>2, <2>2, <3>3 DEF Passed, Saving
    <3> QED BY <2>2, <3>2, <3>4, <3>5
  <2> QED BY <2>1, <2>2
<1> QED
  BY <1>1, <1>2, <1>3, <1>4 DEF Meets, Begun

\* All ranks together make the same update.
LEMMA SameUpdate ==
    ASSUME TrainInv, ReduceGradients, NEW r \in Ranks, NEW s \in Ranks, rank[r].from = rank[s].from,
           Matching(rank[r], rank[s])
    PROVE  Matching(rank'[r], rank'[s])
<1> DEFINE R == rank[r]
           S == rank[s]
           X == rank'[r]
           Y == rank'[s]
<1>0. conf \in Scenarios /\ RankOK(R) /\ RankOK(S)
  BY DEF TrainInv, RankInv, CacheInv, PrepOK
<1>1. PICK q \in Ranks : \A p \in Ranks :
            /\ rank[p].pc = "reduce" /\ rank[p].iter = rank[q].iter /\ rank[p].turn = rank[q].turn
            /\ Reduces(rank[p], rank'[p])
  BY ReduceEffect
<1>2. R.pc = "reduce" /\ S.pc = "reduce" /\ R.iter = S.iter /\ R.turn = S.turn /\ Reduces(R, X) /\ Reduces(S, Y)
  BY <1>1
<1>3. /\ Updates(R) = R.applied /\ Updates(X) = R.applied \cup {Update(X)}
      /\ Updates(S) = S.applied /\ Updates(Y) = S.applied \cup {Update(Y)}
      /\ X.iter = R.iter /\ X.turn = R.turn /\ X.from = R.from
      /\ Y.iter = S.iter /\ Y.turn = S.turn /\ Y.from = S.from
  BY <1>2, MeetsGrads DEF Meets
<1>4. Update(X) = Update(Y)
  <2>1. R.turn \in Turns
    <3>1. PerEpoch # 0
      BY <1>0, <1>2 DEF RankOK, Untrained
    <3> QED BY <1>0, <1>2, <3>1 DEF RankOK, Trained, InTurn
  <2>2. \A p \in Opt(R.turn).params : p \in Parameters
    BY <2>1 DEF Parameters
  <2>3. \A p \in Opt(R.turn).params : X.grads[p] = Y.grads[p]
    BY <1>2, <2>2 DEF Reduces
  <2>4. [p \in Opt(R.turn).params |-> X.grads[p]] = [p \in Opt(R.turn).params |-> Y.grads[p]]
    BY <2>3
  <2> QED BY <1>2, <1>3, <2>4 DEF Update
<1>5. Update(X).iter = R.iter /\ Update(X).turn = R.turn
  BY <1>3 DEF Update
<1>6. ASSUME NEW T \in {R, S}, NEW u \in T.applied PROVE ~(u.iter = R.iter /\ u.turn = R.turn)
  <2>1. RankOK(T) /\ T.pc = "reduce" /\ T.iter = R.iter /\ T.turn = R.turn
    BY <1>0, <1>2
  <2>2. Exact(T.applied, T.iter, T.turn) /\ T.iter \in Nat /\ T.turn \in Nat
    BY <1>0, <2>1, RankNumbers DEF RankOK, NextTurnOf
  <2> QED BY <2>1, <2>2 DEF Exact, Past
<1>7. Matching(X, Y)
  BY <1>3, <1>4, <1>5, <1>6 DEF Matching
<1> QED
  BY <1>7

\* All ranks together stay in step.
LEMMA MeetTogether ==
    ASSUME TrainInv, ErrorInv, MeetInv, PerEpoch # 0, Together
    PROVE  \A s, t \in Ranks : /\ InStep(rank'[s], rank'[t]) /\ Matching(rank'[s], rank'[t])
                               /\ rank'[t].pc # "start"
<1>0. conf \in Scenarios /\ \A s, t \in Ranks : InStep(rank[s], rank[t]) /\ Matching(rank[s], rank[t])
  BY DEF TrainInv, CacheInv, PrepOK, MeetInv
<1>1. CASE SumCost
  <2>1. PICK q \in Ranks : \A r \in Ranks :
            /\ rank[r].pc = "sum cost" /\ rank[r].iter = rank[q].iter /\ rank[r].turn = rank[q].turn
            /\ SumsCost(rank[r], rank'[r])
    BY <1>1, SumCostEffect
  <2>2. ASSUME NEW r \in Ranks
        PROVE  Meets(rank[r], rank'[r], "cost", rank[q].iter, rank[q].turn) /\ Updates(rank'[r]) = Updates(rank[r])
    <3>1. Meets(rank[r], rank'[r], "cost", rank[r].iter, rank[r].turn) /\ Updates(rank'[r]) = Updates(rank[r])
      BY <2>1, MeetsCost
    <3> QED BY <2>1, <3>1
  <2>3. \A s, t \in Ranks : InStep(rank'[s], rank'[t])
    BY <1>0, <2>2, StepsTogether
  <2> QED BY <1>0, <2>2, <2>3 DEF Matching, Meets, Begun
<1>2. CASE ReduceGradients
  <2>1. PICK q \in Ranks : \A r \in Ranks :
            /\ rank[r].pc = "reduce" /\ rank[r].iter = rank[q].iter /\ rank[r].turn = rank[q].turn
            /\ Reduces(rank[r], rank'[r])
    BY <1>2, ReduceEffect
  <2>2. ASSUME NEW r \in Ranks PROVE Meets(rank[r], rank'[r], "grads", rank[q].iter, rank[q].turn)
    <3>1. Meets(rank[r], rank'[r], "grads", rank[r].iter, rank[r].turn)
      BY <2>1, MeetsGrads
    <3> QED BY <2>1, <3>1
  <2>3. \A s, t \in Ranks : InStep(rank'[s], rank'[t])
    BY <1>0, <2>2, StepsTogether
  <2>4. \A s, t \in Ranks : rank[s].from = rank[t].from
    BY <1>0, <2>2 DEF Meets, InStep
  <2>5. \A s, t \in Ranks : Matching(rank'[s], rank'[t])
    BY <1>0, <1>2, <2>4, SameUpdate
  <2> QED BY <2>2, <2>3, <2>5 DEF Meets, Begun
<1>3. CASE SumError
  <2>1. PICK q \in Ranks : \A r \in Ranks :
            /\ rank[r].pc = "sum error" /\ rank[r].iter = rank[q].iter /\ rank[r].batch = rank[q].batch
            /\ SumsErrors(rank[r], rank'[r])
    BY <1>3, SumErrorEffect
  <2>2. \A r \in Ranks : rank[r].batch \in 0..conf.monitor.batches
    BY <2>1 DEF ErrorInv, ErrorOK
  <2>3. ASSUME NEW r \in Ranks
        PROVE  Meets(rank[r], rank'[r], "error", rank[q].iter, rank[q].batch) /\ Updates(rank'[r]) = Updates(rank[r])
    <3>1. Meets(rank[r], rank'[r], "error", rank[r].iter, rank[r].batch) /\ Updates(rank'[r]) = Updates(rank[r])
      BY <1>0, <2>1, <2>2, MeetsError
    <3> QED BY <2>1, <3>1
  <2>4. \A s, t \in Ranks : InStep(rank'[s], rank'[t])
    BY <1>0, <2>3, StepsTogether
  <2> QED BY <1>0, <2>3, <2>4 DEF Matching, Meets, Begun
<1> QED
  BY <1>1, <1>2, <1>3 DEF Together

\* A new process is in step with others, and with what is on disk.
LEMMA FreshMeet ==
    /\ InStep(Fresh, Fresh) /\ Matching(Fresh, Fresh) /\ Loaded(Fresh)
    /\ Fresh.sumEpoch = <<>> /\ Fresh.pc = "start"
<1>1. Fresh.pc = "start" /\ Fresh.applied = {} /\ Fresh.sumEpoch = <<>>
  BY DEF Fresh
<1>2. Updates(Fresh) = {} /\ ~Begun(Fresh)
  BY <1>1 DEF Updates, Begun
<1> QED
  BY <1>1, <1>2 DEF InStep, Matching, Loaded

\* Without iterations there is no cost.
LEMMA NothingAdded ==
    ASSUME PerEpoch = 0, NEW r, NEW R, NEW X, RankOK(R), Effect(r, R, X)
    PROVE  X.sumEpoch = R.sumEpoch
<1>1. R.pc \in {"start", "best", "close best", "done"} /\ (R.pc # "start" => R.then = "done")
  BY DEF RankOK, Untrained
<1>2. Saves(R, X) \/ Untrains(R, X)
  BY <1>1 DEF Effect, Skips, Monitors, Computes, Applies, Reserves, EndsTurns, Fails, EndsAnEpoch,
              MonitorsError, ForwardsMonitor, Judges, Continues, Reports, ChecksTime
<1>3. PICK C : Keeps(R, X, C) /\ C \in {{"pc"}, {"pc", "then"}}
  BY <1>1, <1>2 DEF Saves, Untrains
<1>4. "sumEpoch" \notin C
  BY <1>3
<1> QED
  BY <1>3, <1>4, KeepsFields

\* Every step keeps the ranks in step.
LEMMA MeetNext ==
    ASSUME TrainInv, TrainInv', CostInv, ErrorInv, WholeInv, MeetInv, [Next]_vars
    PROVE  MeetInv'
<1>0. conf \in Scenarios /\ DOMAIN rank = Ranks /\ \A r \in Ranks : RankOK(rank[r])
  BY DEF TrainInv, CacheInv, PrepOK, RankInv
<1>1. conf' = conf
  BY NextEffect
<1>2. Ranks' = Ranks /\ PerEpoch' = PerEpoch
  BY <1>1, SameProject
<1>3. ASSUME PerEpoch = 0 => \A r \in Ranks : rank'[r].sumEpoch = <<>>,
             PerEpoch # 0 => \A s, t \in Ranks :
                /\ InStep(rank'[s], rank'[t]) /\ Matching(rank'[s], rank'[t])
                /\ rank'[t].pc = "start" => Loaded(rank[s])'
      PROVE  MeetInv'
  <2>1. \A s, t : (InStep(rank[s], rank[t])' <=> InStep(rank'[s], rank'[t]))
                  /\ (Matching(rank[s], rank[t])' <=> Matching(rank'[s], rank'[t]))
    BY <1>1, SameMeeting
  <2>2. (PerEpoch = 0 \/ EpochsMeet)'
    BY <1>1, <1>2, SameMeeting DEF MeetInv
  <2> QED BY <1>2, <1>3, <2>1, <2>2 DEF MeetInv
<1>4. ASSUME NEW r \in Ranks, Train(r) PROVE MeetInv'
  <2>1. PerEpoch = 0 => \A s \in Ranks : rank'[s].sumEpoch = <<>>
    <3> SUFFICES ASSUME PerEpoch = 0, NEW s \in Ranks PROVE rank'[s].sumEpoch = <<>>
      OBVIOUS
    <3>1. Effect(r, rank[r], rank'[r]) /\ (s # r => rank'[s] = rank[s])
      BY <1>4, TrainEffect
    <3>2. rank'[r].sumEpoch = rank[r].sumEpoch
      BY <1>0, <3>1, NothingAdded
    <3> QED BY <3>1, <3>2 DEF MeetInv
  <2>2. PerEpoch # 0 => \A s, t \in Ranks :
            /\ InStep(rank'[s], rank'[t]) /\ Matching(rank'[s], rank'[t])
            /\ rank'[t].pc = "start" => Loaded(rank[s])'
    BY <1>4, MeetLocal
  <2> QED BY <1>3, <2>1, <2>2
<1>5. CASE Together
  <2>1. PerEpoch # 0
    <3>1. PICK r \in Ranks : rank[r].pc \in {"sum cost", "reduce", "sum error"}
      BY <1>5 DEF Together, SumCost, ReduceGradients, SumError, At
    <3> QED BY <1>0, <3>1 DEF RankOK, Untrained
  <2>2. \A s, t \in Ranks : /\ InStep(rank'[s], rank'[t]) /\ Matching(rank'[s], rank'[t])
                            /\ rank'[t].pc # "start"
    BY <1>5, <2>1, MeetTogether
  <2> QED BY <1>3, <2>1, <2>2
<1>6. CASE UNCHANGED <<rank, disk, crashes>>
  <2>1. \A R : Loaded(R)' <=> Loaded(R)
    BY <1>1, <1>6, SameLoaded
  <2>2. PerEpoch # 0 => \A s, t \in Ranks :
            /\ InStep(rank'[s], rank'[t]) /\ Matching(rank'[s], rank'[t])
            /\ rank'[t].pc = "start" => Loaded(rank[s])'
    <3> SUFFICES ASSUME PerEpoch # 0, NEW s \in Ranks, NEW t \in Ranks
                 PROVE  /\ InStep(rank'[s], rank'[t]) /\ Matching(rank'[s], rank'[t])
                        /\ rank'[t].pc = "start" => Loaded(rank[s])'
      OBVIOUS
    <3>1. InStep(rank[s], rank[t]) /\ Matching(rank[s], rank[t]) /\ (rank[t].pc = "start" => Loaded(rank[s]))
      BY DEF MeetInv
    <3>2. rank'[s] = rank[s] /\ rank'[t] = rank[t]
      BY <1>6
    <3>3. rank'[t].pc = "start" => Loaded(rank[s])'
      <4>1. rank'[t].pc = "start" => Loaded(rank'[s])
        BY <3>1, <3>2
      <4> QED BY <2>1, <4>1
    <3> QED BY <3>1, <3>2, <3>3
  <2> QED BY <1>3, <1>6, <2>2 DEF MeetInv
<1>7. CASE Crash
  <2>1. \A r \in Ranks : rank'[r] = Fresh
    BY <1>7 DEF Crash
  <2>2. \A s \in Ranks : rank'[s].pc = "start"
    BY <2>1, FreshMeet
  <2>3. \A s \in Ranks : Loaded(rank[s])'
    BY <2>2 DEF Loaded, Begun
  <2> QED BY <1>3, <2>1, <2>3, FreshMeet
<1>8. CASE UNCHANGED vars
  BY <1>6, <1>8 DEF vars
<1> QED
  BY <1>4, <1>5, <1>6, <1>7, <1>8 DEF Next, Run

\* Ranks at the same place have made the same updates and added up the same cost.
LEMMA SamePlace ==
    ASSUME TrainInv, CostInv, MeetInv, NEW r \in Ranks, NEW s \in Ranks,
           rank[r].iter = rank[s].iter, rank[r].turn = rank[s].turn, rank[r].pc = rank[s].pc
    PROVE  rank[r].applied = rank[s].applied /\ rank[r].sumEpoch = rank[s].sumEpoch
<1> DEFINE R == rank[r]
           S == rank[s]
<1>0. RankOK(R) /\ RankOK(S)
  BY DEF TrainInv, RankInv
<1>1. CASE PerEpoch = 0
  BY <1>0, <1>1 DEF RankOK, Untrained, MeetInv
<1>2. CASE PerEpoch # 0
  <2>1. Agree(R, S) /\ Matching(R, S) /\ Matching(S, R)
    BY <1>2 DEF CostInv, MeetInv
  <2> HIDE DEF R, S
  <2>2. R.iter = S.iter /\ R.turn = S.turn /\ R.pc = S.pc
    BY DEF R, S
  <2>3. NextTurnOf(R) = NextTurnOf(S) /\ Stage(R) = Stage(S)
    BY <2>2 DEF NextTurnOf, Stage
  <2>4. ASSUME NEW A, NEW B, Exact(A.applied, R.iter, NextTurnOf(R)), Exact(B.applied, R.iter, NextTurnOf(R)),
               Matching(A, B), NEW u \in A.applied
        PROVE  u \in B.applied
    <3>1. PICK v \in B.applied : v.iter = u.iter /\ v.turn = u.turn
      BY <2>4 DEF Exact
    <3>2. u = v
      BY <2>4, <3>1 DEF Matching, Updates
    <3> QED BY <3>1, <3>2
  <2>5. R.applied = S.applied
    <3>1. Exact(R.applied, R.iter, NextTurnOf(R)) /\ Exact(S.applied, R.iter, NextTurnOf(R))
      BY <1>0, <2>2, <2>3 DEF RankOK
    <3>2. \A u \in R.applied : u \in S.applied
      BY <2>1, <2>4, <3>1
    <3>3. \A u \in S.applied : u \in R.applied
      BY <2>1, <2>4, <3>1
    <3> QED BY <3>2, <3>3
  <2>6. R.sumEpoch = S.sumEpoch
    BY <2>1, <2>3 DEF Agree
  <2> QED BY <2>5, <2>6 DEF R, S
<1> QED
  BY <1>1, <1>2

\* The collective of the training a rank is in.
InCall(R, what, i, k) ==
    /\ i = R.iter
    /\ \/ what = "cost" /\ R.pc = "sum cost" /\ k = R.turn
       \/ what = "grads" /\ R.pc = "reduce" /\ k = R.turn
       \/ what = "error" /\ R.pc = "sum error" /\ k = R.batch

\* It is one all have to come to, and that is not behind it.
LEMMA CallsMeet ==
    ASSUME conf \in Scenarios, PerEpoch # 0, NEW r, NEW R, RankOK(R), CostOK(r, R), ErrorOK(r, R),
           NEW what, NEW i, NEW k, InCall(R, what, i, k)
    PROVE  Meeting(what, i, k) /\ ~Passed(R, what, i, k) /\ Begun(R)
<1>0. /\ Turns = 1..Number /\ Number \in Nat /\ R.iter \in Nat /\ R.turn \in 1..(Number + 1) /\ R.turn \in Int
      /\ MaxIteration \in Nat
  BY Project, RankNumbers DEF RankOK, Typed
<1>1. /\ ~(R.iter < R.iter) /\ ~(R.turn < R.turn)
      /\ R.turn \notin Turns => R.turn = Number + 1
      /\ R.iter < MaxIteration => R.iter \in 0..(MaxIteration - 1)
  BY <1>0
<1>2. conf.monitor.batches \in Nat
  BY BatchNumbers
<1>3. /\ \A b \in 0..conf.monitor.batches : ~(b < b) /\ (b > 0 \/ b = conf.monitor.batches => (b = 0 => b = conf.monitor.batches))
  BY <1>2
<1>4. Trained(R)
  BY DEF RankOK
<1>5. i = R.iter /\ i \in 0..(MaxIteration - 1) /\ Begun(R)
  BY <1>1, <1>4 DEF InCall, Trained, Ended, Begun
<1>6. CASE what = "cost"
  <2>1. R.pc = "sum cost" /\ k = R.turn
    BY <1>6 DEF InCall
  <2>2. NumberOK(R)
    BY <2>1 DEF CostOK, Learning
  <2>3. Ran(i, k) # {} /\ (k \in Turns => Unadded(i, Ran(i, k)))
    BY <1>5, <2>1, <2>2 DEF NumberOK
  <2>4. /\ k \in Turns => Active(Opt(k), i)
        /\ k \notin Turns => k = Number + 1 /\ EndsEpoch(i)
    BY <1>1, <1>4, <1>5, <2>1 DEF Trained
  <2>5. Meeting(what, i, k)
    BY <1>5, <1>6, <2>3, <2>4 DEF Meeting
  <2> QED BY <1>1, <1>5, <1>6, <2>1, <2>5 DEF Passed
<1>7. CASE what = "grads"
  <2>1. R.pc = "reduce" /\ k = R.turn
    BY <1>7 DEF InCall
  <2>2. IsDue(i, k)
    BY <1>4, <1>5, <2>1 DEF IsDue, Trained, InTurn
  <2>3. Meeting(what, i, k)
    BY <1>5, <1>7, <2>2 DEF Meeting
  <2> QED BY <1>1, <1>5, <1>7, <2>1, <2>3 DEF Passed
<1>8. CASE what = "error"
  <2>1. R.pc = "sum error" /\ k = R.batch
    BY <1>8 DEF InCall
  <2>2. /\ Evaluated(Epoch(i)) /\ k \in 0..conf.monitor.batches
        /\ k > 0 \/ k = conf.monitor.batches
    BY <1>5, <2>1 DEF ErrorOK
  <2>3. EndsEpoch(i)
    BY <1>4, <1>5, <2>1 DEF Trained, EndingEpoch
  <2>4. Meeting(what, i, k)
    BY <1>3, <1>5, <1>8, <2>2, <2>3 DEF Meeting
  <2>5. ~(k < R.batch)
    BY <1>3, <2>1, <2>2
  <2> QED BY <1>1, <1>5, <1>8, <2>1, <2>4, <2>5 DEF Passed, Saving
<1> QED
  BY <1>6, <1>7, <1>8 DEF InCall

\* A rank at the error of an epoch has added up its cost and made its updates.
LEMMA ErrorComesLast ==
    ASSUME conf \in Scenarios, PerEpoch # 0, NEW R, RankOK(R),
           NEW i, NEW k, InCall(R, "error", i, k), NEW v, NEW l, v \in {"cost", "grads"}, Meeting(v, i, l)
    PROVE  Passed(R, v, i, l)
<1>1. Turns = 1..Number /\ Number \in Nat
  BY Project
<1>2. i = R.iter /\ R.turn = Number + 1 /\ R.pc \notin {"turn", "sum cost"}
  BY DEF InCall, RankOK, Trained, EndingEpoch
<1>3. l < R.turn \/ (l = R.turn /\ v = "cost")
  <2>1. \A n \in 1..Number : n < Number + 1
    BY <1>1
  <2>2. l \in 1..Number \/ (l = Number + 1 /\ v = "cost")
    BY <1>1 DEF Meeting, IsDue
  <2>3. R.turn = Number + 1
    BY <1>2
  <2> QED BY <2>1, <2>2, <2>3
<1> QED
  BY <1>2, <1>3 DEF Passed

\* Two ranks wait for the same if neither has left behind what the other waits for.
LEMMA CallOrder ==
    ASSUME conf \in Scenarios, PerEpoch # 0, NEW R, NEW S, RankOK(R), RankOK(S),
           NEW w, NEW i, NEW k, NEW v, NEW j, NEW l, InCall(R, w, i, k), InCall(S, v, j, l),
           Meeting(w, i, k), Meeting(v, j, l), ~Passed(R, v, j, l), ~Passed(S, w, i, k)
    PROVE  w = v /\ i = j /\ k = l
<1>1. /\ MaxIteration \in Nat /\ Turns = 1..Number /\ Number \in Nat /\ conf.monitor.batches \in Nat
  BY Project, BatchNumbers
<1>2. /\ i \in Int /\ j \in Int /\ k \in Int /\ l \in Int
      /\ w \in {"cost", "grads", "error"} /\ v \in {"cost", "grads", "error"}
  <2>1. \A what, m, n : Meeting(what, m, n) => m \in Int /\ n \in Int /\ what \in {"cost", "grads", "error"}
    BY <1>1 DEF Meeting, IsDue
  <2> QED BY <2>1
<1>3. i = j
  <2>1. i = R.iter /\ j = S.iter
    BY DEF InCall
  <2>2. ~(i < S.iter) /\ ~(j < R.iter)
    BY DEF Passed
  <2> QED BY <1>2, <2>1, <2>2
<1>4. CASE w = "error" /\ v = "error"
  <2>1. k = R.batch /\ l = S.batch /\ i = R.iter /\ j = S.iter /\ R.pc = "sum error" /\ S.pc = "sum error"
    BY <1>4 DEF InCall
  <2>2. ~(k < S.batch) /\ ~(l < R.batch)
    BY <1>3, <1>4, <2>1 DEF Passed
  <2>3. k = l
    BY <1>2, <2>1, <2>2, OrderOfNumbers
  <2> QED BY <1>3, <1>4, <2>3
<1>5. CASE w = "error" /\ v \in {"cost", "grads"}
  <2>1. Passed(R, v, i, l)
    BY <1>3, <1>5, ErrorComesLast
  <2> QED BY <1>3, <2>1
<1>6. CASE v = "error" /\ w \in {"cost", "grads"}
  <2>1. Passed(S, w, j, k)
    BY <1>3, <1>6, ErrorComesLast
  <2> QED BY <1>3, <2>1
<1>7. CASE w \in {"cost", "grads"} /\ v \in {"cost", "grads"}
  <2>1. k = R.turn /\ l = S.turn /\ i = R.iter /\ j = S.iter
    BY <1>7 DEF InCall
  <2>2. ~(k < S.turn) /\ ~(l < R.turn)
    BY <1>3, <1>7, <2>1 DEF Passed
  <2>3. k = l
    BY <1>2, <2>1, <2>2
  <2>4. ~(w = "cost" /\ v = "grads")
    <3> SUFFICES ASSUME w = "cost", v = "grads" PROVE FALSE
      OBVIOUS
    <3>1. S.pc \notin {"turn", "sum cost"}
      BY DEF InCall
    <3> QED BY <1>3, <2>1, <2>3, <3>1 DEF Passed
  <2>5. ~(w = "grads" /\ v = "cost")
    <3> SUFFICES ASSUME w = "grads", v = "cost" PROVE FALSE
      OBVIOUS
    <3>1. R.pc \notin {"turn", "sum cost"}
      BY DEF InCall
    <3> QED BY <1>3, <2>1, <2>3, <3>1 DEF Passed
  <2> QED BY <1>3, <1>7, <2>3, <2>4, <2>5
<1> QED
  BY <1>2, <1>4, <1>5, <1>6, <1>7

\* Ranks that wait in the training wait for the same.
LEMMA TrainingMatches ==
    ASSUME TrainInv, CostInv, ErrorInv, MeetInv, NEW r \in Ranks, NEW s \in Ranks,
           NEW w, NEW i, NEW k, NEW v, NEW j, NEW l,
           InCall(rank[r], w, i, k), InCall(rank[s], v, j, l)
    PROVE  <<w, i, k>> = <<v, j, l>>
<1> DEFINE R == rank[r]
           S == rank[s]
<1>0. conf \in Scenarios /\ RankOK(R) /\ RankOK(S)
  BY DEF TrainInv, RankInv, CacheInv, PrepOK
<1>1. PerEpoch # 0
  BY <1>0 DEF InCall, RankOK, Untrained
<1>2. CostOK(r, R) /\ CostOK(s, S) /\ ErrorOK(r, R) /\ ErrorOK(s, S) /\ InStep(R, S)
  BY <1>1 DEF CostInv, ErrorInv, MeetInv
<1> HIDE DEF R, S
<1>3. InCall(R, w, i, k) /\ InCall(S, v, j, l)
  BY DEF R, S
<1>4. /\ Meeting(w, i, k) /\ ~Passed(R, w, i, k) /\ Begun(R)
      /\ Meeting(v, j, l) /\ ~Passed(S, v, j, l) /\ Begun(S)
  BY <1>0, <1>1, <1>2, <1>3, CallsMeet
<1>5. ~Passed(S, w, i, k) /\ ~Passed(R, v, j, l)
  BY <1>2, <1>4 DEF InStep
<1>6. w = v /\ i = j /\ k = l
  BY <1>0, <1>1, <1>3, <1>4, <1>5, CallOrder
<1> QED
  BY <1>6

\* Ranks that wait, wait for the same.
LEMMA CallsAgree ==
    ASSUME TrainInv, CostInv, ErrorInv, MeetInv, OneDisk \/ crashes = 0
    PROVE  CallsMatch
<1>0. conf \in Scenarios /\ DOMAIN asked = Ranks /\ crashes \in Nat
  BY DEF TrainInv, CacheInv, PrepOK
<1>1. ASSUME NEW r \in Ranks, asked[r] # NoCall
      PROVE  \/ asked[r] = Enter /\ prep[r] = "enter"
             \/ asked[r] = Leave /\ prep[r] = "leave"
             \/ /\ \E w, i, k : asked[r] = <<w, i, k>> /\ InCall(rank[r], w, i, k)
                /\ prep[r] \in {"open", "opened", "opened in part"}
  <2>1. asked[r] = Waits(prep[r], rank[r]) /\ Gate(prep[r], rank[r])
    BY DEF TrainInv, RankInv
  <2>2. CASE prep[r] \in {"enter", "leave"}
    BY <2>1, <2>2 DEF Waits
  <2>3. CASE prep[r] \notin {"enter", "leave"}
    <3>1. /\ rank[r].pc \in {"sum cost", "reduce", "sum error"}
          /\ asked[r] = IF rank[r].pc = "sum cost" THEN <<"cost", rank[r].iter, rank[r].turn>>
                        ELSE IF rank[r].pc = "reduce" THEN <<"grads", rank[r].iter, rank[r].turn>>
                        ELSE <<"error", rank[r].iter, rank[r].batch>>
      BY <1>1, <2>1, <2>3 DEF Waits
    <3>2. /\ rank[r].pc = "sum cost" => InCall(rank[r], "cost", rank[r].iter, rank[r].turn)
          /\ rank[r].pc = "reduce" => InCall(rank[r], "grads", rank[r].iter, rank[r].turn)
          /\ rank[r].pc = "sum error" => InCall(rank[r], "error", rank[r].iter, rank[r].batch)
      BY DEF InCall
    <3>3. prep[r] \in {"open", "opened", "opened in part"}
      BY <2>1, <3>1 DEF Gate
    <3> QED BY <3>1, <3>2, <3>3
  <2> QED BY <2>2, <2>3
<1> SUFFICES ASSUME NEW r \in Ranks, NEW s \in Ranks, asked[r] # NoCall, asked[s] # NoCall
             PROVE  asked[r] = asked[s]
  BY <1>0 DEF CallsMatch
<1>2. CASE ~conf.explicit
  <2>1. r = 1 /\ s = 1
    BY <1>0, <1>2, RankSet
  <2> QED BY <2>1
<1>3. CASE conf.explicit
  <2>1. Before \/ During \/ After
    BY <1>3 DEF TrainInv, CacheInv, Uniform
  <2>2. CASE Before
    <3>1. prep[r] \in {"look", "enter"} /\ prep[s] \in {"look", "enter"}
      BY <2>2 DEF Before
    <3> QED BY <1>1, <3>1
  <2>3. CASE During
    <3>1. prep[r] \in Makings /\ prep[s] \in Makings
      BY <2>3 DEF During
    <3> QED BY <1>1, <3>1 DEF Makings
  <2>4. CASE After
    <3>1. prep[r] \in {"look", "open", "opened"} /\ prep[s] \in {"look", "open", "opened"}
      BY <2>4 DEF After
    <3>2. PICK w, i, k : asked[r] = <<w, i, k>> /\ InCall(rank[r], w, i, k)
      BY <1>1, <3>1
    <3>3. PICK v, j, l : asked[s] = <<v, j, l>> /\ InCall(rank[s], v, j, l)
      BY <1>1, <3>1
    <3> QED BY <3>2, <3>3, TrainingMatches
  <2> QED BY <2>1, <2>2, <2>3, <2>4
<1> QED
  BY <1>2, <1>3

\* Ranks that wait, wait in the same collective, and ranks at the same place have made the same
\* updates and added up the same cost, for any number of ranks, optimizers, iterations, batches and
\* crashes, if every epoch has a collective: no all_reduce mixes iterations or errors, and one rank
\* does not resume from another checkpoint than the others (train.py, _train, _update, _evaluate and
\* _get_current_parameter).
THEOREM RanksHold == Spec => []RanksAgree
<1> DEFINE M == PerEpoch = 0 \/ EpochsMeet
<1>1. Init => CostInv /\ ErrorInv /\ WholeInv /\ (M => MeetInv)
  <2> SUFFICES ASSUME Init PROVE CostInv /\ ErrorInv /\ WholeInv /\ (M => MeetInv)
    OBVIOUS
  <2>1. \A r \in Ranks : rank[r] = Fresh
    BY DEF Init
  <2>2. disk.report \in Seq({}) /\ Archives = {} /\ conf \in Scenarios
    BY DEF Init, Archives
  <2>3. CostInv
    BY <2>1, <2>2, FreshCost DEF CostInv
  <2>4. ErrorInv
    BY <2>1, <2>2, FreshError DEF ErrorInv
  <2>5. WholeInv
    BY <2>1, <2>2, FreshWhole DEF WholeInv
  <2>6. M => MeetInv
    BY <2>1, FreshMeet DEF MeetInv
  <2> QED BY <2>3, <2>4, <2>5, <2>6
<1>2. TrainInv /\ CostInv /\ ErrorInv /\ WholeInv /\ [Next]_vars => CostInv' /\ ErrorInv' /\ WholeInv'
  BY CostNext, ErrorNext, WholeNext
<1>3. TrainInv /\ TrainInv' /\ CostInv /\ ErrorInv /\ WholeInv /\ (M => MeetInv) /\ [Next]_vars => (M => MeetInv)'
  <2> SUFFICES ASSUME TrainInv, TrainInv', CostInv, ErrorInv, WholeInv, M => MeetInv, [Next]_vars, M'
               PROVE  MeetInv'
    OBVIOUS
  <2>1. conf' = conf
    BY NextEffect
  <2>2. M
    BY <2>1, SameProject, SameMeeting
  <2> QED BY <2>2, MeetNext
<1>4. TrainInv /\ CostInv /\ ErrorInv /\ (M => MeetInv) => RanksAgree
  BY SamePlace, CallsAgree DEF RanksAgree
<1> QED
  BY <1>1, <1>2, <1>3, <1>4, TrainAlways, PTL DEF Spec

=============================================================================
