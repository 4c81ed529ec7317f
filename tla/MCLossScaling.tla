--------------------------- MODULE MCLossScaling ---------------------------
(* Small programs for LossScaling. *)
EXTENDS LossScaling

MCKeys == {"w", "v"}

Batch(limit, touches) == [limit |-> limit, touches |-> touches]
MCBatches == {Batch(2, {"w", "v"}), Batch(0, {"w"}), Batch(-9, {"w", "v"})}

update == [op |-> "update"]
clear == [op |-> "clear"]
Remove(keys) == [op |-> "remove", keys |-> keys]
Set(keys, reset, retain) == [op |-> "set", keys |-> keys, reset |-> reset, retain |-> retain]
Both == Set(MCKeys, TRUE, FALSE)

Program(calls) ==
    [size |-> 1, accumGrad |-> 1, weightDecay |-> "none", fails |-> FALSE, calls |-> calls]

MCPrograms ==
    { Program(<<Both, update, update, update, update, update>>),
      [Program(<<Both, update, update, update>>) EXCEPT !.fails = TRUE, !.weightDecay = "fused"],
      [Program(<<Both, update, Set({"w"}, FALSE, TRUE), update>>)
            EXCEPT !.accumGrad = 2, !.weightDecay = "plain"],
      Program(<<Both, update, Remove({"w"}), update, Set({"w"}, FALSE, FALSE), update>>),
      Program(<<Both, update, Set({"w"}, FALSE, FALSE), update, clear, Set({"v"}, FALSE, TRUE), update>>),
      Program(<<Set({"w"}, TRUE, TRUE), update, Set({"v"}, TRUE, TRUE), update, update>>),
      [Program(<<Both, update, update>>) EXCEPT !.size = 2],
      [Program(<<Both, update, Remove({"w"}), update>>) EXCEPT !.size = 2, !.weightDecay = "fused"],
      [Program(<<Both, update>>) EXCEPT !.size = 2, !.accumGrad = 2, !.weightDecay = "plain"] }
=============================================================================
