----------------------------- MODULE MCTraining -----------------------------
(* Small projects for Training. *)
EXTENDS Training

Optimizer(net, params, interval) ==
    [start |-> 0, end |-> 0, interval |-> interval, net |-> net, params |-> params]

\* One process; one optimizer; an evaluation of two batches an epoch.
Project ==
    [disks |-> <<1>>, hosts |-> <<1>>, explicit |-> FALSE, perEpoch |-> 2, maxEpoch |-> 2,
     opts |-> <<Optimizer("main", {"w"}, 1)>>,
     monitor |-> [net |-> "test", batches |-> 2, interval |-> 2],
     saveBest |-> TRUE, errors |-> <<2, 1>>, nan |-> {}, limit |-> "none"]

\* Two ranks on two hosts, three on two; what is left of an epoch is dropped.
Ranked(c, disks) ==
    [c EXCEPT !.disks = disks, !.hosts = <<1, 2>>, !.explicit = TRUE, !.perEpoch = 2 * @ + 1]
Three(c) ==
    [c EXCEPT !.disks = <<1, 1, 2>>, !.hosts = <<1, 1, 2>>, !.explicit = TRUE, !.perEpoch = 3 * @ + 2]
Small(c) == [c EXCEPT !.perEpoch = 1, !.monitor.batches = 1]

\* Two optimizers, as of a generator and its critic; on one network, or one after the other.
Pair(a, b) == [Project EXCEPT !.opts = <<a, b>>]

Single3 ==
    [Project EXCEPT !.maxEpoch = 3, !.errors = <<2, 1, 3>>,
                    !.monitor.batches = 1, !.monitor.interval = 1]

MCScenarios ==
    { Project, Single3, [Single3 EXCEPT !.errors = <<2, NotANumber, 1>>],
      [Single3 EXCEPT !.monitor.interval = 2, !.saveBest = FALSE],
      [Project EXCEPT !.explicit = TRUE, !.monitor.net = "main", !.perEpoch = 3,
                      !.opts = <<Optimizer("main", {"w"}, 2)>>],
      Pair(Optimizer("main", {"w"}, 2), Optimizer("critic", {"v"}, 1)),
      Pair(Optimizer("main", {"w"}, 1), Optimizer("main", {"w"}, 1)),
      [Pair([Optimizer("main", {"w"}, 2) EXCEPT !.end = 2],
            [Optimizer("main", {"w"}, 2) EXCEPT !.start = 3]) EXCEPT !.perEpoch = 3],
      [Project EXCEPT !.nan = {<<1, 1, 1>>}], [Project EXCEPT !.nan = {<<2, 1, 1>>}, !.monitor.batches = 0],
      [Project EXCEPT !.limit = "check"], [Project EXCEPT !.limit = "estimate"],
      [Project EXCEPT !.perEpoch = 0], [Ranked(Project, <<1, 1>>) EXCEPT !.perEpoch = 1],
      Ranked(Pair([Optimizer("main", {"w"}, 2) EXCEPT !.end = 3],
                  [Optimizer("main", {"w"}, 0) EXCEPT !.start = 4]), <<1, 1>>),
      Ranked(Project, <<1, 1>>), Three(Small(Project)), Ranked(Small(Project), <<1, 2>>),
      Ranked([Small(Project) EXCEPT !.limit = "check"], <<1, 1>>),
      Ranked([Small(Project) EXCEPT !.limit = "estimate"], <<1, 1>>),
      Ranked([Project EXCEPT !.nan = {<<1, 1, 2>>}, !.opts = <<Optimizer("main", {"w"}, 2)>>], <<1, 1>>) }

\* One process, one optimizer.
MCOneProcess == {Project}
=============================================================================
