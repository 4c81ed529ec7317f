--------------------------- MODULE MCDataIterator ---------------------------
(* Small programs for DataIterator. *)
EXTENDS DataIterator

\* An iterator over a stack of sources.
Whole(stack, size, batch, batches) ==
    [stack |-> stack, sliceStack |-> <<>>, size |-> size, parts |-> <<size>>,
     shuffle |-> TRUE, batch |-> batch, batches |-> <<batches, batches, 1>>, stop |-> FALSE,
     thread |-> TRUE, failures |-> 0, slices |-> 1, ranks |-> {}, dropLast |-> TRUE]

\* Slices of it, and those of them this process makes.
Sliced(c, useCache, slices, ranks) ==
    [c EXCEPT !.sliceStack = SliceStack(c.stack, useCache, FALSE),
              !.slices = slices, !.ranks = ranks]

Unshuffled(c) == [c EXCEPT !.shuffle = FALSE]

Wholes ==
    { Whole(IteratorSimple(FALSE, FALSE), 2, 3, 3), Whole(IteratorSimple(FALSE, FALSE), 4, 2, 4),
      Whole(IteratorSimple(TRUE, FALSE), 3, 2, 5), Whole(IteratorCsv(FALSE, FALSE), 3, 2, 5),
      Whole(IteratorCsv(TRUE, FALSE), 3, 2, 5), Whole(IteratorCsv(TRUE, TRUE), 3, 2, 5),
      Whole(<<"spilled", "csv">>, 3, 2, 3), Whole(IteratorCache(FALSE), 3, 2, 5),
      [Whole(IteratorConcat(FALSE, FALSE), 3, 2, 4) EXCEPT !.parts = <<1, 2>>] }

Stopping ==
    { [Whole(IteratorCsv(FALSE, FALSE), size, 2, 3) EXCEPT !.stop = TRUE, !.thread = thread]
        : size \in {3, 4}, thread \in BOOLEAN }

Failing ==
    { [Unshuffled(Whole(IteratorCsv(FALSE, FALSE), 4, 2, 4))
        EXCEPT !.failures = 2, !.stop = stop, !.thread = thread]
        : stop \in BOOLEAN, thread \in BOOLEAN }
    \cup { [Unshuffled(Whole(IteratorCsv(TRUE, FALSE), 3, 2, 4)) EXCEPT !.failures = 1] }

Slicing ==
    { [Sliced(Whole(IteratorSimple(FALSE, FALSE), 2, 1, 2), FALSE, 2, {1, 2})
        EXCEPT !.batches = <<0, 2, 1>>],
      [Unshuffled(Sliced(Whole(IteratorCsv(FALSE, FALSE), 3, 1, 2), FALSE, 2, {1, 2}))
        EXCEPT !.dropLast = FALSE],
      Sliced(Whole(IteratorCsv(FALSE, FALSE), 4, 1, 3), FALSE, 2, {2}),
      Unshuffled(Sliced(Whole(IteratorCsv(FALSE, FALSE), 4, 2, 3), TRUE, 2, {2})),
      Sliced(Whole(IteratorSimple(FALSE, TRUE), 4, 2, 3), TRUE, 2, {2}) }

\* Slices of a cache, which read and reset it beside each other.
Sharing ==
    { [Unshuffled(Sliced(Whole(IteratorCache(FALSE), 4, 1, 2), FALSE, 2, {1, 2}))
        EXCEPT !.batches = <<0, 1, 0>>],
      [Unshuffled(Sliced(Whole(IteratorCache(FALSE), 2, 1, 2), FALSE, 2, {1, 2}))
        EXCEPT !.batches = <<0, 1, 0>>],
      [Sliced(Whole(IteratorCsv(TRUE, FALSE), 3, 1, 2), FALSE, 3, {2})
        EXCEPT !.batches = <<1, 1, 1>>] }

\* Slices whose loads fail, at the end of their portions too.
FailingSlices ==
    { [Unshuffled(Sliced(Whole(IteratorCsv(FALSE, FALSE), 4, 1, 2), FALSE, 2, {1, 2}))
        EXCEPT !.batches = <<0, 2, 1>>, !.failures = 1] }

MCScenarios == Wholes \cup Stopping \cup Failing \cup Slicing \cup Sharing \cup FailingSlices
MCDraws == {0, 1}
=============================================================================
