---------------------------- MODULE MCSlicedCache ----------------------------
(* Slices of what data_iterator_csv_dataset(..., with_file_cache=False) returns. *)
EXTENDS MCDataIterator

MCCached == { Unshuffled(Sliced(Whole(IteratorCsv(TRUE, FALSE), 4, 1, 2), FALSE, 2, {1, 2})) }
=============================================================================
