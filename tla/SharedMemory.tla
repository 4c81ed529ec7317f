----------------------------- MODULE SharedMemory -----------------------------
(***************************************************************************)
(* What an NdArray and the arrays narrowed from it promise: "The returned  *)
(* array and this array share the same underlying allocated memory"        *)
(* (NdArray::narrow).  There is one row of cells; an array, narrowed or    *)
(* not, is a range of it, and what is written to a range is there for all. *)
(* SyncedArray performs these operations next to its own, and must then    *)
(* read what stands here.                                                  *)
(***************************************************************************)
EXTENDS Integers

CONSTANTS
    Arrays,     \* the array and what is ever narrowed from it
    Parent,     \* what an array is narrowed from
    Root,       \* the array that is not narrowed
    At,         \* where it begins in the memory of the root
    Size        \* [Arrays -> number of cells]

VARIABLES
    cell        \* [cells of Root -> what is to be read there]

Unknown == -2   \* what memory holds that nobody has written

CellsOf(a) == At[a] .. At[a] + Size[a] - 1

Init == cell = [c \in CellsOf(Root) |-> 0]

Write(a, v) == cell' = [c \in DOMAIN cell |-> IF c \in CellsOf(a) THEN v ELSE cell[c]]

Change(a, i, v) == cell' = [cell EXCEPT ![At[a] + i] = v]

Forget(a) == Write(a, Unknown)
=============================================================================
