---------------------------- MODULE MCSyncedArray ----------------------------
(***************************************************************************)
(* An array of three cells; left and right are its views, tail a view of   *)
(* right, wide one that overlaps both left and right.                      *)
(***************************************************************************)
EXTENDS SyncedArray, TLC

CONSTANTS base, left, right, tail, wide, float, half

MCArrays == {base, left, right, tail, wide}
MCKeys == {float, half}
MCSymmetry == Permutations(MCKeys)
MCParent == (left :> base) @@ (right :> base) @@ (wide :> base) @@ (tail :> right)
MCLineage == (base :> {base}) @@ (left :> {base, left}) @@ (right :> {base, right})
             @@ (wide :> {base, wide}) @@ (tail :> {base, right, tail})
MCAt == (base :> 0) @@ (left :> 0) @@ (right :> 1) @@ (wide :> 0) @@ (tail :> 2)
MCSize == (base :> 3) @@ (left :> 1) @@ (right :> 2) @@ (wide :> 2) @@ (tail :> 1)
=============================================================================
