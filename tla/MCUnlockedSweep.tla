--------------------------- MODULE MCUnlockedSweep ---------------------------
(* Small instance of UnlockedSweep for TLC. *)
EXTENDS UnlockedSweep, TLC

Symmetric == Permutations(Block)
=============================================================================
