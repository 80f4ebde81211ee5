------------------------- MODULE MCRevertDetection -------------------------
(* One token with one price a side, three hashes and a history of two: a   *)
(* hash can be the last, an earlier one, or already pushed out.            *)
EXTENDS RevertDetection, TLC

HashSymmetry == Permutations(Hashes)
=============================================================================
