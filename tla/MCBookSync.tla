----------------------------- MODULE MCBookSync ------------------------------
(* Instances of BookSync.  Tokens are interchangeable.                     *)
EXTENDS BookSync, TLC

TokenSymmetry == Permutations(Tokens)
=============================================================================
