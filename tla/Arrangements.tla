----------------------------- MODULE Arrangements ------------------------------
(***************************************************************************)
(* Python's comprehensions and stable sorts over a list: the elements at   *)
(* the positions of `keep`, ordered by a key of their positions and, among *)
(* equal keys, by position.  They stand in for SelectSeq and SortSeq in    *)
(* the modules there are proofs about.                                     *)
(***************************************************************************)
EXTENDS Integers, FiniteSets

Place(keep, key, i) ==
    Cardinality({j \in keep : key[j] < key[i] \/ (key[j] = key[i] /\ j <= i)})

Arranged(seq, keep, key) ==
    [n \in 1 .. Cardinality(keep) |-> seq[CHOOSE i \in keep : Place(keep, key, i) = n]]

Selected(seq, keep) == Arranged(seq, keep, [i \in keep |-> 0])
=============================================================================
