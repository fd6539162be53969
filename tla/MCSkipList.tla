------------------------------ MODULE MCSkipList ------------------------------
(* A small instance of SkipList for TLC. *)
EXTENDS SkipList, TLC

\* Two versions of one key and one of a larger key.
MCVersion == {<<1, 1>>, <<1, 3>>, <<2, 1>>}

\* Behind the newer version of the first key, in front of the older one.
MCSought == {<<1, 2>>}

Symmetry == Permutations(Inserter)

=============================================================================
