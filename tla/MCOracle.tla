------------------------------- MODULE MCOracle -------------------------------
(* Small instances of Oracle for TLC. *)
EXTENDS Oracle, TLC

\* The tasks of a kind and the keys are interchangeable.
Symmetry == Permutations(Tx) \cup Permutations(Plain) \cup Permutations(Key)

=============================================================================
