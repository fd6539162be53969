------------------------------ MODULE MCStorage ------------------------------
(* Small instances of Storage for TLC. *)
EXTENDS Storage, TLC

\* The writers, the flushers and the keys are interchangeable.
Symmetry == Permutations(Writer) \cup Permutations(Flusher) \cup Permutations(Key)

=============================================================================
