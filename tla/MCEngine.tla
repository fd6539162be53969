------------------------------- MODULE MCEngine -------------------------------
(* Small instances of Engine for TLC. *)
EXTENDS Engine, TLC

\* Handles, plain writes, flushers and keys are interchangeable.
Symmetry == Permutations(Tx) \cup Permutations(Plain)
              \cup Permutations(Freezer) \cup Permutations(Key)

=============================================================================
