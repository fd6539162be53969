------------------------------ MODULE MCRecovery ------------------------------
(* A small instance of Recovery for TLC. *)
EXTENDS Recovery

\* The keys are interchangeable.
Symmetry == Permutations(Key)

=============================================================================
