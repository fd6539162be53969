------------------------------- MODULE Lists -------------------------------
(***************************************************************************)
(* What the storage does with the list of its frozen memtables.            *)
(***************************************************************************)
EXTENDS Naturals, Sequences, FiniteSets

\* Vec::retain: the elements of s other than x, in their order.
Without(s, x) ==
    LET kept == {i \in DOMAIN s : s[i] # x}
    IN  [n \in 1..Cardinality(kept) |->
           s[CHOOSE i \in kept : Cardinality({j \in kept : j <= i}) = n]]

=============================================================================
