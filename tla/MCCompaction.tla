----------------------------- MODULE MCCompaction -----------------------------
(* A small instance of Compaction for TLC. *)
EXTENDS Compaction

E1(key, seq, val) == [key |-> <<key, seq>>, value |-> val]

\* Several versions of three keys: values of several lengths, deletions, an empty
\* string, and a value that fits only a block of its own.
MCGiven ==
    {E1(1, 1, 3), E1(1, 4, Delete),
     E1(2, 2, 2), E1(2, 3, Delete), E1(2, 5, 9),
     E1(4, 3, 0), E1(4, 6, 4), E1(4, 2, 45)}

\* Key 3 is never written, and the filter takes it for key 2.
MCHash == <<5, 77, 77, 201>>

=============================================================================
