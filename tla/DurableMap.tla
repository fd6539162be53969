------------------------------ MODULE DurableMap ------------------------------
(***************************************************************************)
(* What an opened, crashed and reopened database promises about its files: *)
(* they hold a map from keys to versions.  A commit enters it as a whole,  *)
(* above everything that is in it; nothing else changes it; and a commit   *)
(* that was acknowledged had entered it.                                   *)
(*                                                                         *)
(* Recovery.tla is shown to implement this specification.                  *)
(***************************************************************************)
EXTENDS Naturals

CONSTANTS Key,
          Seqs      \* the numbers that a commit may have

VARIABLES store,    \* [Key -> number of the version the files hold, or 0]
          acked     \* [Key -> number of the last acknowledged version, or 0]

Init ==
    /\ store = [k \in Key |-> 0]
    /\ acked = [k \in Key |-> 0]

Update(map, keys, seq) == [k \in Key |-> IF k \in keys THEN seq ELSE map[k]]

\* The keys get one number, higher than any in the map.
Commit(keys) ==
    /\ UNCHANGED acked
    /\ \E seq \in {store'[k] : k \in keys} \cap Seqs :
        /\ \A k \in Key : store[k] < seq
        /\ store' = Update(store, keys, seq)

\* Only what is in the map is acknowledged, and nothing older than before.
Ack(keys) ==
    /\ \A k \in keys : acked'[k] > acked[k]
    /\ acked' = [k \in Key |-> IF k \in keys THEN store[k] ELSE acked[k]]
    /\ \A k, j \in keys : store[k] = store[j]
    /\ UNCHANGED store

Next == \E keys \in (SUBSET Key) \ {{}} : Commit(keys) \/ Ack(keys)

Spec == Init /\ [][Next]_<<store, acked>>

=============================================================================
