-------------------------- MODULE SnapshotIsolation --------------------------
(***************************************************************************)
(* What the transaction crate promises its callers, with nothing of how.   *)
(*                                                                         *)
(* A committed write set carries a timestamp; `clock' is the timestamp of  *)
(* the last one.  A transaction reads the database as it stood when it     *)
(* began (snap) and commits only if nobody committed one of its keys since *)
(* then: the first committer wins.  A plain write (DB::set) has no         *)
(* snapshot and never conflicts.                                           *)
(*                                                                         *)
(* Oracle.tla is shown to implement this specification.                    *)
(***************************************************************************)
EXTENDS Naturals

CONSTANTS Key,      \* user keys
          Tx,       \* transactions and snapshots
          Plain     \* plain writes

VARIABLES clock,    \* timestamp of the latest commit
          commits,  \* the commits so far: [task, ts, keys]
          snap,     \* [Tx -> timestamp of its snapshot]
          status    \* [Task -> where the task stands]

absvars == <<clock, commits, snap, status>>

Task == Tx \cup Plain

Init ==
    /\ clock \in Nat
    /\ commits = {}
    /\ snap = [t \in Tx |-> 0]
    /\ status = [t \in Task |-> "idle"]

\* Commits of a key of keys that the snapshot of t does not contain.
Newer(t, keys) == {c \in commits : c.ts > snap[t] /\ c.keys \cap keys # {}}

\* Every key of the write set gets the same, new timestamp, in one step.
Append(t, keys) ==
    /\ clock' \in Nat
    /\ clock' > clock
    /\ commits' = commits \cup {[task |-> t, ts |-> clock', keys |-> keys]}
    /\ status' = [status EXCEPT ![t] = "committed"]
    /\ UNCHANGED snap

Begin(t) ==
    /\ status[t] = "idle"
    /\ snap' = [snap EXCEPT ![t] = clock]
    /\ status' = [status EXCEPT ![t] = "running"]
    /\ UNCHANGED <<clock, commits>>

Commit(t, keys) ==
    /\ status[t] = "running"
    /\ Newer(t, keys) = {}
    /\ Append(t, keys)

\* A transaction is refused only when there is a reason to.
Conflict(t, keys) ==
    /\ status[t] = "running"
    /\ Newer(t, keys) # {}
    /\ status' = [status EXCEPT ![t] = "conflicted"]
    /\ UNCHANGED <<clock, commits, snap>>

\* Rolled back, dropped, committed with an empty buffer, or failed.
Abandon(t) ==
    /\ status[t] \in {"idle", "running"}
    /\ status' = [status EXCEPT ![t] = "abandoned"]
    /\ UNCHANGED <<clock, commits, snap>>

Write(p, keys) ==
    /\ status[p] = "idle"
    /\ Append(p, keys)

Next ==
    \/ \E t \in Tx : Begin(t)
    \/ \E t \in Tx, keys \in SUBSET Key : Commit(t, keys) \/ Conflict(t, keys)
    \/ \E p \in Plain, keys \in SUBSET Key : Write(p, keys)
    \/ \E t \in Task : Abandon(t)

Spec == Init /\ [][Next]_absvars

-----------------------------------------------------------------------------
\* The commit a read of k at timestamp ts must return, as a set: empty when
\* k was not written at or before ts.
ReadAt(k, ts) ==
    {c \in commits :
        /\ k \in c.keys
        /\ c.ts <= ts
        /\ \A d \in commits : k \in d.keys /\ d.ts <= ts => d.ts <= c.ts}

=============================================================================
