------------------------------ MODULE VersionSet ------------------------------
(***************************************************************************)
(* What a memtable promises the tasks that share it: it is a set of        *)
(* versions, and an insert or a lookup happens in one step, somewhere      *)
(* between its call and its return.                                        *)
(*                                                                         *)
(* A version is a pair <<key, seq>>.  SkipList.tla is shown to implement   *)
(* this specification.                                                     *)
(***************************************************************************)
EXTENDS Naturals

CONSTANTS Inserter, Reader,
          Version, Sought,  \* what may be inserted, and looked up
          None

VARIABLES present,  \* the versions in the set
          done      \* [task -> what it asked and what its call returned, or will return]

\* The version of v's key that a reader at v's number sees: the newest one
\* that is not newer.
Visible(set, v) ==
    {u \in set : /\ u[1] = v[1] /\ u[2] <= v[2]
                 /\ \A w \in set : w[1] = v[1] /\ w[2] <= v[2] => w[2] <= u[2]}

Init ==
    /\ present = {}
    /\ done = [t \in Inserter \cup Reader |-> None]

Return(t, v, result) ==
    /\ done[t] = None
    /\ done' = [done EXCEPT ![t] = <<v, result>>]

\* An insert adds its version and returns true, or finds it there already.
Insert(t, v) ==
    \/ /\ v \notin present
       /\ present' = present \cup {v}
       /\ Return(t, v, TRUE)
    \/ /\ v \in present
       /\ UNCHANGED present
       /\ Return(t, v, FALSE)

Get(t, v) ==
    /\ Return(t, v, Visible(present, v))
    /\ UNCHANGED present

Next ==
    \/ \E t \in Inserter, v \in Version : Insert(t, v)
    \/ \E t \in Reader, v \in Sought : Get(t, v)

Spec == Init /\ [][Next]_<<present, done>>

=============================================================================
