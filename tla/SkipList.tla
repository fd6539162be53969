------------------------------- MODULE SkipList -------------------------------
(***************************************************************************)
(* The skip list of a memtable (memtable/src/list.rs): tasks that insert   *)
(* and tasks that search or iterate, without a lock.                       *)
(*                                                                         *)
(* Every inserter makes one insert, every reader one lookup or one         *)
(* iteration; a node has the name of its inserter.  One step is one access *)
(* to a shared pointer.  Pointers are loaded and swapped in one total      *)
(* order (Acquire and Release); the height hint is Relaxed, so a task may  *)
(* see an old value of it, but none older than its own.                    *)
(***************************************************************************)
EXTENDS Naturals, Sequences, FiniteSets

CONSTANTS Inserter, Reader,
          Version,      \* the versions that may be inserted
          Sought,       \* keys and sequence numbers that may be looked up
          MaxHeight,    \* MAX_HEIGHT
          Front, Null,  \* where every level starts and ends
          None          \* a call that has not returned

ASSUME SkipListAssumption ==
    /\ MaxHeight \in Nat \ {0}
    /\ Front \notin Inserter /\ Null \notin Inserter \cup {Front}
    /\ Inserter \cap Reader = {}
    /\ Version \cup Sought \subseteq Nat \X Nat /\ Version # {}
    /\ None \notin BOOLEAN /\ \A set \in SUBSET Version : None # set

VARIABLES
    tower,          \* [Front or node -> [level -> node]]
    version,        \* [node -> its version]
    height,         \* [node -> its height]
    max_height, len,
    at,             \* where each task is
    target,         \* [task -> the version it looks for]
    pred,           \* [task -> the node it stands on]
    level,          \* [task -> the level it walks on, or links]
    preds, succs,   \* [inserter -> [level -> what find left there]]
    linking,        \* [inserter -> the level it links next]
    seen,           \* [reader -> what its iterator has yielded]
    done,           \* [task -> what its call returned]
    atStart         \* history: [reader -> what was there when it began]

Task == Inserter \cup Reader
Levels == 0..(MaxHeight - 1)

nodeVars == <<tower, version, height, max_height, len>>
walkVars == <<target, pred, level>>
findVars == <<preds, succs, linking>>
readVars == <<seen, atStart>>

vars == <<nodeVars, at, walkVars, findVars, readVars, done>>

Goto(t, place) == at' = [at EXCEPT ![t] = place]

\* cmp_key: keys ascend, the versions of a key descend.
Less(u, v) == u[1] < v[1] \/ (u[1] = v[1] /\ u[2] > v[2])

NoLinks == [l \in Levels |-> Null]

Init ==
    LET v0 == CHOOSE v \in Version : TRUE IN
    /\ tower = [n \in Inserter \cup {Front} |-> NoLinks]
    /\ version = [n \in Inserter |-> v0]
    /\ height = [n \in Inserter |-> 1]
    /\ max_height = 1
    /\ len = 0
    /\ at = [t \in Task |-> "idle"]
    /\ target = [t \in Task |-> v0]
    /\ pred = [t \in Task |-> Front]
    /\ level = [t \in Task |-> 0]
    /\ preds = [i \in Inserter |-> NoLinks]
    /\ succs = [i \in Inserter |-> NoLinks]
    /\ linking = [i \in Inserter |-> 0]
    /\ seen = [r \in Reader |-> <<>>]
    /\ atStart = [r \in Reader |-> {}]
    /\ done = [t \in Task |-> None]

\* What has been inserted: the swap on the lowest level has succeeded.
Present == {version[i] : i \in {j \in Inserter : linking[j] > 0}}

-----------------------------------------------------------------------------
(* find and seek: from the top level down, along each level as far as the  *)
(* nodes are less than the target.                                         *)

\* Broken: a height is taken for a level.
ReadHeightOffByOne(t) ==
    /\ at[t] = "find"
    /\ level' = [level EXCEPT ![t] = max_height]
    /\ pred' = [pred EXCEPT ![t] = Front]
    /\ Goto(t, "walk")
    /\ UNCHANGED <<nodeVars, target, findVars, readVars, done>>

\* Any height the task may see: an inserter sees at least its own.
ReadHeight(t) ==
    /\ at[t] = "find"
    /\ \E h \in (IF t \in Inserter THEN height[t] ELSE 1)..max_height :
         level' = [level EXCEPT ![t] = h - 1]
    /\ pred' = [pred EXCEPT ![t] = Front]
    /\ Goto(t, "walk")
    /\ UNCHANGED <<nodeVars, target, findVars, readVars, done>>

Passes(n, t) == n # Null /\ Less(version[n], target[t])

Onward(t) ==
    LET next == tower[pred[t]][level[t]] IN
    /\ at[t] = "walk"
    /\ Passes(next, t)
    /\ pred' = [pred EXCEPT ![t] = next]
    /\ UNCHANGED <<nodeVars, at, target, level, findVars, readVars, done>>

\* The level is left; find takes down where.
Note(t, next) ==
    IF t \in Inserter
    THEN /\ preds' = [preds EXCEPT ![t][level[t]] = pred[t]]
         /\ succs' = [succs EXCEPT ![t][level[t]] = next]
    ELSE UNCHANGED <<preds, succs>>

Downward(t) ==
    LET next == tower[pred[t]][level[t]] IN
    /\ at[t] = "walk" /\ level[t] > 0
    /\ ~Passes(next, t)
    /\ Note(t, next)
    /\ level' = [level EXCEPT ![t] = @ - 1]
    /\ UNCHANGED <<nodeVars, at, target, pred, linking, readVars, done>>

-----------------------------------------------------------------------------
(* insert                                                                  *)

\* random_height: any of them.
Heights == 1..MaxHeight

\* compare_exchange_weak until the hint is at least the height.
Insert(i, v, h) ==
    /\ at[i] = "idle"
    /\ height' = [height EXCEPT ![i] = h]
    /\ version' = [version EXCEPT ![i] = v]
    /\ target' = [target EXCEPT ![i] = v]
    /\ max_height' = IF h > max_height THEN h ELSE max_height
    /\ Goto(i, "find")
    /\ UNCHANGED <<tower, len, pred, level, findVars, readVars, done>>

\* The locals of a call that returned.
Forget(i) ==
    /\ pred' = [pred EXCEPT ![i] = Front]
    /\ preds' = [preds EXCEPT ![i] = NoLinks]
    /\ succs' = [succs EXCEPT ![i] = NoLinks]

\* Broken: what was there already is counted.
DuplicateCounted(i) ==
    LET next == tower[pred[i]][0] IN
    /\ at[i] = "walk" /\ level[i] = 0 /\ linking[i] = 0
    /\ next # Null /\ version[next] = target[i]
    /\ len' = len + 1
    /\ done' = [done EXCEPT ![i] = FALSE]
    /\ Goto(i, "done")
    /\ Forget(i)
    /\ UNCHANGED <<tower, version, height, max_height, target, level, linking, readVars>>

\* find finds the version itself, in the first loop: insert returns false.
Duplicate(i) ==
    LET next == tower[pred[i]][0] IN
    /\ at[i] = "walk" /\ level[i] = 0 /\ linking[i] = 0
    /\ next # Null /\ version[next] = target[i]
    /\ done' = [done EXCEPT ![i] = FALSE]
    /\ Goto(i, "done")
    /\ Forget(i)
    /\ UNCHANGED <<nodeVars, target, level, linking, readVars>>

\* Or find does not find it, or is called again by the second loop.
Place(i) ==
    LET next == tower[pred[i]][0] IN
    /\ at[i] = "walk" /\ level[i] = 0
    /\ ~Passes(next, i)
    /\ linking[i] = 0 /\ next # Null => version[next] # target[i]
    /\ Note(i, next)
    /\ Goto(i, "link")
    /\ UNCHANGED <<nodeVars, walkVars, linking, readVars, done>>

\* The node points to its successor, and if the predecessor still points to it
\* too, the predecessor is made to point to the node.
Unmoved(i, l) == tower[preds[i][l]][l] = succs[i][l]

Swapped(i, l) == [tower EXCEPT ![i][l] = succs[i][l], ![preds[i][l]][l] = i]

\* Broken: the pointer is stored whatever it is by now.
LinkBottomBlindly(i) ==
    /\ at[i] = "link" /\ linking[i] = 0
    /\ tower' = Swapped(i, 0)
    /\ linking' = [linking EXCEPT ![i] = 1]
    /\ done' = [done EXCEPT ![i] = TRUE]
    /\ Goto(i, "count")
    /\ UNCHANGED <<version, height, max_height, len, walkVars, preds, succs, readVars>>

\* From the swap on the lowest level on, the version is there.
LinkBottom(i) ==
    /\ at[i] = "link" /\ linking[i] = 0
    /\ Unmoved(i, 0)
    /\ tower' = Swapped(i, 0)
    /\ linking' = [linking EXCEPT ![i] = 1]
    /\ done' = [done EXCEPT ![i] = TRUE]
    /\ Goto(i, "count")
    /\ UNCHANGED <<version, height, max_height, len, walkVars, preds, succs, readVars>>

\* len, and with it mem_usage; insert returns if that was the only level.
Count(i) ==
    /\ at[i] = "count"
    /\ len' = len + 1
    /\ IF height[i] > 1
       THEN Goto(i, "link") /\ UNCHANGED <<pred, preds, succs>>
       ELSE Goto(i, "done") /\ Forget(i)
    /\ UNCHANGED <<tower, version, height, max_height, target, level, linking,
                   readVars, done>>

\* The upper levels, from below; insert returns after the last.
LinkUpper(i) ==
    LET l == linking[i] IN
    /\ at[i] = "link" /\ l > 0
    /\ Unmoved(i, l)
    /\ tower' = Swapped(i, l)
    /\ linking' = [linking EXCEPT ![i] = l + 1]
    /\ IF l + 1 < height[i]
       THEN UNCHANGED <<at, pred, preds, succs>>
       ELSE Goto(i, "done") /\ Forget(i)
    /\ UNCHANGED <<version, height, max_height, len, target, level, readVars, done>>

\* Somebody else was faster; find looks again.
LinkFails(i) ==
    LET l == linking[i] IN
    /\ at[i] = "link"
    /\ ~Unmoved(i, l)
    /\ tower' = [tower EXCEPT ![i][l] = succs[i][l]]
    /\ Goto(i, "find")
    /\ UNCHANGED <<version, height, max_height, len, walkVars, findVars, readVars, done>>

-----------------------------------------------------------------------------
(* get_at and iter                                                         *)

GetAt(r, v) ==
    /\ at[r] = "idle"
    /\ target' = [target EXCEPT ![r] = v]
    /\ Goto(r, "find")
    /\ UNCHANGED <<nodeVars, pred, level, findVars, readVars, done>>

\* Broken: the key of the node is not looked at.
AnswerAnyKey(r) ==
    LET next == tower[pred[r]][0] IN
    /\ at[r] = "walk" /\ level[r] = 0
    /\ ~Passes(next, r)
    /\ done' = [done EXCEPT ![r] = IF next # Null THEN {version[next]} ELSE {}]
    /\ pred' = [pred EXCEPT ![r] = Front]
    /\ Goto(r, "done")
    /\ UNCHANGED <<nodeVars, target, level, findVars, readVars>>

\* The node under the walk on level 0 is the answer if it has the key.
Answer(r) ==
    LET next == tower[pred[r]][0] IN
    /\ at[r] = "walk" /\ level[r] = 0
    /\ ~Passes(next, r)
    /\ done' = [done EXCEPT ![r] =
                  IF next # Null /\ version[next][1] = target[r][1]
                  THEN {version[next]} ELSE {}]
    /\ pred' = [pred EXCEPT ![r] = Front]
    /\ Goto(r, "done")
    /\ UNCHANGED <<nodeVars, target, level, findVars, readVars>>

\* Broken: the iterator starts on the highest level.
IterateHigh(r) ==
    /\ at[r] = "idle"
    /\ atStart' = [atStart EXCEPT ![r] = Present]
    /\ pred' = [pred EXCEPT ![r] = tower[Front][max_height - 1]]
    /\ Goto(r, "iterate")
    /\ UNCHANGED <<nodeVars, target, level, findVars, seen, done>>

\* Iter::next yields a node and loads the pointer behind it.
Iterate(r) ==
    /\ at[r] = "idle"
    /\ atStart' = [atStart EXCEPT ![r] = Present]
    /\ pred' = [pred EXCEPT ![r] = tower[Front][0]]
    /\ Goto(r, "iterate")
    /\ UNCHANGED <<nodeVars, target, level, findVars, seen, done>>

Yield(r) ==
    /\ at[r] = "iterate"
    /\ pred[r] # Null
    /\ seen' = [seen EXCEPT ![r] = Append(@, version[pred[r]])]
    /\ pred' = [pred EXCEPT ![r] = tower[pred[r]][0]]
    /\ UNCHANGED <<nodeVars, at, target, level, findVars, atStart, done>>

Exhausted(r) ==
    /\ at[r] = "iterate"
    /\ pred[r] = Null
    /\ Goto(r, "done")
    /\ UNCHANGED <<nodeVars, walkVars, findVars, readVars, done>>

-----------------------------------------------------------------------------

Walk(t) == ReadHeight(t) \/ Onward(t) \/ Downward(t)

InsertStep(i) ==
    \/ Walk(i) \/ Duplicate(i) \/ Place(i)
    \/ LinkBottom(i) \/ Count(i) \/ LinkUpper(i) \/ LinkFails(i)

ReadStep(r) == Walk(r) \/ Answer(r) \/ Yield(r) \/ Exhausted(r)

Next ==
    \/ \E i \in Inserter :
         \/ \E v \in Version, h \in Heights : Insert(i, v, h)
         \/ InsertStep(i)
    \/ \E r \in Reader :
         \/ \E v \in Sought : GetAt(r, v)
         \/ Iterate(r)
         \/ ReadStep(r)

Spec == Init /\ [][Next]_vars

-----------------------------------------------------------------------------
(* Properties.  The operators marked "Broken" above are faults of the kind *)
(* the properties are there to catch; no action uses them.                 *)

\* Every variable holds a value of its type.
TypeOK ==
    /\ tower \in [Inserter \cup {Front} -> [Levels -> Inserter \cup {Null}]]
    /\ version \in [Inserter -> Version]
    /\ height \in [Inserter -> Heights]
    /\ max_height \in Heights
    /\ len \in Nat
    /\ at \in [Task -> {"idle", "find", "walk", "link", "count",
                        "iterate", "done"}]
    /\ target \in [Task -> Version \cup Sought]
    /\ pred \in [Task -> Inserter \cup {Front, Null}]
    /\ level \in [Task -> Levels]
    /\ preds \in [Inserter -> [Levels -> Inserter \cup {Front, Null}]]
    /\ succs \in [Inserter -> [Levels -> Inserter \cup {Null}]]
    /\ linking \in [Inserter -> 0..MaxHeight]

\* A set of nodes that the pointers of a level do not lead out of.
Closed(nodes, l) ==
    /\ tower[Front][l] \in nodes \cup {Null}
    /\ \A n \in nodes : tower[n][l] \in nodes \cup {Null}

\* The nodes that the pointers of a level lead to: the smallest such set.
Linked(l) ==
    {i \in Inserter : \A nodes \in SUBSET Inserter : Closed(nodes, l) => i \in nodes}

\* Whatever was linked stays linked: a node is on every level it was linked
\* on, and on no other; every level is sorted, and a sublist of the one below.
\* Two swaps at the same place lose neither node.
LevelsComplete ==
    \A l \in Levels :
        /\ Linked(l) = {i \in Inserter : l < linking[i]}
        /\ \A i \in Linked(l) :
             tower[i][l] # Null => Less(version[i], version[tower[i][l]])

\* An iterator (a flush runs one over a memtable) yields, in order, everything
\* that was there when it began, whatever is inserted in the meantime.
IterationComplete ==
    \A r \in Reader :
        /\ \A n \in 2..Len(seen[r]) : Less(seen[r][n - 1], seen[r][n])
        /\ at[r] = "done" /\ done[r] = None =>
             atStart[r] \subseteq {seen[r][n] : n \in DOMAIN seen[r]}

\* len counts every version once, however often its insert had to try: with it
\* freeze_active tells an empty memtable from one that must be frozen.
LenExact ==
    len = Cardinality(Present) - Cardinality({i \in Inserter : at[i] = "count"})

V == INSTANCE VersionSet WITH
         present <- Present,
         done <- [t \in Task |-> IF done[t] = None THEN None ELSE <<target[t], done[t]>>]

\* Every insert and every lookup takes effect in one step.
ImplementsVersionSet == V!Spec

=============================================================================
