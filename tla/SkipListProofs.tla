--------------------------- MODULE SkipListProofs ---------------------------
(***************************************************************************)
(* Proofs about SkipList.tla, for any number of tasks, levels and          *)
(* versions: the levels are complete and sorted, an iterator misses        *)
(* nothing, len is exact, and the list implements VersionSet.              *)
(*                                                                         *)
(* No pointer is ever followed to prove this: that the nodes of a level    *)
(* form one chain is said by Closed, by the smallest closed set, and by    *)
(* the gap between a node and its successor, in which nothing stands.      *)
(***************************************************************************)
EXTENDS SkipList, FiniteSetTheorems, TLAPS

-----------------------------------------------------------------------------
(* The order of versions.                                                  *)

\* Less is a strict total order.
LEMMA Order ==
  /\ \A u \in Nat \X Nat : ~Less(u, u)
  /\ \A u, v \in Nat \X Nat : Less(u, v) \/ u = v \/ Less(v, u)
  /\ \A u, v, w \in Nat \X Nat : Less(u, v) /\ Less(v, w) => Less(u, w)
  BY DEF Less

\* One that is not before another is the same or behind it.
LEMMA Weak ==
  ASSUME NEW u \in Nat \X Nat, NEW v \in Nat \X Nat, NEW w \in Nat \X Nat
  PROVE  /\ Less(u, v) /\ ~Less(w, v) => Less(u, w)
         /\ ~Less(v, u) /\ Less(v, w) => Less(u, w)
         /\ ~Less(v, u) /\ ~Less(w, v) => ~Less(w, u)
  BY DEF Less

-----------------------------------------------------------------------------
(* Types and places.                                                       *)

\* What TypeOK leaves out: results, and what iterators yield.
ResultType ==
    /\ done \in [Task -> {None} \cup BOOLEAN \cup SUBSET Version]
    /\ seen \in [Reader -> Seq(Version)]
    /\ atStart \in [Reader -> SUBSET Version]

\* The nodes that are linked on a level.
OnLevel(l) == {i \in Inserter : l < linking[i]}

\* Where an insert is.
InsertInv(i) ==
    /\ at[i] \in {"idle", "find", "walk", "link", "count", "done"}
    /\ linking[i] <= height[i]
    /\ at[i] = "idle" => linking[i] = 0
    /\ at[i] # "idle" => target[i] = version[i] /\ height[i] <= max_height
    /\ at[i] \in {"find", "walk", "link"} => linking[i] < height[i]
    /\ at[i] = "count" => linking[i] = 1
    /\ linking[i] = 0 /\ at[i] # "done" => done[i] = None

\* Where a lookup or an iteration is.
ReadInv(r) ==
    /\ at[r] \in {"idle", "find", "walk", "iterate", "done"}
    /\ at[r] # "done" => done[r] = None
    /\ at[r] \in {"find", "walk"} => target[r] \in Sought
    /\ at[r] \in {"idle", "find", "walk"} => atStart[r] = {} /\ seen[r] = <<>>

PlaceInv ==
    /\ \A i \in Inserter : InsertInv(i)
    /\ \A r \in Reader : ReadInv(r)

\* A task that walks along a level stands on a node of it, or in front of it,
\* that is less than what the task looks for.
WalkInv(t) ==
    at[t] = "walk" =>
        /\ pred[t] \in OnLevel(level[t]) \cup {Front}
        /\ pred[t] # Front => Less(version[pred[t]], target[t])

\* What find took down for a level: the version belongs between the two nodes.
Found(i, l) ==
    /\ preds[i][l] \in OnLevel(l) \cup {Front}
    /\ preds[i][l] # Front => Less(version[preds[i][l]], version[i])
    /\ succs[i][l] \in OnLevel(l) \cup {Null}
    /\ succs[i][l] # Null =>
         /\ ~Less(version[succs[i][l]], version[i])
         /\ linking[i] = 0 /\ l = 0 => version[succs[i][l]] # version[i]

\* It did so for every level the node is still to be linked on.
FindInv(i) ==
    \A l \in Levels :
        /\ linking[i] <= l /\ l < height[i]
        /\ at[i] \in {"link", "count"} \/ (at[i] = "walk" /\ level[i] < l)
        => Found(i, l)

-----------------------------------------------------------------------------
(* The levels.                                                             *)

\* Pointers do not lead to a node that is not linked, and miss none that is.
ChainInv(l) ==
    /\ Closed(OnLevel(l), l)
    /\ \A nodes \in SUBSET Inserter : Closed(nodes, l) => OnLevel(l) \subseteq nodes

\* Every node is less than its successor.
SortedInv(l) ==
    \A i \in OnLevel(l) : tower[i][l] # Null => Less(version[i], version[tower[i][l]])

\* Whatever is on the level is at or before a place on it, or at or behind the
\* next.
GapInv(l) ==
    \A p \in OnLevel(l) \cup {Front}, j \in OnLevel(l) :
        \/ (p # Front) /\ ~Less(version[p], version[j])
        \/ tower[p][l] # Null /\ ~Less(version[j], version[tower[p][l]])

\* No version is there twice.
UniqueInv == \A i, j \in OnLevel(0) : version[i] = version[j] => i = j

LevelInv(l) == ChainInv(l) /\ SortedInv(l) /\ GapInv(l)

ListInv == UniqueInv /\ \A l \in Levels : LevelInv(l)

\* An iterator stands on a node or at the end; what was there when it began it
\* has yielded, or it stands at or before it.
IterInv(r) ==
    /\ \A n \in 2..Len(seen[r]) : Less(seen[r][n - 1], seen[r][n])
    /\ at[r] = "iterate" =>
         /\ pred[r] \in OnLevel(0) \cup {Null}
         /\ pred[r] # Null /\ seen[r] # <<>> =>
              Less(seen[r][Len(seen[r])], version[pred[r]])
         /\ \A v \in atStart[r] :
              \/ \E n \in DOMAIN seen[r] : seen[r][n] = v
              \/ pred[r] # Null /\ \E j \in OnLevel(0) :
                   version[j] = v /\ ~Less(v, version[pred[r]])
    /\ at[r] = "done" =>
         \A v \in atStart[r] : \E n \in DOMAIN seen[r] : seen[r][n] = v

Counting == {i \in Inserter : at[i] = "count"}

CountInv ==
    /\ IsFiniteSet(Present) /\ IsFiniteSet(Counting)
    /\ len = Cardinality(Present) - Cardinality(Counting)

IInv ==
    /\ TypeOK /\ ResultType
    /\ PlaceInv
    /\ ListInv
    /\ \A t \in Task : WalkInv(t)
    /\ \A i \in Inserter : FindInv(i)
    /\ \A r \in Reader : IterInv(r)
    /\ CountInv

-----------------------------------------------------------------------------
(* Types.                                                                  *)

\* One entry of a table of tables is replaced.
LEMMA Nested ==
  ASSUME NEW A, NEW B, NEW C, NEW f \in [A -> [B -> C]],
         NEW a \in A, NEW b \in B, NEW c \in C
  PROVE  /\ [f EXCEPT ![a][b] = c] \in [A -> [B -> C]]
         /\ \A x \in A, y \in B :
              [f EXCEPT ![a][b] = c][x][y] = IF x = a /\ y = b THEN c ELSE f[x][y]
<1>1. [f[a] EXCEPT ![b] = c] \in [B -> C]
  OBVIOUS
<1> DEFINE h == [f[a] EXCEPT ![b] = c]
           g == [f EXCEPT ![a] = h]
<1>2. [f EXCEPT ![a][b] = c] = g
  OBVIOUS
<1>3. \A y \in B : h[y] = IF y = b THEN c ELSE f[a][y]
  OBVIOUS
<1> HIDE DEF h
<1>4. g \in [A -> [B -> C]] /\ \A x \in A : g[x] = IF x = a THEN h ELSE f[x]
  BY <1>1 DEF h
<1> QED
  BY <1>2, <1>3, <1>4

\* A swap gives the node its successor, and to the predecessor the node.
LEMMA SwapTypes ==
  ASSUME TypeOK, NEW i \in Inserter, NEW l \in Levels,
         preds[i][l] \in Inserter \cup {Front}
  PROVE  /\ Swapped(i, l) \in [Inserter \cup {Front} -> [Levels -> Inserter \cup {Null}]]
         /\ [tower EXCEPT ![i][l] = succs[i][l]]
              \in [Inserter \cup {Front} -> [Levels -> Inserter \cup {Null}]]
         /\ \A n \in Inserter \cup {Front}, m \in Levels :
              /\ Swapped(i, l)[n][m] = IF m = l /\ n = preds[i][l] THEN i
                                       ELSE IF m = l /\ n = i THEN succs[i][l]
                                       ELSE tower[n][m]
              /\ [tower EXCEPT ![i][l] = succs[i][l]][n][m] =
                   IF m = l /\ n = i THEN succs[i][l] ELSE tower[n][m]
<1> DEFINE A == Inserter \cup {Front}
           C == Inserter \cup {Null}
           f == [tower EXCEPT ![i][l] = succs[i][l]]
           g == [f EXCEPT ![preds[i][l]][l] = i]
<1>1. tower \in [A -> [Levels -> C]] /\ succs[i][l] \in C
  BY DEF TypeOK
<1>2. /\ f \in [A -> [Levels -> C]]
      /\ \A n \in A, m \in Levels :
           f[n][m] = IF n = i /\ m = l THEN succs[i][l] ELSE tower[n][m]
  BY <1>1, Nested
<1>3. Swapped(i, l) = g
  BY DEF Swapped
<1> HIDE DEF f
<1>4. /\ g \in [A -> [Levels -> C]]
      /\ \A n \in A, m \in Levels :
           g[n][m] = IF n = preds[i][l] /\ m = l THEN i ELSE f[n][m]
  BY <1>2, Nested
<1>5. ASSUME NEW n \in A, NEW m \in Levels
      PROVE  g[n][m] = IF m = l /\ n = preds[i][l] THEN i
                       ELSE IF m = l /\ n = i THEN succs[i][l] ELSE tower[n][m]
  BY <1>2, <1>4
<1> HIDE DEF g
<1>6. ASSUME NEW n \in A, NEW m \in Levels
      PROVE  f[n][m] = IF m = l /\ n = i THEN succs[i][l] ELSE tower[n][m]
  BY <1>2
<1>7. f = [tower EXCEPT ![i][l] = succs[i][l]]
  BY DEF f
<1> HIDE DEF A, C
<1>8. A = Inserter \cup {Front} /\ C = Inserter \cup {Null}
  BY DEF A, C
<1> QED
  BY <1>2, <1>3, <1>4, <1>5, <1>6, <1>7, <1>8

\* What find takes down.
LEMMA NoteTypes ==
  ASSUME TypeOK, NEW t \in Task, NEW next \in Inserter \cup {Null},
         pred[t] \in Inserter \cup {Front}, Note(t, next)
  PROVE  /\ preds' \in [Inserter -> [Levels -> Inserter \cup {Front, Null}]]
         /\ succs' \in [Inserter -> [Levels -> Inserter \cup {Null}]]
         /\ t \in Inserter =>
              \A i \in Inserter, l \in Levels :
                /\ preds'[i][l] = IF i = t /\ l = level[t] THEN pred[t] ELSE preds[i][l]
                /\ succs'[i][l] = IF i = t /\ l = level[t] THEN next ELSE succs[i][l]
<1>1. CASE t \in Inserter
  <2>1. level[t] \in Levels /\ pred[t] \in Inserter \cup {Front, Null}
    BY DEF TypeOK
  <2>2. preds' = [preds EXCEPT ![t][level[t]] = pred[t]]
        /\ succs' = [succs EXCEPT ![t][level[t]] = next]
    BY <1>1 DEF Note
  <2>3. preds \in [Inserter -> [Levels -> Inserter \cup {Front, Null}]]
        /\ succs \in [Inserter -> [Levels -> Inserter \cup {Null}]]
    BY DEF TypeOK
  <2> QED
    BY <1>1, <2>1, <2>2, <2>3, Nested
<1>2. CASE t \notin Inserter
  BY <1>2 DEF Note, TypeOK
<1> QED
  BY <1>1, <1>2

\* The first steps.
LEMMA Start ==
  Init => TypeOK /\ ResultType /\ PlaceInv
<1> SUFFICES ASSUME Init PROVE TypeOK /\ ResultType /\ PlaceInv
  OBVIOUS
<1> USE SkipListAssumption
<1>1. 0 \in Levels /\ 0 \in 0..MaxHeight /\ 1 \in Heights
  BY DEF Levels, Heights
<1>2. NoLinks \in [Levels -> {Null}]
  BY DEF NoLinks
<1>3. (CHOOSE v \in Version : TRUE) \in Version
  OBVIOUS
<1>4. TypeOK
  BY <1>1, <1>2, <1>3 DEF Init, TypeOK, Task
<1>5. ResultType
  BY DEF Init, ResultType, Task
<1>6. PlaceInv
  BY DEF Init, PlaceInv, InsertInv, ReadInv, Task
<1> QED
  BY <1>4, <1>5, <1>6

\* A walk moves to a node and down a level.
LEMMA WalkTypes ==
  ASSUME TypeOK, NEW t \in Task, WalkInv(t), Walk(t)
  PROVE  TypeOK'
<1> USE SkipListAssumption
<1>1. CASE ReadHeight(t)
  <2>1. PICK h \in (IF t \in Inserter THEN height[t] ELSE 1)..max_height :
          level' = [level EXCEPT ![t] = h - 1]
    BY <1>1 DEF ReadHeight
  <2>2. h - 1 \in Levels
    BY <2>1 DEF TypeOK, Heights, Levels
  <2> QED
    BY <1>1, <2>1, <2>2 DEF ReadHeight, TypeOK, Goto, nodeVars, findVars, readVars, Task
<1>2. CASE Onward(t)
  <2>1. tower[pred[t]][level[t]] \in Inserter
    BY <1>2 DEF Onward, TypeOK, WalkInv, OnLevel, Passes
  <2> QED
    BY <1>2, <2>1 DEF Onward, TypeOK, nodeVars, findVars, readVars, Task
<1>3. CASE Downward(t)
  <2>1. tower[pred[t]][level[t]] \in Inserter \cup {Null} /\ pred[t] \in Inserter \cup {Front}
    BY <1>3 DEF Downward, TypeOK, WalkInv, OnLevel
  <2>2. level[t] - 1 \in Levels
    BY <1>3 DEF Downward, TypeOK, Levels
  <2>3. /\ preds' \in [Inserter -> [Levels -> Inserter \cup {Front, Null}]]
        /\ succs' \in [Inserter -> [Levels -> Inserter \cup {Null}]]
    BY <1>3, <2>1, NoteTypes DEF Downward
  <2> QED
    BY <1>3, <2>2, <2>3 DEF Downward, TypeOK, nodeVars, readVars
<1> QED
  BY <1>1, <1>2, <1>3 DEF Walk

\* What a call forgets when it returns.
LEMMA ForgetTypes ==
  ASSUME TypeOK, NEW i \in Inserter, Forget(i)
  PROVE  /\ pred' \in [Task -> Inserter \cup {Front, Null}]
         /\ preds' \in [Inserter -> [Levels -> Inserter \cup {Front, Null}]]
         /\ succs' \in [Inserter -> [Levels -> Inserter \cup {Null}]]
<1>1. NoLinks \in [Levels -> {Null}]
  BY DEF NoLinks
<1> QED
  BY <1>1 DEF TypeOK, Forget, Task

\* The steps of an insert keep the types.
LEMMA InsertTypes ==
  ASSUME TypeOK, ResultType, PlaceInv, NEW i \in Inserter, WalkInv(i), FindInv(i),
         InsertStep(i)
  PROVE  TypeOK' /\ ResultType'
<1> USE SkipListAssumption
<1>0. i \in Task /\ InsertInv(i)
  BY DEF PlaceInv, Task
<1>1. CASE Walk(i)
  <2>1. ResultType'
    BY <1>1 DEF Walk, ReadHeight, Onward, Downward, readVars, ResultType
  <2> QED
    BY <1>0, <1>1, <2>1, WalkTypes
<1>2. CASE Duplicate(i)
  BY <1>0, <1>2, ForgetTypes DEF Duplicate, TypeOK, ResultType, Goto, nodeVars, readVars, Task
<1>3. CASE Place(i)
  <2>0. level[i] = 0 /\ 0 \in Levels
    BY <1>3 DEF Place, Levels
  <2>1. tower[pred[i]][0] \in Inserter \cup {Null} /\ pred[i] \in Inserter \cup {Front}
    BY <1>3, <2>0 DEF Place, TypeOK, WalkInv, OnLevel
  <2>2. /\ preds' \in [Inserter -> [Levels -> Inserter \cup {Front, Null}]]
        /\ succs' \in [Inserter -> [Levels -> Inserter \cup {Null}]]
    BY <1>0, <1>3, <2>1, <2>0, NoteTypes DEF Place
  <2> QED
    BY <1>3, <2>2 DEF Place, TypeOK, ResultType, Goto, nodeVars, walkVars, readVars
<1>4. CASE LinkBottom(i)
  <2>1. 0 \in Levels /\ 1 \in 0..MaxHeight /\ height[i] \in Nat /\ height[i] > 0
    BY DEF Levels, TypeOK, Heights
  <2>2. preds[i][0] \in Inserter \cup {Front}
    BY <1>0, <1>4, <2>1 DEF FindInv, Found, LinkBottom, InsertInv, OnLevel
  <2>3. tower' \in [Inserter \cup {Front} -> [Levels -> Inserter \cup {Null}]]
    BY <1>4, <2>1, <2>2, SwapTypes DEF LinkBottom
  <2> QED
    BY <1>0, <1>4, <2>1, <2>3
    DEF LinkBottom, TypeOK, ResultType, Goto, walkVars, readVars
<1>5. CASE Count(i)
  <2>1. /\ pred' \in [Task -> Inserter \cup {Front, Null}]
        /\ preds' \in [Inserter -> [Levels -> Inserter \cup {Front, Null}]]
        /\ succs' \in [Inserter -> [Levels -> Inserter \cup {Null}]]
    BY <1>5, ForgetTypes DEF Count, TypeOK
  <2>2. at' \in [Task -> {"idle", "find", "walk", "link", "count", "iterate", "done"}]
    BY <1>5 DEF Count, TypeOK, Goto
  <2> QED
    BY <1>5, <2>1, <2>2 DEF Count, TypeOK, ResultType, readVars
<1>6. CASE LinkUpper(i)
  <2>1. linking[i] \in Levels /\ linking[i] < height[i] /\ linking[i] + 1 \in 0..MaxHeight
    BY <1>0, <1>6 DEF LinkUpper, InsertInv, TypeOK, Levels, Heights
  <2>2. preds[i][linking[i]] \in Inserter \cup {Front}
    BY <1>6, <2>1 DEF FindInv, Found, LinkUpper, OnLevel, TypeOK
  <2>3. tower' \in [Inserter \cup {Front} -> [Levels -> Inserter \cup {Null}]]
    BY <1>6, <2>1, <2>2, SwapTypes DEF LinkUpper
  <2>4. /\ pred' \in [Task -> Inserter \cup {Front, Null}]
        /\ preds' \in [Inserter -> [Levels -> Inserter \cup {Front, Null}]]
        /\ succs' \in [Inserter -> [Levels -> Inserter \cup {Null}]]
    BY <1>6, ForgetTypes DEF LinkUpper, TypeOK
  <2>5. at' \in [Task -> {"idle", "find", "walk", "link", "count", "iterate", "done"}]
    BY <1>6 DEF LinkUpper, TypeOK, Goto
  <2> QED
    BY <1>6, <2>1, <2>3, <2>4, <2>5 DEF LinkUpper, TypeOK, ResultType, readVars
<1>7. CASE LinkFails(i)
  <2>1. linking[i] \in Levels /\ linking[i] < height[i]
    BY <1>0, <1>7 DEF LinkFails, InsertInv, TypeOK, Levels, Heights
  <2>2. preds[i][linking[i]] \in Inserter \cup {Front}
    BY <1>7, <2>1 DEF FindInv, Found, LinkFails, OnLevel, TypeOK
  <2>3. tower' \in [Inserter \cup {Front} -> [Levels -> Inserter \cup {Null}]]
    BY <1>7, <2>1, <2>2, SwapTypes DEF LinkFails
  <2> QED
    BY <1>7, <2>3 DEF LinkFails, TypeOK, ResultType, Goto, walkVars, findVars, readVars
<1> QED
  BY <1>1, <1>2, <1>3, <1>4, <1>5, <1>6, <1>7 DEF InsertStep

\* So do the steps of a lookup or an iteration.
LEMMA ReadTypes ==
  ASSUME TypeOK, ResultType, NEW r \in Reader, WalkInv(r), IterInv(r),
         ReadStep(r) \/ Iterate(r) \/ \E v \in Sought : GetAt(r, v)
  PROVE  TypeOK' /\ ResultType'
<1> USE SkipListAssumption
<1>0. r \in Task /\ 0 \in Levels
  BY DEF Task, Levels
<1>1. CASE Walk(r)
  <2>1. ResultType'
    BY <1>1 DEF Walk, ReadHeight, Onward, Downward, readVars, ResultType
  <2> QED
    BY <1>0, <1>1, <2>1, WalkTypes
<1>2. CASE Answer(r)
  <2>1. tower[pred[r]][0] \in Inserter \cup {Null}
    BY <1>0, <1>2 DEF Answer, TypeOK, WalkInv, OnLevel
  <2>2. tower[pred[r]][0] # Null => version[tower[pred[r]][0]] \in Version
    BY <2>1 DEF TypeOK
  <2> DEFINE res == IF /\ tower[pred[r]][0] # Null
                       /\ version[tower[pred[r]][0]][1] = target[r][1]
                    THEN {version[tower[pred[r]][0]]} ELSE {}
  <2>3. res \in SUBSET Version
    BY <2>2
  <2>4. done' = [done EXCEPT ![r] = res]
    BY <1>2 DEF Answer
  <2> HIDE DEF res
  <2>5. ResultType'
    BY <1>0, <1>2, <2>3, <2>4 DEF Answer, ResultType, readVars
  <2>6. TypeOK'
    BY <1>0, <1>2 DEF Answer, TypeOK, Goto, nodeVars, findVars
  <2> QED
    BY <2>5, <2>6
<1>3. CASE Iterate(r)
  <2>1. Present \in SUBSET Version
    BY DEF Present, TypeOK
  <2> QED
    BY <1>0, <1>3, <2>1 DEF Iterate, TypeOK, ResultType, Goto, nodeVars, findVars
<1>4. CASE Yield(r)
  <2>1. pred[r] \in Inserter /\ tower[pred[r]][0] \in Inserter \cup {Null}
    BY <1>0, <1>4 DEF Yield, IterInv, OnLevel, TypeOK
  <2>2. version[pred[r]] \in Version
    BY <2>1 DEF TypeOK
  <2>3. seen' \in [Reader -> Seq(Version)]
    BY <1>4, <2>2 DEF Yield, ResultType
  <2> QED
    BY <1>0, <1>4, <2>1, <2>3 DEF Yield, TypeOK, ResultType, nodeVars, findVars
<1>5. CASE Exhausted(r)
  BY <1>5 DEF Exhausted, TypeOK, ResultType, Goto, nodeVars, walkVars, findVars, readVars
<1>6. ASSUME NEW v \in Sought, GetAt(r, v) PROVE TypeOK' /\ ResultType'
  BY <1>6 DEF GetAt, TypeOK, ResultType, Goto, nodeVars, findVars, readVars
<1> QED
  BY <1>1, <1>2, <1>3, <1>4, <1>5, <1>6 DEF ReadStep

\* So does every step.
LEMMA TypeStep ==
  ASSUME IInv, [Next]_vars
  PROVE  TypeOK' /\ ResultType'
<1> USE SkipListAssumption DEF IInv
<1>1. ASSUME NEW i \in Inserter, NEW v \in Version, NEW h \in Heights, Insert(i, v, h)
      PROVE  TypeOK' /\ ResultType'
  <2>1. max_height' \in Heights
    BY <1>1 DEF Insert, TypeOK
  <2> QED
    BY <1>1, <2>1 DEF Insert, TypeOK, ResultType, Goto, findVars, readVars
<1>2. ASSUME NEW i \in Inserter, InsertStep(i) PROVE TypeOK' /\ ResultType'
  BY <1>2, InsertTypes DEF Task
<1>3. ASSUME NEW r \in Reader, ReadStep(r) \/ Iterate(r) \/ \E v \in Sought : GetAt(r, v)
      PROVE  TypeOK' /\ ResultType'
  BY <1>3, ReadTypes DEF Task
<1>4. CASE UNCHANGED vars
  BY <1>4 DEF vars, nodeVars, walkVars, findVars, readVars, TypeOK, ResultType
<1> QED
  BY <1>1, <1>2, <1>3, <1>4 DEF Next

-----------------------------------------------------------------------------
(* Places.                                                                 *)

\* Every task is where its locals say.
LEMMA PlaceStep ==
  ASSUME IInv, [Next]_vars
  PROVE  PlaceInv'
<1> USE SkipListAssumption DEF IInv
<1>0. /\ \A i \in Inserter : i \in Task /\ i \notin Reader
      /\ \A r \in Reader : r \in Task /\ r \notin Inserter
  BY DEF Task
<1>1. ASSUME NEW i \in Inserter, NEW v \in Version, NEW h \in Heights, Insert(i, v, h)
      PROVE  PlaceInv'
  <2>1. /\ at[i] = "idle" /\ at' = [at EXCEPT ![i] = "find"]
        /\ height' = [height EXCEPT ![i] = h] /\ version' = [version EXCEPT ![i] = v]
        /\ target' = [target EXCEPT ![i] = v]
        /\ max_height' = IF h > max_height THEN h ELSE max_height
        /\ UNCHANGED <<linking, atStart, seen, done>>
    BY <1>1 DEF Insert, Goto, findVars, readVars
  <2>2. /\ max_height \in Nat /\ h \in Nat /\ h > 0
        /\ \A j \in Inserter : height[j] \in Nat
    BY DEF TypeOK, Heights
  <2>3. max_height' \in Nat /\ max_height <= max_height' /\ h <= max_height'
    BY <2>1, <2>2
  <2>4. InsertInv(i)'
    BY <1>0, <2>1, <2>2, <2>3 DEF PlaceInv, InsertInv, TypeOK
  <2>5. ASSUME NEW j \in Inserter, j # i PROVE InsertInv(j)'
    <3>1. /\ at'[j] = at[j] /\ height'[j] = height[j] /\ version'[j] = version[j]
          /\ target'[j] = target[j] /\ linking'[j] = linking[j] /\ done'[j] = done[j]
      BY <1>0, <2>1, <2>5 DEF TypeOK
    <3>2. InsertInv(j)
      BY DEF PlaceInv
    <3> QED
      BY <3>1, <3>2, <2>2, <2>3 DEF InsertInv
  <2>6. \A r \in Reader : ReadInv(r)'
    BY <1>0, <2>1 DEF PlaceInv, ReadInv, TypeOK
  <2> QED
    BY <2>4, <2>5, <2>6 DEF PlaceInv
<1>2. ASSUME NEW i \in Inserter, InsertStep(i) PROVE PlaceInv'
  <2>1. CASE ReadHeight(i)
    BY <1>0, <1>2, <2>1
    DEF ReadHeight, PlaceInv, InsertInv, ReadInv, TypeOK, Goto, nodeVars, findVars, readVars
  <2>2. CASE Onward(i)
    BY <1>0, <2>2
    DEF Onward, PlaceInv, InsertInv, ReadInv, nodeVars, findVars, readVars
  <2>3. CASE Downward(i)
    BY <1>0, <2>3
    DEF Downward, PlaceInv, InsertInv, ReadInv, nodeVars, readVars
  <2>4. CASE Duplicate(i)
    BY <1>0, <2>4
    DEF Duplicate, PlaceInv, InsertInv, ReadInv, TypeOK, ResultType, Goto, nodeVars, readVars
  <2>5. CASE Place(i)
    BY <1>0, <2>5
    DEF Place, PlaceInv, InsertInv, ReadInv, TypeOK, Goto, nodeVars, walkVars, readVars
  <2>6. CASE LinkBottom(i)
    <3>1. /\ at' = [at EXCEPT ![i] = "count"] /\ linking' = [linking EXCEPT ![i] = 1]
          /\ done' = [done EXCEPT ![i] = TRUE]
          /\ UNCHANGED <<version, height, max_height, target, readVars>>
      BY <2>6 DEF LinkBottom, Goto, walkVars
    <3>2. InsertInv(i)'
      BY <1>0, <2>6, <3>1 DEF LinkBottom, PlaceInv, InsertInv, TypeOK, Heights
    <3>3. \A j \in Inserter : InsertInv(j)'
      BY <1>0, <3>1, <3>2 DEF PlaceInv, InsertInv, TypeOK, ResultType
    <3>4. \A r \in Reader : ReadInv(r)'
      BY <1>0, <3>1 DEF PlaceInv, ReadInv, TypeOK, ResultType, readVars
    <3> QED
      BY <3>3, <3>4 DEF PlaceInv
  <2>7. CASE Count(i)
    BY <1>0, <2>7
    DEF Count, PlaceInv, InsertInv, ReadInv, TypeOK, Goto, Heights, readVars
  <2>8. CASE LinkUpper(i)
    <3>1. /\ at[i] = "link" /\ linking' = [linking EXCEPT ![i] = linking[i] + 1]
          /\ at' = IF linking[i] + 1 < height[i] THEN at ELSE [at EXCEPT ![i] = "done"]
          /\ UNCHANGED <<version, height, max_height, target, readVars, done>>
      BY <2>8 DEF LinkUpper, Goto
    <3>2. InsertInv(i)'
      BY <1>0, <3>1 DEF PlaceInv, InsertInv, TypeOK, Heights
    <3>3. \A j \in Inserter : InsertInv(j)'
      BY <1>0, <3>1, <3>2 DEF PlaceInv, InsertInv, TypeOK
    <3>4. \A r \in Reader : ReadInv(r)'
      BY <1>0, <3>1 DEF PlaceInv, ReadInv, TypeOK, readVars
    <3> QED
      BY <3>3, <3>4 DEF PlaceInv
  <2>9. CASE LinkFails(i)
    BY <1>0, <2>9
    DEF LinkFails, PlaceInv, InsertInv, ReadInv, TypeOK, Goto, walkVars, findVars, readVars
  <2> QED
    BY <1>2, <2>1, <2>2, <2>3, <2>4, <2>5, <2>6, <2>7, <2>8, <2>9 DEF InsertStep, Walk
<1>3. ASSUME NEW r \in Reader, ReadStep(r) \/ Iterate(r) \/ \E v \in Sought : GetAt(r, v)
      PROVE  PlaceInv'
  <2>1. CASE ReadHeight(r)
    BY <1>0, <2>1
    DEF ReadHeight, PlaceInv, InsertInv, ReadInv, TypeOK, Goto, nodeVars, findVars, readVars
  <2>2. CASE Onward(r)
    BY <1>0, <2>2
    DEF Onward, PlaceInv, InsertInv, ReadInv, nodeVars, findVars, readVars
  <2>3. CASE Downward(r)
    BY <1>0, <2>3
    DEF Downward, PlaceInv, InsertInv, ReadInv, nodeVars, readVars
  <2>4. CASE Answer(r)
    BY <1>0, <2>4
    DEF Answer, PlaceInv, InsertInv, ReadInv, TypeOK, ResultType, Goto, nodeVars,
        findVars, readVars
  <2>5. CASE Iterate(r)
    BY <1>0, <2>5
    DEF Iterate, PlaceInv, InsertInv, ReadInv, TypeOK, ResultType, Goto, nodeVars, findVars
  <2>6. CASE Yield(r)
    BY <1>0, <2>6
    DEF Yield, PlaceInv, InsertInv, ReadInv, TypeOK, ResultType, nodeVars, findVars
  <2>7. CASE Exhausted(r)
    BY <1>0, <2>7
    DEF Exhausted, PlaceInv, InsertInv, ReadInv, TypeOK, Goto, nodeVars, walkVars,
        findVars, readVars
  <2>8. ASSUME NEW v \in Sought, GetAt(r, v) PROVE PlaceInv'
    BY <1>0, <2>8
    DEF GetAt, PlaceInv, InsertInv, ReadInv, TypeOK, Goto, nodeVars, findVars, readVars
  <2> QED
    BY <1>3, <2>1, <2>2, <2>3, <2>4, <2>5, <2>6, <2>7, <2>8 DEF ReadStep, Walk
<1>4. CASE UNCHANGED vars
  BY <1>4 DEF vars, nodeVars, walkVars, findVars, readVars, PlaceInv, InsertInv, ReadInv
<1> QED
  BY <1>1, <1>2, <1>3, <1>4 DEF Next

-----------------------------------------------------------------------------
(* The levels.                                                             *)

\* A step that does not touch the list.
Quiet == UNCHANGED <<tower, version, linking>>

\* The steps that do.
LEMMA ListActions ==
  ASSUME [Next]_vars
  PROVE  \/ Quiet
         \/ \E i \in Inserter :
              \/ \E v \in Version, h \in Heights : Insert(i, v, h)
              \/ LinkBottom(i) \/ LinkUpper(i) \/ LinkFails(i)
<1> USE DEF Quiet, vars, nodeVars, walkVars, findVars, readVars
<1>1. ASSUME NEW t \in Task, Walk(t) PROVE Quiet
  BY <1>1 DEF Walk, ReadHeight, Onward, Downward
<1>2. ASSUME NEW i \in Inserter, Duplicate(i) \/ Place(i) \/ Count(i) PROVE Quiet
  BY <1>2 DEF Duplicate, Place, Count
<1>3. ASSUME NEW r \in Reader, ReadStep(r) \/ Iterate(r) \/ \E v \in Sought : GetAt(r, v)
      PROVE  Quiet
  BY <1>1, <1>3 DEF ReadStep, Answer, Yield, Exhausted, Iterate, GetAt, Task
<1>4. CASE UNCHANGED vars
  BY <1>4
<1> QED
  BY <1>1, <1>2, <1>3, <1>4 DEF Next, InsertStep, Task

\* Nodes are never taken from a level, and a node that is linked keeps its
\* version.
LEMMA Grows ==
  ASSUME IInv, [Next]_vars
  PROVE  /\ \A i \in Inserter : /\ linking[i] <= linking'[i]
                                /\ linking[i] > 0 => version'[i] = version[i]
         /\ \A l \in Levels : OnLevel(l) \subseteq OnLevel(l)'
<1> USE SkipListAssumption DEF IInv
<1>1. CASE Quiet
  BY <1>1 DEF Quiet, OnLevel, TypeOK
<1>2. ASSUME NEW i \in Inserter, NEW v \in Version, NEW h \in Heights, Insert(i, v, h)
      PROVE  /\ linking' = linking /\ linking[i] = 0
             /\ \A j \in Inserter \ {i} : version'[j] = version[j]
  BY <1>2 DEF Insert, PlaceInv, InsertInv, TypeOK, findVars
<1>3. ASSUME NEW i \in Inserter, LinkBottom(i) \/ LinkUpper(i)
      PROVE  version' = version /\ linking' = [linking EXCEPT ![i] = linking[i] + 1]
  BY <1>3 DEF LinkBottom, LinkUpper, TypeOK
<1>4. ASSUME NEW i \in Inserter, LinkFails(i)
      PROVE  version' = version /\ linking' = linking
  BY <1>4 DEF LinkFails, findVars
<1>5. \A i \in Inserter : /\ linking[i] <= linking'[i]
                          /\ linking[i] > 0 => version'[i] = version[i]
  <2>1. \A i \in Inserter : linking[i] \in Nat
    BY DEF TypeOK
  <2>2. CASE Quiet
    BY <2>1, <2>2 DEF Quiet
  <2>3. CASE \E i \in Inserter : \E v \in Version, h \in Heights : Insert(i, v, h)
    <3>1. PICK i \in Inserter, v \in Version, h \in Heights : Insert(i, v, h)
      BY <2>3
    <3>2. /\ linking' = linking /\ linking[i] = 0
          /\ \A j \in Inserter \ {i} : version'[j] = version[j]
      BY <1>2, <3>1
    <3> QED
      BY <2>1, <3>2
  <2>4. CASE \E i \in Inserter : LinkBottom(i) \/ LinkUpper(i)
    <3>1. PICK i \in Inserter : LinkBottom(i) \/ LinkUpper(i)
      BY <2>4
    <3>2. version' = version /\ linking' = [linking EXCEPT ![i] = linking[i] + 1]
      BY <1>3, <3>1
    <3>3. linking \in [Inserter -> 0..MaxHeight]
      BY DEF TypeOK
    <3> QED
      BY <2>1, <3>2, <3>3
  <2>5. CASE \E i \in Inserter : LinkFails(i)
    BY <1>4, <2>1, <2>5
  <2> QED
    BY <2>2, <2>3, <2>4, <2>5, ListActions
<1>6. \A i \in Inserter : linking[i] \in Nat /\ linking'[i] \in Nat
  BY TypeStep DEF TypeOK
<1>7. \A l \in Levels : OnLevel(l) \subseteq OnLevel(l)'
  BY <1>5, <1>6 DEF OnLevel, Levels
<1> QED
  BY <1>5, <1>7

\* A level whose pointers and versions stay is as good as before.
LEMMA Kept ==
  ASSUME SkipListAssumption, NEW l \in Levels, LevelInv(l), OnLevel(l)' = OnLevel(l),
         \A n \in OnLevel(l) \cup {Front} : tower'[n][l] = tower[n][l],
         \A n \in OnLevel(l) : version'[n] = version[n]
  PROVE  LevelInv(l)'
<1> DEFINE L == OnLevel(l)
<1>0. L \subseteq Inserter /\ Null \notin L /\ Front \notin L /\ Front # Null
  BY DEF OnLevel, SkipListAssumption
<1>1. Closed(L, l)
  BY DEF LevelInv, ChainInv
<1>2. Closed(L, l)'
  BY <1>1 DEF Closed
<1>3. ASSUME NEW nodes \in SUBSET Inserter, Closed(nodes, l)' PROVE L \subseteq nodes
  <2>1. Closed(nodes \cap L, l)
    BY <1>0, <1>1, <1>3 DEF Closed
  <2>2. nodes \cap L \in SUBSET Inserter
    OBVIOUS
  <2>3. L \subseteq nodes \cap L
    BY <2>1, <2>2 DEF LevelInv, ChainInv
  <2> QED
    BY <2>3
<1>4. ChainInv(l)'
  BY <1>2, <1>3 DEF ChainInv
<1>5. SortedInv(l)'
  BY <1>0, <1>1 DEF LevelInv, SortedInv, Closed
<1>6. GapInv(l)'
  BY <1>0, <1>1 DEF LevelInv, GapInv, Closed
<1> QED
  BY <1>4, <1>5, <1>6 DEF LevelInv

\* The nodes on a level above are on every level below.
LEMMA Nesting ==
  ASSUME TypeOK, NEW l \in Levels, NEW m \in Levels, m <= l
  PROVE  OnLevel(l) \subseteq OnLevel(m)
  BY DEF OnLevel, TypeOK, Levels

\* A node is linked between the nodes that find took down, if they are still
\* neighbours.
LEMMA Splice ==
  ASSUME IInv, NEW i \in Inserter, NEW l \in Levels, linking[i] = l,
         Found(i, l), Unmoved(i, l),
         tower' = Swapped(i, l), linking' = [linking EXCEPT ![i] = l + 1],
         UNCHANGED version
  PROVE  ListInv' /\ (l = 0 => \A j \in OnLevel(0) : version[j] # version[i])
<1> USE SkipListAssumption DEF IInv
<1> DEFINE L == OnLevel(l)
           p == preds[i][l]
           s == succs[i][l]
<1>0. /\ \A n \in Inserter : version[n] \in Nat \X Nat /\ linking[n] \in Nat
      /\ L \subseteq Inserter /\ Null \notin Inserter \cup {Front} /\ Front \notin Inserter
      /\ l \in Nat /\ 0 \in Levels
  BY DEF TypeOK, OnLevel, Levels
<1>1. /\ p \in L \cup {Front} /\ s \in L \cup {Null} /\ i \notin L /\ p # i /\ s # i
      /\ p # Front => Less(version[p], version[i])
      /\ tower[p][l] = s
  BY <1>0 DEF Found, Unmoved, OnLevel
<1>2. s # Null => Less(version[i], version[s])
  <2>1. SUFFICES ASSUME s # Null PROVE version[s] # version[i]
    BY <1>0, <1>1, Order DEF Found
  <2>2. CASE l = 0
    BY <2>1, <2>2 DEF Found
  <2>3. CASE l > 0
    <3>1. i \in OnLevel(0) /\ s \in OnLevel(0)
      BY <1>0, <1>1, <2>1, <2>3 DEF OnLevel
    <3> QED
      BY <1>1, <3>1 DEF ListInv, UniqueInv
  <2> QED
    BY <1>0, <2>2, <2>3
<1>3. LevelInv(l)
  BY DEF ListInv
\* What is on the level is before the predecessor or behind the successor.
<1>4. ASSUME NEW j \in L
      PROVE  \/ p # Front /\ ~Less(version[p], version[j])
             \/ s # Null /\ ~Less(version[j], version[s])
  BY <1>1, <1>3 DEF LevelInv, GapInv
<1>5. ASSUME NEW j \in L
      PROVE  \/ p # Front /\ Less(version[j], version[i])
             \/ s # Null /\ Less(version[i], version[j])
  <2>1. CASE p # Front /\ ~Less(version[p], version[j])
    BY <1>0, <1>1, <2>1, Weak
  <2>2. CASE s # Null /\ ~Less(version[j], version[s])
    BY <1>0, <1>1, <1>2, <2>2, Weak
  <2> QED
    BY <1>4, <2>1, <2>2
<1>6. \A j \in L : version[j] # version[i]
  BY <1>0, <1>5, Order
\* The new level.
<1>7. /\ OnLevel(l)' = L \cup {i}
      /\ \A m \in Levels \ {l} : OnLevel(m)' = OnLevel(m)
  BY <1>0 DEF OnLevel, TypeOK, Levels
<1>8. /\ \A n \in Inserter \cup {Front}, m \in Levels :
           tower'[n][m] = IF m = l /\ n = p THEN i
                          ELSE IF m = l /\ n = i THEN s ELSE tower[n][m]
  BY <1>0, <1>1, SwapTypes
<1>9. tower'[p][l] = i /\ tower'[i][l] = s
      /\ \A n \in (L \cup {Front}) \ {p} : tower'[n][l] = tower[n][l]
  BY <1>0, <1>1, <1>8
<1> HIDE DEF p, s
<1>10. Closed(L, l) /\ \A nodes \in SUBSET Inserter : Closed(nodes, l) => L \subseteq nodes
  BY <1>3 DEF LevelInv, ChainInv
<1>11. ChainInv(l)'
  <2>0. \A n \in L \cup {Front} : tower'[n][l] \in L \cup {i, Null}
    BY <1>0, <1>1, <1>9, <1>10 DEF Closed
  <2>1. Closed(OnLevel(l), l)'
    <3>1. tower'[i][l] \in L \cup {i, Null}
      BY <1>1, <1>9
    <3> QED
      BY <1>7, <2>0, <3>1 DEF Closed
  <2>2. ASSUME NEW nodes \in SUBSET Inserter, Closed(nodes, l)'
        PROVE  L \cup {i} \subseteq nodes
    <3>1. p \in nodes \cup {Front} => i \in nodes /\ s \in nodes \cup {Null}
      BY <1>0, <1>9, <2>2 DEF Closed
    <3>2. tower[Front][l] \in nodes \cup {Null}
      BY <1>1, <1>9, <2>2, <3>1 DEF Closed
    <3>3. \A n \in nodes \cap L : tower[n][l] \in nodes \cup {Null}
      BY <1>1, <1>9, <2>2, <3>1 DEF Closed
    <3>4. Closed(nodes \cap L, l)
      BY <1>10, <3>2, <3>3 DEF Closed
    <3>5. L \subseteq nodes
      BY <1>10, <3>4
    <3> QED
      BY <1>1, <3>1, <3>5
  <2> QED
    BY <1>7, <2>1, <2>2 DEF ChainInv
<1>12. SortedInv(l)'
  <2>1. ASSUME NEW n \in L \cup {i}, tower'[n][l] # Null
        PROVE  Less(version[n], version[tower'[n][l]])
    <3>1. CASE n = p
      BY <1>0, <1>1, <1>9, <3>1
    <3>2. CASE n = i
      BY <1>2, <1>9, <2>1, <3>2
    <3>3. CASE n \in L \ {p}
      BY <1>3, <1>9, <2>1, <3>3 DEF LevelInv, SortedInv
    <3> QED
      BY <2>1, <3>1, <3>2, <3>3
  <2> QED
    BY <1>7, <2>1 DEF SortedInv
<1>13. GapInv(l)'
  <2>1. ASSUME NEW n \in L \cup {i, Front}, NEW j \in L \cup {i}
        PROVE  \/ n # Front /\ ~Less(version[n], version[j])
               \/ tower'[n][l] # Null /\ ~Less(version[j], version[tower'[n][l]])
    <3>0. /\ \A u \in Nat \X Nat : ~Less(u, u)
          /\ \A u, v \in Nat \X Nat : Less(u, v) => ~Less(v, u)
      BY Order
    <3>1. CASE n = p
      <4>1. CASE j = i
        BY <1>0, <1>9, <3>0, <3>1, <4>1
      <4>2. CASE j \in L
        <5>1. CASE p # Front /\ ~Less(version[p], version[j])
          BY <3>1, <5>1
        <5>2. CASE s # Null /\ ~Less(version[j], version[s])
          <6>1. ~Less(version[j], version[i])
            BY <1>0, <1>1, <1>2, <3>0, <4>2, <5>2, Weak
          <6> QED
            BY <1>0, <1>9, <3>1, <6>1
        <5> QED
          BY <1>4, <4>2, <5>1, <5>2
      <4> QED
        BY <4>1, <4>2
    <3>2. CASE n = i
      <4>1. CASE j = i
        BY <1>0, <3>0, <3>2, <4>1
      <4>2. CASE j \in L
        <5>1. CASE p # Front /\ ~Less(version[p], version[j])
          <6>1. ~Less(version[i], version[j])
            BY <1>0, <1>1, <3>0, <4>2, <5>1, Weak
          <6> QED
            BY <1>0, <3>2, <6>1
        <5>2. CASE s # Null /\ ~Less(version[j], version[s])
          BY <1>9, <3>2, <5>2
        <5> QED
          BY <1>4, <4>2, <5>1, <5>2
      <4> QED
        BY <4>1, <4>2
    <3>3. CASE n # p /\ n # i /\ j # i
      BY <1>3, <1>9, <2>1, <3>3 DEF LevelInv, GapInv
    <3>4. CASE n # p /\ n # i /\ j = i
      <4> DEFINE next == tower[n][l]
      <4>0. tower'[n][l] = next /\ next \in L \cup {Null}
        BY <1>9, <1>10, <2>1, <3>4 DEF Closed
      <4> HIDE DEF next
      \* If the next node is not behind the predecessor, it is not behind the new one.
      <4>1. p \in L /\ next # Null /\ ~Less(version[p], version[next])
              => ~Less(version[i], version[next])
        BY <1>0, <1>1, <3>0, <4>0, Weak
      <4>2. CASE n = Front
        <5>1. p \in L
          BY <1>1, <3>4, <4>2
        <5>2. next # Null /\ ~Less(version[p], version[next])
          BY <1>3, <4>2, <5>1 DEF LevelInv, GapInv, next
        <5> QED
          BY <3>4, <4>0, <4>1, <5>1, <5>2
      <4>3. CASE n \in L /\ Less(version[i], version[n])
        BY <1>0, <3>0, <3>4, <4>3
      <4>4. CASE n \in L /\ Less(version[n], version[i])
        <5>1. ASSUME s # Null, ~Less(version[n], version[s]) PROVE FALSE
          BY <1>0, <1>1, <1>2, <3>0, <4>4, <5>1, Weak
        <5>2. p \in L
          BY <1>1, <1>4, <4>4, <5>1
        <5>3. Less(version[n], version[p])
          <6>1. Less(version[p], version[n]) => FALSE
            BY <1>4, <4>4, <5>1
          <6>2. version[p] # version[n]
            <7>1. p \in OnLevel(0) /\ n \in OnLevel(0)
              BY <1>0, <4>4, <5>2 DEF OnLevel
            <7> QED
              BY <3>4, <7>1 DEF ListInv, UniqueInv
          <6> QED
            BY <1>0, <4>4, <5>2, <6>1, <6>2, Order
        <5>4. next # Null /\ ~Less(version[p], version[next])
          BY <1>3, <4>4, <5>2, <5>3 DEF LevelInv, GapInv, next
        <5> QED
          BY <3>4, <4>0, <4>1, <5>2, <5>4
      <4> QED
        BY <1>5, <2>1, <3>4, <4>2, <4>3, <4>4
    <3> QED
      BY <3>1, <3>2, <3>3, <3>4
  <2> QED
    BY <1>7, <2>1 DEF GapInv
\* The other levels and the versions.
<1>14. ASSUME NEW m \in Levels, m # l PROVE LevelInv(m)'
  <2>1. \A n \in OnLevel(m) \cup {Front} : tower'[n][m] = tower[n][m]
    BY <1>8, <1>14 DEF OnLevel
  <2>2. OnLevel(m)' = OnLevel(m) /\ LevelInv(m) /\ \A n \in OnLevel(m) : version'[n] = version[n]
    BY <1>7, <1>14 DEF ListInv
  <2> QED
    BY <2>1, <2>2, Kept
<1>15. UniqueInv'
  <2>1. CASE l = 0
    BY <1>6, <1>7, <2>1 DEF ListInv, UniqueInv
  <2>2. CASE l # 0
    <3>1. OnLevel(0)' = OnLevel(0)
      BY <1>0, <1>7, <2>2
    <3> QED
      BY <3>1 DEF ListInv, UniqueInv
  <2> QED
    BY <2>1, <2>2
<1>16. \A m \in Levels : LevelInv(m)'
  BY <1>11, <1>12, <1>13, <1>14 DEF LevelInv
<1> QED
  BY <1>6, <1>15, <1>16 DEF ListInv

\* Where a node is linked it belongs.
LEMMA LinkFound ==
  ASSUME IInv, NEW i \in Inserter, at[i] = "link"
  PROVE  linking[i] \in Levels /\ linking[i] < height[i] /\ Found(i, linking[i])
<1>1. linking[i] \in Levels /\ linking[i] < height[i] /\ linking[i] <= linking[i]
  BY SkipListAssumption DEF IInv, PlaceInv, InsertInv, TypeOK, Levels, Heights
<1>2. FindInv(i)
  BY DEF IInv
<1> QED
  BY <1>1, <1>2 DEF FindInv

\* Every level stays complete, sorted and without a gap.
LEMMA ListStep ==
  ASSUME IInv, [Next]_vars
  PROVE  ListInv'
<1> USE SkipListAssumption DEF IInv
<1>0. 0 \in Levels /\ \A l \in Levels : OnLevel(l) \subseteq Inserter
  BY DEF Levels, OnLevel
<1>1. ASSUME linking' = linking, \A n \in OnLevel(0) : version'[n] = version[n],
             \A l \in Levels : \A n \in OnLevel(l) \cup {Front} : tower'[n][l] = tower[n][l]
      PROVE  ListInv'
  <2>1. \A l \in Levels : OnLevel(l)' = OnLevel(l)
    BY <1>1 DEF OnLevel
  <2>2. \A l \in Levels : OnLevel(l) \subseteq OnLevel(0)
    BY <1>0, Nesting DEF Levels
  <2>3. \A l \in Levels : LevelInv(l)'
    BY <1>1, <2>1, <2>2, Kept DEF ListInv
  <2>4. UniqueInv'
    BY <1>0, <1>1, <2>1 DEF ListInv, UniqueInv
  <2> QED
    BY <2>3, <2>4 DEF ListInv
<1>2. CASE Quiet
  BY <1>1, <1>2 DEF Quiet
<1>3. ASSUME NEW i \in Inserter, NEW v \in Version, NEW h \in Heights, Insert(i, v, h)
      PROVE  ListInv'
  <2>1. linking' = linking /\ tower' = tower
    BY <1>3 DEF Insert, findVars
  <2>2. \A n \in OnLevel(0) : version'[n] = version[n]
    BY <1>3, Grows DEF OnLevel, TypeOK
  <2> QED
    BY <1>1, <2>1, <2>2
<1>4. ASSUME NEW i \in Inserter, LinkBottom(i) PROVE ListInv'
  <2>1. linking[i] = 0 /\ Found(i, 0)
    BY <1>4, LinkFound DEF LinkBottom
  <2>2. /\ Unmoved(i, 0) /\ tower' = Swapped(i, 0)
        /\ linking' = [linking EXCEPT ![i] = 0 + 1] /\ UNCHANGED version
    BY <1>4 DEF LinkBottom
  <2> QED
    BY <1>0, <2>1, <2>2, Splice
<1>5. ASSUME NEW i \in Inserter, LinkUpper(i) PROVE ListInv'
  <2>1. linking[i] \in Levels /\ Found(i, linking[i])
    BY <1>5, LinkFound DEF LinkUpper
  <2>2. /\ Unmoved(i, linking[i]) /\ tower' = Swapped(i, linking[i])
        /\ linking' = [linking EXCEPT ![i] = linking[i] + 1] /\ UNCHANGED version
    BY <1>5 DEF LinkUpper
  <2> QED
    BY <2>1, <2>2, Splice
<1>6. ASSUME NEW i \in Inserter, LinkFails(i) PROVE ListInv'
  <2>1. linking[i] \in Levels /\ Found(i, linking[i])
    BY <1>6, LinkFound DEF LinkFails
  <2>2. /\ tower' = [tower EXCEPT ![i][linking[i]] = succs[i][linking[i]]]
        /\ linking' = linking /\ version' = version
    BY <1>6 DEF LinkFails, findVars
  <2>3. preds[i][linking[i]] \in Inserter \cup {Front}
    BY <1>0, <2>1 DEF Found
  <2>4. \A n \in Inserter \cup {Front}, m \in Levels :
          ~(n = i /\ m = linking[i]) => tower'[n][m] = tower[n][m]
    BY <2>1, <2>2, <2>3, SwapTypes
  <2>5. i \notin OnLevel(linking[i])
    BY DEF OnLevel, TypeOK
  <2> QED
    BY <1>0, <1>1, <2>2, <2>4, <2>5
<1> QED
  BY <1>2, <1>3, <1>4, <1>5, <1>6, ListActions

-----------------------------------------------------------------------------
(* The walks.                                                              *)

\* What of the variables is a task's own.
Same(u) ==
    /\ at'[u] = at[u] /\ done'[u] = done[u]
    /\ target'[u] = target[u] /\ pred'[u] = pred[u] /\ level'[u] = level[u]
    /\ u \in Inserter =>
         /\ version'[u] = version[u] /\ height'[u] = height[u]
         /\ linking'[u] = linking[u]
         /\ preds'[u] = preds[u] /\ succs'[u] = succs[u]
    /\ u \in Reader => seen'[u] = seen[u] /\ atStart'[u] = atStart[u]

\* A step changes that of one task only.
LEMMA Alone ==
  ASSUME IInv, [Next]_vars
  PROVE  \/ \A u \in Task : Same(u)
         \/ \E i \in Inserter :
              /\ InsertStep(i) \/ \E v \in Version, h \in Heights : Insert(i, v, h)
              /\ \A u \in Task \ {i} : Same(u)
         \/ \E r \in Reader :
              /\ ReadStep(r) \/ Iterate(r) \/ \E v \in Sought : GetAt(r, v)
              /\ \A u \in Task \ {r} : Same(u)
<1> USE SkipListAssumption DEF IInv, Same, Goto
<1>0. Inserter \subseteq Task /\ Reader \subseteq Task
  BY DEF Task
<1> DEFINE Others(t) == \A u \in Task \ {t} : Same(u)
<1>1. ASSUME NEW t \in Task, Walk(t) PROVE Others(t)
  <2>1. CASE ReadHeight(t)
    BY <2>1 DEF ReadHeight, TypeOK, nodeVars, findVars, readVars
  <2>2. CASE Onward(t)
    BY <2>2 DEF Onward, TypeOK, nodeVars, findVars, readVars
  <2>3. CASE Downward(t)
    BY <2>3 DEF Downward, Note, TypeOK, nodeVars, readVars
  <2> QED
    BY <1>1, <2>1, <2>2, <2>3 DEF Walk
<1>2. ASSUME NEW i \in Inserter, InsertStep(i) PROVE Others(i)
  <2>1. CASE Duplicate(i)
    BY <2>1 DEF Duplicate, Forget, TypeOK, ResultType, nodeVars, readVars
  <2>2. CASE Place(i)
    BY <2>2 DEF Place, Note, TypeOK, nodeVars, walkVars, readVars
  <2>3. CASE LinkBottom(i)
    BY <2>3 DEF LinkBottom, TypeOK, ResultType, walkVars, readVars
  <2>4. CASE Count(i)
    BY <2>4 DEF Count, Forget, TypeOK, readVars
  <2>5. CASE LinkUpper(i)
    BY <2>5 DEF LinkUpper, Forget, TypeOK, readVars
  <2>6. CASE LinkFails(i)
    BY <2>6 DEF LinkFails, TypeOK, walkVars, findVars, readVars
  <2> QED
    BY <1>0, <1>1, <1>2, <2>1, <2>2, <2>3, <2>4, <2>5, <2>6 DEF InsertStep
<1>3. ASSUME NEW i \in Inserter, NEW v \in Version, NEW h \in Heights, Insert(i, v, h)
      PROVE  Others(i)
  BY <1>3 DEF Insert, TypeOK, findVars, readVars
<1>4. ASSUME NEW r \in Reader, ReadStep(r) \/ Iterate(r) \/ \E v \in Sought : GetAt(r, v)
      PROVE  Others(r)
  <2>1. CASE Answer(r)
    BY <2>1 DEF Answer, TypeOK, ResultType, nodeVars, findVars, readVars
  <2>2. CASE Yield(r)
    BY <2>2 DEF Yield, TypeOK, ResultType, nodeVars, findVars
  <2>3. CASE Exhausted(r)
    BY <2>3 DEF Exhausted, TypeOK, nodeVars, walkVars, findVars, readVars
  <2>4. CASE Iterate(r)
    BY <2>4 DEF Iterate, TypeOK, ResultType, nodeVars, findVars
  <2>5. ASSUME NEW v \in Sought, GetAt(r, v) PROVE Others(r)
    BY <2>5 DEF GetAt, TypeOK, nodeVars, findVars, readVars
  <2> QED
    BY <1>0, <1>1, <1>4, <2>1, <2>2, <2>3, <2>4, <2>5 DEF ReadStep
<1>5. CASE UNCHANGED vars
  BY <1>5 DEF vars, nodeVars, walkVars, findVars, readVars
<1> HIDE DEF Others, Same
<1> QED
  BY <1>2, <1>3, <1>4, <1>5 DEF Next, Others

\* A pointer leads from a node of a level, or from its start, to another.
LEMMA Pointer ==
  ASSUME IInv, NEW l \in Levels, NEW n \in OnLevel(l) \cup {Front}
  PROVE  tower[n][l] \in OnLevel(l) \cup {Null}
  BY DEF IInv, ListInv, LevelInv, ChainInv, Closed

\* A walk stays on the level it is on.
LEMMA WalkStep ==
  ASSUME IInv, [Next]_vars, NEW t \in Task
  PROVE  WalkInv(t)'
<1> USE SkipListAssumption
<1>0. /\ WalkInv(t) /\ TypeOK /\ level[t] \in Levels /\ 0 \in Levels
      /\ \A l \in Levels : OnLevel(l) \subseteq OnLevel(l)'
      /\ \A l \in Levels : \A n \in OnLevel(l) : version'[n] = version[n] /\ n # Front
  <2>1. WalkInv(t) /\ TypeOK /\ level[t] \in Levels /\ 0 \in Levels
    BY DEF IInv, TypeOK, Levels
  <2>2. \A l \in Levels : \A n \in OnLevel(l) : n \in Inserter /\ linking[n] > 0
    BY <2>1 DEF OnLevel, TypeOK, Levels
  <2> QED
    BY <2>1, <2>2, Grows
<1>1. CASE Same(t)
  <2>1. at'[t] = at[t] /\ level'[t] = level[t] /\ pred'[t] = pred[t] /\ target'[t] = target[t]
    BY <1>1 DEF Same
  <2> QED
    BY <1>0, <2>1 DEF WalkInv
<1>2. CASE ReadHeight(t)
  BY <1>0, <1>2 DEF ReadHeight, WalkInv, TypeOK
<1>3. CASE Onward(t)
  <2>1. at[t] = "walk" /\ Passes(tower[pred[t]][level[t]], t)
        /\ pred' = [pred EXCEPT ![t] = tower[pred[t]][level[t]]]
        /\ UNCHANGED <<version, linking, at, target, level>>
    BY <1>3 DEF Onward, nodeVars, findVars
  <2>2. tower[pred[t]][level[t]] \in OnLevel(level[t])
    BY <1>0, <2>1, Pointer DEF WalkInv, Passes
  <2> QED
    BY <1>0, <2>1, <2>2 DEF WalkInv, Passes, OnLevel, TypeOK
<1>4. CASE Downward(t)
  <2>1. at[t] = "walk" /\ level[t] > 0 /\ level' = [level EXCEPT ![t] = level[t] - 1]
        /\ UNCHANGED <<version, linking, at, target, pred>>
    BY <1>4 DEF Downward, nodeVars
  <2>2. level[t] - 1 \in Levels /\ level[t] - 1 <= level[t]
    BY <1>0, <2>1 DEF Levels
  <2>3. OnLevel(level[t]) \subseteq OnLevel(level[t] - 1)
    BY <1>0, <2>2, Nesting
  <2> QED
    BY <1>0, <2>1, <2>3 DEF WalkInv, OnLevel, TypeOK
<1>5. ASSUME at'[t] # "walk" PROVE WalkInv(t)'
  BY <1>5 DEF WalkInv
<1>6. ASSUME t \in Inserter,
             InsertStep(t) \/ \E v \in Version, h \in Heights : Insert(t, v, h)
      PROVE  WalkInv(t)'
  <2>1. ASSUME ~Walk(t) PROVE at'[t] # "walk"
    BY <1>0, <1>6, <2>1
    DEF InsertStep, Insert, Duplicate, Place, LinkBottom, Count, LinkUpper, LinkFails,
        Goto, TypeOK
  <2> QED
    BY <1>2, <1>3, <1>4, <1>5, <2>1 DEF Walk
<1>7. ASSUME t \in Reader,
             ReadStep(t) \/ Iterate(t) \/ \E v \in Sought : GetAt(t, v)
      PROVE  WalkInv(t)'
  <2>1. ASSUME ~Walk(t) PROVE at'[t] # "walk"
    BY <1>0, <1>7, <2>1
    DEF ReadStep, Answer, Yield, Exhausted, Iterate, GetAt, Goto, TypeOK
  <2> QED
    BY <1>2, <1>3, <1>4, <1>5, <2>1 DEF Walk
<1> QED
  BY <1>1, <1>6, <1>7, Alone
\* What find took down stays right, whatever is linked beside it.
LEMMA FoundKept ==
  ASSUME IInv, [Next]_vars, NEW i \in Inserter, NEW l \in Levels, Found(i, l),
         preds'[i][l] = preds[i][l], succs'[i][l] = succs[i][l],
         version'[i] = version[i]
  PROVE  Found(i, l)'
<1>1. /\ OnLevel(l) \subseteq OnLevel(l)' /\ linking[i] <= linking'[i]
      /\ \A n \in OnLevel(l) : version'[n] = version[n] /\ n # Front /\ n # Null
      /\ linking[i] \in Nat /\ linking'[i] \in Nat
  <2>1. /\ OnLevel(l) \subseteq OnLevel(l)' /\ linking[i] <= linking'[i]
        /\ \A n \in Inserter : linking[n] > 0 => version'[n] = version[n]
    BY Grows
  <2>2. \A n \in OnLevel(l) : n \in Inserter /\ linking[n] > 0
    BY DEF IInv, TypeOK, OnLevel, Levels
  <2>3. linking[i] \in Nat /\ linking'[i] \in Nat
    BY TypeStep DEF IInv, TypeOK
  <2> QED
    BY <2>1, <2>2, <2>3, SkipListAssumption
<1>2. linking'[i] = 0 => linking[i] = 0
  BY <1>1
<1> QED
  BY <1>1, <1>2 DEF Found

\* Find takes down what it leaves, and inserts use no more than it took down.
LEMMA FindStep ==
  ASSUME IInv, [Next]_vars, NEW i \in Inserter
  PROVE  FindInv(i)'
<1> USE SkipListAssumption
<1>0. /\ i \in Task /\ TypeOK /\ FindInv(i) /\ WalkInv(i) /\ InsertInv(i)
      /\ level[i] \in Levels /\ 0 \in Levels /\ \A l \in Levels : l \in Nat
      /\ linking[i] \in Nat /\ height[i] \in Nat
  BY DEF IInv, PlaceInv, TypeOK, Levels, Heights, Task
<1>1. ASSUME at'[i] \notin {"walk", "link", "count"} PROVE FindInv(i)'
  BY <1>1 DEF FindInv
\* A step that takes nothing down.
<1>2. ASSUME preds'[i] = preds[i], succs'[i] = succs[i], version'[i] = version[i],
             height'[i] = height[i],
             \A l \in Levels :
               /\ linking'[i] <= l
               /\ at'[i] \in {"link", "count"} \/ (at'[i] = "walk" /\ level'[i] < l)
               => /\ linking[i] <= l
                  /\ at[i] \in {"link", "count"} \/ (at[i] = "walk" /\ level[i] < l)
      PROVE  FindInv(i)'
  <2>1. ASSUME NEW l \in Levels, linking'[i] <= l, l < height'[i],
               at'[i] \in {"link", "count"} \/ (at'[i] = "walk" /\ level'[i] < l)
        PROVE  Found(i, l)'
    <3>1. Found(i, l)
      BY <1>0, <1>2, <2>1 DEF FindInv
    <3> QED
      BY <1>2, <3>1, FoundKept
  <2> QED
    BY <2>1 DEF FindInv
<1>3. CASE Same(i)
  BY <1>2, <1>3 DEF Same
<1>4. ASSUME NEW v \in Version, NEW h \in Heights, Insert(i, v, h) PROVE FindInv(i)'
  BY <1>0, <1>1, <1>4 DEF Insert, Goto, TypeOK
<1>5. CASE ReadHeight(i)
  <2>1. PICK h \in height[i]..max_height : level' = [level EXCEPT ![i] = h - 1]
    BY <1>5 DEF ReadHeight
  <2>2. at'[i] = "walk" /\ level'[i] = h - 1 /\ h \in Nat /\ height' = height
    BY <1>0, <1>5, <2>1 DEF ReadHeight, Goto, TypeOK, Heights, nodeVars
  <2>3. \A l \in Levels : ~(l < height[i] /\ h - 1 < l)
    BY <1>0, <2>1, <2>2
  <2> QED
    BY <2>2, <2>3 DEF FindInv
<1>6. CASE Onward(i)
  BY <1>2, <1>6 DEF Onward, nodeVars, findVars
\* A level is left where the walk stood.
<1>7. ASSUME NEW l \in Levels, at[i] = "walk", level[i] = l,
             ~Passes(tower[pred[i]][l], i), Note(i, tower[pred[i]][l]),
             linking[i] = 0 /\ l = 0 /\ tower[pred[i]][l] # Null =>
               version[tower[pred[i]][l]] # target[i],
             UNCHANGED <<version, height, linking>>
      PROVE  /\ Found(i, l)'
             /\ \A m \in Levels \ {l} : preds'[i][m] = preds[i][m] /\ succs'[i][m] = succs[i][m]
  <2> DEFINE next == tower[pred[i]][l]
  <2>1. pred[i] \in OnLevel(l) \cup {Front}
        /\ (pred[i] # Front => Less(version[pred[i]], target[i]))
    BY <1>0, <1>7 DEF WalkInv
  <2>2. next \in OnLevel(l) \cup {Null}
    BY <2>1, Pointer
  <2>3. pred[i] \in Inserter \cup {Front} /\ next \in Inserter \cup {Null}
    BY <2>1, <2>2 DEF OnLevel
  <2>4. \A m \in Levels :
          /\ preds'[i][m] = IF m = l THEN pred[i] ELSE preds[i][m]
          /\ succs'[i][m] = IF m = l THEN next ELSE succs[i][m]
    BY <1>0, <1>7, <2>3, NoteTypes
  <2>5. OnLevel(l)' = OnLevel(l) /\ target[i] = version[i]
    BY <1>0, <1>7 DEF OnLevel, InsertInv
  <2>6. next # Null => ~Less(version[next], version[i])
                       /\ (linking[i] = 0 /\ l = 0 => version[next] # version[i])
    BY <1>7, <2>5 DEF Passes
  <2> HIDE DEF next
  <2>7. Found(i, l)'
    BY <1>7, <2>1, <2>2, <2>4, <2>5, <2>6 DEF Found
  <2> QED
    BY <2>4, <2>7
\* The levels above were noted before.
<1>8. ASSUME NEW l \in Levels, at[i] = "walk", level[i] = l, Found(i, l)',
             \A m \in Levels \ {l} : preds'[i][m] = preds[i][m] /\ succs'[i][m] = succs[i][m],
             UNCHANGED <<version, height, linking>>
      PROVE  \A m \in Levels : l <= m /\ linking[i] <= m /\ m < height[i] => Found(i, m)'
  <2> SUFFICES ASSUME NEW m \in Levels, l < m, linking[i] <= m, m < height[i]
               PROVE  Found(i, m)'
    BY <1>0, <1>8
  <2>1. Found(i, m)
    BY <1>0, <1>8 DEF FindInv
  <2>2. m # l
    BY <1>0
  <2> QED
    BY <1>8, <2>1, <2>2, FoundKept
<1>9. CASE Downward(i)
  <2>1. /\ at[i] = "walk" /\ level[i] > 0 /\ ~Passes(tower[pred[i]][level[i]], i)
        /\ Note(i, tower[pred[i]][level[i]])
        /\ UNCHANGED <<version, height, linking, at>>
        /\ level'[i] = level[i] - 1
    BY <1>0, <1>9 DEF Downward, nodeVars, TypeOK
  <2>2. \A m \in Levels : level[i] <= m /\ linking[i] <= m /\ m < height[i] => Found(i, m)'
    BY <1>0, <1>7, <1>8, <2>1
  <2>3. \A m \in Levels : level'[i] < m => level[i] <= m
    BY <1>0, <2>1
  <2> QED
    BY <2>1, <2>2, <2>3 DEF FindInv
<1>10. CASE Place(i)
  <2>1. /\ at[i] = "walk" /\ level[i] = 0 /\ ~Passes(tower[pred[i]][0], i)
        /\ Note(i, tower[pred[i]][0])
        /\ linking[i] = 0 /\ tower[pred[i]][0] # Null =>
             version[tower[pred[i]][0]] # target[i]
        /\ UNCHANGED <<version, height, linking>>
    BY <1>10 DEF Place, nodeVars
  <2>2. \A m \in Levels : 0 <= m /\ linking[i] <= m /\ m < height[i] => Found(i, m)'
    BY <1>0, <1>7, <1>8, <2>1
  <2> QED
    BY <1>0, <2>1, <2>2 DEF FindInv
<1>11. CASE Duplicate(i)
  BY <1>0, <1>1, <1>11 DEF Duplicate, Goto, TypeOK
<1>12. CASE LinkBottom(i)
  <2>1. linking[i] = 0 /\ linking'[i] = 1 /\ at[i] = "link"
        /\ UNCHANGED <<version, height, preds, succs>>
    BY <1>0, <1>12 DEF LinkBottom, TypeOK
  <2> QED
    BY <1>0, <1>2, <2>1
<1>13. CASE Count(i)
  <2>1. CASE height[i] > 1
    BY <1>0, <1>2, <1>13, <2>1 DEF Count, Goto, TypeOK
  <2>2. CASE ~(height[i] > 1)
    BY <1>0, <1>1, <1>13, <2>2 DEF Count, Goto, TypeOK
  <2> QED
    BY <2>1, <2>2
<1>14. CASE LinkUpper(i)
  <2>1. CASE linking[i] + 1 < height[i]
    <3>1. linking'[i] = linking[i] + 1 /\ at[i] = "link"
          /\ UNCHANGED <<version, height, preds, succs, at>>
      BY <1>0, <1>14, <2>1 DEF LinkUpper, TypeOK
    <3> QED
      BY <1>0, <1>2, <3>1
  <2>2. CASE ~(linking[i] + 1 < height[i])
    BY <1>0, <1>1, <1>14, <2>2 DEF LinkUpper, Goto, TypeOK
  <2> QED
    BY <2>1, <2>2
<1>15. CASE LinkFails(i)
  BY <1>0, <1>1, <1>15 DEF LinkFails, Goto, TypeOK
<1>16. ASSUME InsertStep(i) \/ \E v \in Version, h \in Heights : Insert(i, v, h)
       PROVE  FindInv(i)'
  BY <1>4, <1>5, <1>6, <1>9, <1>10, <1>11, <1>12, <1>13, <1>14, <1>15, <1>16
  DEF InsertStep, Walk
<1> QED
  BY <1>0, <1>3, <1>16, Alone

-----------------------------------------------------------------------------
(* Iterators.                                                              *)

\* What is linked on the lowest level is present.
LEMMA PresentIs ==
  TypeOK => Present = {version[i] : i \in OnLevel(0)}
  BY DEF Present, OnLevel, TypeOK

\* An iterator begins in front of everything.
LEMMA IterateStep ==
  ASSUME IInv, NEW r \in Reader, Iterate(r)
  PROVE  IterInv(r)'
<1> USE SkipListAssumption
<1>1. /\ at'[r] = "iterate" /\ pred'[r] = tower[Front][0] /\ atStart'[r] = Present
      /\ seen'[r] = <<>>
      /\ UNCHANGED <<tower, version, linking>>
  BY DEF Iterate, Goto, IInv, PlaceInv, ReadInv, TypeOK, ResultType, Task, nodeVars, findVars
<1>2. 0 \in Levels /\ OnLevel(0)' = OnLevel(0)
  BY <1>1 DEF Levels, OnLevel
<1>3. tower[Front][0] \in OnLevel(0) \cup {Null}
  BY <1>2, Pointer
<1>4. ASSUME NEW v \in Present
      PROVE  tower[Front][0] # Null /\ \E j \in OnLevel(0) :
               version[j] = v /\ ~Less(v, version[tower[Front][0]])
  <2>1. PICK j \in OnLevel(0) : version[j] = v
    BY PresentIs DEF IInv
  <2> QED
    BY <1>2, <2>1 DEF IInv, ListInv, LevelInv, GapInv
<1> QED
  BY <1>1, <1>2, <1>3, <1>4 DEF IterInv

\* It yields a node and moves to the next: nothing stands between them.
LEMMA YieldStep ==
  ASSUME IInv, NEW r \in Reader, Yield(r)
  PROVE  IterInv(r)'
<1> USE SkipListAssumption
<1> DEFINE p == pred[r]
           next == tower[p][0]
<1>0. 0 \in Levels /\ IterInv(r) /\ seen[r] \in Seq(Version) /\ atStart[r] \subseteq Version
  BY DEF Levels, IInv, ResultType
<1>1. /\ at[r] = "iterate" /\ p \in OnLevel(0) /\ p # Null
      /\ at'[r] = "iterate" /\ pred'[r] = next /\ atStart'[r] = atStart[r]
      /\ seen'[r] = Append(seen[r], version[p])
      /\ UNCHANGED <<tower, version, linking>>
  BY <1>0 DEF Yield, IterInv, IInv, TypeOK, ResultType, Task, nodeVars, findVars
<1>2. OnLevel(0)' = OnLevel(0) /\ \A j \in OnLevel(0) : version[j] \in Version /\ j \in Inserter
  BY <1>1 DEF OnLevel, IInv, TypeOK
<1>3. next \in OnLevel(0) \cup {Null} /\ p # Front
      /\ (next # Null => Less(version[p], version[next]))
  BY <1>0, <1>1, <1>2, Pointer DEF IInv, ListInv, LevelInv, SortedInv
<1> HIDE DEF next
<1>4. /\ Len(seen'[r]) = Len(seen[r]) + 1 /\ Len(seen[r]) \in Nat
      /\ \A n \in 1..Len(seen[r]) : seen'[r][n] = seen[r][n]
      /\ seen'[r][Len(seen[r]) + 1] = version[p]
      /\ DOMAIN seen[r] = 1..Len(seen[r]) /\ DOMAIN seen'[r] = 1..(Len(seen[r]) + 1)
      /\ seen[r] # <<>> => Len(seen[r]) > 0
  BY <1>0, <1>1, <1>2
<1>5. ASSUME NEW n \in 2..Len(seen'[r]) PROVE Less(seen'[r][n - 1], seen'[r][n])
  <2>1. CASE n \in 2..Len(seen[r])
    <3>1. n \in 1..Len(seen[r]) /\ n - 1 \in 1..Len(seen[r])
      BY <1>4, <2>1
    <3>2. seen'[r][n] = seen[r][n] /\ seen'[r][n - 1] = seen[r][n - 1]
      BY <1>4, <3>1
    <3> QED
      BY <1>0, <2>1, <3>2 DEF IterInv
  <2>2. CASE n = Len(seen[r]) + 1
    <3>1. seen[r] # <<>> /\ n - 1 = Len(seen[r]) /\ n - 1 \in 1..Len(seen[r])
      BY <1>4, <2>2
    <3>2. Less(seen[r][Len(seen[r])], version[p])
      BY <1>0, <1>1, <3>1 DEF IterInv
    <3> QED
      BY <1>4, <2>2, <3>1, <3>2
  <2> QED
    BY <1>4, <2>1, <2>2
<1>6. ASSUME NEW v \in atStart[r]
      PROVE  \/ \E n \in DOMAIN seen'[r] : seen'[r][n] = v
             \/ next # Null /\ \E j \in OnLevel(0) :
                  version[j] = v /\ ~Less(v, version[next])
  <2>1. CASE \E n \in DOMAIN seen[r] : seen[r][n] = v
    BY <1>4, <2>1
  <2>2. CASE v = version[p]
    BY <1>4, <2>2
  <2>3. ASSUME NEW j \in OnLevel(0), version[j] = v, ~Less(v, version[p]), v # version[p]
        PROVE  next # Null /\ ~Less(v, version[next])
    <3>1. Less(version[p], version[j])
      BY <1>1, <1>2, <2>3, Order
    <3> QED
      BY <1>0, <1>1, <2>3, <3>1 DEF IInv, ListInv, LevelInv, GapInv, next
  <2> QED
    BY <1>0, <1>1, <2>1, <2>2, <2>3 DEF IterInv
<1>7. next # Null => Less(seen'[r][Len(seen'[r])], version[next])
  BY <1>3, <1>4
<1>8. pred'[r] \in OnLevel(0)' \cup {Null} /\ (pred'[r] # Null =>
        Less(seen'[r][Len(seen'[r])], version'[pred'[r]]))
  BY <1>1, <1>2, <1>3, <1>7
<1>9. \A v \in atStart'[r] :
        \/ \E n \in DOMAIN seen'[r] : seen'[r][n] = v
        \/ pred'[r] # Null /\ \E j \in OnLevel(0)' :
             version'[j] = v /\ ~Less(v, version'[pred'[r]])
  BY <1>1, <1>2, <1>6
<1> QED
  BY <1>1, <1>5, <1>8, <1>9 DEF IterInv

\* Iterators miss nothing.
LEMMA IterStep ==
  ASSUME IInv, [Next]_vars, NEW r \in Reader
  PROVE  IterInv(r)'
<1> USE SkipListAssumption
<1>0. /\ r \in Task /\ IterInv(r) /\ ReadInv(r) /\ TypeOK /\ r \notin Inserter
      /\ OnLevel(0) \subseteq OnLevel(0)'
      /\ \A n \in OnLevel(0) : version'[n] = version[n] /\ n # Front
  <2>1. r \in Task /\ IterInv(r) /\ ReadInv(r) /\ TypeOK /\ r \notin Inserter
    BY DEF IInv, PlaceInv, Task
  <2>2. 0 \in Levels /\ \A n \in OnLevel(0) : n \in Inserter /\ linking[n] > 0
    BY DEF Levels, OnLevel
  <2> QED
    BY <2>1, <2>2, Grows
<1>1. CASE Same(r)
  <2>1. at'[r] = at[r] /\ pred'[r] = pred[r] /\ seen'[r] = seen[r] /\ atStart'[r] = atStart[r]
    BY <1>1 DEF Same
  <2>2. CASE at[r] = "iterate"
    <3>1. pred[r] \in OnLevel(0) \cup {Null}
      BY <1>0, <2>2 DEF IterInv
    <3>2. /\ pred'[r] \in OnLevel(0)' \cup {Null}
          /\ pred[r] # Null => version'[pred[r]] = version[pred[r]]
      BY <1>0, <2>1, <3>1
    <3> QED
      BY <1>0, <2>1, <2>2, <3>2 DEF IterInv
  <2>3. CASE at[r] # "iterate"
    BY <1>0, <2>1, <2>3 DEF IterInv
  <2> QED
    BY <2>2, <2>3
\* Neither iterating nor done, and nothing yielded.
<1>2. ASSUME at'[r] \notin {"iterate", "done"}, seen'[r] = seen[r] PROVE IterInv(r)'
  BY <1>0, <1>2 DEF IterInv
<1>3. CASE Walk(r)
  BY <1>0, <1>2, <1>3
  DEF Walk, ReadHeight, Onward, Downward, Goto, readVars, TypeOK, ReadInv
<1>4. CASE Answer(r)
  BY <1>0, <1>4 DEF Answer, Goto, readVars, TypeOK, ReadInv, IterInv
<1>5. CASE Exhausted(r)
  BY <1>0, <1>5 DEF Exhausted, Goto, readVars, TypeOK, IterInv
<1>6. ASSUME NEW v \in Sought, GetAt(r, v) PROVE IterInv(r)'
  BY <1>0, <1>2, <1>6 DEF GetAt, Goto, readVars, TypeOK
<1> QED
  BY <1>0, <1>1, <1>3, <1>4, <1>5, <1>6, IterateStep, YieldStep, Alone DEF ReadStep

-----------------------------------------------------------------------------
(* Counting.                                                               *)

\* A node is present and being counted from the swap on the lowest level on.
LEMMA CountStep ==
  ASSUME IInv, [Next]_vars
  PROVE  CountInv'
<1> USE SkipListAssumption DEF IInv
<1>0. CountInv /\ TypeOK /\ ListInv
      /\ \A i \in Inserter : i \in Task /\ i \notin Reader /\ linking[i] \in Nat
  BY DEF TypeOK, Task
<1>1. ASSUME UNCHANGED len, Present' = Present, Counting' = Counting PROVE CountInv'
  BY <1>0, <1>1 DEF CountInv
<1>2. ASSUME NEW i \in Inserter, LinkBottom(i) PROVE CountInv'
  <2>1. linking[i] = 0 /\ Found(i, 0)
    BY <1>2, LinkFound DEF LinkBottom
  <2>2. /\ Unmoved(i, 0) /\ tower' = Swapped(i, 0) /\ at[i] = "link"
        /\ linking' = [linking EXCEPT ![i] = 0 + 1] /\ UNCHANGED <<version, len>>
        /\ at' = [at EXCEPT ![i] = "count"]
    BY <1>2 DEF LinkBottom, Goto
  <2>3. 0 \in Levels
    BY DEF Levels
  <2>4. \A j \in OnLevel(0) : version[j] # version[i]
    BY <2>1, <2>2, <2>3, Splice
  <2>5. version[i] \notin Present
    BY <2>4, PresentIs
  <2>6. Present' = Present \cup {version[i]}
    BY <1>0, <2>1, <2>2 DEF Present, TypeOK
  <2>7. i \notin Counting /\ Counting' = Counting \cup {i}
    BY <1>0, <2>2 DEF Counting, TypeOK
  <2>8. /\ IsFiniteSet(Present') /\ IsFiniteSet(Counting')
        /\ Cardinality(Present') = Cardinality(Present) + 1
        /\ Cardinality(Counting') = Cardinality(Counting) + 1
    BY <2>5, <2>6, <2>7, FS_AddElement DEF CountInv
  <2>9. Cardinality(Present) \in Nat /\ Cardinality(Counting) \in Nat
    BY FS_CardinalityType DEF CountInv
  <2> QED
    BY <2>2, <2>8, <2>9 DEF CountInv
<1>3. ASSUME NEW i \in Inserter, Count(i) PROVE CountInv'
  <2>1. at[i] = "count" /\ len' = len + 1 /\ UNCHANGED <<version, linking>>
        /\ at'[i] # "count" /\ \A j \in Inserter \ {i} : at'[j] = at[j]
    BY <1>0, <1>3 DEF Count, Goto, TypeOK
  <2>2. Present' = Present
    BY <2>1 DEF Present
  <2>3. i \in Counting /\ Counting' = Counting \ {i}
    BY <2>1 DEF Counting
  <2>4. IsFiniteSet(Counting') /\ Cardinality(Counting') = Cardinality(Counting) - 1
    BY <2>3, FS_RemoveElement DEF CountInv
  <2>5. Cardinality(Present) \in Nat /\ Cardinality(Counting) \in Nat
    BY FS_CardinalityType DEF CountInv
  <2> QED
    BY <2>1, <2>2, <2>4, <2>5 DEF CountInv
<1>4. ASSUME NEW i \in Inserter, ~LinkBottom(i), ~Count(i),
             InsertStep(i) \/ \E v \in Version, h \in Heights : Insert(i, v, h),
             \A u \in Task \ {i} : Same(u)
      PROVE  CountInv'
  <2>1. at[i] # "count" /\ at'[i] # "count" /\ len' = len
    BY <1>0, <1>4
    DEF InsertStep, Insert, Walk, ReadHeight, Onward, Downward, Duplicate, Place,
        LinkUpper, LinkFails, Goto, TypeOK, nodeVars
  <2>2. Counting' = Counting
    BY <1>0, <1>4, <2>1 DEF Same, Counting
  <2>3. linking[i] > 0 <=> linking'[i] > 0
    BY <1>0, <1>4
    DEF InsertStep, Insert, Walk, ReadHeight, Onward, Downward, Duplicate, Place,
        LinkUpper, LinkFails, TypeOK, findVars
  <2>4. \A j \in Inserter : linking'[j] > 0 <=> linking[j] > 0
    BY <1>0, <1>4, <2>3 DEF Same
  <2>5. \A j \in Inserter : linking[j] > 0 => version'[j] = version[j]
    BY Grows
  <2>6. {j \in Inserter : linking[j] > 0}' = {j \in Inserter : linking[j] > 0}
    BY <2>4
  <2>7. Present' = Present
    BY <2>5, <2>6 DEF Present
  <2> QED
    BY <1>1, <2>1, <2>2, <2>7
<1>5. ASSUME \A i \in Inserter : Same(i), UNCHANGED len PROVE CountInv'
  <2>1. Counting' = Counting /\ Present' = Present
    BY <1>0, <1>5 DEF Same, Counting, Present
  <2> QED
    BY <1>1, <1>5, <2>1
<1>6. ASSUME NEW r \in Reader,
             ReadStep(r) \/ Iterate(r) \/ \E v \in Sought : GetAt(r, v)
      PROVE  UNCHANGED len
  BY <1>6
  DEF ReadStep, Iterate, GetAt, Walk, ReadHeight, Onward, Downward, Answer, Yield,
      Exhausted, nodeVars
<1>7. CASE UNCHANGED vars
  BY <1>0, <1>1, <1>7 DEF vars, nodeVars, findVars, Present, Counting
<1>8. ASSUME NEW i \in Inserter,
             InsertStep(i) \/ \E v \in Version, h \in Heights : Insert(i, v, h),
             \A u \in Task \ {i} : Same(u)
      PROVE  CountInv'
  BY <1>2, <1>3, <1>4, <1>8
<1>9. ASSUME \A u \in Task : Same(u), Next PROVE CountInv'
  <2>1. ASSUME NEW i \in Inserter,
               InsertStep(i) \/ \E v \in Version, h \in Heights : Insert(i, v, h)
        PROVE  CountInv'
    BY <1>8, <1>9, <2>1
  <2>2. ASSUME NEW r \in Reader,
               ReadStep(r) \/ Iterate(r) \/ \E v \in Sought : GetAt(r, v)
        PROVE  CountInv'
    BY <1>0, <1>5, <1>6, <1>9, <2>2
  <2> QED
    BY <1>9, <2>1, <2>2 DEF Next
<1> QED
  BY <1>0, <1>5, <1>6, <1>7, <1>8, <1>9, Alone

-----------------------------------------------------------------------------
(* Theorems.                                                               *)

\* The invariant holds at first, ...
LEMMA InductiveInit == Init => IInv
<1> SUFFICES ASSUME Init PROVE IInv
  OBVIOUS
<1> USE SkipListAssumption
<1>1. TypeOK /\ ResultType /\ PlaceInv
  BY Start
<1>2. \A l \in Levels : OnLevel(l) = {}
  BY DEF Init, OnLevel, Levels
<1>3. 0 \in Levels /\ \A l \in Levels : tower[Front][l] = Null
  BY DEF Init, Levels, NoLinks
<1>4. ListInv
  BY <1>2, <1>3 DEF ListInv, UniqueInv, LevelInv, ChainInv, Closed, SortedInv, GapInv
<1>5. /\ \A t \in Task : at[t] = "idle"
      /\ \A i \in Inserter : linking[i] = 0
      /\ \A r \in Reader : seen[r] = <<>>
      /\ len = 0
  BY DEF Init, Task
<1>6. /\ \A t \in Task : WalkInv(t)
      /\ \A i \in Inserter : FindInv(i)
      /\ \A r \in Reader : IterInv(r)
  BY <1>5 DEF WalkInv, FindInv, IterInv, Task
<1>7. Present = {} /\ Counting = {}
  BY <1>5 DEF Present, Counting, Task
<1>8. CountInv
  BY <1>5, <1>7, FS_EmptySet DEF CountInv
<1> QED
  BY <1>1, <1>4, <1>6, <1>8 DEF IInv

\* ... and every step keeps it.
LEMMA InductiveStep == IInv /\ [Next]_vars => IInv'
<1> SUFFICES ASSUME IInv, [Next]_vars PROVE IInv'
  OBVIOUS
<1>1. TypeOK' /\ ResultType'
  BY TypeStep
<1>2. PlaceInv'
  BY PlaceStep
<1>3. ListInv'
  BY ListStep
<1>4. \A t \in Task : WalkInv(t)'
  BY WalkStep
<1>5. \A i \in Inserter : FindInv(i)'
  BY FindStep
<1>6. \A r \in Reader : IterInv(r)'
  BY IterStep
<1>7. CountInv'
  BY CountStep
<1> QED
  BY <1>1, <1>2, <1>3, <1>4, <1>5, <1>6, <1>7 DEF IInv

\* So it always holds.
LEMMA Inductive == Spec => []IInv
  BY InductiveInit, InductiveStep, PTL DEF Spec

\* Every pointer and every local of a call keeps its type: a walk never follows
\* the end of a level, a link never takes a node that was not found.
THEOREM TypeCorrect == Spec => []TypeOK
<1>1. IInv => TypeOK
  BY DEF IInv
<1> QED
  BY <1>1, Inductive, PTL

\* On every level are exactly the nodes that were linked there, in order,
\* however many tasks insert and on however many levels.
THEOREM LevelsAreComplete == Spec => []LevelsComplete
<1>1. IInv => LevelsComplete
  <2> SUFFICES ASSUME IInv, NEW l \in Levels
               PROVE  /\ Linked(l) = OnLevel(l)
                      /\ \A i \in OnLevel(l) :
                           tower[i][l] # Null => Less(version[i], version[tower[i][l]])
    BY DEF LevelsComplete, OnLevel
  <2>1. ChainInv(l) /\ SortedInv(l) /\ OnLevel(l) \in SUBSET Inserter
    BY DEF IInv, ListInv, LevelInv, OnLevel
  <2>2. Linked(l) = OnLevel(l)
    BY <2>1 DEF Linked, ChainInv
  <2> QED
    BY <2>1, <2>2 DEF SortedInv
<1> QED
  BY <1>1, Inductive, PTL

\* An iterator yields everything that was there when it began, in order,
\* whatever is inserted while it runs.
THEOREM IterationsAreComplete == Spec => []IterationComplete
<1>1. IInv => IterationComplete
  BY DEF IInv, IterationComplete, IterInv
<1> QED
  BY <1>1, Inductive, PTL

\* len is the number of the versions that are there, but for those whose
\* inserters are about to count them.
THEOREM LenIsExact == Spec => []LenExact
<1>1. IInv => LenExact
  BY DEF IInv, CountInv, LenExact, Counting
<1> QED
  BY <1>1, Inductive, PTL

-----------------------------------------------------------------------------
(* Refinement.                                                             *)

\* What a task's call returned, as VersionSet sees it.
Returned == [t \in Task |-> IF done[t] = None THEN None ELSE <<target[t], done[t]>>]

\* None is no result.
LEMMA NoneIsNone ==
  None # TRUE /\ None # FALSE /\ \A set \in SUBSET Version : None # set
  BY SkipListAssumption

\* An insert takes effect with the swap on the lowest level, ...
LEMMA InsertTakesEffect ==
  ASSUME IInv, NEW i \in Inserter, LinkBottom(i)
  PROVE  V!Insert(i, target[i]) /\ target[i] \in Version
<1> USE SkipListAssumption DEF IInv
<1>0. /\ i \in Task /\ InsertInv(i) /\ TypeOK /\ 0 \in Levels
      /\ \A j \in Inserter : linking[j] \in Nat
  BY DEF PlaceInv, TypeOK, Task, Levels
<1>1. /\ linking[i] = 0 /\ Found(i, 0) /\ at[i] = "link"
      /\ Unmoved(i, 0) /\ tower' = Swapped(i, 0)
      /\ linking' = [linking EXCEPT ![i] = 0 + 1] /\ UNCHANGED <<version, target>>
      /\ done' = [done EXCEPT ![i] = TRUE]
  BY LinkFound DEF LinkBottom, walkVars
<1>2. target[i] = version[i] /\ done[i] = None
  BY <1>0, <1>1 DEF InsertInv
<1>3. \A j \in OnLevel(0) : version[j] # version[i]
  BY <1>0, <1>1, Splice
<1>4. version[i] \notin Present /\ Present' = Present \cup {version[i]}
  <2>1. version[i] \notin Present
    BY <1>3, PresentIs
  <2>2. Present' = Present \cup {version[i]}
    BY <1>0, <1>1 DEF Present, TypeOK
  <2> QED
    BY <2>1, <2>2
<1>5. Returned[i] = None /\ Returned' = [Returned EXCEPT ![i] = <<target[i], TRUE>>]
  BY <1>0, <1>1, <1>2, NoneIsNone DEF Returned, ResultType
<1> QED
  BY <1>0, <1>2, <1>4, <1>5 DEF V!Insert, V!Return, Returned, TypeOK

\* ... or when it finds the version, ...
LEMMA DuplicateTakesEffect ==
  ASSUME IInv, NEW i \in Inserter, Duplicate(i)
  PROVE  V!Insert(i, target[i]) /\ target[i] \in Version
<1> USE SkipListAssumption DEF IInv
<1> DEFINE next == tower[pred[i]][0]
<1>0. i \in Task /\ InsertInv(i) /\ WalkInv(i) /\ TypeOK /\ 0 \in Levels
  BY DEF PlaceInv, Task, Levels
<1>1. /\ at[i] = "walk" /\ level[i] = 0 /\ linking[i] = 0
      /\ next # Null /\ version[next] = target[i]
      /\ UNCHANGED <<version, linking, target>>
      /\ done' = [done EXCEPT ![i] = FALSE]
  BY DEF Duplicate, nodeVars
<1>2. target[i] = version[i] /\ done[i] = None
  BY <1>0, <1>1 DEF InsertInv
<1>3. next \in OnLevel(0)
  BY <1>0, <1>1, Pointer DEF WalkInv
<1>4. target[i] \in Present /\ Present' = Present
  <2>1. target[i] \in Present
    BY <1>1, <1>3, PresentIs
  <2>2. Present' = Present
    BY <1>1 DEF Present
  <2> QED
    BY <2>1, <2>2
<1>5. Returned[i] = None /\ Returned' = [Returned EXCEPT ![i] = <<target[i], FALSE>>]
  BY <1>0, <1>1, <1>2, NoneIsNone DEF Returned, ResultType
<1> QED
  BY <1>0, <1>2, <1>4, <1>5 DEF V!Insert, V!Return, Returned, TypeOK

\* ... and a lookup when it loads the last pointer: what it finds there is the
\* newest version of the key that is not newer than asked for.
LEMMA AnswerTakesEffect ==
  ASSUME IInv, NEW r \in Reader, Answer(r)
  PROVE  V!Get(r, target[r]) /\ target[r] \in Sought
<1> USE SkipListAssumption DEF IInv
<1> DEFINE p == pred[r]
           next == tower[p][0]
           v == target[r]
           found == IF next # Null /\ version[next][1] = v[1] THEN {version[next]} ELSE {}
<1>0. r \in Task /\ ReadInv(r) /\ WalkInv(r) /\ TypeOK /\ 0 \in Levels
  BY DEF PlaceInv, Task, Levels
<1>1. /\ at[r] = "walk" /\ level[r] = 0 /\ ~Passes(next, r)
      /\ UNCHANGED <<version, linking, target>>
      /\ done' = [done EXCEPT ![r] = found]
  BY DEF Answer, nodeVars, findVars
<1>2. v \in Sought /\ v \in Nat \X Nat /\ done[r] = None
  BY <1>0, <1>1 DEF ReadInv
<1>3. /\ p \in OnLevel(0) \cup {Front} /\ (p # Front => Less(version[p], v))
      /\ next \in OnLevel(0) \cup {Null} /\ (next # Null => ~Less(version[next], v))
  BY <1>0, <1>1, Pointer DEF WalkInv, Passes
<1>4. \A j \in OnLevel(0) : j \in Inserter /\ version[j] \in Version /\ version[j] \in Nat \X Nat
  BY <1>0 DEF OnLevel, TypeOK
<1>5. found \in SUBSET Version
  BY <1>3, <1>4
<1> HIDE DEF next
<1>6. ASSUME NEW w \in Present
      PROVE  Less(w, v) \/ (next # Null /\ ~Less(w, version[next]))
  <2>1. PICK j \in OnLevel(0) : version[j] = w
    BY <1>0, PresentIs
  <2>2. CASE p # Front /\ ~Less(version[p], w)
    BY <1>2, <1>3, <1>4, <2>1, <2>2, Weak
  <2>3. CASE tower[p][0] # Null /\ ~Less(w, version[tower[p][0]])
    BY <2>3 DEF next
  <2> QED
    BY <1>0, <1>3, <2>1, <2>2, <2>3 DEF ListInv, LevelInv, GapInv
<1>7. Present \subseteq Nat \X Nat /\ (next # Null => version[next] \in Present)
  BY <1>0, <1>3, <1>4, PresentIs
<1>8. V!Visible(Present, v) = found
  <2>1. CASE next # Null /\ version[next][1] = v[1]
    <3> DEFINE u == version[next]
    <3>1. u \in Present /\ u[1] = v[1] /\ u[2] <= v[2]
      BY <1>2, <1>3, <1>7, <2>1 DEF Less
    <3>2. \A w \in Present : w[1] = v[1] /\ w[2] <= v[2] => w[2] <= u[2]
      BY <1>2, <1>6, <1>7, <2>1 DEF Less
    <3>3. \A w \in Present : w[1] = v[1] /\ w[2] = u[2] => w = u
      BY <1>7, <3>1
    <3>4. V!Visible(Present, v) = {u}
      BY <1>2, <1>7, <3>1, <3>2, <3>3 DEF V!Visible
    <3> QED
      BY <2>1, <3>4
  <2>2. CASE ~(next # Null /\ version[next][1] = v[1])
    <3>1. \A w \in Present : ~(w[1] = v[1] /\ w[2] <= v[2])
      BY <1>2, <1>3, <1>6, <1>7, <2>2 DEF Less
    <3> QED
      BY <2>2, <3>1 DEF V!Visible
  <2> QED
    BY <2>1, <2>2
<1> HIDE DEF found
<1>9. Returned[r] = None /\ Returned' = [Returned EXCEPT ![r] = <<v, found>>]
  BY <1>0, <1>1, <1>2, <1>5, NoneIsNone DEF Returned, ResultType
<1>10. Present' = Present
  BY <1>1 DEF Present
<1> QED
  BY <1>2, <1>8, <1>9, <1>10 DEF V!Get, V!Return, Returned

\* Every other step is none.
LEMMA NoEffect ==
  ASSUME IInv, [Next]_vars,
         \A i \in Inserter : ~LinkBottom(i) /\ ~Duplicate(i),
         \A r \in Reader : ~Answer(r)
  PROVE  Present' = Present /\ Returned' = Returned
<1> USE SkipListAssumption DEF IInv
<1>0. /\ TypeOK /\ Inserter \subseteq Task /\ Reader \subseteq Task
      /\ \A i \in Inserter : linking[i] \in Nat
  BY DEF TypeOK, Task
<1>1. ASSUME UNCHANGED <<done, target>> PROVE Returned' = Returned
  BY <1>1 DEF Returned
<1>2. CASE UNCHANGED vars
  BY <1>1, <1>2 DEF vars, nodeVars, findVars, walkVars, Present
<1>3. ASSUME NEW i \in Inserter, NEW v \in Version, NEW h \in Heights, Insert(i, v, h)
      PROVE  Returned' = Returned
  <2>1. done[i] = None /\ done' = done /\ target' = [target EXCEPT ![i] = v]
    BY <1>3 DEF Insert, PlaceInv, InsertInv
  <2> QED
    BY <1>0, <2>1 DEF Returned, TypeOK
<1>4. ASSUME NEW r \in Reader, NEW v \in Sought, GetAt(r, v)
      PROVE  Returned' = Returned
  <2>1. done[r] = None /\ done' = done /\ target' = [target EXCEPT ![r] = v]
    BY <1>4 DEF GetAt, PlaceInv, ReadInv
  <2> QED
    BY <1>0, <2>1 DEF Returned, TypeOK
<1>5. ASSUME NEW t \in Task, Walk(t) PROVE UNCHANGED <<done, target>>
  BY <1>5 DEF Walk, ReadHeight, Onward, Downward
<1>6. ASSUME NEW i \in Inserter, InsertStep(i) PROVE UNCHANGED <<done, target>>
  BY <1>0, <1>5, <1>6
  DEF InsertStep, Place, Count, LinkUpper, LinkFails, walkVars
<1>7. ASSUME NEW r \in Reader, ReadStep(r) \/ Iterate(r) PROVE UNCHANGED <<done, target>>
  BY <1>0, <1>5, <1>7
  DEF ReadStep, Iterate, Yield, Exhausted, walkVars
<1>8. Returned' = Returned
  BY <1>1, <1>2, <1>3, <1>4, <1>6, <1>7 DEF Next
<1>9. \A i \in Inserter : linking'[i] > 0 <=> linking[i] > 0
  <2>1. CASE Quiet
    BY <2>1 DEF Quiet
  <2>2. ASSUME NEW i \in Inserter, NEW v \in Version, NEW h \in Heights, Insert(i, v, h)
        PROVE  linking' = linking
    BY <2>2 DEF Insert, findVars
  <2>3. ASSUME NEW i \in Inserter, LinkUpper(i)
        PROVE  linking' = [linking EXCEPT ![i] = linking[i] + 1] /\ linking[i] > 0
    BY <2>3 DEF LinkUpper
  <2>4. ASSUME NEW i \in Inserter, LinkFails(i) PROVE linking' = linking
    BY <2>4 DEF LinkFails, findVars
  <2>5. ASSUME NEW i \in Inserter, LinkUpper(i)
        PROVE  \A j \in Inserter : linking'[j] > 0 <=> linking[j] > 0
    <3>1. /\ linking \in [Inserter -> 0..MaxHeight] /\ linking[i] \in Nat
          /\ linking' = [linking EXCEPT ![i] = linking[i] + 1] /\ linking[i] > 0
      BY <1>0, <2>3, <2>5 DEF TypeOK
    <3>2. linking'[i] > 0 /\ \A j \in Inserter \ {i} : linking'[j] = linking[j]
      BY <3>1
    <3> QED
      BY <3>1, <3>2
  <2> QED
    BY <2>1, <2>2, <2>4, <2>5, ListActions
<1>10. \A j \in Inserter : linking[j] > 0 => version'[j] = version[j]
  BY Grows
<1>11. {j \in Inserter : linking[j] > 0}' = {j \in Inserter : linking[j] > 0}
  BY <1>9
<1>12. Present' = Present
  BY <1>10, <1>11 DEF Present
<1> QED
  BY <1>8, <1>12

\* A memtable shared without a lock is a set of versions with atomic inserts
\* and lookups: every call takes effect in one step, between its call and its
\* return.
THEOREM Linearizable == Spec => ImplementsVersionSet
<1>1. Init => V!Init
  BY DEF Init, V!Init, Present, Task
<1>2. IInv /\ [Next]_vars => [V!Next]_<<Present, Returned>>
  <2> SUFFICES ASSUME IInv, [Next]_vars PROVE [V!Next]_<<Present, Returned>>
    OBVIOUS
  <2>1. ASSUME NEW i \in Inserter, LinkBottom(i) \/ Duplicate(i) PROVE V!Next
    BY <2>1, InsertTakesEffect, DuplicateTakesEffect DEF V!Next
  <2>2. ASSUME NEW r \in Reader, Answer(r) PROVE V!Next
    BY <2>2, AnswerTakesEffect DEF V!Next
  <2> QED
    BY <2>1, <2>2, NoEffect
<1> QED
  BY <1>1, <1>2, Inductive, PTL DEF Spec, ImplementsVersionSet, V!Spec, Returned

=============================================================================
