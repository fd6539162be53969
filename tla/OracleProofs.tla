---------------------------- MODULE OracleProofs ----------------------------
(***************************************************************************)
(* Theorems about Oracle, for any keys, tasks and InitSeq, with or without *)
(* failing appends.                                                        *)
(*                                                                         *)
(* FirstCommitterWins is not inductive: a task that is past its conflict   *)
(* check but not published yet must have no conflict (NoMiss), which the   *)
(* check guarantees only if `recent' misses nothing (RecentComplete),      *)
(* which pruning preserves only because `active' counts every live handle  *)
(* (ActiveExact).  ConflictIsReal needs the converse: `recent' holds       *)
(* nothing but commits (RecentReal).  IInv puts these together.            *)
(***************************************************************************)
EXTENDS Oracle, FiniteSetTheorems, TLAPS

\* The holder of the commit lock, and nobody else, is in a locked phase.
LockInv == \A p \in Proc : pc[p] \in Locked <=> commit_lock = p

\* The phase of a task tells what became of it.
PhaseInv ==
    /\ \A f \in Freezer : pc[f] \in {"idle", "freezing"}
    /\ \A p \in Plain : pc[p] # "open"
    /\ \A t \in Task :
         /\ pc[t] \in {"idle", "open", "waiting", "writing", "written"}
              <=> fate[t] = "none"
         /\ pc[t] \in {"pruning", "freezing", "throttled"}
              => fate[t] = "committed"

\* Sequence numbers: what is committed or read is published, and a commit in
\* flight is above it.
SeqInv ==
    /\ visible < next_seq
    /\ \A k \in Key : recent[k] <= visible
    /\ \A t \in Tx : read_ts[t] <= visible
    /\ \A t \in Committed : commit_ts[t] <= visible
    /\ \A t \in Task : pc[t] \in {"writing", "written"} =>
         visible < commit_ts[t] /\ commit_ts[t] < next_seq

\* A task past its conflict check has no conflict.
NoMiss ==
    \A t \in Tx : pc[t] \in {"writing", "written"} =>
        \A u \in Task : ~Overwrote(u, t)

\* Every entry of `recent' is a commit.
RecentReal ==
    \A k \in Key : recent[k] # 0 =>
        \E u \in Committed : k \in buffer[u] /\ commit_ts[u] = recent[k]

\* Only finitely many handles exist at a time, so that they can be counted.
LiveFinite == IsFiniteSet(Live)

HandleInv == LiveFinite /\ ActiveExact

ControlInv == LockInv /\ PhaseInv /\ SeqInv

HistoryInv ==
    NoMiss /\ RecentReal /\ RecentComplete /\ FirstCommitterWins /\ ConflictIsReal

IInv == TypeOK /\ HandleInv /\ ControlInv /\ HistoryInv

-----------------------------------------------------------------------------
(* Type correctness.                                                       *)

\* The initial values have their types.
LEMMA TypeInit == Init => TypeOK
  BY OracleAssumption DEF OracleAssumption, Init, TypeOK, Proc, Task

\* Every action keeps the types: one step of the proof per action of Next.
LEMMA TypeStep == TypeOK /\ [Next]_vars => TypeOK'
<1> SUFFICES ASSUME TypeOK, [Next]_vars PROVE TypeOK'
  OBVIOUS
<1> USE OracleAssumption DEF OracleAssumption, TypeOK, Proc, Task
<1>1. ASSUME NEW t \in Tx, Begin(t) PROVE TypeOK'
  BY <1>1 DEF Begin, Enter
<1>2. ASSUME NEW t \in Tx, Drop(t) PROVE TypeOK'
  BY <1>2 DEF Drop, Leave
<1>3. ASSUME NEW t \in Tx, CommitEmpty(t) \/ CommitCall(t) PROVE TypeOK'
  BY <1>3 DEF CommitEmpty, CommitCall
<1>4. ASSUME NEW t \in Tx, NEW k \in Key, Buffer(t, k) PROVE TypeOK'
  BY <1>4 DEF Buffer
<1>5. ASSUME NEW t \in Tx, CommitConflict(t) PROVE TypeOK'
  BY <1>5 DEF CommitConflict
<1>6. ASSUME NEW p \in Plain, NEW k \in Key, Set(p, k) PROVE TypeOK'
  BY <1>6 DEF Set
<1>7. ASSUME NEW t \in Task, CommitStart(t) PROVE TypeOK'
  BY <1>7 DEF CommitStart
<1>8. ASSUME NEW t \in Task, NEW k \in Key, Insert(t, k) PROVE TypeOK'
  BY <1>8 DEF Insert
<1>9. ASSUME NEW t \in Task, SetBatchDone(t) \/ SetBatchFails(t) PROVE TypeOK'
  BY <1>9 DEF SetBatchDone, SetBatchFails
<1>10. ASSUME NEW t \in Task, Publish(t) PROVE TypeOK'
  BY <1>10 DEF Publish
<1>11. ASSUME NEW t \in Task, Prune(t) PROVE TypeOK'
  BY <1>11 DEF Prune
<1>12. ASSUME NEW t \in Task, Unlock(t) \/ FreezeFails(t) \/ Return(t) PROVE TypeOK'
  BY <1>12 DEF Unlock, FreezeFails, Return
<1>13. ASSUME NEW t \in Task, End(t) PROVE TypeOK'
  BY <1>13 DEF End, Leave
<1>14. ASSUME NEW f \in Freezer, FreezeLock(f) \/ FreezeUnlock(f) PROVE TypeOK'
  BY <1>14 DEF FreezeLock, FreezeUnlock
<1>15. CASE UNCHANGED vars
  BY <1>15 DEF vars
<1> QED
  BY <1>1, <1>2, <1>3, <1>4, <1>5, <1>6, <1>7, <1>8, <1>9, <1>10, <1>11,
     <1>12, <1>13, <1>14, <1>15 DEF Next

\* Every reachable state of the oracle is well typed.
THEOREM TypeCorrect == Spec => []TypeOK
  BY TypeInit, TypeStep, PTL DEF Spec

-----------------------------------------------------------------------------
(* The watermark: active counts the live handles.                          *)

At(r) == {t \in Live : read_ts[t] = r}

\* No handle is live at first and `active' is empty.
LEMMA HandleInit == Init => HandleInv
<1> SUFFICES ASSUME Init PROVE HandleInv
  OBVIOUS
<1>1. Live = {}
  BY DEF Init, Live, Proc, Task
<1>2. IsFiniteSet({})
  BY FS_EmptySet
<1> QED
  BY <1>1, <1>2 DEF Init, HandleInv, LiveFinite, ActiveExact

\* A new handle at the published timestamp.
LEMMA EnterStep ==
  ASSUME TypeOK, HandleInv, NEW t \in Tx, Begin(t)
  PROVE  HandleInv'
<1> USE OracleAssumption DEF OracleAssumption, Proc, Task
<1>1. /\ t \notin Live
      /\ Live' = Live \cup {t}
      /\ read_ts' = [read_ts EXCEPT ![t] = visible]
      /\ visible' = visible
  BY DEF Begin, Live, TypeOK
<1>2. /\ At(visible)' = At(visible) \cup {t}
      /\ t \notin At(visible)
      /\ \A r : r # visible => At(r)' = At(r)
  BY <1>1 DEF At, Live, TypeOK
<1>3. LiveFinite'
  BY <1>1, FS_AddElement DEF HandleInv, LiveFinite
<1>4. \A r : IsFiniteSet(At(r))
  BY FS_Subset DEF HandleInv, LiveFinite, At
<1>5. Cardinality(At(visible)') = Cardinality(At(visible)) + 1
  BY <1>2, <1>4, FS_AddElement
<1>6. DOMAIN active = {read_ts[u] : u \in Live}
  BY DEF HandleInv, ActiveExact
<1>7. \A r \in DOMAIN active : active[r] = Cardinality(At(r))
  BY DEF HandleInv, ActiveExact, At
<1>8. DOMAIN active' = DOMAIN active \cup {visible}
  BY DEF Begin, Enter
<1>9. DOMAIN active' = {read_ts'[u] : u \in Live'}
  BY <1>1, <1>6, <1>8 DEF Live, TypeOK
<1>10. visible \notin DOMAIN active => Cardinality(At(visible)) = 0
  <2>1. visible \notin DOMAIN active => At(visible) = {}
    BY <1>6 DEF At
  <2> QED
    BY <2>1, FS_EmptySet
<1>11. \A r \in DOMAIN active' : active'[r] = Cardinality(At(r)')
  <2> TAKE r \in DOMAIN active'
  <2>1. CASE r = visible
    BY <2>1, <1>5, <1>7, <1>8, <1>10, FS_CardinalityType, <1>4 DEF Begin, Enter
  <2>2. CASE r # visible
    BY <2>2, <1>2, <1>7, <1>8, FS_CardinalityType, <1>4 DEF Begin, Enter
  <2> QED
    BY <2>1, <2>2
<1> QED
  BY <1>3, <1>9, <1>11 DEF HandleInv, ActiveExact, At

\* A handle goes: its counter drops by one and disappears at zero.
LEMMA LeaveStep ==
  ASSUME TypeOK, HandleInv, NEW t \in Live, Leave(read_ts[t]),
         Live' = Live \ {t}, UNCHANGED read_ts
  PROVE  HandleInv'
<1> DEFINE r0 == read_ts[t]
<1>1. /\ At(r0)' = At(r0) \ {t}
      /\ t \in At(r0)
      /\ \A r : r # r0 => At(r)' = At(r)
  BY DEF At
<1>2. LiveFinite'
  BY FS_RemoveElement DEF HandleInv, LiveFinite
<1>3. \A r : IsFiniteSet(At(r))
  BY FS_Subset DEF HandleInv, LiveFinite, At
<1>4. Cardinality(At(r0)') = Cardinality(At(r0)) - 1
  BY <1>1, <1>3, FS_RemoveElement
<1>5. DOMAIN active = {read_ts[u] : u \in Live}
  BY DEF HandleInv, ActiveExact
<1>6. \A r \in DOMAIN active : active[r] = Cardinality(At(r))
  BY DEF HandleInv, ActiveExact, At
<1>7. r0 \in DOMAIN active
  BY <1>5
<1>8. active[r0] = 1 <=> At(r0)' = {}
  <2>1. IsFiniteSet(At(r0)')
    BY <1>1, <1>3, FS_RemoveElement
  <2>2. Cardinality(At(r0)') = 0 <=> At(r0)' = {}
    BY <2>1, FS_EmptySet
  <2>3. Cardinality(At(r0)) \in Nat
    BY <1>3, FS_CardinalityType
  <2> QED
    BY <2>2, <2>3, <1>4, <1>6, <1>7
<1>9. DOMAIN active' = IF active[r0] = 1 THEN DOMAIN active \ {r0}
                                         ELSE DOMAIN active
  BY <1>7 DEF Leave
<1>10. DOMAIN active' = {read_ts'[u] : u \in Live'}
  <2>1. At(r0)' = {} <=> r0 \notin {read_ts'[u] : u \in Live'}
    BY DEF At
  <2>2. {read_ts'[u] : u \in Live'} \cup {r0} = DOMAIN active
    BY <1>5
  <2> QED
    BY <2>1, <2>2, <1>8, <1>9, <1>7
<1>11. \A r \in DOMAIN active' : active'[r] = Cardinality(At(r)')
  <2> TAKE r \in DOMAIN active'
  <2>1. CASE r = r0
    BY <2>1, <1>4, <1>6, <1>7, <1>9 DEF Leave
  <2>2. CASE r # r0
    BY <2>2, <1>1, <1>6, <1>7, <1>9 DEF Leave
  <2> QED
    BY <2>1, <2>2
<1> QED
  BY <1>2, <1>10, <1>11 DEF HandleInv, ActiveExact, At

\* What does not create or drop a handle leaves the counters exact.
LEMMA SameHandles ==
  ASSUME HandleInv, Live' = Live, UNCHANGED <<active, read_ts>>
  PROVE  HandleInv'
  BY DEF HandleInv, LiveFinite, ActiveExact

\* Only begin, drop and end change the set of live handles; each keeps the
\* counters exact.
LEMMA HandleStep == TypeOK /\ HandleInv /\ [Next]_vars => HandleInv'
<1> SUFFICES ASSUME TypeOK, HandleInv, [Next]_vars PROVE HandleInv'
  OBVIOUS
<1> USE OracleAssumption DEF OracleAssumption, Proc, Task
<1>1. ASSUME NEW t \in Tx, Begin(t) PROVE HandleInv'
  BY <1>1, EnterStep
<1>2. ASSUME NEW t \in Tx, Drop(t) PROVE HandleInv'
  <2>1. t \in Live /\ Live' = Live \ {t}
    BY <1>2 DEF Drop, Live, TypeOK
  <2> QED
    BY <1>2, <2>1, LeaveStep DEF Drop
<1>3. ASSUME NEW t \in Tx, End(t) PROVE HandleInv'
  <2>1. t \in Live /\ Live' = Live \ {t}
    BY <1>3 DEF End, Live, TypeOK
  <2> QED
    BY <1>3, <2>1, LeaveStep DEF End
<1>4. ASSUME NEW p \in Plain, End(p) PROVE HandleInv'
  <2>1. Live' = Live
    BY <1>4 DEF End, Live, TypeOK
  <2> QED
    BY <1>4, <2>1, SameHandles DEF End
<1>5. ASSUME NEW t \in Tx,
             \/ CommitEmpty(t) \/ CommitCall(t) \/ CommitConflict(t)
             \/ \E k \in Key : Buffer(t, k)
      PROVE HandleInv'
  <2>1. Live' = Live /\ UNCHANGED <<active, read_ts>>
    BY <1>5 DEF CommitEmpty, CommitCall, CommitConflict, Buffer, Live, TypeOK
  <2> QED
    BY <2>1, SameHandles
<1>6. ASSUME NEW p \in Plain, NEW k \in Key, Set(p, k) PROVE HandleInv'
  <2>1. Live' = Live /\ UNCHANGED <<active, read_ts>>
    BY <1>6 DEF Set, Live, TypeOK
  <2> QED
    BY <2>1, SameHandles
<1>7. ASSUME NEW t \in Task,
             \/ CommitStart(t) \/ SetBatchDone(t) \/ SetBatchFails(t)
             \/ \E k \in Key : Insert(t, k)
             \/ Publish(t) \/ Prune(t) \/ Unlock(t) \/ FreezeFails(t)
             \/ Return(t)
      PROVE HandleInv'
  <2>1. Live' = Live /\ UNCHANGED <<active, read_ts>>
    BY <1>7 DEF CommitStart, SetBatchDone, SetBatchFails, Insert, Publish,
                Prune, Unlock, FreezeFails, Return, Live, TypeOK
  <2> QED
    BY <2>1, SameHandles
<1>8. ASSUME NEW f \in Freezer, FreezeLock(f) \/ FreezeUnlock(f)
      PROVE HandleInv'
  <2>1. Live' = Live /\ UNCHANGED <<active, read_ts>>
    BY <1>8 DEF FreezeLock, FreezeUnlock, Live, TypeOK
  <2> QED
    BY <2>1, SameHandles
<1>9. CASE UNCHANGED vars
  <2>1. Live' = Live /\ UNCHANGED <<active, read_ts>>
    BY <1>9 DEF vars, Live
  <2> QED
    BY <2>1, SameHandles
<1> QED
  BY <1>1, <1>2, <1>3, <1>4, <1>5, <1>6, <1>7, <1>8, <1>9 DEF Next

-----------------------------------------------------------------------------
(* Control: the lock, the phases and the sequence numbers.                 *)

\* Nobody holds the commit lock at first.
LEMMA ControlInit == Init => ControlInv
<1> SUFFICES ASSUME Init PROVE ControlInv
  OBVIOUS
<1> USE OracleAssumption DEF OracleAssumption, Init, Proc, Task
<1>1. LockInv
  BY DEF LockInv, Locked
<1>2. PhaseInv
  BY DEF PhaseInv
<1>3. SeqInv
  BY DEF SeqInv, Committed
<1> QED
  BY <1>1, <1>2, <1>3 DEF ControlInv

\* The lock and the phase of its holder change together.
LEMMA LockStep == TypeOK /\ ControlInv /\ [Next]_vars => LockInv'
<1> SUFFICES ASSUME TypeOK, LockInv, PhaseInv, [Next]_vars PROVE LockInv'
  BY DEF ControlInv
<1> USE OracleAssumption DEF OracleAssumption, TypeOK, Proc, Task, LockInv, Locked
<1>1. ASSUME NEW t \in Tx,
             \/ Begin(t) \/ Drop(t) \/ CommitEmpty(t) \/ CommitCall(t)
             \/ \E k \in Key : Buffer(t, k)
             \/ CommitConflict(t)
      PROVE LockInv'
  BY <1>1 DEF Begin, Drop, CommitEmpty, CommitCall, Buffer, CommitConflict
<1>2. ASSUME NEW p \in Plain, NEW k \in Key, Set(p, k) PROVE LockInv'
  BY <1>2 DEF Set
<1>3. ASSUME NEW t \in Task,
             \/ SetBatchDone(t) \/ \E k \in Key : Insert(t, k)
             \/ Publish(t) \/ Prune(t) \/ Return(t) \/ End(t)
      PROVE LockInv'
  BY <1>3 DEF SetBatchDone, Insert, Publish, Prune, Return, End
<1>4. ASSUME NEW t \in Task,
             CommitStart(t) \/ SetBatchFails(t) \/ Unlock(t) \/ FreezeFails(t)
      PROVE LockInv'
  BY <1>4 DEF CommitStart, SetBatchFails, Unlock, FreezeFails
<1>5. ASSUME NEW f \in Freezer, FreezeLock(f) \/ FreezeUnlock(f) PROVE LockInv'
  BY <1>5 DEF FreezeLock, FreezeUnlock
<1>6. CASE UNCHANGED vars
  BY <1>6 DEF vars
<1> QED
  BY <1>1, <1>2, <1>3, <1>4, <1>5, <1>6 DEF Next

\* What a task has decided, drawn and written fits the place it is in.
LEMMA PhaseStep == TypeOK /\ ControlInv /\ [Next]_vars => PhaseInv'
<1> SUFFICES ASSUME TypeOK, PhaseInv, [Next]_vars PROVE PhaseInv'
  BY DEF ControlInv
<1> USE OracleAssumption DEF OracleAssumption, TypeOK, Proc, Task, PhaseInv
<1>1. ASSUME NEW t \in Tx,
             \/ Begin(t) \/ Drop(t) \/ CommitEmpty(t) \/ CommitCall(t)
             \/ \E k \in Key : Buffer(t, k)
             \/ CommitConflict(t)
      PROVE PhaseInv'
  BY <1>1 DEF Begin, Drop, CommitEmpty, CommitCall, Buffer, CommitConflict
<1>2. ASSUME NEW p \in Plain, NEW k \in Key, Set(p, k) PROVE PhaseInv'
  BY <1>2 DEF Set
<1>3. ASSUME NEW t \in Task,
             \/ CommitStart(t) \/ SetBatchDone(t) \/ SetBatchFails(t)
             \/ \E k \in Key : Insert(t, k)
             \/ Publish(t) \/ Prune(t)
      PROVE PhaseInv'
  <2>1. CASE CommitStart(t)
    BY <2>1 DEF CommitStart
  <2>2. CASE SetBatchDone(t) \/ SetBatchFails(t)
    BY <2>2 DEF SetBatchDone, SetBatchFails
  <2>3. CASE \E k \in Key : Insert(t, k)
    BY <2>3 DEF Insert
  <2>4. CASE Publish(t) \/ Prune(t)
    BY <2>4 DEF Publish, Prune
  <2> QED
    BY <1>3, <2>1, <2>2, <2>3, <2>4
<1>4. ASSUME NEW t \in Task,
             Unlock(t) \/ FreezeFails(t) \/ Return(t) \/ End(t)
      PROVE PhaseInv'
  BY <1>4 DEF Unlock, FreezeFails, Return, End
<1>5. ASSUME NEW f \in Freezer, FreezeLock(f) \/ FreezeUnlock(f) PROVE PhaseInv'
  BY <1>5 DEF FreezeLock, FreezeUnlock
<1>6. CASE UNCHANGED vars
  BY <1>6 DEF vars
<1> QED
  BY <1>1, <1>2, <1>3, <1>4, <1>5, <1>6 DEF Next

\* Two tasks are never past the conflict check and unpublished together.
LEMMA OneWriter ==
  ASSUME LockInv, NEW t \in Task, NEW u \in Task, pc[t] \in Locked, pc[u] \in Locked
  PROVE  t = u
  BY DEF LockInv, Proc

\* Sequence numbers are drawn in order, each for one task, and only the holder
\* of the lock has one that is above the published timestamp.
LEMMA SeqStep == TypeOK /\ ControlInv /\ [Next]_vars => SeqInv'
<1> SUFFICES ASSUME TypeOK, LockInv, PhaseInv, SeqInv, [Next]_vars PROVE SeqInv'
  BY DEF ControlInv
<1> USE OracleAssumption
    DEF OracleAssumption, TypeOK, Proc, Task, PhaseInv, SeqInv, Committed
<1>1. ASSUME NEW t \in Tx,
             \/ Begin(t) \/ Drop(t) \/ CommitEmpty(t) \/ CommitCall(t)
             \/ \E k \in Key : Buffer(t, k)
             \/ CommitConflict(t)
      PROVE SeqInv'
  BY <1>1 DEF Begin, Drop, CommitEmpty, CommitCall, Buffer, CommitConflict
<1>2. ASSUME NEW p \in Plain, NEW k \in Key, Set(p, k) PROVE SeqInv'
  BY <1>2 DEF Set
<1>3. ASSUME NEW t \in Task, CommitStart(t) PROVE SeqInv'
  <2>1. \A u \in Task : pc[u] \notin {"writing", "written"}
    BY <1>3 DEF CommitStart, LockInv, Locked
  <2> QED
    BY <1>3, <2>1 DEF CommitStart
<1>4. ASSUME NEW t \in Task,
             \/ SetBatchDone(t) \/ SetBatchFails(t)
             \/ \E k \in Key : Insert(t, k)
      PROVE SeqInv'
  <2>1. CASE SetBatchDone(t) \/ SetBatchFails(t)
    BY <2>1 DEF SetBatchDone, SetBatchFails
  <2>2. CASE \E k \in Key : Insert(t, k)
    BY <2>2 DEF Insert
  <2> QED
    BY <1>4, <2>1, <2>2
<1>5. ASSUME NEW t \in Task, Publish(t) PROVE SeqInv'
  <2>1. \A u \in Task : u # t => pc[u] \notin {"writing", "written"}
    BY <1>5, OneWriter DEF Publish, Locked
  <2> QED
    BY <1>5, <2>1 DEF Publish
<1>6. ASSUME NEW t \in Task, Prune(t) PROVE SeqInv'
  BY <1>6 DEF Prune
<1>7. ASSUME NEW t \in Task,
             Unlock(t) \/ FreezeFails(t) \/ Return(t) \/ End(t)
      PROVE SeqInv'
  BY <1>7 DEF Unlock, FreezeFails, Return, End
<1>8. ASSUME NEW f \in Freezer, FreezeLock(f) \/ FreezeUnlock(f) PROVE SeqInv'
  BY <1>8 DEF FreezeLock, FreezeUnlock
<1>9. CASE UNCHANGED vars
  BY <1>9 DEF vars
<1> QED
  BY <1>1, <1>2, <1>3, <1>4, <1>5, <1>6, <1>7, <1>8, <1>9 DEF Next

-----------------------------------------------------------------------------
(* History: what `recent' remembers and who may commit.                    *)

\* Nothing is committed and no entry recorded at first.
LEMMA HistoryInit == Init => HistoryInv
  BY OracleAssumption
     DEF OracleAssumption, Init, HistoryInv, NoMiss, RecentReal, RecentComplete,
         FirstCommitterWins, ConflictIsReal, Overwrote, Committed, Live, Proc, Task

\* Steps that decide nothing and touch no entry of `recent'.
LEMMA QuietStep ==
  ASSUME HistoryInv,
         UNCHANGED <<recent, read_ts, buffer, commit_ts>>,
         Committed' = Committed,
         Live' \subseteq Live,
         \A t \in Tx : pc'[t] \in {"writing", "written"}
                         => pc[t] \in {"writing", "written"},
         \A t \in Tx : fate'[t] = "conflicted" => fate[t] = "conflicted"
  PROVE  HistoryInv'
<1>1. \A t, u : Overwrote(u, t)' <=> Overwrote(u, t)
  BY DEF Overwrote
<1>2. NoMiss'
  BY <1>1 DEF HistoryInv, NoMiss
<1>3. RecentReal'
  BY DEF HistoryInv, RecentReal
<1>4. RecentComplete'
  BY DEF HistoryInv, RecentComplete
<1>5. FirstCommitterWins'
  BY <1>1 DEF HistoryInv, FirstCommitterWins
<1>6. ConflictIsReal'
  BY <1>1 DEF HistoryInv, ConflictIsReal
<1> QED
  BY <1>2, <1>3, <1>4, <1>5, <1>6 DEF HistoryInv

\* A handle that begins reads at the published timestamp: nothing is newer.
LEMMA BeginHistory ==
  ASSUME TypeOK, ControlInv, HistoryInv, NEW t \in Tx, Begin(t)
  PROVE  HistoryInv'
<1> USE OracleAssumption DEF OracleAssumption, Proc, Task, ControlInv
<1>1. /\ UNCHANGED <<recent, buffer, commit_ts, fate>>
      /\ Committed' = Committed
      /\ read_ts' = [read_ts EXCEPT ![t] = visible]
      /\ pc[t] = "idle" /\ fate[t] = "none"
      /\ pc' = [pc EXCEPT ![t] = "open"]
  BY DEF Begin, Committed, PhaseInv
<1>2. \A u \in Task, x \in Tx : Overwrote(u, x)' => Overwrote(u, x) /\ x # t
  BY <1>1 DEF Overwrote, TypeOK, SeqInv
<1>3. \A u \in Task, x \in Tx : x # t => (Overwrote(u, x)' <=> Overwrote(u, x))
  BY <1>1 DEF Overwrote, TypeOK
<1>4. NoMiss'
  BY <1>1, <1>2 DEF HistoryInv, NoMiss, TypeOK
<1>5. RecentReal'
  BY <1>1 DEF HistoryInv, RecentReal
<1>6. RecentComplete'
  <2> SUFFICES ASSUME NEW x \in Live', NEW u \in Committed,
                      commit_ts[u] > read_ts'[x], NEW k \in buffer[u]
               PROVE  recent[k] > read_ts'[x]
    BY <1>1 DEF RecentComplete
  <2>1. x # t
    BY <1>1 DEF SeqInv, TypeOK, Committed
  <2>2. x \in Live /\ read_ts'[x] = read_ts[x]
    BY <1>1, <2>1 DEF Live, TypeOK
  <2> QED
    BY <2>2 DEF HistoryInv, RecentComplete
<1>7. FirstCommitterWins'
  BY <1>1, <1>2 DEF HistoryInv, FirstCommitterWins
<1>8. ConflictIsReal'
  BY <1>1, <1>3 DEF HistoryInv, ConflictIsReal
<1> QED
  BY <1>4, <1>5, <1>6, <1>7, <1>8 DEF HistoryInv

\* The buffer of a task grows only before the task calls commit.
LEMMA BufferHistory ==
  ASSUME TypeOK, ControlInv, HistoryInv, NEW t \in Task, NEW S \in SUBSET Key,
         fate[t] = "none", pc[t] \notin {"writing", "written"},
         buffer' = [buffer EXCEPT ![t] = S],
         UNCHANGED <<recent, read_ts, commit_ts, fate>>,
         Live' = Live,
         \A u \in Tx : pc'[u] \in {"writing", "written"}
                         => pc[u] \in {"writing", "written"}
  PROVE  HistoryInv'
<1> USE OracleAssumption DEF OracleAssumption, Proc, Task
<1>1. Committed' = Committed /\ t \notin Committed
  BY DEF Committed
<1>2. \A u \in Task : u # t => buffer'[u] = buffer[u]
  BY DEF TypeOK
<1>3. \A u \in Task, x \in Tx : x # t => (Overwrote(u, x)' <=> Overwrote(u, x))
  BY <1>1, <1>2 DEF Overwrote
<1>4. NoMiss'
  BY <1>3 DEF HistoryInv, NoMiss
<1>5. RecentReal'
  BY <1>1, <1>2 DEF HistoryInv, RecentReal, Committed
<1>6. RecentComplete'
  BY <1>1, <1>2 DEF HistoryInv, RecentComplete, Committed
<1>7. FirstCommitterWins'
  BY <1>1, <1>3 DEF HistoryInv, FirstCommitterWins
<1>8. ConflictIsReal'
  BY <1>3 DEF HistoryInv, ConflictIsReal
<1> QED
  BY <1>4, <1>5, <1>6, <1>7, <1>8 DEF HistoryInv

\* A refusal: the entry that caused it is a commit after the snapshot.
LEMMA ConflictHistory ==
  ASSUME TypeOK, ControlInv, HistoryInv, NEW t \in Tx, CommitConflict(t)
  PROVE  HistoryInv'
<1> USE OracleAssumption DEF OracleAssumption, Proc, Task
<1>1. /\ UNCHANGED <<recent, read_ts, buffer, commit_ts>>
      /\ fate[t] = "none"
      /\ fate' = [fate EXCEPT ![t] = "conflicted"]
      /\ pc' = [pc EXCEPT ![t] = "closing"]
      /\ pc[t] = "waiting"
  BY DEF CommitConflict, ControlInv, PhaseInv
<1>2. Committed' = Committed
  BY <1>1 DEF Committed, TypeOK
<1>3. Live' = Live
  BY <1>1 DEF Live, TypeOK
<1>4. \A x, u : Overwrote(u, x)' <=> Overwrote(u, x)
  BY <1>1, <1>2 DEF Overwrote
<1>5. \E u \in Task : Overwrote(u, t)
  <2>1. PICK k \in buffer[t] : recent[k] > read_ts[t]
    BY DEF CommitConflict, HasConflict
  <2>2. k \in Key /\ recent[k] # 0
    BY <2>1 DEF TypeOK
  <2>3. PICK u \in Committed : k \in buffer[u] /\ commit_ts[u] = recent[k]
    BY <2>2 DEF HistoryInv, RecentReal
  <2> QED
    BY <2>1, <2>3 DEF Overwrote, Committed
<1>6. NoMiss'
  BY <1>1, <1>4 DEF HistoryInv, NoMiss, TypeOK
<1>7. RecentReal'
  BY <1>1, <1>2 DEF HistoryInv, RecentReal
<1>8. RecentComplete'
  BY <1>1, <1>2, <1>3 DEF HistoryInv, RecentComplete
<1>9. FirstCommitterWins'
  BY <1>2, <1>1, <1>4 DEF HistoryInv, FirstCommitterWins
<1>10. ConflictIsReal'
  BY <1>1, <1>4, <1>5 DEF HistoryInv, ConflictIsReal, TypeOK
<1> QED
  BY <1>6, <1>7, <1>8, <1>9, <1>10 DEF HistoryInv

\* The check passes: since `recent' misses nothing, there is no conflict.
LEMMA StartHistory ==
  ASSUME TypeOK, ControlInv, HistoryInv, NEW t \in Task, CommitStart(t)
  PROVE  HistoryInv'
<1> USE OracleAssumption DEF OracleAssumption, Proc, Task
<1>1. /\ UNCHANGED <<recent, read_ts, buffer, fate>>
      /\ commit_ts' = [commit_ts EXCEPT ![t] = next_seq]
      /\ fate[t] = "none" /\ pc[t] = "waiting"
      /\ pc' = [pc EXCEPT ![t] = "writing"]
  BY DEF CommitStart, ControlInv, PhaseInv
<1>2. Committed' = Committed /\ t \notin Committed
  BY <1>1 DEF Committed
<1>3. \A u \in Committed : commit_ts'[u] = commit_ts[u]
  BY <1>1, <1>2 DEF TypeOK, Committed
<1>4. \A x, u : Overwrote(u, x)' <=> Overwrote(u, x)
  BY <1>1, <1>2, <1>3 DEF Overwrote
<1>5. Live' = Live
  BY <1>1 DEF Live, TypeOK
<1>6. ASSUME t \in Tx, NEW u \in Task, Overwrote(u, t) PROVE FALSE
  <2>1. t \in Live
    BY <1>1, <1>6 DEF Live
  <2>2. PICK k \in buffer[u] \cap buffer[t] : TRUE
    BY <1>6 DEF Overwrote
  <2>3. recent[k] > read_ts[t]
    BY <1>6, <2>1, <2>2 DEF Overwrote, HistoryInv, RecentComplete
  <2> QED
    BY <1>6, <2>2, <2>3 DEF CommitStart, HasConflict
<1>7. NoMiss'
  BY <1>1, <1>4, <1>6 DEF HistoryInv, NoMiss, TypeOK
<1>8. RecentReal'
  BY <1>1, <1>2, <1>3 DEF HistoryInv, RecentReal
<1>9. RecentComplete'
  BY <1>1, <1>2, <1>3, <1>5 DEF HistoryInv, RecentComplete
<1>10. FirstCommitterWins'
  BY <1>2, <1>3, <1>4 DEF HistoryInv, FirstCommitterWins, Overwrote
<1>11. ConflictIsReal'
  BY <1>1, <1>4 DEF HistoryInv, ConflictIsReal
<1> QED
  BY <1>7, <1>8, <1>9, <1>10, <1>11 DEF HistoryInv

\* The commit: its timestamp is above every snapshot and every other commit.
LEMMA PublishHistory ==
  ASSUME TypeOK, ControlInv, HistoryInv, NEW t \in Task, Publish(t)
  PROVE  HistoryInv'
<1> USE OracleAssumption DEF OracleAssumption, Proc, Task
<1>1. /\ UNCHANGED <<read_ts, buffer, commit_ts>>
      /\ fate' = [fate EXCEPT ![t] = "committed"]
      /\ fate[t] = "none" /\ pc[t] = "written"
      /\ pc' = [pc EXCEPT ![t] = "pruning"]
      /\ \A k \in Key : recent'[k] = IF k \in buffer[t] THEN commit_ts[t]
                                                        ELSE recent[k]
  BY DEF Publish, ControlInv, PhaseInv
<1>2. Committed' = Committed \cup {t} /\ t \notin Committed
  BY <1>1 DEF Committed, TypeOK
<1>3. /\ \A u \in Committed : commit_ts[u] < commit_ts[t]
      /\ \A x \in Tx : read_ts[x] < commit_ts[t]
  BY <1>1 DEF ControlInv, SeqInv, TypeOK, Committed
<1>4. Live' = Live
  BY <1>1 DEF Live, TypeOK
<1>5. \A x, u : u # t => (Overwrote(u, x)' <=> Overwrote(u, x))
  BY <1>1, <1>2 DEF Overwrote
<1>6. \A x \in Tx : pc'[x] \notin {"writing", "written"}
  BY <1>1, OneWriter DEF ControlInv, Locked, TypeOK
<1>7. NoMiss'
  BY <1>6 DEF NoMiss
<1>8. RecentReal'
  <2> SUFFICES ASSUME NEW k \in Key, recent'[k] # 0
               PROVE  \E u \in Committed' : k \in buffer[u] /\ commit_ts[u] = recent'[k]
    BY <1>1 DEF RecentReal
  <2>1. CASE k \in buffer[t]
    BY <2>1, <1>1, <1>2
  <2>2. CASE k \notin buffer[t]
    BY <2>2, <1>1, <1>2 DEF HistoryInv, RecentReal
  <2> QED
    BY <2>1, <2>2
<1>9. RecentComplete'
  <2> SUFFICES ASSUME NEW x \in Live, NEW u \in Committed',
                      commit_ts[u] > read_ts[x], NEW k \in buffer[u]
               PROVE  recent'[k] > read_ts[x]
    BY <1>1, <1>4 DEF RecentComplete
  <2>1. x \in Tx /\ k \in Key
    BY DEF Live, TypeOK, Committed
  <2>2. CASE k \in buffer[t]
    BY <2>1, <2>2, <1>1, <1>3 DEF TypeOK
  <2>3. CASE k \notin buffer[t]
    BY <2>1, <2>3, <1>1, <1>2 DEF HistoryInv, RecentComplete
  <2> QED
    BY <2>2, <2>3
<1>10. FirstCommitterWins'
  <2> SUFFICES ASSUME NEW x \in Tx, x \in Committed', NEW u \in Task,
                      Overwrote(u, x)'
               PROVE  commit_ts[u] >= commit_ts[x]
    BY <1>1 DEF FirstCommitterWins
  <2>1. CASE u = t
    BY <2>1, <1>2, <1>3 DEF TypeOK, Committed
  <2>2. CASE u # t /\ x = t
    BY <2>2, <1>1, <1>5 DEF HistoryInv, NoMiss
  <2>3. CASE u # t /\ x # t
    BY <2>3, <1>2, <1>5 DEF HistoryInv, FirstCommitterWins
  <2> QED
    BY <2>1, <2>2, <2>3
<1>11. ConflictIsReal'
  <2> SUFFICES ASSUME NEW x \in Tx, fate'[x] = "conflicted"
               PROVE  \E u \in Task : Overwrote(u, x)'
    BY DEF ConflictIsReal
  <2>1. fate[x] = "conflicted"
    BY <1>1 DEF TypeOK
  <2>2. PICK u \in Task : Overwrote(u, x)
    BY <2>1 DEF HistoryInv, ConflictIsReal
  <2>3. u # t
    BY <2>2, <1>2 DEF Overwrote
  <2> QED
    BY <2>2, <2>3, <1>5
<1> QED
  BY <1>7, <1>8, <1>9, <1>10, <1>11 DEF HistoryInv

\* Pruning keeps every entry above the snapshot of a live handle, because
\* that snapshot is in `active'.
LEMMA PruneHistory ==
  ASSUME TypeOK, HandleInv, ControlInv, HistoryInv, NEW t \in Task, Prune(t)
  PROVE  HistoryInv'
<1> USE OracleAssumption DEF OracleAssumption, Proc, Task
<1>1. /\ UNCHANGED <<read_ts, buffer, commit_ts, fate>>
      /\ pc' = [pc EXCEPT ![t] = "freezing"]
      /\ pc[t] = "pruning"
      /\ \A k \in Key : recent'[k] \in {0, recent[k]}
  BY DEF Prune
<1>2. Committed' = Committed
  BY <1>1 DEF Committed
<1>3. Live' = Live
  BY <1>1 DEF Live, TypeOK
<1>4. \A x, u : Overwrote(u, x)' <=> Overwrote(u, x)
  BY <1>1, <1>2 DEF Overwrote
<1>5. NoMiss'
  BY <1>1, <1>4 DEF HistoryInv, NoMiss, TypeOK
<1>6. RecentReal'
  BY <1>1, <1>2 DEF HistoryInv, RecentReal
<1>7. RecentComplete'
  <2> SUFFICES ASSUME NEW x \in Live, NEW u \in Committed,
                      commit_ts[u] > read_ts[x], NEW k \in buffer[u]
               PROVE  recent'[k] > read_ts[x]
    BY <1>1, <1>2, <1>3 DEF RecentComplete
  <2>1. recent[k] > read_ts[x]
    BY DEF HistoryInv, RecentComplete
  <2>2. read_ts[x] \in DOMAIN active
    BY DEF HandleInv, ActiveExact
  <2>3. AboveWatermark(recent[k], t)
    BY <2>1, <2>2 DEF AboveWatermark
  <2>4. k \in Key
    BY DEF TypeOK, Committed
  <2> QED
    BY <2>1, <2>3, <2>4 DEF Prune
<1>8. FirstCommitterWins'
  BY <1>1, <1>2, <1>4 DEF HistoryInv, FirstCommitterWins
<1>9. ConflictIsReal'
  BY <1>1, <1>4 DEF HistoryInv, ConflictIsReal
<1> QED
  BY <1>5, <1>6, <1>7, <1>8, <1>9 DEF HistoryInv

\* Every action keeps what commits, conflicts and `recent' say of each other.
LEMMA HistoryStep ==
  TypeOK /\ HandleInv /\ ControlInv /\ HistoryInv /\ [Next]_vars => HistoryInv'
<1> SUFFICES ASSUME TypeOK, HandleInv, ControlInv, HistoryInv, [Next]_vars
             PROVE  HistoryInv'
  OBVIOUS
<1> USE OracleAssumption DEF OracleAssumption, Proc, Task
<1>1. ASSUME NEW t \in Tx, Begin(t) PROVE HistoryInv'
  BY <1>1, BeginHistory
<1>2. ASSUME NEW t \in Tx, Drop(t) \/ CommitEmpty(t) \/ CommitCall(t)
      PROVE HistoryInv'
  <2>1. /\ UNCHANGED <<recent, read_ts, buffer, commit_ts>>
        /\ Committed' = Committed
        /\ Live' \subseteq Live
    BY <1>2 DEF Drop, CommitEmpty, CommitCall, Committed, Live, TypeOK,
                ControlInv, PhaseInv
  <2>2. \A u \in Tx : pc'[u] \in {"writing", "written"}
                        => pc[u] \in {"writing", "written"}
    BY <1>2 DEF Drop, CommitEmpty, CommitCall, TypeOK
  <2>3. \A u \in Tx : fate'[u] = "conflicted" => fate[u] = "conflicted"
    BY <1>2 DEF Drop, CommitEmpty, CommitCall, TypeOK
  <2> QED
    BY <2>1, <2>2, <2>3, QuietStep
<1>3. ASSUME NEW t \in Tx, NEW k \in Key, Buffer(t, k) PROVE HistoryInv'
  <2>1. /\ fate[t] = "none" /\ pc[t] = "open"
        /\ buffer[t] \cup {k} \in SUBSET Key
    BY <1>3 DEF Buffer, ControlInv, PhaseInv, TypeOK
  <2>2. Live' = Live
    BY <1>3 DEF Buffer, Live
  <2> QED
    BY <1>3, <2>1, <2>2, BufferHistory DEF Buffer
<1>4. ASSUME NEW t \in Tx, CommitConflict(t) PROVE HistoryInv'
  BY <1>4, ConflictHistory
<1>5. ASSUME NEW p \in Plain, NEW k \in Key, Set(p, k) PROVE HistoryInv'
  <2>1. fate[p] = "none" /\ pc[p] = "idle" /\ {k} \in SUBSET Key
    BY <1>5 DEF Set, ControlInv, PhaseInv
  <2>2. Live' = Live /\ \A u \in Tx : pc'[u] = pc[u]
    BY <1>5 DEF Set, Live, TypeOK
  <2> QED
    BY <1>5, <2>1, <2>2, BufferHistory DEF Set
<1>6. ASSUME NEW t \in Task, CommitStart(t) PROVE HistoryInv'
  BY <1>6, StartHistory
<1>7. ASSUME NEW t \in Task,
             \/ SetBatchDone(t) \/ SetBatchFails(t)
             \/ \E k \in Key : Insert(t, k)
      PROVE HistoryInv'
  <2>1. /\ UNCHANGED <<recent, read_ts, buffer, commit_ts>>
        /\ Committed' = Committed
        /\ Live' = Live
    BY <1>7 DEF SetBatchDone, SetBatchFails, Insert, Committed, Live, TypeOK,
                ControlInv, PhaseInv
  <2>2. \A u \in Tx : pc'[u] \in {"writing", "written"}
                        => pc[u] \in {"writing", "written"}
    BY <1>7 DEF SetBatchDone, SetBatchFails, Insert, TypeOK
  <2>3. \A u \in Tx : fate'[u] = "conflicted" => fate[u] = "conflicted"
    BY <1>7 DEF SetBatchDone, SetBatchFails, Insert, TypeOK
  <2> QED
    BY <2>1, <2>2, <2>3, QuietStep
<1>8. ASSUME NEW t \in Task, Publish(t) PROVE HistoryInv'
  BY <1>8, PublishHistory
<1>9. ASSUME NEW t \in Task, Prune(t) PROVE HistoryInv'
  BY <1>9, PruneHistory
<1>10. ASSUME NEW t \in Task,
              Unlock(t) \/ FreezeFails(t) \/ Return(t) \/ End(t)
       PROVE HistoryInv'
  <2>1. /\ UNCHANGED <<recent, read_ts, buffer, commit_ts, fate>>
        /\ Committed' = Committed
        /\ Live' \subseteq Live
    BY <1>10 DEF Unlock, FreezeFails, Return, End, Committed, Live, TypeOK
  <2>2. \A u \in Tx : pc'[u] \in {"writing", "written"}
                        => pc[u] \in {"writing", "written"}
    BY <1>10 DEF Unlock, FreezeFails, Return, End, TypeOK
  <2> QED
    BY <2>1, <2>2, QuietStep
<1>11. ASSUME NEW f \in Freezer, FreezeLock(f) \/ FreezeUnlock(f)
       PROVE HistoryInv'
  <2>1. /\ UNCHANGED <<recent, read_ts, buffer, commit_ts, fate>>
        /\ Committed' = Committed
        /\ \A t \in Task : pc'[t] = pc[t]
    BY <1>11 DEF FreezeLock, FreezeUnlock, Committed, TypeOK
  <2>2. Live' = Live
    BY <2>1 DEF Live
  <2> QED
    BY <2>1, <2>2, QuietStep
<1>12. CASE UNCHANGED vars
  <2>1. Committed' = Committed /\ Live' = Live
    BY <1>12 DEF vars, Committed, Live
  <2> QED
    BY <1>12, <2>1, QuietStep DEF vars
<1> QED
  BY <1>1, <1>2, <1>3, <1>4, <1>5, <1>6, <1>7, <1>8, <1>9, <1>10, <1>11,
     <1>12 DEF Next

-----------------------------------------------------------------------------
(* Writes: which versions are in the memtable.                             *)

\* A sequence number belongs to one task, and a version in the memtable to the
\* task that drew its number.  What a task has written fits what became of it.
WriteInv ==
    /\ \A t \in Task : commit_ts[t] < next_seq
    /\ \A t, u \in Task : t # u /\ commit_ts[t] = commit_ts[u] => commit_ts[t] = 0
    /\ \A v \in written : v[2] # 0 /\ \E u \in Task : v[2] = commit_ts[u]
    /\ \A t \in Task :
         /\ pc[t] \in {"idle", "open", "waiting"} => commit_ts[t] = 0
         /\ fate[t] \in {"conflicted", "dropped"} => commit_ts[t] = 0
         /\ pc[t] = "written" \/ fate[t] = "committed" => Versions(t) \subseteq written
         /\ fate[t] = "failed" =>
              Versions(t) \subseteq written \/ Versions(t) \cap written = {}

\* Nothing is written at first.
LEMMA WriteInit == Init => WriteInv
  BY OracleAssumption DEF OracleAssumption, Init, WriteInv, Versions, Proc, Task

\* A step that neither draws a number nor writes a version, nor changes a buffer
\* that matters.
LEMMA QuietWrite ==
  ASSUME TypeOK, WriteInv,
         UNCHANGED <<next_seq, commit_ts, written>>,
         \A t \in Task : buffer'[t] = buffer[t] \/ (commit_ts[t] = 0 /\ fate[t] = "none"
                                                   /\ pc[t] # "written"),
         \A t \in Task :
           /\ pc'[t] \in {"idle", "open", "waiting"} => commit_ts[t] = 0
           /\ fate'[t] \in {"conflicted", "dropped"} => commit_ts[t] = 0
           /\ pc'[t] = "written" \/ fate'[t] = "committed" =>
                /\ buffer'[t] = buffer[t]
                /\ Versions(t) \subseteq written
           /\ fate'[t] = "failed" =>
                /\ buffer'[t] = buffer[t]
                /\ Versions(t) \subseteq written \/ Versions(t) \cap written = {}
  PROVE  WriteInv'
<1>1. \A t \in Task : buffer'[t] = buffer[t] => Versions(t)' = Versions(t)
  BY DEF Versions
<1>2. /\ \A t \in Task : commit_ts'[t] < next_seq'
      /\ \A t, u \in Task : t # u /\ commit_ts'[t] = commit_ts'[u] => commit_ts'[t] = 0
      /\ \A v \in written' : v[2] # 0 /\ \E u \in Task : v[2] = commit_ts'[u]
  BY DEF WriteInv
<1> QED
  BY <1>1, <1>2 DEF WriteInv

\* Only CommitStart draws a number and only Insert writes a version.
LEMMA WriteStep ==
  TypeOK /\ ControlInv /\ WriteInv /\ [Next]_vars => WriteInv'
<1> SUFFICES ASSUME TypeOK, ControlInv, WriteInv, [Next]_vars PROVE WriteInv'
  OBVIOUS
<1> USE OracleAssumption DEF OracleAssumption, Proc, Task
<1>1. ASSUME NEW t \in Tx,
             \/ Begin(t) \/ Drop(t) \/ CommitEmpty(t) \/ CommitCall(t)
             \/ \E k \in Key : Buffer(t, k)
             \/ CommitConflict(t)
      PROVE WriteInv'
  <2>1. /\ UNCHANGED <<next_seq, commit_ts, written>>
        /\ pc[t] \in {"idle", "open", "waiting"} /\ fate[t] = "none"
        /\ pc'[t] # "written" /\ fate'[t] \notin {"committed", "failed"}
        /\ \A u \in Task : u # t => buffer'[u] = buffer[u] /\ pc'[u] = pc[u]
                                     /\ fate'[u] = fate[u]
    BY <1>1 DEF Begin, Drop, CommitEmpty, CommitCall, Buffer, CommitConflict,
                TypeOK, ControlInv, PhaseInv
  <2> QED
    BY <2>1, QuietWrite DEF WriteInv
<1>2. ASSUME NEW p \in Plain, NEW k \in Key, Set(p, k) PROVE WriteInv'
  <2>1. /\ UNCHANGED <<next_seq, commit_ts, written>>
        /\ pc[p] \in {"idle", "open", "waiting"} /\ fate[p] = "none"
        /\ pc'[p] # "written" /\ fate'[p] = "none"
        /\ \A u \in Task : u # p => buffer'[u] = buffer[u] /\ pc'[u] = pc[u]
                                     /\ fate'[u] = fate[u]
    BY <1>2 DEF Set, TypeOK, ControlInv, PhaseInv
  <2> QED
    BY <2>1, QuietWrite DEF WriteInv
<1>3. ASSUME NEW t \in Task, CommitStart(t) PROVE WriteInv'
  <2>1. /\ next_seq' = next_seq + 1
        /\ commit_ts' = [commit_ts EXCEPT ![t] = next_seq]
        /\ pc' = [pc EXCEPT ![t] = "writing"]
        /\ fate[t] = "none" /\ commit_ts[t] = 0
        /\ UNCHANGED <<buffer, written, fate>>
    BY <1>3 DEF CommitStart, ControlInv, PhaseInv, WriteInv
  <2>2. \A u \in Task : u # t => Versions(u)' = Versions(u)
    BY <2>1 DEF Versions, TypeOK
  <2>3. next_seq \in Nat /\ next_seq # 0
    BY DEF TypeOK, ControlInv, SeqInv
  <2>4. /\ \A u \in Task : commit_ts'[u] < next_seq'
        /\ \A u, x \in Task : u # x /\ commit_ts'[u] = commit_ts'[x] => commit_ts'[u] = 0
    BY <2>1, <2>3 DEF WriteInv, TypeOK
  <2>5. \A v \in written' : v[2] # 0 /\ \E u \in Task : v[2] = commit_ts'[u]
    BY <2>1 DEF WriteInv, TypeOK
  <2>6. \A u \in Task :
         /\ pc'[u] \in {"idle", "open", "waiting"} => commit_ts'[u] = 0
         /\ fate'[u] \in {"conflicted", "dropped"} => commit_ts'[u] = 0
         /\ pc'[u] = "written" \/ fate'[u] = "committed" => Versions(u)' \subseteq written'
         /\ fate'[u] = "failed" =>
              Versions(u)' \subseteq written' \/ Versions(u)' \cap written' = {}
    BY <2>1, <2>2 DEF WriteInv, TypeOK
  <2> QED
    BY <2>4, <2>5, <2>6 DEF WriteInv
<1>4. ASSUME NEW t \in Task, NEW k \in Key, Insert(t, k) PROVE WriteInv'
  <2>1. /\ UNCHANGED <<next_seq, commit_ts, buffer, pc, fate>>
        /\ written' = written \cup {<<k, commit_ts[t]>>}
        /\ pc[t] = "writing" /\ fate[t] = "none" /\ commit_ts[t] # 0
    BY <1>4 DEF Insert, ControlInv, PhaseInv, SeqInv, TypeOK
  <2>2. \A u \in Task : Versions(u)' = Versions(u)
    BY <2>1 DEF Versions
  <2>3. \A u \in Task : u # t => <<k, commit_ts[t]>> \notin Versions(u)
    BY <2>1 DEF Versions, WriteInv
  <2>4. \A v \in written' : v[2] # 0 /\ \E u \in Task : v[2] = commit_ts'[u]
    BY <2>1 DEF WriteInv
  <2>5. \A u \in Task :
         /\ pc'[u] \in {"idle", "open", "waiting"} => commit_ts'[u] = 0
         /\ fate'[u] \in {"conflicted", "dropped"} => commit_ts'[u] = 0
         /\ pc'[u] = "written" \/ fate'[u] = "committed" => Versions(u)' \subseteq written'
         /\ fate'[u] = "failed" =>
              Versions(u)' \subseteq written' \/ Versions(u)' \cap written' = {}
    BY <2>1, <2>2, <2>3 DEF WriteInv
  <2> QED
    BY <2>1, <2>4, <2>5 DEF WriteInv
<1>5. ASSUME NEW t \in Task, SetBatchDone(t) \/ SetBatchFails(t) \/ Publish(t)
      PROVE WriteInv'
  <2>1. /\ UNCHANGED <<next_seq, commit_ts, buffer, written>>
        /\ pc[t] \in {"writing", "written"} /\ fate[t] = "none"
        /\ pc'[t] \in {"written", "closing", "pruning"}
        /\ fate'[t] \in {"none", "failed", "committed"}
        /\ \A u \in Task : u # t => pc'[u] = pc[u] /\ fate'[u] = fate[u]
    BY <1>5 DEF SetBatchDone, SetBatchFails, Publish, TypeOK, ControlInv, PhaseInv
  <2>2. /\ pc'[t] = "written" \/ fate'[t] = "committed" => Versions(t) \subseteq written
        /\ fate'[t] = "failed" =>
             Versions(t) \subseteq written \/ Versions(t) \cap written = {}
    BY <1>5, <2>1 DEF SetBatchDone, SetBatchFails, Publish, TypeOK, WriteInv
  <2> QED
    BY <2>1, <2>2, QuietWrite DEF WriteInv
<1>6. ASSUME NEW t \in Task,
             Prune(t) \/ Unlock(t) \/ FreezeFails(t) \/ Return(t) \/ End(t)
      PROVE WriteInv'
  <2>1. /\ UNCHANGED <<next_seq, commit_ts, buffer, written, fate>>
        /\ pc'[t] \in {"freezing", "throttled", "closing", "done"}
        /\ \A u \in Task : u # t => pc'[u] = pc[u]
    BY <1>6 DEF Prune, Unlock, FreezeFails, Return, End, TypeOK
  <2> QED
    BY <2>1, QuietWrite DEF WriteInv
<1>7. ASSUME NEW f \in Freezer, FreezeLock(f) \/ FreezeUnlock(f) PROVE WriteInv'
  <2>1. /\ UNCHANGED <<next_seq, commit_ts, buffer, written, fate>>
        /\ \A u \in Task : pc'[u] = pc[u]
    BY <1>7 DEF FreezeLock, FreezeUnlock, TypeOK
  <2> QED
    BY <2>1, QuietWrite DEF WriteInv
<1>8. CASE UNCHANGED vars
  BY <1>8, QuietWrite DEF vars, WriteInv
<1> QED
  BY <1>1, <1>2, <1>3, <1>4, <1>5, <1>6, <1>7, <1>8 DEF Next

-----------------------------------------------------------------------------
(* The theorems.                                                           *)

\* A step keeps the strengthening.
LEMMA InductiveStep == IInv /\ [Next]_vars => IInv'
  BY TypeStep, HandleStep, LockStep, PhaseStep, SeqStep, HistoryStep
     DEF IInv, ControlInv

\* The invariant holds at first.
LEMMA InductiveInit == Init => IInv
  BY TypeInit, HandleInit, ControlInit, HistoryInit DEF IInv, ControlInv

\* It is an invariant of every behaviour.
LEMMA Inductive == Spec => []IInv
  BY InductiveInit, InductiveStep, PTL DEF Spec

\* `active' counts the live handles, whatever begins, commits and drops come
\* together: the watermark is never above a snapshot in use.
THEOREM HandlesCounted == Spec => []ActiveExact
<1>1. IInv => ActiveExact
  BY DEF IInv, HandleInv
<1> QED
  BY <1>1, Inductive, PTL

\* What the memtable holds is an invariant, too.
LEMMA Writes == Spec => [](IInv /\ WriteInv)
<1>1. IInv /\ WriteInv /\ [Next]_vars => WriteInv'
  BY WriteStep DEF IInv
<1> QED
  BY <1>1, WriteInit, Inductive, PTL DEF Spec

\* Readers never see part of a write set, nor a version of a task that was
\* refused or rolled back: at the timestamp they use a task's versions are all
\* there or none is.
THEOREM WritesAreAtomic == Spec => []AtomicVisibility
<1>1. IInv /\ WriteInv => AtomicVisibility
  <2> SUFFICES ASSUME IInv, WriteInv, NEW t \in Task,
                      fate[t] = "committed" \/ commit_ts[t] \in 1..visible
               PROVE  /\ Versions(t) \subseteq written \/ Versions(t) \cap written = {}
                      /\ fate[t] = "committed" => Versions(t) \subseteq written
                      /\ Versions(t) \cap written # {} => fate[t] \in {"committed", "failed"}
    BY DEF AtomicVisibility
  <2> USE DEF TypeOK, IInv, ControlInv, Proc
  <2>1. CASE fate[t] \in {"committed", "failed"}
    BY <2>1 DEF WriteInv
  <2>2. CASE fate[t] \notin {"committed", "failed"}
    <3>1. commit_ts[t] \in 1..visible /\ fate[t] = "none"
      BY <2>2 DEF WriteInv
    <3>2. pc[t] \in {"writing", "written"}
      BY <3>1 DEF PhaseInv, WriteInv
    <3> QED
      BY <3>1, <3>2 DEF SeqInv
  <2> QED
    BY <2>1, <2>2
<1> QED
  BY <1>1, Writes, PTL

\* While somebody freezes no commit is in flight: an unpublished version in the
\* memtable is one of a commit that failed.
THEOREM FreezesAreSettled == Spec => []FreezeSeesSettled
<1>1. IInv /\ WriteInv => FreezeSeesSettled
  <2> SUFFICES ASSUME IInv, WriteInv, NEW p \in Proc, pc[p] = "freezing",
                      NEW t \in Task, Versions(t) \cap written # {}, fate[t] # "failed"
               PROVE  commit_ts[t] <= visible
    BY DEF FreezeSeesSettled, Freezing
  <2> USE DEF IInv, ControlInv, TypeOK
  <2>1. commit_ts[t] # 0
    BY DEF Versions, WriteInv
  <2>2. fate[t] \in {"none", "committed"}
    BY <2>1 DEF WriteInv
  <2>3. commit_lock = p
    BY DEF LockInv, Locked
  <2>4. ASSUME fate[t] = "none" PROVE FALSE
    <3>1. pc[t] \in {"writing", "written"}
      BY <2>1, <2>4 DEF PhaseInv, WriteInv
    <3>2. commit_lock = t
      BY <3>1 DEF LockInv, Locked, Proc
    <3> QED
      BY <2>3, <3>1, <3>2
  <2> QED
    BY <2>2, <2>4 DEF SeqInv, Committed
<1> QED
  BY <1>1, Writes, PTL

\* Of two overlapping writers of a key only the first commits, whatever the
\* interleaving of begins, commits, drops, prunes and failures.
THEOREM SnapshotWriters == Spec => []FirstCommitterWins
<1>1. IInv => FirstCommitterWins
  BY DEF IInv, HistoryInv
<1> QED
  BY <1>1, Inductive, PTL

\* Nobody is refused a commit without a reason.
THEOREM ConflictsAreReal == Spec => []ConflictIsReal
<1>1. IInv => ConflictIsReal
  BY DEF IInv, HistoryInv
<1> QED
  BY <1>1, Inductive, PTL

\* Pruning `recent' below the watermark never loses an entry that a live
\* transaction still needs, and the watermark is that of the live handles.
THEOREM PruningIsSafe == Spec => [](RecentComplete /\ ActiveExact)
<1>1. IInv => RecentComplete /\ ActiveExact
  BY DEF IInv, HandleInv, HistoryInv
<1> QED
  BY <1>1, Inductive, PTL

-----------------------------------------------------------------------------
(* Oracle implements SnapshotIsolation.                                    *)

\* A step that users cannot see.
LEMMA InvisibleStep ==
  ASSUME UNCHANGED <<visible, read_ts>>,
         Committed' = Committed,
         \A u \in Committed : commit_ts'[u] = commit_ts[u] /\ buffer'[u] = buffer[u],
         \A t \in Task : Status(t)' = Status(t)
  PROVE  UNCHANGED SI!absvars
<1>1. {[task |-> u, ts |-> commit_ts'[u], keys |-> buffer'[u]] : u \in Committed'}
        = {[task |-> u, ts |-> commit_ts[u], keys |-> buffer[u]] : u \in Committed}
  OBVIOUS
<1>2. [t \in Task |-> Status(t)]' = [t \in Task |-> Status(t)]
  OBVIOUS
<1> QED
  BY <1>1, <1>2 DEF SI!absvars

\* An initial state of the oracle maps to one of snapshot isolation.
LEMMA RefineInit == Init => SI!Init
<1> SUFFICES ASSUME Init PROVE SI!Init
  OBVIOUS
<1>1. Committed = {}
  BY DEF Init, Committed
<1>2. \A t \in Task : Status(t) = "idle"
  BY DEF Init, Status, Proc
<1> QED
  BY <1>1, <1>2, OracleAssumption
     DEF Init, SI!Init, OracleAssumption, Task, SI!Task

\* The step changes the status of one task and no commit.
LEMMA StatusStep ==
  ASSUME NEW t \in Task, NEW s,
         Committed' = Committed,
         UNCHANGED <<commit_ts, buffer>>,
         Status(t)' = s,
         \A x \in Task : x # t => Status(x)' = Status(x)
  PROVE  /\ {[task |-> u, ts |-> commit_ts[u], keys |-> buffer[u]] : u \in Committed}'
              = {[task |-> u, ts |-> commit_ts[u], keys |-> buffer[u]] : u \in Committed}
         /\ [x \in Task |-> Status(x)]'
              = [[x \in Task |-> Status(x)] EXCEPT ![t] = s]
<1>1. {[task |-> u, ts |-> commit_ts[u], keys |-> buffer[u]] : u \in Committed}'
        = {[task |-> u, ts |-> commit_ts[u], keys |-> buffer[u]] : u \in Committed}
  OBVIOUS
<1>2. [x \in Task |-> Status(x)]'
        = [[x \in Task |-> Status(x)] EXCEPT ![t] = s]
  OBVIOUS
<1> QED
  BY <1>1, <1>2

\* Oracle::begin is the abstract begin: it takes the published timestamp.
LEMMA RefineBegin ==
  ASSUME IInv, NEW t \in Tx, Begin(t) PROVE SI!Begin(t)
<1> USE OracleAssumption DEF OracleAssumption, Proc, Task
<1>1. /\ fate[t] = "none"
      /\ Committed' = Committed
      /\ UNCHANGED <<commit_ts, buffer, fate, visible>>
  BY DEF Begin, IInv, ControlInv, PhaseInv, Committed
<1>2. Status(t) = "idle" /\ Status(t)' = "running"
  BY <1>1 DEF Begin, Status, IInv, TypeOK
<1>3. \A x \in Task : x # t => Status(x)' = Status(x)
  BY <1>1 DEF Begin, Status, IInv, TypeOK
<1> QED
  BY <1>1, <1>2, <1>3, StatusStep DEF SI!Begin, Begin

\* Rolling back, dropping, committing nothing and failing all give up.
LEMMA RefineAbandon ==
  ASSUME IInv, NEW t \in Task,
         (t \in Tx /\ (Drop(t) \/ CommitEmpty(t))) \/ SetBatchFails(t)
  PROVE  SI!Abandon(t)
<1> USE OracleAssumption DEF OracleAssumption, Proc, Task
<1>1. /\ fate[t] = "none"
      /\ UNCHANGED <<commit_ts, buffer, read_ts, visible>>
      /\ fate' \in {[fate EXCEPT ![t] = "dropped"], [fate EXCEPT ![t] = "failed"]}
      /\ \A x \in Task : x # t => pc'[x] = pc[x]
  BY DEF Drop, CommitEmpty, SetBatchFails, IInv, ControlInv, PhaseInv, TypeOK
<1>2. Committed' = Committed
  BY <1>1 DEF Committed, IInv, TypeOK
<1>3. Status(t) \in {"idle", "running"} /\ Status(t)' = "abandoned"
  BY <1>1 DEF Status, IInv, TypeOK
<1>4. \A x \in Task : x # t => Status(x)' = Status(x)
  BY <1>1 DEF Status, IInv, TypeOK
<1> QED
  BY <1>1, <1>2, <1>3, <1>4, StatusStep DEF SI!Abandon

\* A refusal has a newer commit to point at.
LEMMA RefineConflict ==
  ASSUME IInv, IInv', NEW t \in Tx, CommitConflict(t)
  PROVE  SI!Conflict(t, buffer[t])
<1> USE OracleAssumption DEF OracleAssumption, Proc, Task
<1>1. /\ fate[t] = "none" /\ pc[t] = "waiting"
      /\ UNCHANGED <<commit_ts, buffer, read_ts, visible>>
      /\ fate' = [fate EXCEPT ![t] = "conflicted"]
      /\ \A x \in Task : x # t => pc'[x] = pc[x]
  BY DEF CommitConflict, IInv, ControlInv, PhaseInv, TypeOK
<1>2. Committed' = Committed
  BY <1>1 DEF Committed, IInv, TypeOK
<1>3. Status(t) = "running" /\ Status(t)' = "conflicted"
  BY <1>1 DEF Status, IInv, TypeOK
<1>4. \A x \in Task : x # t => Status(x)' = Status(x)
  BY <1>1 DEF Status, IInv, TypeOK
<1>5. SI!Newer(t, buffer[t]) # {}
  <2>1. fate'[t] = "conflicted"
    BY <1>1 DEF IInv, TypeOK
  <2>2. PICK u \in Task : Overwrote(u, t)'
    BY <2>1 DEF IInv, HistoryInv, ConflictIsReal
  <2>3. u \in Committed /\ commit_ts[u] > read_ts[t] /\ buffer[u] \cap buffer[t] # {}
    BY <2>2, <1>1, <1>2 DEF Overwrote
  <2> DEFINE c == [task |-> u, ts |-> commit_ts[u], keys |-> buffer[u]]
  <2>4. c \in SI!Newer(t, buffer[t])
    BY <2>3 DEF SI!Newer
  <2> QED
    BY <2>4
<1> QED
  BY <1>1, <1>2, <1>3, <1>4, <1>5, StatusStep DEF SI!Conflict

\* The publish is the commit: one new timestamp, the latest of all.
LEMMA RefinePublish ==
  ASSUME IInv, NEW t \in Task, Publish(t)
  PROVE  \/ t \in Tx /\ SI!Commit(t, buffer[t])
         \/ t \in Plain /\ SI!Write(t, buffer[t])
<1> USE OracleAssumption DEF OracleAssumption, Proc, Task
<1>1. /\ fate[t] = "none" /\ pc[t] = "written"
      /\ UNCHANGED <<commit_ts, buffer, read_ts>>
      /\ visible' = commit_ts[t]
      /\ fate' = [fate EXCEPT ![t] = "committed"]
      /\ \A x \in Task : x # t => pc'[x] = pc[x]
  BY DEF Publish, IInv, ControlInv, PhaseInv, TypeOK
<1>2. Committed' = Committed \cup {t}
  BY <1>1 DEF Committed, IInv, TypeOK
<1>3. visible' \in Nat /\ visible' > visible
  BY <1>1 DEF IInv, ControlInv, SeqInv, TypeOK
<1>4. Status(t) = IF t \in Tx THEN "running" ELSE "idle"
  BY <1>1 DEF Status
<1>5. /\ Status(t)' = "committed"
      /\ \A x \in Task : x # t => Status(x)' = Status(x)
  BY <1>1 DEF Status, IInv, TypeOK
<1>6. {[task |-> u, ts |-> commit_ts[u], keys |-> buffer[u]] : u \in Committed}'
        = {[task |-> u, ts |-> commit_ts[u], keys |-> buffer[u]] : u \in Committed}
            \cup {[task |-> t, ts |-> visible', keys |-> buffer[t]]}
  BY <1>1, <1>2
<1>7. [x \in Task |-> Status(x)]'
        = [[x \in Task |-> Status(x)] EXCEPT ![t] = "committed"]
  BY <1>5
<1>8. SI!Append(t, buffer[t])
  BY <1>1, <1>3, <1>6, <1>7 DEF SI!Append
<1>9. ASSUME t \in Tx PROVE SI!Newer(t, buffer[t]) = {}
  <2>1. \A u \in Committed : ~(commit_ts[u] > read_ts[t] /\ buffer[u] \cap buffer[t] # {})
    BY <1>1, <1>9 DEF IInv, HistoryInv, NoMiss, Overwrote, Committed
  <2> QED
    BY <2>1 DEF SI!Newer
<1> QED
  BY <1>4, <1>8, <1>9 DEF SI!Commit, SI!Write

\* Every step maps to an abstract step or a stutter.
LEMMA RefineStep == IInv /\ IInv' /\ [Next]_vars => [SI!Next]_(SI!absvars)
<1> SUFFICES ASSUME IInv, IInv', [Next]_vars PROVE [SI!Next]_(SI!absvars)
  OBVIOUS
<1> USE OracleAssumption DEF OracleAssumption, Proc, Task
<1>1. ASSUME NEW t \in Tx, Begin(t) PROVE SI!Next
  BY <1>1, RefineBegin DEF SI!Next
<1>2. ASSUME NEW t \in Tx, Drop(t) \/ CommitEmpty(t) PROVE SI!Next
  BY <1>2, RefineAbandon DEF SI!Next, SI!Task
<1>3. ASSUME NEW t \in Task, SetBatchFails(t) PROVE SI!Next
  BY <1>3, RefineAbandon DEF SI!Next, SI!Task
<1>4. ASSUME NEW t \in Tx, CommitConflict(t) PROVE SI!Next
  BY <1>4, RefineConflict DEF SI!Next, IInv, TypeOK
<1>5. ASSUME NEW t \in Task, Publish(t) PROVE SI!Next
  BY <1>5, RefinePublish DEF SI!Next, IInv, TypeOK
<1>6. ASSUME NEW t \in Task,
             \/ t \in Tx /\ (CommitCall(t) \/ \E k \in Key : Buffer(t, k))
             \/ t \in Plain /\ \E k \in Key : Set(t, k)
      PROVE UNCHANGED SI!absvars
  <2>1. /\ UNCHANGED <<visible, read_ts, commit_ts, fate>>
        /\ t \notin Committed /\ fate[t] = "none"
        /\ \A u \in Task : u # t => buffer'[u] = buffer[u] /\ pc'[u] = pc[u]
        /\ t \in Tx => pc[t] # "idle" /\ pc'[t] # "idle"
    BY <1>6 DEF CommitCall, Buffer, Set, Committed, IInv, TypeOK,
                ControlInv, PhaseInv
  <2>2. Committed' = Committed
    BY <2>1 DEF Committed
  <2>3. \A u \in Task : Status(u)' = Status(u)
    BY <2>1 DEF Status
  <2> QED
    BY <2>1, <2>2, <2>3, InvisibleStep DEF Committed
<1>7. ASSUME NEW t \in Task,
             \/ CommitStart(t) \/ SetBatchDone(t)
             \/ \E k \in Key : Insert(t, k)
             \/ Prune(t) \/ Unlock(t) \/ FreezeFails(t) \/ Return(t) \/ End(t)
      PROVE UNCHANGED SI!absvars
  <2>1. /\ UNCHANGED <<visible, read_ts, buffer, fate>>
        /\ \A u \in Task : u # t => commit_ts'[u] = commit_ts[u] /\ pc'[u] = pc[u]
        /\ pc[t] # "idle" /\ pc'[t] # "idle"
    BY <1>7 DEF CommitStart, SetBatchDone, Insert, Prune, Unlock, FreezeFails,
                Return, End, IInv, TypeOK
  <2>2. Committed' = Committed
    BY <2>1 DEF Committed
  <2>3. t \in Committed => commit_ts'[t] = commit_ts[t]
    BY <1>7 DEF CommitStart, SetBatchDone, Insert, Prune, Unlock, FreezeFails,
                Return, End, IInv, ControlInv, PhaseInv, Committed
  <2>4. \A u \in Task : Status(u)' = Status(u)
    BY <2>1 DEF Status
  <2> QED
    BY <2>1, <2>2, <2>3, <2>4, InvisibleStep DEF Committed
<1>8. ASSUME NEW f \in Freezer, FreezeLock(f) \/ FreezeUnlock(f)
      PROVE UNCHANGED SI!absvars
  <2>1. /\ UNCHANGED <<visible, read_ts, buffer, commit_ts, fate>>
        /\ \A u \in Task : pc'[u] = pc[u]
    BY <1>8 DEF FreezeLock, FreezeUnlock, IInv, TypeOK
  <2>2. Committed' = Committed /\ \A u \in Task : Status(u)' = Status(u)
    BY <2>1 DEF Committed, Status
  <2> QED
    BY <2>1, <2>2, InvisibleStep
<1>9. CASE UNCHANGED vars
  <2>1. Committed' = Committed /\ \A u \in Task : Status(u)' = Status(u)
    BY <1>9 DEF vars, Committed, Status
  <2> QED
    BY <1>9, <2>1, InvisibleStep DEF vars
<1> QED
  BY <1>1, <1>2, <1>3, <1>4, <1>5, <1>6, <1>7, <1>8, <1>9 DEF Next

\* The Oracle, with the life of its transactions, snapshots, plain writes and
\* flushes, is an implementation of snapshot isolation.
THEOREM Refinement == Spec => ImplementsSnapshotIsolation
<1>1. Spec => SI!Init
  BY RefineInit DEF Spec
<1>2. IInv /\ IInv' /\ [Next]_vars => [SI!Next]_(SI!absvars)
  BY RefineStep
<1> QED
  BY <1>1, <1>2, Inductive, PTL DEF Spec, SI!Spec, ImplementsSnapshotIsolation

=============================================================================
