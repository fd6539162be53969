----------------------------- MODULE EngineProofs -----------------------------
(***************************************************************************)
(* Theorems about Engine, for any constants: what only the Oracle and the  *)
(* Storage together can promise.  The lemmas of the first part carry what  *)
(* is proved about each of them over to the database.                      *)
(*                                                                         *)
(* Neither half of the composition can be proved alone.  That a commit     *)
(* hands a non-empty batch to the Storage is a fact of the Oracle, and     *)
(* that flush_loop never freezes, which would release a commit lock it     *)
(* does not have, is a fact of the Storage.  So the invariants of both are *)
(* carried together.                                                       *)
(***************************************************************************)
EXTENDS Engine, FiniteSetTheorems, SequenceTheorems, TLAPS

OP == INSTANCE OracleProofs WITH IoFaults <- Faults \cap {"append", "new_wal"} # {}

SP == INSTANCE StorageProofs WITH Writer <- Task, Flusher <- Freezer

-----------------------------------------------------------------------------
(* The modules of the proofs talk of the same components.                  *)

\* Both have the same tasks.
LEMMA SameTasks ==
  /\ O!Task = Task /\ OP!Task = Task /\ O!Proc = Task \cup Freezer
  /\ OP!Proc = Task \cup Freezer
  /\ S!Proc = Task \cup Freezer \cup {Loop} /\ SP!Proc = S!Proc
  /\ O!vars = oracleVars /\ OP!vars = oracleVars
  BY DEF O!Task, OP!Task, Task, O!Proc, OP!Proc, S!Proc, SP!Proc, O!vars, OP!vars, oracleVars

\* What each assumes of its constants is assumed here.
LEMMA Assumed == OP!OracleAssumption /\ SP!StorageAssumption
  BY EngineAssumption
  DEF O!OracleAssumption, OP!OracleAssumption, O!Task, OP!Task, O!Proc, OP!Proc,
      S!StorageAssumption, SP!StorageAssumption, S!Proc, SP!Proc

\* The Oracle of the proofs is the Oracle of the database.
LEMMA SameOracle ==
  /\ O!Init <=> OP!Init
  /\ [O!Next]_(O!vars) <=> [OP!Next]_(OP!vars)
<1>1. O!Init <=> OP!Init
  BY Zenon DEF O!Init, OP!Init, O!Task, OP!Task, O!Proc, OP!Proc
<1>2. [O!Next]_(O!vars) <=> [OP!Next]_(OP!vars)
  BY Zenon
  DEF O!Next, OP!Next, O!vars, OP!vars, O!Task, OP!Task, O!Begin, OP!Begin,
      O!Drop, OP!Drop, O!CommitEmpty, OP!CommitEmpty, O!CommitCall, OP!CommitCall,
      O!Buffer, OP!Buffer, O!CommitConflict, OP!CommitConflict, O!Set, OP!Set,
      O!CommitStart, OP!CommitStart, O!SetBatchDone, OP!SetBatchDone,
      O!SetBatchFails, OP!SetBatchFails, O!Insert, OP!Insert,
      O!Publish, OP!Publish, O!Prune, OP!Prune, O!Unlock, OP!Unlock,
      O!FreezeFails, OP!FreezeFails, O!Return, OP!Return, O!End, OP!End,
      O!FreezeLock, OP!FreezeLock, O!FreezeUnlock, OP!FreezeUnlock,
      O!Enter, OP!Enter, O!Leave, OP!Leave, O!HasConflict, OP!HasConflict,
      O!Versions, OP!Versions, O!AboveWatermark, OP!AboveWatermark
<1> QED
  BY <1>1, <1>2

\* And so is the Storage.
LEMMA SameStorage ==
  /\ S!Init <=> SP!Init
  /\ [S!Next]_(S!vars) <=> [SP!Next]_(SP!vars)
<1>1. S!Init <=> SP!Init
  BY Zenon DEF S!Init, SP!Init, S!Proc, SP!Proc
<1> USE DEF S!stateVars, SP!stateVars, S!diskVars, SP!diskVars, S!lockVars, SP!lockVars,
            S!notifyVars, SP!notifyVars, S!taskVars, SP!taskVars, S!Goto, SP!Goto,
            S!Proc, SP!Proc
<1>2. /\ \A w, keys : S!Start(w, keys) <=> SP!Start(w, keys)
      /\ \A w, v : S!Put(w, v) <=> SP!Put(w, v)
      /\ \A w : S!TxCommit(w) <=> SP!TxCommit(w)
      /\ \A w : S!AppendFails(w) <=> SP!AppendFails(w)
  BY Zenon DEF S!Start, SP!Start, S!NoneExclusive, SP!NoneExclusive, S!Exclusive,
               SP!Exclusive, S!Put, SP!Put, S!TxCommit, SP!TxCommit, S!AppendFails,
               SP!AppendFails
<1>3. /\ \A w : S!FreezeIfFull(w) <=> SP!FreezeIfFull(w)
      /\ \A w : S!Proceed(w) <=> SP!Proceed(w)
      /\ \A w : S!Poke(w) <=> SP!Poke(w)
      /\ \A f : S!CallFlush(f) <=> SP!CallFlush(f)
      /\ \A f : S!Shutdown(f) <=> SP!Shutdown(f)
      /\ \A f : S!Join(f) <=> SP!Join(f)
  BY Zenon DEF S!FreezeIfFull, SP!FreezeIfFull, S!Full, SP!Full, S!Cardinality,
               SP!Cardinality, S!Proceed, SP!Proceed,
               S!Poke, SP!Poke, S!CallFlush, SP!CallFlush, S!NoneExclusive,
               SP!NoneExclusive, S!Exclusive, SP!Exclusive, S!Shutdown, SP!Shutdown,
               S!BeginShutdown, SP!BeginShutdown, S!Join, SP!Join
<1>4. \A p : S!Freeze(p) <=> SP!Freeze(p)
  BY Zenon DEF S!Freeze, SP!Freeze, S!FreezeLock, SP!FreezeLock, S!NotDue, SP!NotDue,
               S!StillDue, SP!StillDue, S!Full, SP!Full, S!Cardinality, SP!Cardinality,
               S!AfterFreeze, SP!AfterFreeze,
               S!AfterFlush, SP!AfterFlush, S!NewWal, SP!NewWal,
               S!NewWalFails, SP!NewWalFails, S!Swap, SP!Swap
<1>5. \A p : S!FlushOldest(p) <=> SP!FlushOldest(p)
  BY Zenon DEF S!FlushOldest, SP!FlushOldest, S!FlushPick, SP!FlushPick, S!Oldest, SP!Oldest,
               S!FlushNothing, SP!FlushNothing, S!L0, SP!L0, S!L0Fails, SP!L0Fails,
               S!AfterFlush, SP!AfterFlush, S!Newest, SP!Newest, S!Compacted,
               SP!Compacted, S!Named, SP!Named,
               S!RetireLock, SP!RetireLock, S!Retire, SP!Retire, S!Without, SP!Without,
               S!Cardinality, SP!Cardinality,
               S!RemoveWal, SP!RemoveWal, S!RemoveWalFails, SP!RemoveWalFails
<1>6. /\ S!LoopFlag <=> SP!LoopFlag
      /\ S!LoopWake <=> SP!LoopWake
      /\ S!DropHandle <=> SP!DropHandle
  BY Zenon DEF S!LoopFlag, SP!LoopFlag, S!LoopWake, SP!LoopWake, S!DropHandle,
               SP!DropHandle, S!BeginShutdown, SP!BeginShutdown
<1>7. [S!Next]_(S!vars) <=> [SP!Next]_(SP!vars)
  BY <1>2, <1>3, <1>4, <1>5, <1>6, Zenon DEF S!Next, SP!Next, S!vars, SP!vars
<1> QED
  BY <1>1, <1>7

-----------------------------------------------------------------------------
(* The composition.                                                        *)

\* A task that waits for the commit lock has something to write.
WaitInv == \A t \in Task : pc[t] = "waiting" => buffer[t] # {}

\* What is known of each component, and of the call between them.
PartsInv == OP!IInv /\ OP!WriteInv /\ SP!IInv /\ WaitInv

\* Every step is one of the Oracle or leaves its variables alone: only a task or a
\* flusher can fail in a freeze, which gives the commit lock back.
LEMMA OracleStep == SP!RoleInv /\ [Next]_vars => [O!Next]_(O!vars)
<1> SUFFICES ASSUME SP!RoleInv, [Next]_vars PROVE [O!Next]_(O!vars)
  OBVIOUS
<1> USE SameTasks
<1>0. UNCHANGED oracleVars => UNCHANGED O!vars
  BY DEF oracleVars, O!vars
<1>1. ASSUME NEW t \in Tx, Begin(t) \/ Capture(t) \/ Use(t) \/ Close(t)
      PROVE  [O!Next]_(O!vars)
  BY <1>0, <1>1 DEF Begin, Capture, Use, Close, O!Next, Task
<1>2. ASSUME NEW p \in Plain, EndSet(p) \/ \E k \in Key : CallSet(p, k)
      PROVE  [O!Next]_(O!vars)
  BY <1>2 DEF EndSet, CallSet, O!Next, Task
<1>3. ASSUME NEW t \in Task,
             \/ CommitStart(t) \/ SetBatchDone(t) \/ SetBatchFails(t) \/ Publish(t)
             \/ FreezeIfFull(t) \/ Unlock(t) \/ Throttle(t)
             \/ \E k \in Key : Insert(t, k)
      PROVE  [O!Next]_(O!vars)
  BY <1>0, <1>3 DEF CommitStart, SetBatchDone, SetBatchFails, Publish, FreezeIfFull, Unlock,
              Throttle, Insert, O!Next
<1>4. ASSUME NEW f \in Freezer, CallFlush(f) \/ FreezeDone(f)
      PROVE  [O!Next]_(O!vars)
  BY <1>4 DEF CallFlush, FreezeDone, O!Next
<1>5. ASSUME NEW p \in S!Proc, FreezeFails(p) PROVE [O!Next]_(O!vars)
  <2>1. at[p] = "check"
    BY <1>5 DEF FreezeFails, S!NewWalFails
  <2>2. p \in Task \/ p \in Freezer
    BY <2>1 DEF SP!RoleInv, SP!Flushing
  <2> QED
    BY <1>5, <2>2 DEF FreezeFails, O!Next
<1>6. ASSUME NEW p \in S!Proc, Freeze(p) \/ Flush(p) PROVE [O!Next]_(O!vars)
  BY <1>0, <1>6 DEF Freeze, Flush
<1>7. CASE Background \/ UNCHANGED vars
  BY <1>0, <1>7 DEF Background, vars
<1> QED
  BY <1>1, <1>2, <1>3, <1>4, <1>5, <1>6, <1>7 DEF Next

\* Every step is one of the Storage or leaves its variables alone: a commit that
\* gets the lock has something to write.
LEMMA StorageStep == OP!TypeOK /\ WaitInv /\ [Next]_vars => [S!Next]_(S!vars)
<1> SUFFICES ASSUME OP!TypeOK, WaitInv, [Next]_vars PROVE [S!Next]_(S!vars)
  OBVIOUS
<1> USE SameTasks
<1>0. UNCHANGED storageVars => UNCHANGED S!vars
  BY DEF storageVars, S!vars, S!stateVars, S!diskVars, S!lockVars, S!notifyVars, S!taskVars
<1>1. ASSUME NEW t \in Tx, Begin(t) \/ Capture(t) \/ Use(t) \/ Close(t)
      PROVE  [S!Next]_(S!vars)
  BY <1>0, <1>1 DEF Begin, Capture, Use, Close
<1>2. ASSUME NEW p \in Plain, EndSet(p) \/ \E k \in Key : CallSet(p, k)
      PROVE  [S!Next]_(S!vars)
  BY <1>0, <1>2 DEF EndSet, CallSet
<1>3. ASSUME NEW t \in Task, CommitStart(t) PROVE [S!Next]_(S!vars)
  <2>1. buffer[t] \in (SUBSET Key) \ {{}}
    BY <1>3 DEF CommitStart, O!CommitStart, WaitInv, OP!TypeOK
  <2> QED
    BY <1>3, <2>1 DEF CommitStart, S!Next
<1>4. ASSUME NEW t \in Task, NEW k \in Key, Insert(t, k) PROVE [S!Next]_(S!vars)
  <2>1. S!Put(t, <<k, commit_ts[t]>>) /\ <<k, commit_ts[t]>> \in batch[t]
    BY <1>4 DEF Insert, S!Put
  <2> QED
    BY <2>1 DEF S!Next
<1>5. ASSUME NEW t \in Task,
             \/ SetBatchDone(t) \/ SetBatchFails(t) \/ Publish(t)
             \/ FreezeIfFull(t) \/ Unlock(t) \/ Throttle(t)
      PROVE  [S!Next]_(S!vars)
  BY <1>0, <1>5 DEF SetBatchDone, SetBatchFails, Publish, FreezeIfFull, Unlock, Throttle,
                    S!Next
<1>6. ASSUME NEW f \in Freezer, CallFlush(f) \/ FreezeDone(f)
      PROVE  [S!Next]_(S!vars)
  BY <1>0, <1>6 DEF CallFlush, FreezeDone, S!Next
<1>7. ASSUME NEW p \in S!Proc, Freeze(p) \/ FreezeFails(p) \/ Flush(p)
      PROVE  [S!Next]_(S!vars)
  BY <1>7 DEF Freeze, FreezeFails, Flush, S!Next, S!Freeze
<1>8. CASE Background \/ UNCHANGED vars
  BY <1>0, <1>8 DEF Background, vars, S!Next
<1> QED
  BY <1>1, <1>2, <1>3, <1>4, <1>5, <1>6, <1>7, <1>8 DEF Next

\* A write set is not empty when the wait begins, and nobody changes it then.
LEMMA WaitStep == OP!TypeOK /\ WaitInv /\ [OP!Next]_(OP!vars) => WaitInv'
<1> SUFFICES ASSUME OP!TypeOK, WaitInv, [OP!Next]_(OP!vars) PROVE WaitInv'
  OBVIOUS
<1> USE SameTasks DEF WaitInv, OP!TypeOK
<1>0. Tx \subseteq Task /\ Plain \subseteq Task
  BY DEF Task
<1>1. ASSUME NEW t \in Tx,
             \/ OP!Begin(t) \/ OP!Drop(t) \/ OP!CommitEmpty(t) \/ OP!CommitCall(t)
             \/ OP!CommitConflict(t)
      PROVE  WaitInv'
  BY <1>0, <1>1 DEF OP!Begin, OP!Drop, OP!CommitEmpty, OP!CommitCall, OP!CommitConflict
<1>2. ASSUME NEW t \in Tx, NEW k \in Key, OP!Buffer(t, k) PROVE WaitInv'
  BY <1>0, <1>2 DEF OP!Buffer
<1>3. ASSUME NEW p \in Plain, NEW k \in Key, OP!Set(p, k) PROVE WaitInv'
  BY <1>0, <1>3 DEF OP!Set
<1>4. ASSUME NEW t \in Task,
             \/ OP!CommitStart(t) \/ OP!SetBatchDone(t) \/ OP!SetBatchFails(t)
             \/ \E k \in Key : OP!Insert(t, k)
             \/ OP!Publish(t) \/ OP!Prune(t) \/ OP!Unlock(t) \/ OP!FreezeFails(t)
             \/ OP!Return(t) \/ OP!End(t)
      PROVE  WaitInv'
  BY <1>4 DEF OP!CommitStart, OP!SetBatchDone, OP!SetBatchFails, OP!Insert, OP!Publish,
              OP!Prune, OP!Unlock, OP!FreezeFails, OP!Return, OP!End
<1>5. ASSUME NEW f \in Freezer, OP!FreezeLock(f) \/ OP!FreezeUnlock(f) PROVE WaitInv'
  BY <1>5 DEF OP!FreezeLock, OP!FreezeUnlock
<1>6. CASE UNCHANGED OP!vars
  BY <1>6 DEF OP!vars
<1> QED
  BY <1>1, <1>2, <1>3, <1>4, <1>5, <1>6 DEF OP!Next

\* At first what is known of the components holds.
LEMMA PartsInit == Init => PartsInv
<1> SUFFICES ASSUME Init PROVE PartsInv
  OBVIOUS
<1>1. OP!Init /\ SP!Init
  BY SameOracle, SameStorage DEF Init
<1>2. OP!IInv /\ OP!WriteInv /\ SP!IInv
  BY <1>1, Assumed, OP!InductiveInit, OP!WriteInit, SP!InductiveInit
<1>3. WaitInv
  BY <1>1, SameTasks DEF OP!Init, WaitInv, Task
<1> QED
  BY <1>2, <1>3 DEF PartsInv

\* A step of the database is a step of each component or does not concern it.
LEMMA PartsStep ==
  PartsInv /\ [Next]_vars =>
    PartsInv' /\ [OP!Next]_(OP!vars) /\ [SP!Next]_(SP!vars)
<1> SUFFICES ASSUME PartsInv, [Next]_vars
             PROVE  PartsInv' /\ [OP!Next]_(OP!vars) /\ [SP!Next]_(SP!vars)
  OBVIOUS
<1>1. OP!IInv /\ OP!WriteInv /\ SP!IInv /\ WaitInv
  BY DEF PartsInv
<1>2. OP!TypeOK /\ SP!RoleInv
  BY <1>1 DEF OP!IInv, SP!IInv
<1>3. [OP!Next]_(OP!vars)
  BY <1>2, OracleStep, SameOracle
<1>4. [SP!Next]_(SP!vars)
  BY <1>1, <1>2, StorageStep, SameStorage
<1>5. OP!IInv'
  BY <1>1, <1>3, Assumed, OP!InductiveStep
<1>6. OP!WriteInv'
  BY <1>1, <1>3, Assumed, OP!WriteStep DEF OP!IInv
<1>7. SP!IInv'
  BY <1>1, <1>4, Assumed, SP!InductiveStep
<1>8. WaitInv'
  BY <1>1, <1>2, <1>3, WaitStep
<1> QED
  BY <1>3, <1>4, <1>5, <1>6, <1>7, <1>8 DEF PartsInv

\* It always does.
LEMMA Parts == Spec => []PartsInv
  BY PartsInit, PartsStep, PTL DEF Spec

-----------------------------------------------------------------------------
(* What the two components agree on.                                       *)

\* A task is in the same place for both: it holds the commit lock when the
\* Storage lets it write or freeze.
PlaceInv ==
    /\ \A t \in Task :
         /\ pc[t] = "writing" <=> at[t] = "put"
         /\ pc[t] \in {"idle", "open", "waiting", "closing", "done"} <=> at[t] = "idle"
         /\ pc[t] \in {"written", "pruning"} => at[t] = "batched"
         /\ pc[t] = "throttled" => at[t] = "throttle"
    /\ \A p \in Task \cup Freezer : at[p] \in {"freeze", "check", "swap"} => pc[p] = "freezing"

\* What is in the memtables is what was written, each version by a task that
\* drew its number for it.
DataInv ==
    /\ written = UNION {entries[i] : i \in DOMAIN entries}
    /\ clock = next_seq - 1
    /\ \A t \in Task : pc[t] = "writing" => batch[t] = O!Versions(t)
    /\ \A t \in O!Committed : commit_ts[t] # 0
    /\ \A v \in written : \E u \in Task : v \in O!Versions(u)

\* A handle with a State is live.
HandleInv ==
    /\ DOMAIN pinned = Tx
    /\ \A t \in Tx : HasHandle(t) => t \in O!Live

\* When no append fails, what is not in the active memtable is published.
SettledInv ==
    "append" \notin Faults =>
        /\ \A t \in Task : fate[t] # "failed"
        /\ \A i \in DOMAIN entries : i # mem_table => \A v \in entries[i] : v[2] <= visible

\* A commit that is done is in a log as a whole.
DurableInv ==
    \A t \in Task : pc[t] = "written" \/ t \in O!Committed =>
        \E i \in DOMAIN log : O!Versions(t) \subseteq log[i]

\* The memtables that t pinned, newest first.
HeldList(t) == <<pinned[t].mem>> \o pinned[t].frozen

\* The same as a set.
Held(t) == {HeldList(t)[n] : n \in DOMAIN HeldList(t)}

\* Memtables that had been retired when t pinned its State.
Older(t) == {i \in DOMAIN entries : i < pinned[t].mem /\ i \notin Held(t)}

\* What was visible when t pinned its State lies in the memtables it pinned, or
\* in those that were retired before.
PinnedWell(t) ==
    /\ pinned[t].mem \in DOMAIN entries /\ pinned[t].frozen \in Seq(DOMAIN entries)
    /\ \A n, m \in DOMAIN HeldList(t) : n < m => HeldList(t)[n] > HeldList(t)[m]
    /\ pinned[t].since \in Nat
    /\ read_ts[t] <= pinned[t].since /\ pinned[t].since <= visible
    /\ \A i \in DOMAIN entries : i > pinned[t].mem =>
         \A v \in entries[i] : v[2] > pinned[t].since
    /\ \A i \in Older(t) :
         /\ i \in SP!Retired
         /\ \A h \in Held(t) : i < h
         /\ "append" \notin Faults => \A v \in entries[i] : v[2] <= pinned[t].since

\* This holds of every State that is pinned.
PinInv == \A t \in Tx : HasHandle(t) => PinnedWell(t)

\* The inductive invariant.
IInv ==
    /\ PartsInv
    /\ PlaceInv /\ DataInv /\ HandleInv
    /\ SettledInv /\ DurableInv /\ PinInv

\* What t can see at all: of the memtables it pinned everything up to its
\* timestamp, of the older ones what their tables kept.
Seen(t) ==
    Upto((UNION {entries[i] : i \in Held(t)}) \cup (UNION {SP!Compacted(i) : i \in Older(t)}),
         read_ts[t])

\* Where the tasks are, and which tasks there are.
LEMMA Tasks ==
  ASSUME OP!TypeOK, SP!TypeOK, SP!RoleInv
  PROVE  /\ pc \in [Task \cup Freezer -> {"idle", "open", "waiting", "writing", "written",
                        "pruning", "freezing", "throttled", "closing", "done"}]
         /\ at \in [Task \cup Freezer \cup {Loop} ->
                       {"idle", "put", "batched", "freeze", "check", "swap",
                        "throttle", "drain", "l0", "retire", "retain", "remove",
                        "flag", "failed", "wait", "exited", "shutdown", "join"}]
         /\ Tx \subseteq Task /\ Plain \subseteq Task /\ Tx \cap Plain = {}
         /\ Task \cap Freezer = {} /\ Loop \notin Task /\ Loop \notin Freezer
         /\ \A p \in S!Proc : at[p] \in {"drain", "l0", "retire", "retain", "remove"} => p \notin Task
         /\ at[Loop] \notin {"freeze", "check", "swap"}
<1>1. Tx \subseteq Task /\ Plain \subseteq Task
  BY DEF Task
<1>2. Tx \cap Plain = {} /\ Task \cap Freezer = {} /\ Loop \notin Task /\ Loop \notin Freezer
  BY Assumed, SameTasks DEF OP!OracleAssumption, SP!StorageAssumption
<1> QED
  BY <1>1, <1>2, SameTasks DEF OP!TypeOK, SP!TypeOK, SP!RoleInv, SP!Flushing

\* At first every task is idle in both.
LEMMA PlaceInit == Init => PlaceInv
  BY SameTasks, Assumed DEF Init, O!Init, S!Init, PlaceInv, SP!StorageAssumption

\* Every call moves the task in both, or it is in the middle of one of theirs.
LEMMA PlaceStep == PartsInv /\ PlaceInv /\ [Next]_vars => PlaceInv'
<1> SUFFICES ASSUME OP!TypeOK, SP!TypeOK, SP!RoleInv, PlaceInv, [Next]_vars PROVE PlaceInv'
  BY DEF PartsInv, OP!IInv, SP!IInv
<1> USE SameTasks DEF PlaceInv, S!Goto
<1>0. /\ pc \in [Task \cup Freezer -> {"idle", "open", "waiting", "writing", "written",
                        "pruning", "freezing", "throttled", "closing", "done"}]
      /\ at \in [Task \cup Freezer \cup {Loop} ->
                       {"idle", "put", "batched", "freeze", "check", "swap",
                        "throttle", "drain", "l0", "retire", "retain", "remove",
                        "flag", "failed", "wait", "exited", "shutdown", "join"}]
      /\ Tx \subseteq Task /\ Plain \subseteq Task /\ Tx \cap Plain = {}
      /\ Task \cap Freezer = {} /\ Loop \notin Task /\ Loop \notin Freezer
      /\ \A p \in S!Proc : at[p] \in {"drain", "l0", "retire", "retain", "remove"} => p \notin Task
      /\ at[Loop] \notin {"freeze", "check", "swap"}
  BY Tasks
<1>1. ASSUME NEW t \in Tx, Begin(t) \/ Capture(t) \/ Use(t) \/ Close(t) PROVE PlaceInv'
  <2>1. UNCHANGED at /\ (UNCHANGED pc \/ \E x \in {"open", "waiting", "closing", "done"} :
          /\ pc[t] \in {"idle", "open", "waiting", "closing"}
          /\ pc' = [pc EXCEPT ![t] = x])
    BY <1>1 DEF Begin, Capture, Use, Close, oracleVars, storageVars, O!Begin, O!Buffer,
                O!CommitEmpty, O!CommitCall, O!CommitConflict, O!Drop, O!End
  <2> QED
    BY <1>0, <2>1
<1>2. ASSUME NEW p \in Plain, EndSet(p) \/ \E k \in Key : CallSet(p, k) PROVE PlaceInv'
  BY <1>0, <1>2 DEF EndSet, CallSet, O!End, O!Set, storageVars
<1>3. ASSUME NEW t \in Task, CommitStart(t) PROVE PlaceInv'
  BY <1>0, <1>3 DEF CommitStart, O!CommitStart, S!Start
<1>4. ASSUME NEW t \in Task, SetBatchDone(t) PROVE PlaceInv'
  BY <1>0, <1>4 DEF SetBatchDone, O!SetBatchDone, S!TxCommit
<1>5. ASSUME NEW t \in Task, SetBatchFails(t) PROVE PlaceInv'
  BY <1>0, <1>5 DEF SetBatchFails, O!SetBatchFails, S!AppendFails
<1>6. ASSUME NEW t \in Task, Publish(t) PROVE PlaceInv'
  BY <1>0, <1>6 DEF Publish, O!Publish, O!Prune, storageVars
<1>7. ASSUME NEW t \in Task, FreezeIfFull(t) PROVE PlaceInv'
  BY <1>0, <1>7 DEF FreezeIfFull, S!FreezeIfFull, oracleVars
<1>8. ASSUME NEW t \in Task, Unlock(t) PROVE PlaceInv'
  BY <1>0, <1>8 DEF Unlock, O!Unlock, storageVars
<1>9. ASSUME NEW t \in Task, Throttle(t) PROVE PlaceInv'
  BY <1>0, <1>9 DEF Throttle, O!Return, S!Proceed, S!Poke, oracleVars
<1>10. ASSUME NEW t \in Task, NEW k \in Key, Insert(t, k) PROVE PlaceInv'
  BY <1>0, <1>10 DEF Insert, O!Insert, S!Put
<1>11. ASSUME NEW f \in Freezer, CallFlush(f) \/ FreezeDone(f) PROVE PlaceInv'
  BY <1>0, <1>11 DEF CallFlush, FreezeDone, O!FreezeLock, O!FreezeUnlock, S!CallFlush, storageVars
<1>12. ASSUME NEW p \in S!Proc, Freeze(p) PROVE PlaceInv'
  <2>1. UNCHANGED pc /\ at[p] \in {"freeze", "check", "swap"}
        /\ \E x \in {"check", "swap", IF p \in Task THEN "throttle" ELSE "drain"} :
             at' = [at EXCEPT ![p] = x]
    BY <1>12 DEF Freeze, S!FreezeLock, S!NotDue, S!NewWal, S!Swap, S!AfterFreeze, oracleVars
  <2> QED
    BY <1>0, <2>1
<1>13. ASSUME NEW p \in S!Proc, FreezeFails(p) PROVE PlaceInv'
  <2>1. at[p] = "check" /\ p # Loop
    BY <1>0, <1>13 DEF FreezeFails, S!NewWalFails
  <2>2. CASE p \in Task
    BY <1>0, <1>13, <2>1, <2>2 DEF FreezeFails, S!NewWalFails, O!FreezeFails
  <2>3. CASE p \in Freezer
    BY <1>0, <1>13, <2>1, <2>3 DEF FreezeFails, S!NewWalFails, O!FreezeUnlock, S!AfterFlush
  <2> QED
    BY <2>1, <2>2, <2>3
<1>14. ASSUME NEW p \in S!Proc, Flush(p) PROVE PlaceInv'
  <2>1. UNCHANGED pc /\ at[p] \in {"drain", "l0", "retire", "retain", "remove"}
        /\ \E x \in {"l0", "retire", "retain", "remove", "drain", "flag", "failed", "idle",
                     "shutdown"} :
             at' = [at EXCEPT ![p] = x]
    BY <1>14 DEF Flush, S!FlushOldest, S!FlushPick, S!FlushNothing, S!L0, S!L0Fails,
                 S!RetireLock, S!Retire, S!RemoveWal, S!RemoveWalFails, S!AfterFlush, oracleVars
  <2> QED
    BY <1>0, <2>1
<1>15. CASE Background
  <2>1. UNCHANGED pc /\ (UNCHANGED at \/ \E p \in Freezer \cup {Loop} :
          \E x \in {"exited", "wait", "drain", "join", "idle"} : at' = [at EXCEPT ![p] = x])
    BY <1>15 DEF Background, S!LoopFlag, S!LoopWake, S!DropHandle, S!Shutdown, S!Join, oracleVars
  <2> QED
    BY <1>0, <2>1
<1>16. CASE UNCHANGED vars
  BY <1>16 DEF vars, oracleVars, storageVars
<1> QED
  BY <1>1, <1>2, <1>3, <1>4, <1>5, <1>6, <1>7, <1>8, <1>9, <1>10, <1>11, <1>12, <1>13, <1>14,
     <1>15, <1>16 DEF Next

\* A task keeps its number and the write set it drew it for.
LEMMA NumbersKept ==
  ASSUME PartsInv, [Next]_vars, NEW u \in Task, commit_ts[u] # 0
  PROVE  /\ commit_ts'[u] = commit_ts[u] /\ buffer'[u] = buffer[u]
         /\ O!Versions(u)' = O!Versions(u)
<1> USE SameTasks
<1>1. [OP!Next]_(OP!vars) /\ OP!TypeOK /\ OP!WriteInv
  BY PartsStep DEF PartsInv, OP!IInv
<1>2. pc[u] \notin {"idle", "open", "waiting"}
  BY <1>1 DEF OP!WriteInv
<1>3. commit_ts'[u] = commit_ts[u] /\ buffer'[u] = buffer[u]
  <2> USE <1>1, <1>2 DEF OP!TypeOK
  <2>1. ASSUME NEW t \in Tx,
               \/ OP!Begin(t) \/ OP!Drop(t) \/ OP!CommitEmpty(t) \/ OP!CommitCall(t)
               \/ OP!CommitConflict(t) \/ \E k \in Key : OP!Buffer(t, k)
        PROVE  commit_ts'[u] = commit_ts[u] /\ buffer'[u] = buffer[u]
    BY <2>1 DEF OP!Begin, OP!Drop, OP!CommitEmpty, OP!CommitCall, OP!CommitConflict, OP!Buffer
  <2>2. ASSUME NEW p \in Plain, NEW k \in Key, OP!Set(p, k)
        PROVE  commit_ts'[u] = commit_ts[u] /\ buffer'[u] = buffer[u]
    BY <2>2 DEF OP!Set
  <2>3. ASSUME NEW t \in Task,
               \/ OP!CommitStart(t) \/ OP!SetBatchDone(t) \/ OP!SetBatchFails(t)
               \/ \E k \in Key : OP!Insert(t, k)
               \/ OP!Publish(t) \/ OP!Prune(t) \/ OP!Unlock(t) \/ OP!FreezeFails(t)
               \/ OP!Return(t) \/ OP!End(t)
        PROVE  commit_ts'[u] = commit_ts[u] /\ buffer'[u] = buffer[u]
    BY <2>3 DEF OP!CommitStart, OP!SetBatchDone, OP!SetBatchFails, OP!Insert, OP!Publish,
                OP!Prune, OP!Unlock, OP!FreezeFails, OP!Return, OP!End
  <2>4. ASSUME NEW f \in Freezer, OP!FreezeLock(f) \/ OP!FreezeUnlock(f)
        PROVE  commit_ts'[u] = commit_ts[u] /\ buffer'[u] = buffer[u]
    BY <2>4 DEF OP!FreezeLock, OP!FreezeUnlock
  <2>5. CASE UNCHANGED OP!vars
    BY <2>5 DEF OP!vars
  <2> QED
    BY <2>1, <2>2, <2>3, <2>4, <2>5 DEF OP!Next
<1> QED
  BY <1>3 DEF O!Versions

\* A task in the middle of its write has drawn a number.
LEMMA Numbered ==
  ASSUME PartsInv, DataInv, NEW t \in Task,
         pc[t] \in {"writing", "written"} \/ t \in O!Committed
  PROVE  commit_ts[t] # 0
<1>1. commit_ts[t] \in Nat /\ visible \in Nat
  BY SameTasks DEF PartsInv, OP!IInv, OP!TypeOK
<1>2. CASE pc[t] \in {"writing", "written"}
  BY <1>1, <1>2, SameTasks DEF PartsInv, OP!IInv, OP!ControlInv, OP!SeqInv
<1> QED
  BY <1>2 DEF DataInv

\* At first there is no version and no handle.
LEMMA DataInit == Init => DataInv /\ HandleInv
<1> SUFFICES ASSUME Init PROVE DataInv /\ HandleInv
  OBVIOUS
<1>1. /\ written = {} /\ entries = [i \in {1} |-> {}] /\ clock = InitSeq /\ next_seq = InitSeq + 1
      /\ pinned = [t \in Tx |-> NoState] /\ InitSeq \in Nat
      /\ \A t \in Task : pc[t] = "idle" /\ fate[t] = "none"
  BY SameTasks, Assumed DEF Init, O!Init, S!Init, SP!StorageAssumption
<1>2. O!Committed = {}
  BY <1>1, SameTasks DEF O!Committed
<1>3. written = UNION {entries[i] : i \in DOMAIN entries}
  BY <1>1
<1> QED
  BY <1>1, <1>2, <1>3 DEF DataInv, HandleInv, HasHandle

-----------------------------------------------------------------------------
(* The steps that matter to what both components hold, and the others.     *)

\* A step that changes nothing of it.
Quiet ==
    /\ UNCHANGED <<written, entries, clock, next_seq, batch, commit_ts, mem_table, frozen,
                   visible, log, read_ts, pinned>>
    /\ \A t \in Task :
         /\ pc'[t] = "writing" <=> pc[t] = "writing"
         /\ pc'[t] = "written" <=> pc[t] = "written"
         /\ fate'[t] = "committed" <=> fate[t] = "committed"
         /\ fate'[t] = "failed" <=> fate[t] = "failed"
    /\ O!Live \subseteq O!Live'

\* A step that only the Storage takes.
Alone == UNCHANGED <<oracleVars, pinned>>

\* Every step is one of these or quiet.
LEMMA Steps ==
  ASSUME PartsInv, PlaceInv, [Next]_vars
  PROVE  \/ \E t \in Tx : Begin(t) \/ Capture(t) \/ Close(t)
         \/ \E t \in Task : CommitStart(t) \/ SetBatchDone(t) \/ SetBatchFails(t)
         \/ \E t \in Task, k \in Key : Insert(t, k)
         \/ \E t \in Task : O!Publish(t) /\ UNCHANGED <<storageVars, pinned>>
         \/ \E p \in S!Proc : Alone /\ (S!NewWal(p) \/ S!Swap(p) \/ S!Retire(p))
         \/ Quiet
<1> USE SameTasks DEF S!Goto, S!stateVars, S!diskVars, S!lockVars, S!notifyVars, S!taskVars
<1>0. /\ OP!TypeOK /\ SP!TypeOK /\ SP!RoleInv /\ OP!PhaseInv
      /\ Tx \subseteq Task /\ Plain \subseteq Task /\ Tx \cap Plain = {} /\ Task \cap Freezer = {}
      /\ \A p \in S!Proc : at[p] = "check" => p \in Task \cup Freezer
  BY Assumed DEF PartsInv, OP!IInv, SP!IInv, OP!ControlInv, Task, OP!OracleAssumption,
                 SP!RoleInv, SP!Flushing
<1>1. UNCHANGED <<oracleVars, mem_table, frozen, entries, log, batch, clock, pinned>> => Quiet
  BY DEF Quiet, oracleVars, O!Live
<1>2. ASSUME NEW t \in Tx, Use(t) PROVE Quiet
  BY <1>0, <1>2 DEF Use, O!Buffer, O!CommitEmpty, O!CommitCall, O!CommitConflict, storageVars,
                    Quiet, OP!TypeOK, OP!PhaseInv, O!Live
<1>3. ASSUME NEW p \in Plain, EndSet(p) \/ \E k \in Key : CallSet(p, k) PROVE Quiet
  BY <1>0, <1>3 DEF EndSet, CallSet, O!End, O!Set, storageVars, Quiet, OP!TypeOK, O!Live
<1>4. ASSUME NEW t \in Task, O!Prune(t) /\ UNCHANGED <<storageVars, pinned>> PROVE Quiet
  BY <1>0, <1>4 DEF O!Prune, storageVars, Quiet, OP!TypeOK, O!Live
<1>5. ASSUME NEW t \in Task, FreezeIfFull(t) PROVE Quiet
  BY <1>1, <1>5 DEF FreezeIfFull, S!FreezeIfFull
<1>6. ASSUME NEW t \in Task, Unlock(t) PROVE Quiet
  BY <1>0, <1>6 DEF Unlock, O!Unlock, storageVars, Quiet, OP!TypeOK, O!Live
<1>7. ASSUME NEW t \in Task, Throttle(t) PROVE Quiet
  <2>1. CASE O!Return(t) /\ S!Proceed(t) /\ UNCHANGED pinned
    BY <1>0, <2>1 DEF O!Return, S!Proceed, Quiet, OP!TypeOK, O!Live
  <2>2. CASE UNCHANGED <<oracleVars, pinned>> /\ S!Poke(t)
    BY <1>1, <2>2 DEF S!Poke
  <2> QED
    BY <1>7, <2>1, <2>2 DEF Throttle
<1>8. ASSUME NEW f \in Freezer, CallFlush(f) \/ FreezeDone(f) PROVE Quiet
  BY <1>0, <1>8 DEF CallFlush, FreezeDone, O!FreezeLock, O!FreezeUnlock, S!CallFlush,
                    storageVars, Quiet, OP!TypeOK, O!Live
<1>9. ASSUME NEW p \in S!Proc, FreezeFails(p) PROVE Quiet
  <2>1. p \in Task \cup Freezer
    BY <1>0, <1>9 DEF FreezeFails, S!NewWalFails
  <2>2. CASE p \in Task
    BY <1>0, <1>9, <2>2 DEF FreezeFails, S!NewWalFails, O!FreezeFails, Quiet, OP!TypeOK, O!Live
  <2>3. CASE p \notin Task
    BY <1>0, <1>9, <2>1, <2>3 DEF FreezeFails, S!NewWalFails, O!FreezeUnlock, Quiet, OP!TypeOK,
                                  O!Live
  <2> QED
    BY <2>2, <2>3
<1>10. ASSUME NEW p \in S!Proc, Freeze(p) PROVE Quiet \/ (Alone /\ (S!NewWal(p) \/ S!Swap(p)))
  BY <1>1, <1>10 DEF Freeze, Alone, S!FreezeLock, S!NotDue
<1>11. ASSUME NEW p \in S!Proc, Flush(p) PROVE Quiet \/ (Alone /\ S!Retire(p))
  BY <1>1, <1>11 DEF Flush, Alone, S!FlushOldest, S!FlushPick, S!FlushNothing, S!L0, S!L0Fails,
                     S!RetireLock, S!RemoveWal, S!RemoveWalFails
<1>12. CASE Background
  BY <1>1, <1>12 DEF Background, S!LoopFlag, S!LoopWake, S!DropHandle, S!Shutdown, S!Join
<1>13. CASE UNCHANGED vars
  BY <1>1, <1>13 DEF vars, storageVars
<1> QED
  BY <1>2, <1>3, <1>4, <1>5, <1>6, <1>7, <1>8, <1>9, <1>10, <1>11, <1>12, <1>13
  DEF Next, Publish

-----------------------------------------------------------------------------
(* The numbers, and what is in the memtables.                              *)

\* A new memtable is empty and has an id of its own; the one before is kept.
LEMMA SwapEntries ==
  ASSUME PartsInv, NEW p \in S!Proc, S!Swap(p)
  PROVE  /\ mem_table' \notin DOMAIN entries /\ mem_table < mem_table'
         /\ DOMAIN entries' = DOMAIN entries \cup {mem_table'}
         /\ entries'[mem_table'] = {}
         /\ \A i \in DOMAIN entries : entries'[i] = entries[i]
         /\ frozen' = <<mem_table>> \o frozen
<1>1. SP!TypeOK /\ SP!IdInv /\ SP!TaskInv /\ S!Proc = SP!Proc
  BY SameTasks DEF PartsInv, SP!IInv
<1>2. /\ mem_table' = new_id[p] /\ at[p] = "swap" /\ frozen' = <<mem_table>> \o frozen
      /\ entries' = [i \in DOMAIN entries \cup {new_id[p]} |->
                       IF i = new_id[p] THEN {} ELSE entries[i]]
  BY DEF S!Swap
<1>3. mem_table < new_id[p] /\ new_id[p] \in Nat /\ mem_table \in DOMAIN entries
      /\ DOMAIN entries \subseteq Nat /\ \A i \in DOMAIN entries : i <= mem_table
  BY <1>1, <1>2 DEF SP!TaskInv, SP!TypeOK, SP!IdInv, SP!Ids
<1>4. new_id[p] \notin DOMAIN entries
  BY <1>3
<1> QED
  BY <1>2, <1>3, <1>4

\* A put adds a version of the commit in flight to the active memtable.
LEMMA InsertEntries ==
  ASSUME PartsInv, NEW t \in Task, NEW k \in Key, Insert(t, k)
  PROVE  /\ mem_table \in DOMAIN entries /\ DOMAIN entries' = DOMAIN entries
         /\ entries'[mem_table] = entries[mem_table] \cup {<<k, commit_ts[t]>>}
         /\ \A i \in DOMAIN entries : i # mem_table => entries'[i] = entries[i]
         /\ written' = written \cup {<<k, commit_ts[t]>>}
         /\ <<k, commit_ts[t]>> \in O!Versions(t)
         /\ visible < commit_ts[t] /\ pc[t] = "writing"
  BY SameTasks DEF PartsInv, OP!IInv, OP!ControlInv, OP!SeqInv, SP!IInv, SP!TypeOK, SP!Ids,
                   Insert, O!Insert, S!Put, O!Versions

\* What a commit starts with.
LEMMA StartNumbers ==
  ASSUME PartsInv, DataInv, NEW t \in Task, CommitStart(t)
  PROVE  /\ commit_ts' = [commit_ts EXCEPT ![t] = next_seq] /\ clock' = clock + 1
         /\ next_seq' = next_seq + 1 /\ clock + 1 = next_seq /\ next_seq # 0
         /\ pc' = [pc EXCEPT ![t] = "writing"] /\ pc[t] = "waiting"
         /\ batch' = [batch EXCEPT ![t] = buffer[t] \X {next_seq}]
         /\ UNCHANGED <<buffer, written, entries, fate, visible, mem_table, frozen, log,
                        read_ts, pinned>>
<1>1. next_seq \in Nat /\ visible \in Nat /\ visible < next_seq /\ clock = next_seq - 1
  BY DEF PartsInv, OP!IInv, OP!ControlInv, OP!SeqInv, OP!TypeOK, DataInv
<1>2. clock + 1 = next_seq /\ next_seq # 0
  BY <1>1
<1>3. /\ clock' = clock + 1 /\ batch' = [batch EXCEPT ![t] = buffer[t] \X {clock'}]
      /\ UNCHANGED <<entries, mem_table, frozen, log>>
  BY DEF CommitStart, S!Start, S!stateVars, S!diskVars
<1>4. /\ commit_ts' = [commit_ts EXCEPT ![t] = next_seq] /\ next_seq' = next_seq + 1
      /\ pc' = [pc EXCEPT ![t] = "writing"] /\ pc[t] = "waiting"
      /\ UNCHANGED <<buffer, written, fate, visible, read_ts, pinned>>
  BY DEF CommitStart, O!CommitStart
<1> QED
  BY <1>2, <1>3, <1>4

\* What was written is in the memtables: puts are in both, a new memtable is
\* empty, and nothing else touches either.
LEMMA DataStep == PartsInv /\ PlaceInv /\ DataInv /\ [Next]_vars => DataInv'
<1> SUFFICES ASSUME PartsInv, PlaceInv, DataInv, [Next]_vars PROVE DataInv'
  OBVIOUS
<1> USE SameTasks DEF S!Goto
<1>0. /\ OP!TypeOK /\ SP!TypeOK /\ OP!WriteInv /\ Tx \subseteq Task
  BY DEF PartsInv, OP!IInv, SP!IInv, Task
<1>1. \A u \in Task : commit_ts[u] # 0 =>
        commit_ts'[u] = commit_ts[u] /\ buffer'[u] = buffer[u] /\ O!Versions(u)' = O!Versions(u)
  BY NumbersKept
<1>2. \A u \in Task : pc[u] \in {"writing", "written"} \/ u \in O!Committed => commit_ts[u] # 0
  BY Numbered
<1>3. \A v \in written : \E u \in Task : v \in O!Versions(u)'
  <2> SUFFICES ASSUME NEW v \in written PROVE \E u \in Task : v \in O!Versions(u)'
    OBVIOUS
  <2>1. PICK u \in Task : v \in O!Versions(u)
    BY DEF DataInv
  <2>2. v[2] # 0 /\ v[2] = commit_ts[u]
    BY <1>0, <2>1 DEF OP!WriteInv, O!Versions
  <2> QED
    BY <1>1, <2>1, <2>2
<1>4. \A u \in Task : commit_ts[u] # 0 =>
        (batch'[u] = batch[u] /\ batch[u] = O!Versions(u) => batch'[u] = O!Versions(u)')
  BY <1>1
\* Steps that leave the memtables, the numbers and the batches alone.
<1>5. ASSUME UNCHANGED <<written, entries, clock, next_seq, batch>>,
             \A u \in Task : pc'[u] = "writing" => pc[u] = "writing",
             \A u \in O!Committed' : pc[u] = "written" \/ u \in O!Committed
      PROVE  DataInv'
  <2>1. \A u \in Task : pc'[u] = "writing" => batch'[u] = O!Versions(u)'
    BY <1>2, <1>4, <1>5 DEF DataInv
  <2>2. \A u \in O!Committed' : commit_ts'[u] # 0
    BY <1>1, <1>2, <1>5 DEF O!Committed
  <2> QED
    BY <1>3, <1>5, <2>1, <2>2 DEF DataInv
<1>6. ASSUME NEW t \in Tx, Begin(t) \/ Capture(t) \/ Close(t) PROVE DataInv'
  <2>1. /\ UNCHANGED <<written, entries, clock, next_seq, batch>>
        /\ \A u \in Task : pc'[u] = "writing" => pc[u] = "writing"
        /\ O!Committed' \subseteq O!Committed
    BY <1>0, <1>6 DEF Begin, Capture, Close, O!Begin, O!Drop, O!End, storageVars, oracleVars,
                      OP!TypeOK, O!Committed
  <2> QED
    BY <1>5, <2>1
<1>7. ASSUME NEW t \in Task, CommitStart(t) PROVE DataInv'
  <2>1. \A u \in Task : pc'[u] = "writing" => batch'[u] = O!Versions(u)'
    <3> SUFFICES ASSUME NEW u \in Task, pc'[u] = "writing" PROVE batch'[u] = O!Versions(u)'
      OBVIOUS
    <3>1. CASE u = t
      <4>1. /\ batch \in [Task -> SUBSET SP!Version] /\ commit_ts \in [Task -> Nat]
            /\ batch' = [batch EXCEPT ![t] = buffer[t] \X {next_seq}]
            /\ commit_ts' = [commit_ts EXCEPT ![t] = next_seq] /\ buffer' = buffer
        BY <1>0, <1>7, StartNumbers DEF OP!TypeOK, SP!TypeOK
      <4>2. batch'[u] = buffer[u] \X {next_seq} /\ commit_ts'[u] = next_seq /\ buffer' = buffer
        BY <3>1, <4>1
      <4> QED
        BY <4>2 DEF O!Versions
    <3>2. CASE u # t
      <4>1. pc[u] = "writing" /\ batch'[u] = batch[u]
        BY <1>0, <1>7, <3>2, StartNumbers DEF OP!TypeOK, SP!TypeOK
      <4> QED
        BY <1>2, <1>4, <4>1 DEF DataInv
    <3> QED
      BY <3>1, <3>2
  <2>2. \A u \in O!Committed' : u \in O!Committed
    BY <1>7, StartNumbers DEF O!Committed
  <2>3. clock' = next_seq' - 1 /\ UNCHANGED <<written, entries>>
    <3>1. next_seq \in Nat
      BY <1>0 DEF OP!TypeOK
    <3> QED
      BY <3>1, <1>7, StartNumbers
  <2>4. \A u \in O!Committed' : commit_ts'[u] # 0
    BY <1>1, <1>2, <2>2 DEF O!Committed
  <2> QED
    BY <1>3, <2>1, <2>3, <2>4 DEF DataInv
<1>8. ASSUME NEW t \in Task, SetBatchDone(t) \/ SetBatchFails(t) PROVE DataInv'
  <2>1. /\ UNCHANGED <<written, entries, clock, next_seq, batch>>
        /\ \A u \in Task : pc'[u] = "writing" => pc[u] = "writing"
        /\ O!Committed' \subseteq O!Committed
    BY <1>0, <1>8 DEF SetBatchDone, SetBatchFails, O!SetBatchDone, O!SetBatchFails, S!TxCommit,
                  S!AppendFails, S!stateVars, S!taskVars, OP!TypeOK, O!Committed
  <2> QED
    BY <1>5, <2>1
<1>9. ASSUME NEW t \in Task, NEW k \in Key, Insert(t, k) PROVE DataInv'
  <2>0. /\ mem_table \in DOMAIN entries /\ DOMAIN entries' = DOMAIN entries
        /\ entries'[mem_table] = entries[mem_table] \cup {<<k, commit_ts[t]>>}
        /\ \A i \in DOMAIN entries : i # mem_table => entries'[i] = entries[i]
        /\ written' = written \cup {<<k, commit_ts[t]>>}
        /\ <<k, commit_ts[t]>> \in O!Versions(t) /\ pc[t] = "writing"
    BY <1>9, InsertEntries
  <2>1. UNCHANGED <<clock, next_seq, batch, pc, fate>>
    BY <1>9 DEF Insert, O!Insert, S!Put, S!taskVars
  <2>2. written' = UNION {entries'[i] : i \in DOMAIN entries'}
    <3>1. written = UNION {entries[i] : i \in DOMAIN entries}
      BY DEF DataInv
    <3> QED
      BY <2>0, <3>1
  <2>3. \A v \in written' : \E u \in Task : v \in O!Versions(u)'
    BY <1>1, <1>2, <1>3, <2>0
  <2>4. \A u \in Task : pc'[u] = "writing" => batch'[u] = O!Versions(u)'
    BY <1>2, <1>4, <2>1 DEF DataInv
  <2>5. \A u \in O!Committed' : commit_ts'[u] # 0
    BY <1>1, <1>2, <2>1 DEF O!Committed
  <2> QED
    BY <2>1, <2>2, <2>3, <2>4, <2>5 DEF DataInv
<1>10. ASSUME NEW t \in Task, O!Publish(t), UNCHANGED <<storageVars, pinned>> PROVE DataInv'
  <2>1. /\ UNCHANGED <<written, entries, clock, next_seq, batch>>
        /\ \A u \in Task : pc'[u] = "writing" => pc[u] = "writing"
        /\ \A u \in O!Committed' : pc[u] = "written" \/ u \in O!Committed
    BY <1>0, <1>10 DEF O!Publish, storageVars, OP!TypeOK, O!Committed
  <2> QED
    BY <1>5, <2>1
<1>11. ASSUME NEW p \in S!Proc, Alone, S!NewWal(p) \/ S!Retire(p) PROVE DataInv'
  BY <1>5, <1>11 DEF Alone, oracleVars, S!NewWal, S!Retire, S!stateVars, S!taskVars, O!Committed
<1>12. ASSUME NEW p \in S!Proc, Alone, S!Swap(p) PROVE DataInv'
  <2>1. UNCHANGED <<clock, next_seq, batch, pc, fate, written>>
    BY <1>12 DEF Alone, oracleVars, S!Swap
  <2>2. written' = UNION {entries'[i] : i \in DOMAIN entries'}
    <3>1. written = UNION {entries[i] : i \in DOMAIN entries}
      BY DEF DataInv
    <3> QED
      BY <1>12, <2>1, <3>1, SwapEntries
  <2>4. \A u \in Task : pc'[u] = "writing" => batch'[u] = O!Versions(u)'
    BY <1>2, <1>4, <2>1 DEF DataInv
  <2>5. \A u \in O!Committed' : commit_ts'[u] # 0
    BY <1>1, <1>2, <2>1 DEF O!Committed
  <2> QED
    BY <1>3, <2>1, <2>2, <2>4, <2>5 DEF DataInv
<1>13. CASE Quiet
  BY <1>5, <1>13 DEF Quiet, O!Committed
<1> QED
  BY <1>6, <1>7, <1>8, <1>9, <1>10, <1>11, <1>12, <1>13, Steps

\* A handle has a State only while it is live.
LEMMA HandleStep == PartsInv /\ PlaceInv /\ HandleInv /\ [Next]_vars => HandleInv'
<1> SUFFICES ASSUME PartsInv, PlaceInv, HandleInv, [Next]_vars PROVE HandleInv'
  OBVIOUS
<1> USE SameTasks DEF HandleInv, HasHandle, O!Live
<1>0. OP!TypeOK /\ Tx \subseteq Task
  BY DEF PartsInv, OP!IInv, Task
<1>1. ASSUME NEW t \in Tx, Begin(t) \/ Capture(t) PROVE HandleInv'
  BY <1>0, <1>1 DEF Begin, Capture, O!Begin, oracleVars, OP!TypeOK
<1>2. ASSUME NEW t \in Tx, Close(t) PROVE HandleInv'
  <2>1. DOMAIN pinned' = Tx /\ pinned'[t] = NoState
        /\ \A u \in Tx : u # t => pinned'[u] = pinned[u]
    BY <1>2 DEF Close
  <2>2. \A u \in Tx : u # t => pc'[u] = pc[u]
    BY <1>0, <1>2 DEF Close, O!Drop, O!End, OP!TypeOK
  <2> QED
    BY <2>1, <2>2
<1>3. ASSUME NEW t \in Task, CommitStart(t) \/ SetBatchDone(t) \/ SetBatchFails(t)
      PROVE HandleInv'
  BY <1>0, <1>3 DEF CommitStart, SetBatchDone, SetBatchFails, O!CommitStart, O!SetBatchDone,
                    O!SetBatchFails, OP!TypeOK
<1>4. ASSUME NEW t \in Task, NEW k \in Key, Insert(t, k) PROVE HandleInv'
  BY <1>4 DEF Insert, O!Insert
<1>5. ASSUME NEW t \in Task, O!Publish(t), UNCHANGED <<storageVars, pinned>> PROVE HandleInv'
  BY <1>0, <1>5 DEF O!Publish, OP!TypeOK
<1>6. CASE Alone
  BY <1>6 DEF Alone, oracleVars
<1>7. CASE Quiet
  BY <1>7 DEF Quiet
<1> QED
  BY <1>1, <1>2, <1>3, <1>4, <1>5, <1>6, <1>7, Steps

-----------------------------------------------------------------------------
(* What is durable and what is settled.                                    *)

\* A log is never taken back, and no log gets the number of another.
LEMMA LogGrows ==
  ASSUME PartsInv, PlaceInv, [Next]_vars, NEW i \in DOMAIN log
  PROVE  i \in DOMAIN log' /\ log[i] \subseteq log'[i]
<1> USE SameTasks
<1>0. SP!TypeOK /\ SP!LogInv /\ SP!IdInv /\ SP!TaskInv
  BY DEF PartsInv, SP!IInv
<1>1. wal_id \notin DOMAIN log
  <2>1. \A j \in SP!Ids : j \in Nat /\ j < wal_id
    BY <1>0 DEF SP!IdInv, SP!TypeOK
  <2>2. \A p \in S!Proc : at[p] = "swap" => new_id[p] \in Nat /\ new_id[p] < wal_id
    BY <1>0 DEF SP!TaskInv, SP!TypeOK
  <2>3. wal_id \in Nat
    BY <1>0 DEF SP!TypeOK
  <2> QED
    BY <1>0, <2>1, <2>2, <2>3 DEF SP!LogInv
<1>2. UNCHANGED log => i \in DOMAIN log' /\ log[i] \subseteq log'[i]
  OBVIOUS
<1>3. ASSUME NEW t \in Tx, Begin(t) \/ Capture(t) \/ Close(t) PROVE UNCHANGED log
  BY <1>3 DEF Begin, Capture, Close, storageVars
<1>4. ASSUME NEW t \in Task, CommitStart(t) PROVE UNCHANGED log
  BY <1>4 DEF CommitStart, S!Start, S!diskVars
<1>5. ASSUME NEW t \in Task, SetBatchDone(t) \/ SetBatchFails(t)
      PROVE  i \in DOMAIN log' /\ log[i] \subseteq log'[i]
  BY <1>5 DEF SetBatchDone, SetBatchFails, S!TxCommit, S!AppendFails
<1>6. ASSUME NEW t \in Task, NEW k \in Key, Insert(t, k) PROVE UNCHANGED log
  BY <1>6 DEF Insert, S!Put, S!diskVars
<1>7. ASSUME UNCHANGED storageVars PROVE UNCHANGED log
  BY <1>7 DEF storageVars
<1>8. ASSUME NEW p \in S!Proc, S!NewWal(p) PROVE i \in DOMAIN log' /\ log[i] \subseteq log'[i]
  BY <1>1, <1>8 DEF S!NewWal
<1>9. ASSUME NEW p \in S!Proc, S!Swap(p) \/ S!Retire(p) PROVE UNCHANGED log
  BY <1>9 DEF S!Swap, S!Retire, S!diskVars
<1>10. CASE Quiet
  BY <1>10 DEF Quiet
<1> QED
  BY <1>2, <1>3, <1>4, <1>5, <1>6, <1>7, <1>8, <1>9, <1>10, Steps

\* At first nothing is committed.
LEMMA DurableInit == Init => DurableInv /\ SettledInv
  BY SameTasks, Assumed
  DEF Init, O!Init, S!Init, DurableInv, SettledInv, O!Committed, Task

\* A commit is in a log when set_batch returns.
LEMMA DurableStep == PartsInv /\ PlaceInv /\ DataInv /\ DurableInv /\ [Next]_vars => DurableInv'
<1> SUFFICES ASSUME PartsInv, PlaceInv, DataInv, DurableInv, [Next]_vars PROVE DurableInv'
  OBVIOUS
<1> USE SameTasks
<1>0. OP!TypeOK /\ SP!TypeOK /\ SP!LogInv /\ Tx \subseteq Task
  BY DEF PartsInv, OP!IInv, SP!IInv, Task
<1>1. ASSUME NEW u \in Task, pc[u] = "written" \/ u \in O!Committed
      PROVE  \E i \in DOMAIN log' : O!Versions(u)' \subseteq log'[i]
  <2>1. PICK i \in DOMAIN log : O!Versions(u) \subseteq log[i]
    BY <1>1 DEF DurableInv
  <2>2. O!Versions(u)' = O!Versions(u)
    BY <1>1, Numbered, NumbersKept
  <2>3. i \in DOMAIN log' /\ log[i] \subseteq log'[i]
    BY LogGrows
  <2> QED
    BY <2>1, <2>2, <2>3
<1>2. ASSUME \A u \in Task : pc'[u] = "written" \/ u \in O!Committed' =>
               pc[u] = "written" \/ u \in O!Committed
      PROVE  DurableInv'
  BY <1>1, <1>2 DEF DurableInv
<1>3. ASSUME NEW t \in Tx, Begin(t) \/ Capture(t) \/ Close(t) PROVE DurableInv'
  <2>1. \A u \in Task : pc'[u] = "written" \/ u \in O!Committed' =>
               pc[u] = "written" \/ u \in O!Committed
    BY <1>0, <1>3 DEF Begin, Capture, Close, O!Begin, O!Drop, O!End, oracleVars, OP!TypeOK,
                      O!Committed
  <2> QED
    BY <1>2, <2>1
<1>4. ASSUME NEW t \in Task, CommitStart(t) \/ SetBatchFails(t) PROVE DurableInv'
  <2>1. \A u \in Task : pc'[u] = "written" \/ u \in O!Committed' =>
               pc[u] = "written" \/ u \in O!Committed
    BY <1>0, <1>4 DEF CommitStart, SetBatchFails, O!CommitStart, O!SetBatchFails, OP!TypeOK,
                      O!Committed
  <2> QED
    BY <1>2, <2>1
<1>5. ASSUME NEW t \in Task, SetBatchDone(t) PROVE DurableInv'
  <2>1. /\ pc[t] = "writing" /\ pc' = [pc EXCEPT ![t] = "written"] /\ UNCHANGED fate
        /\ log' = [log EXCEPT ![mem_table] = @ \cup batch[t]]
    BY <1>5 DEF SetBatchDone, O!SetBatchDone, S!TxCommit
  <2>2. mem_table \in DOMAIN log
    BY <1>0 DEF SP!LogInv, SP!TypeOK
  <2>3. batch[t] = O!Versions(t) /\ O!Versions(t)' = O!Versions(t)
    BY <2>1, Numbered, NumbersKept DEF DataInv
  <2>4. O!Versions(t)' \subseteq log'[mem_table] /\ mem_table \in DOMAIN log'
    BY <2>1, <2>2, <2>3
  <2>5. \A u \in Task : u # t /\ (pc'[u] = "written" \/ u \in O!Committed') =>
               pc[u] = "written" \/ u \in O!Committed
    BY <1>0, <2>1 DEF O!Committed, OP!TypeOK
  <2> QED
    BY <1>1, <2>4, <2>5 DEF DurableInv
<1>6. ASSUME NEW t \in Task, NEW k \in Key, Insert(t, k) PROVE DurableInv'
  BY <1>2, <1>6 DEF Insert, O!Insert, O!Committed
<1>7. ASSUME NEW t \in Task, O!Publish(t), UNCHANGED <<storageVars, pinned>> PROVE DurableInv'
  <2>1. \A u \in Task : pc'[u] = "written" \/ u \in O!Committed' =>
               pc[u] = "written" \/ u \in O!Committed
    BY <1>0, <1>7 DEF O!Publish, OP!TypeOK, O!Committed
  <2> QED
    BY <1>2, <2>1
<1>8. CASE Alone
  BY <1>2, <1>8 DEF Alone, oracleVars, O!Committed
<1>9. CASE Quiet
  BY <1>2, <1>9 DEF Quiet, O!Committed
<1> QED
  BY <1>3, <1>4, <1>5, <1>6, <1>7, <1>8, <1>9, Steps

\* At a freeze nobody is in the middle of a commit: what was written is
\* published or of a commit that failed.
LEMMA FreezeSettled ==
  ASSUME PartsInv, DataInv, NEW p \in Task \cup Freezer, pc[p] = "freezing",
         \A t \in Task : fate[t] # "failed"
  PROVE  \A v \in written : v[2] <= visible
<1> SUFFICES ASSUME NEW v \in written PROVE v[2] <= visible
  OBVIOUS
<1> USE SameTasks
<1>0. OP!TypeOK /\ OP!WriteInv /\ OP!LockInv /\ OP!PhaseInv /\ OP!SeqInv
  BY DEF PartsInv, OP!IInv, OP!ControlInv
<1>1. PICK u \in Task : v \in O!Versions(u)
  BY DEF DataInv
<1>2. v[2] # 0 /\ v[2] = commit_ts[u]
  BY <1>0, <1>1 DEF OP!WriteInv, O!Versions
<1>3. pc[u] \notin {"idle", "open", "waiting"} /\ fate[u] \notin {"conflicted", "dropped"}
  BY <1>0, <1>2 DEF OP!WriteInv
<1>4. pc[u] \notin {"writing", "written"}
  BY <1>0 DEF OP!LockInv, OP!Locked
<1>5. fate[u] \in {"none", "committed", "conflicted", "failed", "dropped"}
  BY <1>0 DEF OP!TypeOK
<1>6. fate[u] = "committed"
  BY <1>0, <1>3, <1>4, <1>5 DEF OP!PhaseInv
<1> QED
  BY <1>0, <1>2, <1>6 DEF OP!SeqInv, OP!Committed

\* So what a freeze takes out of the active memtable is published.
LEMMA SettledStep == PartsInv /\ PlaceInv /\ DataInv /\ SettledInv /\ [Next]_vars => SettledInv'
<1> SUFFICES ASSUME PartsInv, PlaceInv, DataInv, SettledInv, [Next]_vars, "append" \notin Faults
             PROVE  /\ \A t \in Task : fate'[t] # "failed"
                    /\ \A i \in DOMAIN entries' : i # mem_table' =>
                         \A v \in entries'[i] : v[2] <= visible'
  BY DEF SettledInv
<1> DEFINE Goal == /\ \A t \in Task : fate'[t] # "failed"
                   /\ \A i \in DOMAIN entries' : i # mem_table' =>
                         \A v \in entries'[i] : v[2] <= visible'
<1> USE SameTasks
<1>0. OP!TypeOK /\ SP!TypeOK /\ SP!RoleInv /\ OP!SeqInv /\ Tx \subseteq Task
  BY DEF PartsInv, OP!IInv, SP!IInv, Task, OP!ControlInv
<1>1. /\ \A t \in Task : fate[t] # "failed"
      /\ \A i \in DOMAIN entries : i # mem_table => \A v \in entries[i] : v[2] <= visible
  BY DEF SettledInv
<1>2. ASSUME UNCHANGED <<entries, mem_table, visible>>, \A t \in Task : fate'[t] # "failed"
      PROVE  Goal
  BY <1>1, <1>2
<1>3. ASSUME NEW t \in Tx, Begin(t) \/ Capture(t) \/ Close(t) PROVE Goal
  <2>1. \A u \in Task : fate'[u] # "failed"
    BY <1>0, <1>1, <1>3 DEF Begin, Capture, Close, O!Begin, O!Drop, O!End, oracleVars,
                            OP!TypeOK
  <2>2. UNCHANGED <<entries, mem_table, visible>>
    BY <1>3 DEF Begin, Capture, Close, O!Begin, O!Drop, O!End, oracleVars, storageVars
  <2> QED
    BY <1>2, <2>1, <2>2
<1>4. ASSUME NEW t \in Task, CommitStart(t) \/ SetBatchDone(t) \/ SetBatchFails(t) PROVE Goal
  BY <1>1, <1>2, <1>4 DEF CommitStart, SetBatchDone, SetBatchFails, O!CommitStart,
                          O!SetBatchDone, S!Start, S!TxCommit, S!AppendFails, S!stateVars
<1>5. ASSUME NEW t \in Task, NEW k \in Key, Insert(t, k) PROVE Goal
  <2>1. UNCHANGED <<mem_table, visible, fate>>
    BY <1>5 DEF Insert, O!Insert, S!Put
  <2>2. DOMAIN entries' = DOMAIN entries
        /\ \A i \in DOMAIN entries : i # mem_table => entries'[i] = entries[i]
    BY <1>5, InsertEntries
  <2> QED
    BY <1>1, <2>1, <2>2
<1>6. ASSUME NEW t \in Task, O!Publish(t), UNCHANGED <<storageVars, pinned>> PROVE Goal
  <2>1. UNCHANGED <<entries, mem_table>> /\ visible' = commit_ts[t] /\ pc[t] = "written"
        /\ \A u \in Task : fate'[u] # "failed"
    BY <1>0, <1>1, <1>6 DEF O!Publish, storageVars, OP!TypeOK
  <2>2. visible \in Nat /\ visible' \in Nat /\ visible <= visible'
    BY <1>0, <2>1 DEF OP!SeqInv, OP!TypeOK
  <2>3. ASSUME NEW i \in DOMAIN entries, NEW v \in entries[i] PROVE v[2] \in Nat
    BY <1>0 DEF SP!TypeOK, SP!Ids, SP!Version
  <2> QED
    BY <1>1, <2>1, <2>2, <2>3
<1>7. ASSUME NEW p \in S!Proc, Alone, S!NewWal(p) \/ S!Retire(p) PROVE Goal
  BY <1>1, <1>2, <1>7 DEF Alone, oracleVars, S!NewWal, S!Retire, S!stateVars
<1>8. ASSUME NEW p \in S!Proc, Alone, S!Swap(p) PROVE Goal
  <2>1. UNCHANGED <<fate, visible>> /\ at[p] = "swap"
    BY <1>8 DEF Alone, oracleVars, S!Swap
  <2>2. p \in Task \cup Freezer
    BY <1>0, <2>1 DEF SP!RoleInv, SP!Flushing
  <2>3. pc[p] = "freezing"
    BY <2>1, <2>2 DEF PlaceInv
  <2>4. \A v \in written : v[2] <= visible
    BY <1>1, <2>2, <2>3, FreezeSettled
  <2>5. \A i \in DOMAIN entries : entries[i] \subseteq written
    BY DEF DataInv
  <2> QED
    BY <1>1, <1>8, <2>1, <2>4, <2>5, SwapEntries
<1>9. CASE Quiet
  BY <1>1, <1>2, <1>9 DEF Quiet
<1> QED
  BY <1>3, <1>4, <1>5, <1>6, <1>7, <1>8, <1>9, Steps

-----------------------------------------------------------------------------
(* What a handle has pinned.                                               *)

\* The State of the day, pinned: everything visible is in its memtables or
\* retired.
LEMMA PinCapture ==
  ASSUME PartsInv, SettledInv, HandleInv, NEW t \in Tx, Capture(t)
  PROVE  PinnedWell(t)'
<1>0. /\ SP!TypeOK /\ SP!IdInv /\ OP!TypeOK /\ OP!SeqInv
      /\ UNCHANGED <<entries, visible, read_ts, mem_table, frozen>>
  BY DEF PartsInv, SP!IInv, OP!IInv, OP!ControlInv, Capture, oracleVars, storageVars
<1>1. /\ pinned'[t].mem = mem_table /\ pinned'[t].frozen = frozen /\ pinned'[t].since = visible
  BY DEF Capture, HandleInv
<1>2. /\ mem_table \in DOMAIN entries /\ frozen \in Seq(DOMAIN entries)
      /\ DOMAIN entries \subseteq Nat
      /\ \A n \in DOMAIN frozen : frozen[n] < mem_table
      /\ \A n, m \in DOMAIN frozen : n < m => frozen[n] > frozen[m]
      /\ \A i \in DOMAIN entries : i <= mem_table
      /\ \A i \in SP!Retired : \A n \in DOMAIN frozen : i < frozen[n]
  BY <1>0 DEF SP!TypeOK, SP!IdInv, SP!Ids
<1>3. HeldList(t)' = <<mem_table>> \o frozen
  BY <1>1 DEF HeldList
<1>4. /\ HeldList(t)' \in Seq(DOMAIN entries) /\ DOMAIN HeldList(t)' = 1..(Len(frozen) + 1)
      /\ DOMAIN frozen = 1..Len(frozen) /\ Len(frozen) \in Nat
      /\ HeldList(t)'[1] = mem_table
      /\ \A n \in 2..(Len(frozen) + 1) : HeldList(t)'[n] = frozen[n - 1]
  BY <1>2, <1>3, SP!InFront, LenProperties
<1>5. \A n, m \in DOMAIN HeldList(t)' : n < m => HeldList(t)'[n] > HeldList(t)'[m]
  <2> SUFFICES ASSUME NEW n \in DOMAIN HeldList(t)', NEW m \in DOMAIN HeldList(t)', n < m
               PROVE  HeldList(t)'[n] > HeldList(t)'[m]
    OBVIOUS
  <2>1. m \in 2..(Len(frozen) + 1) /\ m - 1 \in DOMAIN frozen
        /\ HeldList(t)'[m] = frozen[m - 1] /\ frozen[m - 1] \in Nat /\ mem_table \in Nat
    BY <1>2, <1>4
  <2>2. CASE n = 1
    BY <1>2, <1>4, <2>1, <2>2
  <2>3. CASE n # 1
    <3>1. n - 1 \in DOMAIN frozen /\ n - 1 < m - 1 /\ HeldList(t)'[n] = frozen[n - 1]
      BY <1>4, <2>3
    <3> QED
      BY <1>2, <2>1, <3>1
  <2> QED
    BY <2>2, <2>3
<1>6. Held(t)' = {HeldList(t)'[n] : n \in DOMAIN HeldList(t)'}
  BY DEF Held
<1>7. /\ mem_table \in Held(t)' /\ \A n \in DOMAIN frozen : frozen[n] \in Held(t)'
      /\ \A h \in Held(t)' : h = mem_table \/ \E n \in DOMAIN frozen : h = frozen[n]
  <2>1. 1 \in DOMAIN HeldList(t)'
    BY <1>4
  <2>2. \A n \in DOMAIN frozen :
          n + 1 \in DOMAIN HeldList(t)' /\ n + 1 \in 2..(Len(frozen) + 1) /\ (n + 1) - 1 = n
    BY <1>4
  <2>3. \A n \in DOMAIN HeldList(t)' :
          n = 1 \/ (n \in 2..(Len(frozen) + 1) /\ n - 1 \in DOMAIN frozen)
    BY <1>4
  <2>4. mem_table \in Held(t)'
    BY <1>4, <1>6, <2>1
  <2>5. ASSUME NEW n \in DOMAIN frozen PROVE frozen[n] \in Held(t)'
    <3>1. HeldList(t)'[n + 1] = frozen[(n + 1) - 1]
      BY <1>4, <2>2
    <3> QED
      BY <1>6, <2>2, <3>1
  <2>6. ASSUME NEW h \in Held(t)' PROVE h = mem_table \/ \E n \in DOMAIN frozen : h = frozen[n]
    <3>1. PICK n \in DOMAIN HeldList(t)' : h = HeldList(t)'[n]
      BY <1>6
    <3> QED
      BY <1>4, <2>3, <3>1
  <2> QED
    BY <2>4, <2>5, <2>6
<1>8. \A i \in Older(t)' : /\ i \in SP!Retired /\ i \in DOMAIN entries /\ i # mem_table
                           /\ \A h \in Held(t)' : i < h
  <2> SUFFICES ASSUME NEW i \in Older(t)'
               PROVE  /\ i \in SP!Retired /\ i \in DOMAIN entries /\ i # mem_table
                      /\ \A h \in Held(t)' : i < h
    OBVIOUS
  <2>1. i \in DOMAIN entries /\ i < mem_table /\ i \notin Held(t)'
    BY <1>0, <1>1 DEF Older
  <2>2. i \in SP!Retired
    BY <1>7, <2>1 DEF SP!Retired, SP!Ids
  <2> QED
    BY <1>2, <1>7, <2>1, <2>2
<1>9. SP!Retired' = SP!Retired
  BY <1>0 DEF SP!Retired, SP!Ids
<1>10. read_ts[t] <= visible /\ visible \in Nat
  BY <1>0 DEF OP!SeqInv, OP!TypeOK
<1>11. "append" \notin Faults => \A i \in Older(t)' : \A v \in entries[i] : v[2] <= visible
  BY <1>8 DEF SettledInv
<1>12. \A i \in DOMAIN entries : ~(i > mem_table)
  BY <1>2
<1> QED
  BY <1>0, <1>1, <1>2, <1>5, <1>8, <1>9, <1>10, <1>11, <1>12 DEF PinnedWell

\* The memtables change in nothing that is visible.
Kept ==
    /\ visible' \in Nat /\ visible <= visible'
    /\ DOMAIN entries \subseteq DOMAIN entries'
    /\ SP!Retired \subseteq SP!Retired'
    /\ \A i \in DOMAIN entries : i # mem_table => entries'[i] = entries[i]
    /\ entries[mem_table] \subseteq entries'[mem_table]
    /\ \A v \in entries'[mem_table] : v \in entries[mem_table] \/ (v[2] \in Nat /\ v[2] > visible)
    /\ \A i \in DOMAIN entries' \ DOMAIN entries :
         i \in Nat /\ i > mem_table /\ entries'[i] = {}

\* Only puts, freezes, flushes and publications touch what Kept is about.
LEMMA MemtablesKept == ASSUME PartsInv, PlaceInv, [Next]_vars PROVE Kept
<1> USE SameTasks DEF Kept
<1>0. /\ OP!TypeOK /\ SP!TypeOK /\ OP!SeqInv /\ SP!IdInv /\ SP!TaskInv /\ visible \in Nat
      /\ DOMAIN entries \subseteq Nat /\ mem_table \in DOMAIN entries
  BY DEF PartsInv, OP!IInv, SP!IInv, OP!ControlInv, OP!TypeOK, SP!TypeOK, SP!Ids
<1>1. UNCHANGED <<entries, mem_table, frozen>> => SP!Retired' = SP!Retired
  BY DEF SP!Retired, SP!Ids
<1>2. UNCHANGED <<entries, mem_table, frozen, visible>> => Kept
  BY <1>0, <1>1
<1>3. ASSUME NEW t \in Tx, Begin(t) \/ Capture(t) \/ Close(t) PROVE Kept
  BY <1>2, <1>3 DEF Begin, Capture, Close, O!Begin, O!Drop, O!End, oracleVars, storageVars
<1>4. ASSUME NEW t \in Task, CommitStart(t) \/ SetBatchDone(t) \/ SetBatchFails(t) PROVE Kept
  <2>1. UNCHANGED <<entries, mem_table, frozen, visible>>
    BY <1>4 DEF CommitStart, SetBatchDone, SetBatchFails, O!CommitStart, O!SetBatchDone,
                O!SetBatchFails, S!Start, S!TxCommit, S!AppendFails, S!stateVars
  <2> QED
    BY <1>2, <2>1
<1>5. ASSUME NEW t \in Task, NEW k \in Key, Insert(t, k) PROVE Kept
  <2>1. UNCHANGED <<mem_table, frozen, visible>>
    BY <1>5 DEF Insert, O!Insert, S!Put
  <2>2. /\ DOMAIN entries' = DOMAIN entries
        /\ entries'[mem_table] = entries[mem_table] \cup {<<k, commit_ts[t]>>}
        /\ \A i \in DOMAIN entries : i # mem_table => entries'[i] = entries[i]
        /\ visible < commit_ts[t]
    BY <1>5, InsertEntries
  <2>3. commit_ts[t] \in Nat /\ \A v \in {<<k, commit_ts[t]>>} : v[2] = commit_ts[t]
    BY <1>0 DEF OP!TypeOK
  <2>4. SP!Retired' = SP!Retired
    BY <2>1, <2>2 DEF SP!Retired, SP!Ids
  <2>5. \A v \in entries'[mem_table] : v \in entries[mem_table] \/ (v[2] \in Nat /\ v[2] > visible)
    BY <1>0, <2>2, <2>3
  <2> QED
    BY <1>0, <2>1, <2>2, <2>4, <2>5
<1>6. ASSUME NEW t \in Task, O!Publish(t), UNCHANGED <<storageVars, pinned>> PROVE Kept
  <2>1. UNCHANGED <<entries, mem_table, frozen>> /\ visible' = commit_ts[t] /\ pc[t] = "written"
    BY <1>6 DEF O!Publish, storageVars
  <2>2. visible' \in Nat /\ visible <= visible'
    BY <1>0, <2>1 DEF OP!SeqInv, OP!TypeOK
  <2> QED
    BY <1>0, <1>1, <2>1, <2>2
<1>7. ASSUME NEW p \in S!Proc, Alone, S!NewWal(p) PROVE Kept
  BY <1>2, <1>7 DEF Alone, oracleVars, S!NewWal, S!stateVars
<1>8. ASSUME NEW p \in S!Proc, Alone, S!Retire(p) PROVE Kept
  <2>1. UNCHANGED <<entries, mem_table, visible>>
    BY <1>8 DEF Alone, oracleVars, S!Retire
  <2>2. SP!Retire(p)
    BY <1>8 DEF S!Retire, SP!Retire, S!Without, SP!Without, S!Cardinality, SP!Cardinality,
                S!Goto, SP!Goto, S!diskVars, SP!diskVars, S!notifyVars, SP!notifyVars,
                S!taskVars, SP!taskVars
  <2>3. SP!Retired \subseteq SP!Retired'
    BY <1>0, <2>2, SP!RetireIds, Assumed
  <2> QED
    BY <1>0, <2>1, <2>3
<1>9. ASSUME NEW p \in S!Proc, Alone, S!Swap(p) PROVE Kept
  <2>1. UNCHANGED visible
    BY <1>9 DEF Alone, oracleVars
  <2>2. SP!Swap(p)
    BY <1>9 DEF S!Swap, SP!Swap, S!AfterFreeze, SP!AfterFreeze, S!Goto, SP!Goto,
                S!diskVars, SP!diskVars
  <2>3. /\ DOMAIN entries' = DOMAIN entries \cup {new_id[p]} /\ entries'[new_id[p]] = {}
        /\ \A i \in DOMAIN entries : entries'[i] = entries[i]
        /\ mem_table < new_id[p] /\ SP!Retired' = SP!Retired
    BY <1>0, <2>2, SP!SwapIds, Assumed DEF SP!Ids
  <2>4. new_id[p] \in Nat
    BY <1>0 DEF SP!TypeOK
  <2> QED
    BY <1>0, <2>1, <2>3, <2>4
<1>10. CASE Quiet
  BY <1>2, <1>10 DEF Quiet
<1> QED
  BY <1>3, <1>4, <1>5, <1>6, <1>7, <1>8, <1>9, <1>10, Steps

\* A handle that has a State after a step had it before, or pins it now.
LEMMA HandleKept ==
  ASSUME PartsInv, PlaceInv, HandleInv, [Next]_vars, NEW t \in Tx, HasHandle(t)'
  PROVE  \/ Capture(t) /\ ~HasHandle(t)
         \/ HasHandle(t) /\ pinned'[t] = pinned[t] /\ read_ts'[t] = read_ts[t]
<1> DEFINE Goal == \/ Capture(t) /\ ~HasHandle(t)
                   \/ HasHandle(t) /\ pinned'[t] = pinned[t] /\ read_ts'[t] = read_ts[t]
<1> USE SameTasks
<1>1. UNCHANGED <<pinned, read_ts>> => Goal
  BY DEF HasHandle
<1>2. ASSUME NEW u \in Tx, Begin(u) PROVE Goal
  <2>1. UNCHANGED pinned /\ read_ts' = [read_ts EXCEPT ![u] = visible] /\ pc[u] = "idle"
    BY <1>2 DEF Begin, O!Begin
  <2>2. HasHandle(t) /\ t # u
    BY <2>1 DEF HandleInv, HasHandle, O!Live
  <2>3. read_ts'[t] = read_ts[t]
    BY <2>1, <2>2 DEF PartsInv, OP!IInv, OP!TypeOK
  <2> QED
    BY <2>1, <2>2, <2>3
<1>3. ASSUME NEW u \in Tx, Capture(u) PROVE Goal
  <2>1. /\ UNCHANGED read_ts /\ pinned[u] = NoState
        /\ \A x \in Tx : x # u => pinned'[x] = pinned[x]
    BY <1>3 DEF Capture, oracleVars, HandleInv
  <2> QED
    BY <1>3, <2>1 DEF HasHandle
<1>4. ASSUME NEW u \in Tx, Close(u) PROVE Goal
  <2>1. /\ UNCHANGED read_ts /\ pinned'[u] = NoState
        /\ \A x \in Tx : x # u => pinned'[x] = pinned[x]
    BY <1>4 DEF Close, O!Drop, O!End, HandleInv
  <2> QED
    BY <2>1 DEF HasHandle
<1>5. ASSUME NEW u \in Task, CommitStart(u) \/ SetBatchDone(u) \/ SetBatchFails(u) PROVE Goal
  BY <1>1, <1>5 DEF CommitStart, SetBatchDone, SetBatchFails, O!CommitStart, O!SetBatchDone,
                    O!SetBatchFails
<1>6. ASSUME NEW u \in Task, NEW k \in Key, Insert(u, k) PROVE Goal
  BY <1>1, <1>6 DEF Insert, O!Insert
<1>7. ASSUME NEW u \in Task, O!Publish(u), UNCHANGED <<storageVars, pinned>> PROVE Goal
  BY <1>1, <1>7 DEF O!Publish
<1>8. CASE Alone
  BY <1>1, <1>8 DEF Alone, oracleVars
<1>9. CASE Quiet
  BY <1>1, <1>9 DEF Quiet
<1> QED
  BY <1>2, <1>3, <1>4, <1>5, <1>6, <1>7, <1>8, <1>9, Steps

\* What a handle holds, and what is older, stays that.
LEMMA HeldKept ==
  ASSUME PartsInv, NEW t \in Tx, PinnedWell(t), Kept,
         pinned'[t] = pinned[t], read_ts'[t] = read_ts[t]
  PROVE  /\ HeldList(t)' = HeldList(t) /\ Held(t)' = Held(t) /\ Older(t)' = Older(t)
         /\ \A i \in Older(t) : entries'[i] = entries[i]
<1>0. /\ DOMAIN entries \subseteq Nat /\ mem_table \in Nat
      /\ \A i \in DOMAIN entries : i <= mem_table
  BY DEF PartsInv, SP!IInv, SP!TypeOK, SP!IdInv, SP!Ids
<1>1. HeldList(t)' = HeldList(t)
  BY DEF HeldList
<1>2. Held(t)' = Held(t)
  BY <1>1 DEF Held
<1>3. pinned[t].mem \in DOMAIN entries
  BY DEF PinnedWell
<1>4. ASSUME NEW i \in DOMAIN entries', i < pinned[t].mem
      PROVE  i \in DOMAIN entries /\ i # mem_table
  BY <1>0, <1>3, <1>4 DEF Kept
<1>5. Older(t)' = Older(t)
  BY <1>2, <1>4 DEF Older, Kept
<1>6. \A i \in Older(t) : entries'[i] = entries[i]
  BY <1>4 DEF Older, Kept
<1> QED
  BY <1>1, <1>2, <1>5, <1>6

\* What was true of the pinned memtables stays true.
LEMMA PinKept ==
  ASSUME PartsInv, NEW t \in Tx, PinnedWell(t), Kept,
         pinned'[t] = pinned[t], read_ts'[t] = read_ts[t]
  PROVE  PinnedWell(t)'
<1>0. /\ mem_table \in DOMAIN entries /\ visible \in Nat
      /\ \A i \in DOMAIN entries : \A v \in entries[i] : v[2] \in Nat
  BY DEF PartsInv, SP!IInv, SP!TypeOK, SP!Ids, SP!Version, OP!IInv, OP!TypeOK
<1>1. /\ HeldList(t)' = HeldList(t) /\ Held(t)' = Held(t) /\ Older(t)' = Older(t)
      /\ \A i \in Older(t) : entries'[i] = entries[i]
  BY HeldKept
<1>3. /\ pinned[t].mem \in DOMAIN entries /\ pinned[t].frozen \in Seq(DOMAIN entries)
      /\ pinned[t].since \in Nat /\ pinned[t].since <= visible /\ read_ts[t] <= pinned[t].since
  BY DEF PinnedWell
<1>4. pinned[t].frozen \in Seq(DOMAIN entries')
  BY <1>3, SeqMonotonic DEF Kept
<1>5. pinned[t].since <= visible'
  BY <1>0, <1>3 DEF Kept
<1>6. ASSUME NEW i \in DOMAIN entries', i > pinned[t].mem, NEW v \in entries'[i]
      PROVE  v[2] > pinned[t].since
  <2>1. i \in DOMAIN entries
    BY <1>6 DEF Kept
  <2>2. CASE v \in entries[i]
    BY <1>6, <2>1, <2>2 DEF PinnedWell
  <2>3. CASE v \notin entries[i]
    <3>1. v[2] \in Nat /\ v[2] > visible
      BY <1>6, <2>1, <2>3 DEF Kept
    <3> QED
      BY <1>0, <1>3, <3>1
  <2> QED
    BY <2>2, <2>3
<1>7. \A i \in Older(t)' :
         /\ i \in SP!Retired'
         /\ \A h \in Held(t)' : i < h
         /\ "append" \notin Faults => \A v \in entries'[i] : v[2] <= pinned'[t].since
  BY <1>1 DEF PinnedWell, Kept
<1>8. \A n, m \in DOMAIN HeldList(t)' : n < m => HeldList(t)'[n] > HeldList(t)'[m]
  BY <1>1 DEF PinnedWell
<1> QED
  BY <1>3, <1>4, <1>5, <1>6, <1>7, <1>8 DEF PinnedWell, Kept

\* At first there is no handle.
LEMMA PinInit == Init => PinInv
  BY DEF Init, PinInv, HasHandle

\* So it is true of every handle that has pinned its State.
LEMMA PinStep ==
  PartsInv /\ PlaceInv /\ HandleInv /\ SettledInv /\ PinInv /\ [Next]_vars => PinInv'
<1> SUFFICES ASSUME PartsInv, PlaceInv, HandleInv, SettledInv, PinInv, [Next]_vars,
                    NEW t \in Tx, HasHandle(t)'
             PROVE  PinnedWell(t)'
  BY DEF PinInv
<1>1. CASE Capture(t)
  BY <1>1, PinCapture
<1>2. CASE HasHandle(t) /\ pinned'[t] = pinned[t] /\ read_ts'[t] = read_ts[t]
  BY <1>2, MemtablesKept, PinKept DEF PinInv
<1> QED
  BY <1>1, <1>2, HandleKept

-----------------------------------------------------------------------------
(* The invariant holds.                                                    *)

\* The invariant holds at first.
LEMMA InductiveInit == Init => IInv
  BY PartsInit, PlaceInit, DataInit, DurableInit, PinInit DEF IInv

\* Every step keeps it.
LEMMA InductiveStep == IInv /\ [Next]_vars => IInv'
  BY PartsStep, PlaceStep, DataStep, HandleStep, SettledStep, DurableStep, PinStep DEF IInv

\* So it always holds.
LEMMA Inductive == Spec => []IInv
  BY InductiveInit, InductiveStep, PTL DEF Spec

-----------------------------------------------------------------------------
(* What a handle reads.                                                    *)

\* Both mean the same by a search.
LEMMA SameSearch ==
  /\ \A E, k : S!Newest(E, k) = SP!Newest(E, k)
  /\ \A P, k : S!Search(P, k) = SP!Search(P, k)
  BY DEF S!Newest, SP!Newest, S!Search, SP!Search, S!Has, SP!Has

\* The places that a handle searches.
ViewPlaces(t) ==
    LET held   == <<pinned[t].mem>> \o pinned[t].frozen
        places == [i \in DOMAIN held |-> entries[held[i]]] \o tables
    IN  [i \in DOMAIN places |-> Upto(places[i], read_ts[t])]

\* A handle reads by searching these places.
LEMMA ViewSearch == \A t, k : View(t, k) = S!Search(ViewPlaces(t), k)
  BY Zenon DEF View, ViewPlaces

\* They are the memtables it holds, then the tables of the day.
LEMMA ViewPlacesAre ==
  ASSUME PartsInv, NEW t \in Tx, PinnedWell(t)
  PROVE  /\ Len(HeldList(t)) \in Nat /\ DOMAIN HeldList(t) = 1..Len(HeldList(t))
         /\ \A n \in DOMAIN HeldList(t) : HeldList(t)[n] \in DOMAIN entries
         /\ Len(tables) \in Nat /\ DOMAIN tables = 1..Len(tables)
         /\ DOMAIN ViewPlaces(t) = 1..(Len(HeldList(t)) + Len(tables))
         /\ \A n \in 1..Len(HeldList(t)) :
              ViewPlaces(t)[n] = Upto(entries[HeldList(t)[n]], read_ts[t])
         /\ \A n \in 1..Len(tables) :
              ViewPlaces(t)[Len(HeldList(t)) + n] = Upto(tables[n], read_ts[t])
<1> DEFINE L == HeldList(t)
           front == [i \in DOMAIN L |-> entries[L[i]]]
           places == front \o tables
<1>1. /\ entries \in [DOMAIN entries -> SUBSET SP!Version] /\ tables \in Seq(SUBSET SP!Version)
  BY DEF PartsInv, SP!IInv, SP!TypeOK, SP!Ids
<1>2. L \in Seq(DOMAIN entries)
  <2>1. pinned[t].mem \in DOMAIN entries /\ pinned[t].frozen \in Seq(DOMAIN entries)
    BY DEF PinnedWell
  <2> QED
    BY <2>1, SP!InFront DEF HeldList
<1> HIDE DEF L
<1>3. /\ Len(L) \in Nat /\ DOMAIN L = 1..Len(L) /\ \A n \in DOMAIN L : L[n] \in DOMAIN entries
      /\ Len(tables) \in Nat /\ DOMAIN tables = 1..Len(tables)
  BY <1>1, <1>2, LenProperties
<1>4. /\ front \in Seq(SUBSET SP!Version) /\ Len(front) = Len(L)
      /\ \A n \in 1..Len(L) : front[n] = entries[L[n]]
  <2>1. \A n \in 1..Len(L) : entries[L[n]] \in SUBSET SP!Version
    BY <1>1, <1>3
  <2> QED
    BY <1>3, <2>1
<1> HIDE DEF front
<1>5. /\ places \in Seq(SUBSET SP!Version) /\ Len(places) = Len(L) + Len(tables)
      /\ \A n \in 1..Len(L) : places[n] = entries[L[n]]
      /\ \A n \in 1..Len(tables) : places[Len(L) + n] = tables[n]
  <2>1. PICK f \in Seq(SUBSET SP!Version), g \in Seq(SUBSET SP!Version) : f = front /\ g = tables
    BY <1>1, <1>4
  <2>2. f \o g \in Seq(SUBSET SP!Version) /\ Len(f \o g) = Len(f) + Len(g)
    BY SP!Behind
  <2>3. \A n \in 1..Len(f) : (f \o g)[n] = f[n]
    BY SP!Behind
  <2>4. \A n \in 1..Len(g) : (f \o g)[Len(f) + n] = g[n]
    BY SP!Behind
  <2> QED
    BY <1>4, <2>1, <2>2, <2>3, <2>4
<1>6. ViewPlaces(t) = [i \in DOMAIN places |-> Upto(places[i], read_ts[t])]
  BY DEF ViewPlaces, HeldList, L, front
<1> HIDE DEF places
<1>7. DOMAIN places = 1..(Len(L) + Len(tables))
  BY <1>5, LenProperties
<1>8. \A n \in 1..Len(L) : n \in DOMAIN places
  BY <1>3, <1>7
<1>9. \A n \in 1..Len(tables) : Len(L) + n \in DOMAIN places
  BY <1>3, <1>7
<1>10. /\ \A n \in 1..Len(L) : ViewPlaces(t)[n] = Upto(entries[L[n]], read_ts[t])
       /\ \A n \in 1..Len(tables) : ViewPlaces(t)[Len(L) + n] = Upto(tables[n], read_ts[t])
  BY <1>5, <1>6, <1>8, <1>9
<1> QED
  BY <1>3, <1>6, <1>7, <1>10 DEF L

\* A place shows nothing that the handle may not see.
LEMMA ViewSound ==
  ASSUME PartsInv, NEW t \in Tx, PinnedWell(t), NEW n \in DOMAIN ViewPlaces(t)
  PROVE  ViewPlaces(t)[n] \subseteq Seen(t)
<1> DEFINE L == HeldList(t)
           ts == read_ts[t]
<1>1. /\ Len(L) \in Nat /\ DOMAIN L = 1..Len(L) /\ Len(tables) \in Nat
      /\ DOMAIN tables = 1..Len(tables) /\ DOMAIN ViewPlaces(t) = 1..(Len(L) + Len(tables))
      /\ \A m \in 1..Len(L) : ViewPlaces(t)[m] = Upto(entries[L[m]], ts)
      /\ \A m \in 1..Len(tables) : ViewPlaces(t)[Len(L) + m] = Upto(tables[m], ts)
  BY ViewPlacesAre
<1>2. CASE n <= Len(L)
  <2>1. n \in DOMAIN L /\ L[n] \in Held(t)
    BY <1>1, <1>2 DEF Held
  <2> QED
    BY <1>1, <2>1 DEF Seen, Upto
<1>3. CASE n > Len(L)
  <2>1. n - Len(L) \in 1..Len(tables) /\ n = Len(L) + (n - Len(L))
    BY <1>1, <1>3
  <2>2. PICK m \in DOMAIN tables : ViewPlaces(t)[n] = Upto(tables[m], ts)
    BY <1>1, <2>1
  <2>3. PICK i \in SP!Written : tables[m] = SP!Compacted(i)
    BY DEF PartsInv, SP!IInv, SP!TableInv
  <2>4. i \in DOMAIN entries /\ SP!Compacted(i) \subseteq entries[i]
    BY SP!WrittenOld, SP!CompactedVersions, Assumed DEF PartsInv, SP!IInv, SP!Ids
  <2>5. CASE i \in Held(t)
    BY <2>2, <2>3, <2>4, <2>5 DEF Seen, Upto
  <2>6. CASE i \in Older(t)
    BY <2>2, <2>3, <2>6 DEF Seen, Upto
  <2>7. CASE i > pinned[t].mem
    <3>1. \A v \in entries[i] : v[2] \in Nat /\ v[2] > pinned[t].since
      BY <2>4, <2>7 DEF PinnedWell, PartsInv, SP!IInv, SP!TypeOK, SP!Ids, SP!Version
    <3>2. ts \in Nat /\ pinned[t].since \in Nat /\ ts <= pinned[t].since
      BY DEF PinnedWell, PartsInv, OP!IInv, OP!TypeOK
    <3>3. Upto(tables[m], ts) = {}
      BY <2>3, <2>4, <3>1, <3>2 DEF Upto
    <3> QED
      BY <2>2, <3>3
  <2>8. i = pinned[t].mem \/ i < pinned[t].mem \/ i > pinned[t].mem
    BY <2>4 DEF PinnedWell, PartsInv, SP!IInv, SP!TypeOK, SP!Ids
  <2>9. pinned[t].mem \in Held(t)
    <3>1. 1 \in DOMAIN L /\ L[1] = pinned[t].mem
      <4>1. pinned[t].mem \in DOMAIN entries /\ pinned[t].frozen \in Seq(DOMAIN entries)
        BY DEF PinnedWell
      <4>2. Len(L) = Len(pinned[t].frozen) + 1 /\ L[1] = pinned[t].mem
        BY <4>1, SP!InFront DEF HeldList
      <4>3. Len(pinned[t].frozen) \in Nat
        BY <4>1, LenProperties
      <4> QED
        BY <1>1, <4>2, <4>3
    <3> QED
      BY <3>1 DEF Held
  <2> QED
    BY <2>4, <2>5, <2>6, <2>7, <2>8, <2>9 DEF Older
<1> QED
  BY <1>1, <1>2, <1>3

\* What the handle may see is in a place before which there is nothing older of
\* the key.
LEMMA ViewComplete ==
  ASSUME PartsInv, NEW t \in Tx, PinnedWell(t), NEW best \in Seen(t)
  PROVE  \E n \in DOMAIN ViewPlaces(t) :
           /\ best \in ViewPlaces(t)[n]
           /\ \A m \in DOMAIN ViewPlaces(t) : m < n =>
                \A x \in ViewPlaces(t)[m] : x[1] = best[1] => x[2] > best[2]
<1> DEFINE L == HeldList(t)
           ts == read_ts[t]
<1>1. /\ Len(L) \in Nat /\ DOMAIN L = 1..Len(L) /\ Len(tables) \in Nat
      /\ \A n \in DOMAIN L : L[n] \in DOMAIN entries
      /\ DOMAIN tables = 1..Len(tables) /\ DOMAIN ViewPlaces(t) = 1..(Len(L) + Len(tables))
      /\ \A m \in 1..Len(L) : ViewPlaces(t)[m] = Upto(entries[L[m]], ts)
      /\ \A m \in 1..Len(tables) : ViewPlaces(t)[Len(L) + m] = Upto(tables[m], ts)
  BY ViewPlacesAre
<1>2. /\ \A i, j \in DOMAIN entries : i < j =>
           \A u \in entries[i], v \in entries[j] : v[2] > u[2]
      /\ DOMAIN entries \subseteq Nat
  BY DEF PartsInv, SP!IInv, SP!VersionInv, SP!TypeOK, SP!Ids, SP!Version
<1>3. ASSUME NEW i \in Held(t), best \in entries[i], best[2] <= ts
      PROVE  \E n \in DOMAIN ViewPlaces(t) :
               /\ best \in ViewPlaces(t)[n]
               /\ \A m \in DOMAIN ViewPlaces(t) : m < n =>
                    \A x \in ViewPlaces(t)[m] : x[1] = best[1] => x[2] > best[2]
  <2>1. PICK n \in DOMAIN L : i = L[n]
    BY DEF Held
  <2>2. n \in DOMAIN ViewPlaces(t) /\ best \in ViewPlaces(t)[n]
    BY <1>1, <1>3, <2>1 DEF Upto
  <2>3. ASSUME NEW m \in DOMAIN ViewPlaces(t), m < n, NEW x \in ViewPlaces(t)[m]
        PROVE  x[2] > best[2]
    <3>1. m \in DOMAIN L /\ x \in entries[L[m]]
      BY <1>1, <2>3 DEF Upto
    <3>2. L[m] > L[n]
      BY <2>3, <3>1 DEF PinnedWell
    <3> QED
      BY <1>1, <1>2, <1>3, <2>1, <3>1, <3>2
  <2> QED
    BY <2>2, <2>3
<1>4. ASSUME NEW i \in Older(t), best \in SP!Compacted(i), best[2] <= ts
      PROVE  \E n \in DOMAIN ViewPlaces(t) :
               /\ best \in ViewPlaces(t)[n]
               /\ \A m \in DOMAIN ViewPlaces(t) : m < n =>
                    \A x \in ViewPlaces(t)[m] : x[1] = best[1] => x[2] > best[2]
  <2>1. i \in SP!Retired /\ i \in DOMAIN entries /\ \A h \in Held(t) : i < h
    BY DEF PinnedWell, Older
  <2>2. PICK j \in DOMAIN tables : tables[j] = SP!Compacted(i)
    BY <1>4, <2>1 DEF PartsInv, SP!IInv, SP!TableInv, SP!Written
  <2>3. Len(L) + j \in DOMAIN ViewPlaces(t) /\ best \in ViewPlaces(t)[Len(L) + j]
    BY <1>1, <1>4, <2>2 DEF Upto
  <2>4. best \in entries[i]
    BY <1>4, SP!CompactedVersions, Assumed
  <2>5. ASSUME NEW m \in DOMAIN ViewPlaces(t), m < Len(L) + j, NEW x \in ViewPlaces(t)[m],
               x[1] = best[1]
        PROVE  x[2] > best[2]
    <3>1. CASE m <= Len(L)
      <4>1. m \in DOMAIN L /\ x \in entries[L[m]] /\ L[m] \in Held(t)
        BY <1>1, <2>5, <3>1 DEF Upto, Held
      <4> QED
        BY <1>1, <1>2, <2>1, <2>4, <4>1
    <3>2. CASE m > Len(L)
      <4>1. m - Len(L) \in DOMAIN tables /\ m - Len(L) < j /\ m = Len(L) + (m - Len(L))
        BY <1>1, <2>5, <3>2
      <4>2. x \in tables[m - Len(L)]
        BY <1>1, <2>5, <4>1 DEF Upto
      <4> QED
        BY <1>4, <2>2, <2>5, <4>1, <4>2 DEF PartsInv, SP!IInv, SP!TableInv, SP!NewestTableFirst
    <3> QED
      BY <1>1, <3>1, <3>2
  <2> QED
    BY <2>3, <2>5
<1>5. /\ best[2] <= ts
      /\ \/ \E i \in Held(t) : best \in entries[i]
         \/ \E i \in Older(t) : best \in SP!Compacted(i)
  BY DEF Seen, Upto
<1> QED
  BY <1>3, <1>4, <1>5

\* What a handle may see was put into some memtable, up to its timestamp.
LEMMA SeenVersions ==
  ASSUME PartsInv, NEW t \in Tx, PinnedWell(t)
  PROVE  /\ Seen(t) \subseteq UNION {entries[i] : i \in DOMAIN entries}
         /\ Seen(t) \subseteq SP!Version /\ \A v \in Seen(t) : v[2] <= read_ts[t]
<1>1. \A n \in DOMAIN HeldList(t) : HeldList(t)[n] \in DOMAIN entries
  BY ViewPlacesAre
<1>2. \A i \in Held(t) : i \in DOMAIN entries
  BY <1>1 DEF Held
<1>3. \A i \in Older(t) : i \in DOMAIN entries /\ SP!Compacted(i) \subseteq entries[i]
  BY SP!CompactedVersions, Assumed DEF Older
<1>4. \A i \in DOMAIN entries : entries[i] \subseteq SP!Version
  BY DEF PartsInv, SP!IInv, SP!TypeOK, SP!Ids
<1> QED
  BY <1>2, <1>3, <1>4 DEF Seen, Upto

\* A handle reads the newest version of a key that it may see.
LEMMA ViewIsSeen ==
  ASSUME PartsInv, NEW t \in Tx, PinnedWell(t), NEW k
  PROVE  View(t, k) = SP!Newest(Seen(t), k)
<1>1. \A n \in DOMAIN ViewPlaces(t) : ViewPlaces(t)[n] \subseteq Seen(t)
  BY ViewSound
<1>2. DOMAIN ViewPlaces(t) \subseteq Nat
  BY ViewPlacesAre
<1>3. Seen(t) \subseteq SP!Version /\ read_ts[t] \in Nat /\ \A v \in Seen(t) : v[2] <= read_ts[t]
  BY SeenVersions DEF PartsInv, OP!IInv, OP!TypeOK
<1>4. \A best \in SP!Newest(Seen(t), k) : best \in Seen(t) /\ best[1] = k
  BY DEF SP!Newest
<1>5. \A best \in SP!Newest(Seen(t), k) : \E n \in DOMAIN ViewPlaces(t) :
           /\ best \in ViewPlaces(t)[n]
           /\ \A m \in DOMAIN ViewPlaces(t) : m < n =>
                \A x \in ViewPlaces(t)[m] : x[1] = k => x[2] > best[2] \/ best \in ViewPlaces(t)[m]
  BY <1>4, ViewComplete
<1>6. SP!Search(ViewPlaces(t), k) = SP!Newest(Seen(t), k)
  BY <1>1, <1>2, <1>3, <1>5, SP!SearchFinds, Assumed
<1> QED
  BY <1>6, ViewSearch, SameSearch

\* What a handle may see stays the same as long as it has it.
LEMMA SeenKept ==
  ASSUME PartsInv, NEW t \in Tx, PinnedWell(t), Kept,
         pinned'[t] = pinned[t], read_ts'[t] = read_ts[t]
  PROVE  Seen(t)' = Seen(t)
<1>1. /\ Held(t)' = Held(t) /\ Older(t)' = Older(t)
      /\ \A i \in Older(t) : entries'[i] = entries[i]
  BY HeldKept
<1>2. \A i \in Older(t) : SP!Compacted(i)' = SP!Compacted(i)
  BY <1>1 DEF SP!Compacted
<1>3. \A i \in Held(t) : i \in DOMAIN entries
  BY ViewPlacesAre DEF Held
<1>4. read_ts[t] \in Nat /\ visible \in Nat /\ read_ts[t] <= visible
  BY DEF PartsInv, OP!IInv, OP!TypeOK, OP!ControlInv, OP!SeqInv
<1>5. ASSUME NEW i \in Held(t) PROVE Upto(entries'[i], read_ts[t]) = Upto(entries[i], read_ts[t])
  <2>1. CASE i # mem_table
    BY <1>3, <2>1 DEF Kept
  <2>2. CASE i = mem_table
    <3>1. ASSUME NEW v \in entries'[i], v[2] <= read_ts[t] PROVE v \in entries[i]
      BY <1>4, <2>2, <3>1 DEF Kept
    <3>2. entries[i] \subseteq entries'[i]
      BY <2>2 DEF Kept
    <3> QED
      BY <3>1, <3>2 DEF Upto
  <2> QED
    BY <2>1, <2>2
<1>6. ASSUME NEW v
      PROVE  v \in Seen(t) <=> /\ v[2] <= read_ts[t]
                               /\ \/ \E i \in Held(t) : v \in entries[i]
                                  \/ \E i \in Older(t) : v \in SP!Compacted(i)
  BY DEF Seen, Upto
<1>7. ASSUME NEW v
      PROVE  v \in Seen(t)' <=> /\ v[2] <= read_ts[t]
                                /\ \/ \E i \in Held(t) : v \in entries'[i]
                                   \/ \E i \in Older(t) : v \in SP!Compacted(i)
  BY <1>1, <1>2 DEF Seen, Upto
<1>8. ASSUME NEW v, v[2] <= read_ts[t], NEW i \in Held(t)
      PROVE  v \in entries'[i] <=> v \in entries[i]
  BY <1>5, <1>8 DEF Upto
<1>9. \A v : v \in Seen(t)' <=> v \in Seen(t)
  BY <1>6, <1>7, <1>8
<1> QED
  BY <1>9

-----------------------------------------------------------------------------
(* Theorems.                                                               *)

\* The database is well composed: the Oracle's picture of the memtables, of the
\* numbers and of the tasks is the Storage's own.
THEOREM TypeCorrect == Spec => []TypeOK
<1>1. IInv => TypeOK
  BY DEF IInv, PlaceInv, DataInv, HandleInv, TypeOK
<1> QED
  BY <1>1, Inductive, PTL

\* Whatever is committed, frozen, flushed or retired, and whatever fails, two
\* reads of a key through one handle give the same version.
THEOREM ReadsRepeat == Spec => RepeatableRead
<1>1. IInv /\ IInv' /\ [Next]_vars =>
        [\A t \in Tx : HasHandle(t) /\ HasHandle(t)' =>
           \A k \in Key : View(t, k)' = View(t, k)]_vars
  <2> SUFFICES ASSUME IInv, IInv', [Next]_vars, NEW t \in Tx, HasHandle(t), HasHandle(t)',
                      NEW k \in Key
               PROVE  View(t, k)' = View(t, k)
    OBVIOUS
  <2>1. pinned'[t] = pinned[t] /\ read_ts'[t] = read_ts[t]
    BY HandleKept DEF IInv
  <2>2. PartsInv /\ PinnedWell(t) /\ PartsInv' /\ PinnedWell(t)'
    BY DEF IInv, PinInv
  <2>3. Seen(t)' = Seen(t)
    BY <2>1, <2>2, MemtablesKept, SeenKept DEF IInv
  <2>4. View(t, k) = SP!Newest(Seen(t), k)
    BY <2>2, ViewIsSeen
  <2>5. View(t, k)' = SP!Newest(Seen(t)', k)
    <3>1. PartsInv' /\ t \in Tx /\ PinnedWell(t)'
      BY <2>2
    <3>2. (View(t, k) = SP!Newest(Seen(t), k))'
      BY <2>2, ViewIsSeen, PTL
    <3> QED
      BY <3>2 DEF SP!Newest
  <2> QED
    BY <2>3, <2>4, <2>5
<1> QED
  BY <1>1, Inductive, PTL DEF Spec, RepeatableRead

\* What was committed at or before the timestamp of a handle that lost no race
\* is what it may see.
LEMMA CommittedUpto ==
  ASSUME IInv, "append" \notin Faults, NEW t \in Tx
  PROVE  Upto(written, read_ts[t]) =
           UNION {O!Versions(u) : u \in {c \in O!Committed : commit_ts[c] <= read_ts[t]}}
<1> USE SameTasks
<1>0. /\ OP!TypeOK /\ OP!WriteInv /\ OP!PhaseInv /\ OP!SeqInv
      /\ \A u \in Task : fate[u] # "failed"
  BY DEF IInv, PartsInv, OP!IInv, OP!ControlInv, SettledInv
<1>1. read_ts[t] \in Nat /\ visible \in Nat /\ read_ts[t] <= visible
  BY <1>0 DEF OP!TypeOK, OP!SeqInv
<1>2. ASSUME NEW v \in written, v[2] <= read_ts[t]
      PROVE  \E u \in O!Committed : commit_ts[u] <= read_ts[t] /\ v \in O!Versions(u)
  <2>1. PICK u \in Task : v \in O!Versions(u)
    BY DEF IInv, DataInv
  <2>2. v[2] # 0 /\ v[2] = commit_ts[u] /\ commit_ts[u] \in Nat
    BY <1>0, <2>1 DEF OP!WriteInv, O!Versions, OP!TypeOK
  <2>3. pc[u] \notin {"idle", "open", "waiting"} /\ fate[u] \notin {"conflicted", "dropped"}
    BY <1>0, <2>2 DEF OP!WriteInv
  <2>4. pc[u] \notin {"writing", "written"}
    BY <1>0, <1>1, <1>2, <2>2 DEF OP!SeqInv
  <2>5. fate[u] \in {"none", "committed", "conflicted", "failed", "dropped"}
    BY <1>0 DEF OP!TypeOK
  <2>6. u \in O!Committed
    BY <1>0, <2>3, <2>4, <2>5 DEF OP!PhaseInv, O!Committed
  <2> QED
    BY <1>2, <2>1, <2>2, <2>6
<1>3. ASSUME NEW u \in O!Committed, commit_ts[u] <= read_ts[t], NEW v \in O!Versions(u)
      PROVE  v \in written /\ v[2] <= read_ts[t]
  <2>1. O!Versions(u) = OP!Versions(u) /\ u \in Task /\ fate[u] = "committed"
    BY DEF O!Versions, OP!Versions, O!Committed
  <2> QED
    BY <1>0, <1>3, <2>1 DEF OP!WriteInv, O!Versions
<1> QED
  BY <1>2, <1>3 DEF Upto

\* A handle that lost no race sees the newest of these.
LEMMA SeenUnraced ==
  ASSUME IInv, "append" \notin Faults, NEW t \in Tx, HasHandle(t),
         pinned[t].since = read_ts[t], NEW k
  PROVE  SP!Newest(Seen(t), k) = SP!Newest(Upto(written, read_ts[t]), k)
<1> DEFINE E == Upto(written, read_ts[t])
<1>0. PartsInv /\ PinnedWell(t) /\ written = UNION {entries[i] : i \in DOMAIN entries}
  BY DEF IInv, PinInv, DataInv
<1>1. Seen(t) \subseteq E /\ E \subseteq SP!Version
  <2>1. UNION {entries[i] : i \in DOMAIN entries} \subseteq SP!Version
    BY <1>0 DEF PartsInv, SP!IInv, SP!TypeOK, SP!Ids
  <2> QED
    BY <1>0, <2>1, SeenVersions DEF Upto
<1>2. ASSUME NEW best \in SP!Newest(E, k) PROVE best \in Seen(t)
  <2>1. best \in E /\ best[1] = k /\ \A v \in E : v[1] = k => v[2] <= best[2]
    BY DEF SP!Newest
  <2>2. PICK i \in DOMAIN entries : best \in entries[i]
    BY <1>0, <2>1 DEF Upto
  <2>3. best[2] <= read_ts[t] /\ read_ts[t] \in Nat /\ best[2] \in Nat /\ k \in Key
    BY <1>0, <1>1, <2>1 DEF Upto, PartsInv, OP!IInv, OP!TypeOK, SP!Version
  <2>4. ~(i > pinned[t].mem)
    BY <1>0, <2>2, <2>3 DEF PinnedWell
  <2>5. CASE i \in Held(t)
    BY <2>2, <2>3, <2>5 DEF Seen, Upto
  <2>6. CASE i \in Older(t)
    <3>1. \A v \in entries[i] : v \in E
      <4>1. \A v \in entries[i] : v[2] <= read_ts[t]
        BY <1>0, <2>6 DEF PinnedWell
      <4> QED
        BY <1>0, <2>2, <4>1 DEF Upto
    <3>2. best \in SP!Newest(entries[i], k)
      BY <2>1, <2>2, <3>1 DEF SP!Newest
    <3>3. best \in SP!Compacted(i)
      BY <2>3, <3>2 DEF SP!Compacted
    <3> QED
      BY <2>3, <2>6, <3>3 DEF Seen, Upto
  <2>7. pinned[t].mem \in Nat /\ i \in Nat
    BY <1>0 DEF PinnedWell, PartsInv, SP!IInv, SP!TypeOK, SP!Ids
  <2>8. i = pinned[t].mem => i \in Held(t)
    <3>1. /\ pinned[t].mem \in DOMAIN entries /\ pinned[t].frozen \in Seq(DOMAIN entries)
      BY <1>0 DEF PinnedWell
    <3>2. 1 \in DOMAIN HeldList(t) /\ HeldList(t)[1] = pinned[t].mem
      <4>1. Len(HeldList(t)) = Len(pinned[t].frozen) + 1 /\ HeldList(t)[1] = pinned[t].mem
        BY <3>1, SP!InFront DEF HeldList
      <4>2. Len(pinned[t].frozen) \in Nat /\ DOMAIN HeldList(t) = 1..Len(HeldList(t))
        BY <1>0, <3>1, LenProperties, ViewPlacesAre
      <4> QED
        BY <4>1, <4>2
    <3> QED
      BY <3>2 DEF Held
  <2> QED
    BY <2>2, <2>4, <2>5, <2>6, <2>7, <2>8 DEF Older
<1>3. CASE SP!Newest(E, k) = {}
  <2>1. read_ts[t] \in Nat /\ \A v \in E : v[2] <= read_ts[t]
    BY <1>0 DEF PartsInv, OP!IInv, OP!TypeOK, Upto
  <2>2. ~SP!Has(E, k)
    BY <1>1, <1>3, <2>1, SP!HasNewest, Assumed
  <2>3. SP!Newest(Seen(t), k) = {}
    BY <1>1, <2>2 DEF SP!Newest, SP!Has
  <2> QED
    BY <1>3, <2>3
<1>4. CASE SP!Newest(E, k) # {}
  <2>1. PICK best \in SP!Newest(E, k) : TRUE
    BY <1>4
  <2>2. best \in Seen(t)
    BY <1>2
  <2> QED
    BY <1>1, <2>1, <2>2, SP!SameNewest, Assumed
<1> QED
  BY <1>3, <1>4

\* What snapshot isolation says is the newest committed version.
LEMMA ExpectedIs ==
  ASSUME PartsInv, NEW t \in Tx, NEW k,
         Upto(written, read_ts[t]) =
           UNION {O!Versions(u) : u \in {c \in O!Committed : commit_ts[c] <= read_ts[t]}}
  PROVE  SP!Newest(Upto(written, read_ts[t]), k) = Expected(t, k)
<1> DEFINE E == Upto(written, read_ts[t])
           commits == {[task |-> u, ts |-> commit_ts[u], keys |-> buffer[u]] : u \in O!Committed}
<1>1. ASSUME NEW v
      PROVE  v \in E <=> \E u \in O!Committed :
               commit_ts[u] <= read_ts[t] /\ \E j \in buffer[u] : v = <<j, commit_ts[u]>>
  BY DEF O!Versions
<1>2. O!SI!ReadAt(k, read_ts[t]) =
        {c \in commits : /\ k \in c.keys /\ c.ts <= read_ts[t]
                         /\ \A d \in commits : k \in d.keys /\ d.ts <= read_ts[t] => d.ts <= c.ts}
  BY DEF O!SI!ReadAt
<1>3. ASSUME NEW u \in O!Committed, k \in buffer[u], commit_ts[u] <= read_ts[t],
             \A w \in O!Committed : k \in buffer[w] /\ commit_ts[w] <= read_ts[t] =>
                commit_ts[w] <= commit_ts[u]
      PROVE  <<k, commit_ts[u]>> \in SP!Newest(E, k)
  <2>1. <<k, commit_ts[u]>> \in E
    BY <1>1, <1>3
  <2>2. ASSUME NEW v \in E, v[1] = k PROVE v[2] <= commit_ts[u]
    <3>1. PICK w \in O!Committed :
            commit_ts[w] <= read_ts[t] /\ \E j \in buffer[w] : v = <<j, commit_ts[w]>>
      BY <1>1
    <3> QED
      BY <1>3, <2>2, <3>1
  <2> HIDE DEF E
  <2> QED
    BY <2>1, <2>2 DEF SP!Newest
<1>4. ASSUME NEW v \in SP!Newest(E, k)
      PROVE  \E u \in O!Committed : /\ v = <<k, commit_ts[u]>>
               /\ k \in buffer[u] /\ commit_ts[u] <= read_ts[t]
               /\ \A w \in O!Committed : k \in buffer[w] /\ commit_ts[w] <= read_ts[t] =>
                    commit_ts[w] <= commit_ts[u]
  <2>1. v \in E /\ v[1] = k /\ \A w \in E : w[1] = k => w[2] <= v[2]
    BY DEF SP!Newest
  <2>2. PICK u \in O!Committed :
          commit_ts[u] <= read_ts[t] /\ \E j \in buffer[u] : v = <<j, commit_ts[u]>>
    BY <1>1, <2>1
  <2>3. v = <<k, commit_ts[u]>> /\ k \in buffer[u]
    BY <2>1, <2>2
  <2>4. ASSUME NEW w \in O!Committed, k \in buffer[w], commit_ts[w] <= read_ts[t]
        PROVE  commit_ts[w] <= commit_ts[u]
    <3>1. <<k, commit_ts[w]>> \in E
      BY <1>1, <2>4
    <3> QED
      BY <2>1, <2>3, <3>1
  <2> QED
    BY <2>2, <2>3, <2>4
<1> HIDE DEF E
<1>5. ASSUME NEW v \in Expected(t, k) PROVE v \in SP!Newest(E, k)
  <2>1. PICK c \in O!SI!ReadAt(k, read_ts[t]) : v = <<k, c.ts>>
    BY DEF Expected
  <2>2. PICK u \in O!Committed : c = [task |-> u, ts |-> commit_ts[u], keys |-> buffer[u]]
    BY <1>2
  <2>3. ASSUME NEW w \in O!Committed, k \in buffer[w], commit_ts[w] <= read_ts[t]
        PROVE  commit_ts[w] <= commit_ts[u]
    <3>1. [task |-> w, ts |-> commit_ts[w], keys |-> buffer[w]] \in commits
      OBVIOUS
    <3> QED
      BY <1>2, <2>1, <2>2, <2>3, <3>1
  <2>4. k \in buffer[u] /\ commit_ts[u] <= read_ts[t] /\ v = <<k, commit_ts[u]>>
    BY <1>2, <2>1, <2>2
  <2> QED
    BY <1>3, <2>3, <2>4
<1>6. ASSUME NEW v \in SP!Newest(E, k) PROVE v \in Expected(t, k)
  <2>1. PICK u \in O!Committed : /\ v = <<k, commit_ts[u]>>
               /\ k \in buffer[u] /\ commit_ts[u] <= read_ts[t]
               /\ \A w \in O!Committed : k \in buffer[w] /\ commit_ts[w] <= read_ts[t] =>
                    commit_ts[w] <= commit_ts[u]
    BY <1>4
  <2>2. PICK c \in commits : c = [task |-> u, ts |-> commit_ts[u], keys |-> buffer[u]]
    OBVIOUS
  <2>3. c \in O!SI!ReadAt(k, read_ts[t])
    <3>1. k \in c.keys /\ c.ts <= read_ts[t] /\ c.ts = commit_ts[u]
      BY <2>1, <2>2
    <3>2. \A d \in commits : k \in d.keys /\ d.ts <= read_ts[t] => d.ts <= c.ts
      BY <2>1, <3>1
    <3> QED
      BY <1>2, <3>1, <3>2
  <2> QED
    BY <2>1, <2>2, <2>3 DEF Expected
<1> QED
  BY <1>5, <1>6 DEF E

\* A handle that pinned its State before anybody else published reads, for every
\* key and as long as it lives, the last version committed at or before its
\* timestamp, if no append ever fails.
THEOREM SnapshotsAreExact == "append" \notin Faults /\ Spec => []UnracedSnapshotExact
<1>1. "append" \notin Faults => (IInv => UnracedSnapshotExact)
  <2> SUFFICES ASSUME "append" \notin Faults, IInv, NEW t \in Tx, HasHandle(t),
                      pinned[t].since = read_ts[t], NEW k \in Key
               PROVE  View(t, k) = Expected(t, k)
    BY DEF UnracedSnapshotExact
  <2>1. PartsInv /\ PinnedWell(t)
    BY DEF IInv, PinInv
  <2>2. View(t, k) = SP!Newest(Seen(t), k)
    BY <2>1, ViewIsSeen
  <2>3. SP!Newest(Seen(t), k) = SP!Newest(Upto(written, read_ts[t]), k)
    BY SeenUnraced
  <2>4. SP!Newest(Upto(written, read_ts[t]), k) = Expected(t, k)
    BY <2>1, CommittedUpto, ExpectedIs
  <2> QED
    BY <2>2, <2>3, <2>4
<1>2. CASE "append" \notin Faults
  BY <1>1, <1>2, Inductive, PTL
<1>3. CASE "append" \in Faults
  BY <1>3
<1> QED
  BY <1>2, <1>3

\* A commit that readers may see is found by a restart, whenever the process
\* ends, if no log that was flushed stays behind.
THEOREM PublishedSurvives == "remove" \notin Faults /\ Spec => []PublishedIsDurable
<1>1. "remove" \notin Faults => (IInv => PublishedIsDurable)
  <2> SUFFICES ASSUME "remove" \notin Faults, IInv, NEW t \in O!Committed, NEW k \in Key,
                      k \in buffer[t]
               PROVE  \E v \in S!Recovered(k) : v[2] >= commit_ts[t]
    BY DEF PublishedIsDurable
  <2>1. PICK i \in DOMAIN log : O!Versions(t) \subseteq log[i]
    BY DEF IInv, DurableInv, O!Committed, O!Task, Task
  <2>2. <<k, commit_ts[t]>> \in log[i]
    BY <2>1 DEF O!Versions
  <2>3. SP!CrashSafe
    BY SP!Crash, Assumed DEF IInv, PartsInv
  <2>4. \E v \in SP!Recovered(k) : v[2] >= commit_ts[t]
    BY <2>2, <2>3 DEF SP!CrashSafe
  <2>5. S!Recovered(k) = SP!Recovered(k)
    BY SameSearch DEF S!Recovered, SP!Recovered, S!Has, SP!Has
  <2> QED
    BY <2>4, <2>5
<1>2. CASE "remove" \notin Faults
  BY <1>1, <1>2, Inductive, PTL
<1>3. CASE "remove" \in Faults
  BY <1>3
<1> QED
  BY <1>2, <1>3

\* Whatever the storage does underneath, the database is an implementation of
\* snapshot isolation.
THEOREM DatabaseIsolates == Spec => O!ImplementsSnapshotIsolation
<1>1. Spec => OP!Spec
  <2>1. Init => OP!Init
    BY SameOracle DEF Init
  <2>2. PartsInv /\ [Next]_vars => [OP!Next]_(OP!vars)
    BY PartsStep
  <2> QED
    BY <2>1, <2>2, Parts, PTL DEF Spec, OP!Spec
<1>2. OP!Spec => OP!ImplementsSnapshotIsolation
  BY OP!Refinement, Assumed
<1>3. OP!SI!Init <=> O!SI!Init
  BY Zenon DEF OP!SI!Init, O!SI!Init, OP!SI!Task, O!SI!Task, OP!Task, O!Task, OP!Committed,
               O!Committed, OP!Status, O!Status
<1>4. [OP!SI!Next]_(OP!SI!absvars) <=> [O!SI!Next]_(O!SI!absvars)
  BY Zenon DEF OP!SI!Next, O!SI!Next, OP!SI!absvars, O!SI!absvars, OP!SI!Task, O!SI!Task,
               OP!Task, O!Task, OP!Committed, O!Committed, OP!Status, O!Status,
               OP!SI!Begin, O!SI!Begin, OP!SI!Commit, O!SI!Commit, OP!SI!Append, O!SI!Append,
               OP!SI!Newer, O!SI!Newer, OP!SI!Conflict, O!SI!Conflict, OP!SI!Abandon,
               O!SI!Abandon, OP!SI!Write, O!SI!Write
<1> QED
  BY <1>1, <1>2, <1>3, <1>4, PTL
  DEF OP!ImplementsSnapshotIsolation, O!ImplementsSnapshotIsolation, OP!SI!Spec, O!SI!Spec

\* And what is proved of the components holds in it: the first committer wins,
\* conflicts have a reason, a lookup finds the newest version wherever it is, and
\* the tables are in order.
THEOREM ComponentsHold ==
  Spec => [](/\ O!FirstCommitterWins /\ O!ConflictIsReal
             /\ S!LookupIsNewest /\ S!NewestTableFirst)
<1>1. PartsInv => O!FirstCommitterWins /\ O!ConflictIsReal
  BY DEF PartsInv, OP!IInv, OP!HistoryInv, OP!FirstCommitterWins, O!FirstCommitterWins,
         OP!ConflictIsReal, O!ConflictIsReal, OP!Overwrote, O!Overwrote, OP!Committed,
         O!Committed, OP!Task, O!Task
<1>2. PartsInv => S!LookupIsNewest
  <2>1. PartsInv => SP!LookupIsNewest
    BY SP!Lookup, Assumed DEF PartsInv
  <2> QED
    BY <2>1, SameSearch DEF SP!LookupIsNewest, S!LookupIsNewest, SP!Places, S!Places,
                            SP!Ids, S!Ids
<1>3. PartsInv => S!NewestTableFirst
  BY DEF PartsInv, SP!IInv, SP!TableInv, SP!NewestTableFirst, S!NewestTableFirst
<1> QED
  BY <1>1, <1>2, <1>3, Parts, PTL

=============================================================================
