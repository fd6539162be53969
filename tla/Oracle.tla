------------------------------- MODULE Oracle -------------------------------
(***************************************************************************)
(* The transaction crate: the Oracle shared by every handle of a database, *)
(* and the life of a Transaction, a Snapshot and a plain write against it. *)
(*                                                                         *)
(* A task is one Transaction or Snapshot object (Tx) or one DB::set call   *)
(* (Plain); objects are used once, as in the code, where commit consumes   *)
(* the transaction.  A Freezer is a caller of DB::flush, which takes the   *)
(* commit lock to freeze the memtable.  The task's name stands for the     *)
(* tx_id it drew: fetch_add never hands out the same id twice.             *)
(*                                                                         *)
(* One action is what runs between two points where another task can look: *)
(* an await, a store to an atomic, the release of a mutex.  Storage is     *)
(* reduced to the set of versions in memory; Engine.tla puts the real one  *)
(* underneath.                                                             *)
(***************************************************************************)
EXTENDS Naturals, FiniteSets

CONSTANTS Key,        \* user keys
          Tx,         \* Transaction and Snapshot objects
          Plain,      \* DB::set calls
          Freezer,    \* callers of DB::flush
          Nobody,     \* the commit lock is free
          InitSeq,    \* the max_seq that Oracle::new is given
          IoFaults    \* may an append to the log or a freeze fail?

Task == Tx \cup Plain
Proc == Task \cup Freezer

ASSUME OracleAssumption ==
    /\ InitSeq \in Nat
    /\ IoFaults \in BOOLEAN
    /\ Tx \cap Plain = {}
    /\ Task \cap Freezer = {}
    /\ Nobody \notin Proc

VARIABLES next_seq,     \* AtomicU64: the next sequence number
          visible,      \* AtomicU64: reads happen at this sequence number
          recent,       \* the map under commit_lock; 0 is "no entry"
          active,       \* read_ts |-> how many live handles read there
          commit_lock,  \* who holds it
          pc,           \* where each task is
          read_ts,      \* Transaction.read_ts, Snapshot.read_ts
          buffer,       \* the keys a task writes
          commit_ts,    \* the sequence number commit drew; 0 before
          written,      \* the versions <<key, seq>> in the memtable
          fate          \* what became of the task

vars == <<next_seq, visible, recent, active, commit_lock, pc, read_ts,
          buffer, commit_ts, written, fate>>

\* The handle exists: Oracle::begin was called and Oracle::end was not.
Live == {t \in Tx : pc[t] \notin {"idle", "done"}}

\* The phases of commit and freeze that run with the commit lock held.
Locked == {"writing", "written", "pruning", "freezing"}

Committed == {t \in Task : fate[t] = "committed"}

Init ==
    /\ next_seq = InitSeq + 1
    /\ visible = InitSeq
    /\ recent = [k \in Key |-> 0]
    /\ active = [r \in {} |-> 0]
    /\ commit_lock = Nobody
    /\ pc = [p \in Proc |-> "idle"]
    /\ read_ts = [t \in Tx |-> 0]
    /\ buffer = [t \in Task |-> {}]
    /\ commit_ts = [t \in Task |-> 0]
    /\ written = {}
    /\ fate = [t \in Task |-> "none"]

-----------------------------------------------------------------------------
(* Oracle::begin and Oracle::end.  The mutex on `active' is held across    *)
(* the load of `visible', so no other access to `active' falls in between  *)
(* and the pair is one step.                                               *)

\* Broken: the entry is overwritten instead of counted up.
EnterOverwrites(r) ==
    active' = [q \in DOMAIN active \cup {r} |-> IF q = r THEN 1 ELSE active[q]]

\* *active.entry(r).or_default() += 1
Enter(r) ==
    active' = [q \in DOMAIN active \cup {r} |->
                 (IF q \in DOMAIN active THEN active[q] ELSE 0)
                 + (IF q = r THEN 1 ELSE 0)]

\* Broken: an entry that reaches zero stays in the map.
LeaveKeepsZero(r) ==
    active' = [q \in DOMAIN active |->
                 IF q = r THEN active[q] - 1 ELSE active[q]]

\* Decrement the counter of r and remove it at zero, if it is there at all.
Leave(r) ==
    active' = IF r \in DOMAIN active
              THEN [q \in (IF active[r] = 1 THEN DOMAIN active \ {r}
                                            ELSE DOMAIN active) |->
                      IF q = r THEN active[q] - 1 ELSE active[q]]
              ELSE active

\* Broken: the handle reads at the next sequence number, not the published one.
BeginUnpublished(t) ==
    /\ pc[t] = "idle"
    /\ read_ts' = [read_ts EXCEPT ![t] = next_seq]
    /\ Enter(next_seq)
    /\ pc' = [pc EXCEPT ![t] = "open"]
    /\ UNCHANGED <<next_seq, visible, recent, commit_lock, buffer, commit_ts,
                   written, fate>>

Begin(t) ==
    /\ pc[t] = "idle"
    /\ read_ts' = [read_ts EXCEPT ![t] = visible]
    /\ Enter(visible)
    /\ pc' = [pc EXCEPT ![t] = "open"]
    /\ UNCHANGED <<next_seq, visible, recent, commit_lock, buffer, commit_ts,
                   written, fate>>

\* Transaction::set and Transaction::delete: the value is not modelled here.
Buffer(t, k) ==
    /\ pc[t] = "open"
    /\ buffer' = [buffer EXCEPT ![t] = @ \cup {k}]
    /\ UNCHANGED <<next_seq, visible, recent, active, commit_lock, pc,
                   read_ts, commit_ts, written, fate>>

\* The object goes out of scope; rollback does nothing before that.
Drop(t) ==
    /\ pc[t] = "open"
    /\ Leave(read_ts[t])
    /\ pc' = [pc EXCEPT ![t] = "done"]
    /\ fate' = [fate EXCEPT ![t] = "dropped"]
    /\ UNCHANGED <<next_seq, visible, recent, commit_lock, read_ts, buffer,
                   commit_ts, written>>

\* Broken: commit forgets the handle instead of dropping it.
EndForgets(t) ==
    /\ pc[t] = "closing"
    /\ pc' = [pc EXCEPT ![t] = "done"]
    /\ UNCHANGED <<next_seq, visible, recent, active, commit_lock, read_ts,
                   buffer, commit_ts, written, fate>>

\* commit(self) returned; the object is dropped on the way out.
End(t) ==
    /\ pc[t] = "closing"
    /\ IF t \in Tx THEN Leave(read_ts[t]) ELSE UNCHANGED active
    /\ pc' = [pc EXCEPT ![t] = "done"]
    /\ UNCHANGED <<next_seq, visible, recent, commit_lock, read_ts, buffer,
                   commit_ts, written, fate>>

-----------------------------------------------------------------------------
(* Transaction::commit, DB::set and Oracle::commit.                        *)

\* An empty transaction returns Ok at once.
CommitEmpty(t) ==
    /\ pc[t] = "open"
    /\ buffer[t] = {}
    /\ pc' = [pc EXCEPT ![t] = "closing"]
    /\ fate' = [fate EXCEPT ![t] = "dropped"]
    /\ UNCHANGED <<next_seq, visible, recent, active, commit_lock, read_ts,
                   buffer, commit_ts, written>>

\* The call waits for the commit lock from here on.
CommitCall(t) ==
    /\ pc[t] = "open"
    /\ buffer[t] # {}
    /\ pc' = [pc EXCEPT ![t] = "waiting"]
    /\ UNCHANGED <<next_seq, visible, recent, active, commit_lock, read_ts,
                   buffer, commit_ts, written, fate>>

Set(p, k) ==
    /\ pc[p] = "idle"
    /\ buffer' = [buffer EXCEPT ![p] = {k}]
    /\ pc' = [pc EXCEPT ![p] = "waiting"]
    /\ UNCHANGED <<next_seq, visible, recent, active, commit_lock, read_ts,
                   commit_ts, written, fate>>

\* Somebody committed a key of t after its snapshot.  No check for plain writes.
HasConflict(t) ==
    /\ t \in Tx
    /\ \E k \in buffer[t] : recent[k] > read_ts[t]

\* Broken: a commit that has a conflict tries again with the same snapshot.
CommitRetries(t) ==
    /\ pc[t] = "waiting"
    /\ commit_lock = Nobody
    /\ HasConflict(t)
    /\ UNCHANGED vars

\* The lock is taken and, on the early return, given back.
CommitConflict(t) ==
    /\ pc[t] = "waiting"
    /\ commit_lock = Nobody
    /\ HasConflict(t)
    /\ pc' = [pc EXCEPT ![t] = "closing"]
    /\ fate' = [fate EXCEPT ![t] = "conflicted"]
    /\ UNCHANGED <<next_seq, visible, recent, active, commit_lock, read_ts,
                   buffer, commit_ts, written>>

\* Broken: the keys are recorded before the batch is written.
CommitStartRecords(t) ==
    /\ pc[t] = "waiting"
    /\ commit_lock = Nobody
    /\ ~HasConflict(t)
    /\ commit_lock' = t
    /\ commit_ts' = [commit_ts EXCEPT ![t] = next_seq]
    /\ next_seq' = next_seq + 1
    /\ recent' = [k \in Key |-> IF k \in buffer[t] THEN next_seq ELSE recent[k]]
    /\ pc' = [pc EXCEPT ![t] = "writing"]
    /\ UNCHANGED <<visible, active, read_ts, buffer, written, fate>>

\* One sequence number for the whole write set.
CommitStart(t) ==
    /\ pc[t] = "waiting"
    /\ commit_lock = Nobody
    /\ ~HasConflict(t)
    /\ commit_lock' = t
    /\ commit_ts' = [commit_ts EXCEPT ![t] = next_seq]
    /\ next_seq' = next_seq + 1
    /\ pc' = [pc EXCEPT ![t] = "writing"]
    /\ UNCHANGED <<visible, recent, active, read_ts, buffer, written, fate>>

Versions(t) == {<<k, commit_ts[t]>> : k \in buffer[t]}

\* Storage::set_batch puts the entries into the memtable one by one.
Insert(t, k) ==
    /\ pc[t] = "writing"
    /\ k \in buffer[t]
    /\ <<k, commit_ts[t]>> \notin written
    /\ written' = written \cup {<<k, commit_ts[t]>>}
    /\ UNCHANGED <<next_seq, visible, recent, active, commit_lock, pc,
                   read_ts, buffer, commit_ts, fate>>

\* Broken: the commit goes on before the last entry is in the memtable.
SetBatchDoneEarly(t) ==
    /\ pc[t] = "writing"
    /\ Versions(t) \cap written # {}
    /\ pc' = [pc EXCEPT ![t] = "written"]
    /\ UNCHANGED <<next_seq, visible, recent, active, commit_lock, read_ts,
                   buffer, commit_ts, written, fate>>

SetBatchDone(t) ==
    /\ pc[t] = "writing"
    /\ Versions(t) \subseteq written
    /\ pc' = [pc EXCEPT ![t] = "written"]
    /\ UNCHANGED <<next_seq, visible, recent, active, commit_lock, read_ts,
                   buffer, commit_ts, written, fate>>

\* An append fails: TxBegin or the batch before the first put, or TxCommit
\* after the last.  The guard on the commit lock is dropped by the `?'.
SetBatchFails(t) ==
    /\ IoFaults
    /\ pc[t] = "writing"
    /\ \/ Versions(t) \cap written = {}
       \/ Versions(t) \subseteq written
    /\ commit_lock' = Nobody
    /\ pc' = [pc EXCEPT ![t] = "closing"]
    /\ fate' = [fate EXCEPT ![t] = "failed"]
    /\ UNCHANGED <<next_seq, visible, recent, active, read_ts, buffer,
                   commit_ts, written>>

\* Record the keys for later conflict checks, then make the writes visible.
\* `recent' is only read under the commit lock, so this is one step.
Publish(t) ==
    /\ pc[t] = "written"
    /\ recent' = [k \in Key |-> IF k \in buffer[t] THEN commit_ts[t]
                                                   ELSE recent[k]]
    /\ visible' = commit_ts[t]
    /\ pc' = [pc EXCEPT ![t] = "pruning"]
    /\ fate' = [fate EXCEPT ![t] = "committed"]
    /\ UNCHANGED <<next_seq, active, commit_lock, read_ts, buffer, commit_ts,
                   written>>

\* Broken: the watermark is the newest snapshot in use, not the oldest.
AboveNewestHandle(ts, t) ==
    IF DOMAIN active = {} THEN ts > commit_ts[t]
                          ELSE \A r \in DOMAIN active : ts > r

\* recent.retain(ts > watermark): an entry stays while a handle that began
\* before ts is alive.  Without handles the watermark is commit_ts.
AboveWatermark(ts, t) ==
    IF DOMAIN active = {} THEN ts > commit_ts[t]
                          ELSE \E r \in DOMAIN active : ts > r

Prune(t) ==
    /\ pc[t] = "pruning"
    /\ recent' = [k \in Key |-> IF AboveWatermark(recent[k], t)
                                THEN recent[k] ELSE 0]
    /\ pc' = [pc EXCEPT ![t] = "freezing"]
    /\ UNCHANGED <<next_seq, visible, active, commit_lock, read_ts, buffer,
                   commit_ts, written, fate>>

\* freeze_if_full is done: drop(recent), then wait for flush capacity.
Unlock(t) ==
    /\ pc[t] = "freezing"
    /\ commit_lock' = Nobody
    /\ pc' = [pc EXCEPT ![t] = "throttled"]
    /\ UNCHANGED <<next_seq, visible, recent, active, read_ts, buffer,
                   commit_ts, written, fate>>

\* freeze_if_full failed: the caller gets the error though its writes are
\* published, and does not wait for capacity.
FreezeFails(t) ==
    /\ IoFaults
    /\ pc[t] = "freezing"
    /\ commit_lock' = Nobody
    /\ pc' = [pc EXCEPT ![t] = "closing"]
    /\ UNCHANGED <<next_seq, visible, recent, active, read_ts, buffer,
                   commit_ts, written, fate>>

\* await_flush_capacity is over.
Return(t) ==
    /\ pc[t] = "throttled"
    /\ pc' = [pc EXCEPT ![t] = "closing"]
    /\ UNCHANGED <<next_seq, visible, recent, active, commit_lock, read_ts,
                   buffer, commit_ts, written, fate>>

-----------------------------------------------------------------------------
(* Oracle::freeze, called by DB::flush.                                    *)

\* Broken: DB::flush freezes without asking for the commit lock.
FreezeUnasked(f) ==
    /\ pc[f] = "idle"
    /\ pc' = [pc EXCEPT ![f] = "freezing"]
    /\ UNCHANGED <<next_seq, visible, recent, active, commit_lock, read_ts,
                   buffer, commit_ts, written, fate>>

FreezeLock(f) ==
    /\ pc[f] = "idle"
    /\ commit_lock = Nobody
    /\ commit_lock' = f
    /\ pc' = [pc EXCEPT ![f] = "freezing"]
    /\ UNCHANGED <<next_seq, visible, recent, active, read_ts, buffer,
                   commit_ts, written, fate>>

FreezeUnlock(f) ==
    /\ pc[f] = "freezing"
    /\ commit_lock' = Nobody
    /\ pc' = [pc EXCEPT ![f] = "idle"]
    /\ UNCHANGED <<next_seq, visible, recent, active, read_ts, buffer,
                   commit_ts, written, fate>>

-----------------------------------------------------------------------------

Next ==
    \/ \E t \in Tx : \/ Begin(t) \/ Drop(t) \/ CommitEmpty(t) \/ CommitCall(t)
                     \/ \E k \in Key : Buffer(t, k)
                     \/ CommitConflict(t)
    \/ \E p \in Plain, k \in Key : Set(p, k)
    \/ \E t \in Task : \/ CommitStart(t) \/ SetBatchDone(t) \/ SetBatchFails(t)
                       \/ \E k \in Key : Insert(t, k)
                       \/ Publish(t) \/ Prune(t) \/ Unlock(t) \/ FreezeFails(t)
                       \/ Return(t) \/ End(t)
    \/ \E f \in Freezer : FreezeLock(f) \/ FreezeUnlock(f)

Spec == Init /\ [][Next]_vars
-----------------------------------------------------------------------------
(* What the code's scheduling justifies.  A task that may go on does: tokio *)
(* polls every ready future.  tokio's Mutex serves its waiters in FIFO      *)
(* order, so a task waiting for the commit lock is not passed over for      *)
(* ever: strong fairness.  Nobody is obliged to call anything.              *)

TakeLock(t) == CommitConflict(t) \/ CommitStart(t)

RunOn(t) ==
    \/ \E k \in Key : Insert(t, k)
    \/ SetBatchDone(t) \/ SetBatchFails(t) \/ Publish(t) \/ Prune(t)
    \/ Unlock(t) \/ FreezeFails(t) \/ Return(t) \/ End(t)

Fairness ==
    /\ \A t \in Task : WF_vars(RunOn(t)) /\ SF_vars(TakeLock(t))
    /\ \A f \in Freezer : WF_vars(FreezeUnlock(f))

FairSpec == Spec /\ Fairness

-----------------------------------------------------------------------------
(* Properties.  The operators marked "Broken" above are faults of the kind *)
(* the properties are there to catch; no action uses them.                 *)

\* Every variable holds a value of its type.
TypeOK ==
    /\ next_seq \in Nat
    /\ visible \in Nat
    /\ recent \in [Key -> Nat]
    /\ DOMAIN active \subseteq Nat
    /\ active \in [DOMAIN active -> Nat \ {0}]
    /\ commit_lock \in Proc \cup {Nobody}
    /\ pc \in [Proc -> {"idle", "open", "waiting", "writing", "written",
                        "pruning", "freezing", "throttled", "closing", "done"}]
    /\ read_ts \in [Tx -> Nat]
    /\ buffer \in [Task -> SUBSET Key]
    /\ commit_ts \in [Task -> Nat]
    /\ written \subseteq Key \X Nat
    /\ fate \in [Task -> {"none", "committed", "conflicted", "failed", "dropped"}]

\* u committed a key of t after the snapshot of t was taken.
Overwrote(u, t) ==
    /\ u \in Committed
    /\ commit_ts[u] > read_ts[t]
    /\ buffer[u] \cap buffer[t] # {}

\* No two transactions that write a common key both commit when one began
\* before the other's commit (and after plain writes of the key neither):
\* the conflict check never misses because `recent' was pruned, because a
\* commit is half done, or because a handle began in between.
FirstCommitterWins ==
    \A t \in Tx \cap Committed, u \in Task :
        Overwrote(u, t) => commit_ts[u] >= commit_ts[t]

\* CommitConflict is only returned when somebody really committed one of the
\* keys after the snapshot: a failed write, a rolled-back transaction or a
\* stale entry of `recent' never costs anybody a commit.
ConflictIsReal ==
    \A t \in Tx : fate[t] = "conflicted" => \E u \in Task : Overwrote(u, t)

\* Pruning never drops an entry some live handle needs: for every key
\* committed after the snapshot of a live handle, the map still shows a
\* commit after that snapshot.
RecentComplete ==
    \A t \in Live, u \in Committed :
        commit_ts[u] > read_ts[t] =>
            \A k \in buffer[u] : recent[k] > read_ts[t]

\* `active' counts exactly the live handles, so the watermark is the oldest
\* snapshot in use and an entry does not outlive its handles.
ActiveExact ==
    /\ DOMAIN active = {read_ts[t] : t \in Live}
    /\ \A r \in DOMAIN active :
         active[r] = Cardinality({t \in Live : read_ts[t] = r})

Freezing == \E p \in Proc : pc[p] = "freezing"

\* No commit is in flight while a memtable can be frozen (the comments on
\* Oracle::freeze and on freeze_if_full): a flush keeps the newest version of a
\* key only, so an unpublished one would hide the version readers see.  Only a
\* commit that failed after its puts may have left one there.
FreezeSeesSettled ==
    Freezing => \A t \in Task :
                  (Versions(t) \cap written # {} /\ fate[t] # "failed")
                    => commit_ts[t] <= visible

\* A write set becomes visible as a whole: at the timestamp readers use, a
\* task's versions are all in the memtable or none of them is, and they are
\* only when it committed, or failed in the very last append.
AtomicVisibility ==
    \A t \in Task : fate[t] = "committed" \/ commit_ts[t] \in 1..visible =>
        /\ Versions(t) \subseteq written \/ Versions(t) \cap written = {}
        /\ fate[t] = "committed" => Versions(t) \subseteq written
        /\ Versions(t) \cap written # {} => fate[t] \in {"committed", "failed"}

\* A commit that waits for the lock is decided, whoever else commits or
\* flushes meanwhile: every path out of commit and freeze gives the lock back.
CommitDecided ==
    \A t \in Task : pc[t] = "waiting" ~> fate[t] # "none"

\* The implementation of SnapshotIsolation: publishing is the commit.
Status(t) ==
    IF fate[t] = "none"
    THEN IF t \in Tx /\ pc[t] # "idle" THEN "running" ELSE "idle"
    ELSE IF fate[t] \in {"failed", "dropped"} THEN "abandoned" ELSE fate[t]

SI == INSTANCE SnapshotIsolation WITH
        clock   <- visible,
        commits <- {[task |-> t, ts |-> commit_ts[t], keys |-> buffer[t]] :
                      t \in Committed},
        snap    <- read_ts,
        status  <- [t \in Task |-> Status(t)]

\* Every step of the Oracle is a step of snapshot isolation or invisible to
\* its users: begin takes the latest published timestamp, the publish is the
\* atomic commit, and a conflict is reported only for a reason.
ImplementsSnapshotIsolation == SI!Spec

=============================================================================
