-------------------------------- MODULE Engine --------------------------------
(***************************************************************************)
(* The database: the Oracle on top of the Storage, and what a transaction  *)
(* or snapshot reads.                                                      *)
(*                                                                         *)
(* Every action below is an action of Oracle, one of Storage, or one of    *)
(* each where a call of the first is the second: CommitStart is the start  *)
(* of set_batch, Insert a put into the memtable, and so on.  New here is   *)
(* the State a handle pins: it is captured in a step of its own, after     *)
(* read_ts was taken, because taking it awaits a lock.                     *)
(*                                                                         *)
(* A DB::get is a handle that reads once (it is not counted in `active',   *)
(* which matters to conflict checks only).                                 *)
(***************************************************************************)
EXTENDS Naturals, Sequences, FiniteSets

CONSTANTS Key, Tx, Plain, Freezer, Nobody, InitSeq,     \* as in Oracle
          Loop, Capacity, MaxFrozen, MaxSeq, MaxWal,    \* as in Storage
          Faults, CanClose, CanDrop,
          NoState                                       \* nothing is pinned

VARIABLES next_seq, visible, recent, active, commit_lock, pc, read_ts, buffer,
          commit_ts, written, fate,                     \* of Oracle
          mem_table, frozen, tables, entries, wal_files, log, wal_id, ss_files,
          state_lock, flush_lock, batching, flush_notify, shutdown,
          shutdown_notify, at, batch, new_id, victim, closing, clock,
                                                        \* of Storage
          pinned        \* [Tx -> the State it captured, or NoState]

Task == Tx \cup Plain

O == INSTANCE Oracle WITH IoFaults <- Faults \cap {"append", "new_wal"} # {}

S == INSTANCE Storage WITH Writer <- Task, Flusher <- Freezer

oracleVars  == <<next_seq, visible, recent, active, commit_lock, pc, read_ts,
                 buffer, commit_ts, written, fate>>

storageVars == <<mem_table, frozen, tables, entries, wal_files, log, wal_id,
                 ss_files, state_lock, flush_lock, batching, flush_notify, shutdown,
                 shutdown_notify, at, batch, new_id, victim, closing, clock>>

vars == <<oracleVars, storageVars, pinned>>

ASSUME EngineAssumption == O!OracleAssumption /\ S!StorageAssumption

Init ==
    /\ O!Init
    /\ S!Init
    /\ pinned = [t \in Tx |-> NoState]

-----------------------------------------------------------------------------
(* Handles.                                                                *)

\* Oracle::begin: read_ts is taken.
Begin(t) == O!Begin(t) /\ UNCHANGED <<storageVars, pinned>>

\* Broken: only the active memtable is pinned.
CaptureActive(t) ==
    /\ pc[t] = "open"
    /\ pinned[t] = NoState
    /\ pinned' = [pinned EXCEPT ![t] =
                    [mem |-> mem_table, frozen |-> <<>>, since |-> visible]]
    /\ UNCHANGED <<oracleVars, storageVars>>

\* Storage::snapshot: the current State is cloned.  The memtables stay
\* readable as long as the handle lives; the tables are shared, and since is
\* what was visible at that time.
Capture(t) ==
    /\ pc[t] = "open"
    /\ pinned[t] = NoState
    /\ pinned' = [pinned EXCEPT ![t] =
                    [mem |-> mem_table, frozen |-> frozen, since |-> visible]]
    /\ UNCHANGED <<oracleVars, storageVars>>

\* Transaction::new has returned: the caller has the object.
HasHandle(t) == pinned[t] # NoState

Use(t) ==
    /\ HasHandle(t)
    /\ \/ \E k \in Key : O!Buffer(t, k)
       \/ O!CommitEmpty(t) \/ O!CommitCall(t) \/ O!CommitConflict(t)
    /\ UNCHANGED <<storageVars, pinned>>

\* The object is dropped and lets go of its State.
Close(t) ==
    /\ HasHandle(t)
    /\ O!Drop(t) \/ O!End(t)
    /\ pinned' = [pinned EXCEPT ![t] = NoState]
    /\ UNCHANGED storageVars

-----------------------------------------------------------------------------
(* Oracle::commit and the storage calls in it.                             *)

CallSet(p, k) == O!Set(p, k) /\ UNCHANGED <<storageVars, pinned>>

CommitStart(t) ==
    /\ clock < MaxSeq
    /\ O!CommitStart(t) /\ S!Start(t, buffer[t])
    /\ UNCHANGED pinned

Insert(t, k) ==
    O!Insert(t, k) /\ S!Put(t, <<k, commit_ts[t]>>) /\ UNCHANGED pinned

SetBatchDone(t) == O!SetBatchDone(t) /\ S!TxCommit(t) /\ UNCHANGED pinned

\* Broken: the error of set_batch is dropped and the batch published.
SetBatchFailsUnnoticed(t) ==
    /\ pc[t] = "writing"
    /\ S!AppendFails(t)
    /\ pc' = [pc EXCEPT ![t] = "written"]
    /\ UNCHANGED <<next_seq, visible, recent, active, commit_lock, read_ts,
                   buffer, commit_ts, written, fate, pinned>>

SetBatchFails(t) == O!SetBatchFails(t) /\ S!AppendFails(t) /\ UNCHANGED pinned

Publish(t) == (O!Publish(t) \/ O!Prune(t)) /\ UNCHANGED <<storageVars, pinned>>

FreezeIfFull(t) ==
    /\ pc[t] = "freezing"
    /\ S!FreezeIfFull(t)
    /\ UNCHANGED <<oracleVars, pinned>>

\* Broken: the commit lock is dropped before the freeze.
UnlockEarly(t) == O!Unlock(t) /\ UNCHANGED <<storageVars, pinned>>

\* freeze_if_full has returned; the commit lock is dropped before the wait.
Unlock(t) ==
    /\ at[t] = "throttle"
    /\ O!Unlock(t)
    /\ UNCHANGED <<storageVars, pinned>>

Throttle(t) ==
    /\ pc[t] = "throttled"
    /\ \/ S!Proceed(t) /\ O!Return(t)
       \/ S!Poke(t) /\ UNCHANGED oracleVars
    /\ UNCHANGED pinned

EndSet(p) == O!End(p) /\ UNCHANGED <<storageVars, pinned>>

-----------------------------------------------------------------------------
(* Freezing, flushing, closing.                                            *)

\* DB::flush takes the commit lock for the freeze only.
CallFlush(f) == O!FreezeLock(f) /\ S!CallFlush(f) /\ UNCHANGED pinned

FreezeDone(f) ==
    /\ at[f] = "drain"
    /\ O!FreezeUnlock(f)
    /\ UNCHANGED <<storageVars, pinned>>

Freeze(p) ==
    /\ S!FreezeLock(p) \/ S!NotDue(p) \/ S!NewWal(p) \/ S!Swap(p)
    /\ UNCHANGED <<oracleVars, pinned>>

FreezeFails(p) ==
    /\ S!NewWalFails(p)
    /\ IF p \in Task THEN O!FreezeFails(p) ELSE O!FreezeUnlock(p)
    /\ UNCHANGED pinned

\* flush_frozen begins when Oracle::freeze has given the commit lock back.
Flush(p) ==
    /\ p \in Freezer => pc[p] = "idle"
    /\ S!FlushOldest(p)
    /\ UNCHANGED <<oracleVars, pinned>>

Background ==
    /\ \/ S!LoopFlag \/ S!LoopWake \/ S!DropHandle
       \/ \E f \in Freezer : S!Shutdown(f) \/ S!Join(f)
    /\ UNCHANGED <<oracleVars, pinned>>

-----------------------------------------------------------------------------

Next ==
    \/ \E t \in Tx : Begin(t) \/ Capture(t) \/ Use(t) \/ Close(t)
    \/ \E p \in Plain : EndSet(p) \/ \E k \in Key : CallSet(p, k)
    \/ \E t \in Task :
         \/ CommitStart(t) \/ SetBatchDone(t) \/ SetBatchFails(t) \/ Publish(t)
         \/ FreezeIfFull(t) \/ Unlock(t) \/ Throttle(t)
         \/ \E k \in Key : Insert(t, k)
    \/ \E f \in Freezer : CallFlush(f) \/ FreezeDone(f)
    \/ \E p \in S!Proc : Freeze(p) \/ FreezeFails(p) \/ Flush(p)
    \/ Background

Spec == Init /\ [][Next]_vars

-----------------------------------------------------------------------------
(* What the code's scheduling justifies, as in Oracle and Storage: what has *)
(* begun goes on, locks are served in FIFO order, and the loop writes a     *)
(* table at last.  Nobody has to call anything, and nothing has to fail.    *)

Turn(p) ==
    \/ p \in Tx /\ O!CommitConflict(p) /\ UNCHANGED <<storageVars, pinned>>
    \/ p \in Task /\ \/ CommitStart(p) \/ SetBatchDone(p) \/ Publish(p)
                     \/ FreezeIfFull(p) \/ Unlock(p) \/ Throttle(p)
                     \/ \E k \in Key : Insert(p, k)
    \/ p \in Freezer /\ FreezeDone(p)
    \/ Freeze(p) \/ Flush(p)
    \/ p = Loop /\ (S!LoopFlag \/ S!LoopWake) /\ UNCHANGED <<oracleVars, pinned>>

Fairness ==
    /\ \A p \in S!Proc : SF_vars(Turn(p))
    /\ SF_vars(S!L0(Loop) /\ UNCHANGED <<oracleVars, pinned>>)

FairSpec == Spec /\ Fairness

-----------------------------------------------------------------------------
(* Reading.                                                                *)

Upto(versions, ts) == {v \in versions : v[2] <= ts}

\* Broken: a read goes to the State of the day.
ViewUnpinned(t, k) ==
    LET held   == <<mem_table>> \o frozen
        places == [i \in DOMAIN held |-> entries[held[i]]] \o tables
    IN  S!Search([i \in DOMAIN places |-> Upto(places[i], read_ts[t])], k)

\* State::get_snap of the pinned State: its memtables, newest first, then the
\* tables of the day, each asked for the newest version up to read_ts.
View(t, k) ==
    LET held   == <<pinned[t].mem>> \o pinned[t].frozen
        places == [i \in DOMAIN held |-> entries[held[i]]] \o tables
    IN  S!Search([i \in DOMAIN places |-> Upto(places[i], read_ts[t])], k)

\* What snapshot isolation says t reads: the last commit of k it may see.
Expected(t, k) == {<<k, c.ts>> : c \in O!SI!ReadAt(k, read_ts[t])}

-----------------------------------------------------------------------------
(* Properties.  The operators marked "Broken" above are faults of the kind *)
(* the properties are there to catch; no action uses them.                 *)

\* The two components agree on what they share, and a task is where both
\* think it is: the memtables hold what was written, sequence numbers are
\* drawn together, and a task appends, freezes or waits in both at once.
TypeOK ==
    /\ written = UNION {entries[i] : i \in DOMAIN entries}
    /\ clock = next_seq - 1
    /\ \A t \in Task :
         /\ pc[t] = "writing" <=> at[t] = "put"
         /\ pc[t] \in {"idle", "open", "waiting", "closing", "done"} <=> at[t] = "idle"
         /\ pc[t] = "throttled" => at[t] = "throttle"
    /\ \A t \in Tx : HasHandle(t) => t \in O!Live

\* A snapshot sees, for every key and for as long as it lives, exactly the
\* last version committed at or before its read_ts: it is then in the
\* captured memtables or on disk.
SnapshotExact ==
    \A t \in Tx : HasHandle(t) => \A k \in Key : View(t, k) = Expected(t, k)

\* The same for snapshots that captured their State before anybody else
\* published: nothing that is frozen, flushed or retired later takes away a
\* version they need.
UnracedSnapshotExact ==
    \A t \in Tx : HasHandle(t) /\ pinned[t].since = read_ts[t] =>
        \A k \in Key : View(t, k) = Expected(t, k)

\* Two reads of a key through one handle give the same version, whatever is
\* committed, frozen, flushed or retired in between, also for a handle that
\* lost a race.
RepeatableRead ==
    [][\A t \in Tx : HasHandle(t) /\ HasHandle(t)' =>
         \A k \in Key : View(t, k)' = View(t, k)]_vars

\* A published write survives a crash: what a restart would find for its keys
\* is as new as the write.
PublishedIsDurable ==
    \A t \in O!Committed, k \in Key : k \in buffer[t] =>
        \E v \in S!Recovered(k) : v[2] >= commit_ts[t]

\* A commit that was called returns, whatever freezes, flushes and fails beside
\* it: the commit lock, the state lock, the guard of set_batch and the flush lock
\* never wait for each other in a circle, and no error path keeps one of them.
\* (When the flush loop was told to stop, a commit that is published and has
\* given back its locks may wait for capacity for ever.)
CommitReturns ==
    \A t \in Task :
        pc[t] = "waiting" ~> \/ pc[t] \in {"closing", "done"}
                             \/ shutdown /\ pc[t] = "throttled"

=============================================================================
