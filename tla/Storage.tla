------------------------------- MODULE Storage -------------------------------
(***************************************************************************)
(* The storage crate: the memtables, their logs and the level-0 tables,    *)
(* and the tasks that move data between them.                              *)
(*                                                                         *)
(* Writers run what Oracle::commit asks of the storage: set_batch,         *)
(* freeze_if_full and await_flush_capacity.  Flushers are callers of       *)
(* DB::flush and DB::close.  Loop is the background flush_loop.            *)
(*                                                                         *)
(* A version is a pair <<key, seq>>: values never matter here.  A memtable *)
(* and its log have the same id.  RwLock guards that are not held across   *)
(* an await make one step; the only one that is held longer is the read    *)
(* guard of set_batch (batching).                                          *)
(***************************************************************************)
EXTENDS Naturals, Sequences, FiniteSets, Lists

CONSTANTS Key,          \* user keys
          Writer,       \* tasks in Oracle::commit
          Flusher,      \* callers of DB::flush and DB::close
          Loop,         \* the flush_loop task
          Nobody,       \* a mutex is free
          InitSeq,      \* sequence numbers start above this
          Capacity,     \* versions at which a memtable is full
          MaxFrozen,    \* MAX_FROZEN
          MaxSeq,       \* bound: no batch is numbered higher
          MaxWal,       \* bound: no log is numbered higher by a failed open
          Faults,       \* what may fail: "append", "new_wal", "l0", "remove"
          CanClose,     \* may DB::close be called?
          CanDrop       \* may one of several handles be dropped?

Proc == Writer \cup Flusher \cup {Loop}

ASSUME StorageAssumption ==
    /\ InitSeq \in Nat /\ MaxSeq \in Nat /\ MaxWal \in Nat
    /\ Capacity \in Nat \ {0}
    /\ MaxFrozen \in Nat
    /\ Faults \subseteq {"append", "new_wal", "l0", "remove"}
    /\ CanClose \in BOOLEAN /\ CanDrop \in BOOLEAN
    /\ Writer \cap Flusher = {}
    /\ Loop \notin Writer \cup Flusher
    /\ Nobody \notin Proc

VARIABLES
    \* the State behind Storage.state, and what it points to
    mem_table,      \* id of the active memtable and of its log
    frozen,         \* ids of the frozen memtables, newest first
    tables,         \* level 0, newest first: the versions in each table
    entries,        \* id |-> versions in that memtable
    \* on disk
    wal_files,      \* ids of the log files that exist
    log,            \* id |-> versions whose TxCommit is in that log
    wal_id,         \* Wal.id: the next log id
    ss_files,       \* the versions in each table file with a name, newest first
    \* locks, notifications, the shutdown flag
    state_lock, flush_lock,
    batching,       \* who holds the read guard of set_batch
    flush_notify,   \* a permit, or a wakeup for the waiting loop
    shutdown, shutdown_notify,
    \* tasks
    at,             \* where each task is
    batch,          \* [Writer -> the versions it was asked to write]
    new_id,         \* [Proc -> log made by force_freeze, until the swap]
    victim,         \* [Proc -> memtable that flush_oldest works on]
    closing,        \* flushers that are in DB::close
    clock           \* number of the last batch

stateVars  == <<mem_table, frozen, tables, entries>>
diskVars   == <<wal_files, log, wal_id, ss_files>>
lockVars   == <<state_lock, flush_lock, batching>>
notifyVars == <<flush_notify, shutdown, shutdown_notify>>
taskVars   == <<batch, new_id, victim, closing, clock>>

vars == <<stateVars, diskVars, lockVars, notifyVars, taskVars, at>>

\* Broken: the newest frozen memtable is flushed first.
NewestFrozen == frozen[1]

\* state.frozen.last(): the list is searched newest first.
Oldest == frozen[Len(frozen)]

Goto(p, place) == at' = [at EXCEPT ![p] = place]

Init ==
    /\ mem_table = 1
    /\ frozen = <<>>
    /\ tables = <<>>
    /\ entries = [i \in {1} |-> {}]
    /\ wal_files = {1}
    /\ log = [i \in {1} |-> {}]
    /\ wal_id = 2
    /\ ss_files = <<>>
    /\ state_lock = Nobody
    /\ flush_lock = Nobody
    /\ batching = {}
    /\ flush_notify = TRUE
    /\ shutdown = FALSE
    /\ shutdown_notify = FALSE
    /\ at = [p \in Proc |-> IF p = Loop THEN "drain" ELSE "idle"]
    /\ batch = [w \in Writer |-> {}]
    /\ new_id = [p \in Proc |-> 0]
    /\ victim = [p \in Proc |-> 0]
    /\ closing = {}
    /\ clock = InitSeq

-----------------------------------------------------------------------------
(* Storage::set_batch.  The callers' commit lock admits one of them at a   *)
(* time to the steps from here to the end of a freeze.                     *)

Exclusive == {"put", "batched", "freeze", "check", "swap"}

NoneExclusive == \A p \in Proc : at[p] \notin Exclusive

\* Take the read guard, append TxBegin and the batch.
Start(w, keys) ==
    /\ at[w] = "idle"
    /\ NoneExclusive
    /\ clock' = clock + 1
    /\ batch' = [batch EXCEPT ![w] = keys \X {clock'}]
    /\ batching' = batching \cup {w}
    /\ Goto(w, "put")
    /\ UNCHANGED <<stateVars, diskVars, state_lock, flush_lock, notifyVars,
                   new_id, victim, closing>>

\* mem_table.put(k, v), entry by entry.
Put(w, v) ==
    /\ at[w] = "put"
    /\ v \in batch[w] \ entries[mem_table]
    /\ entries' = [entries EXCEPT ![mem_table] = @ \cup {v}]
    /\ UNCHANGED <<mem_table, frozen, tables, diskVars, lockVars, notifyVars,
                   taskVars, at>>

\* Broken: the read guard lives on while the memtable is frozen.
TxCommitKeepsGuard(w) ==
    /\ at[w] = "put"
    /\ batch[w] \subseteq entries[mem_table]
    /\ log' = [log EXCEPT ![mem_table] = @ \cup batch[w]]
    /\ Goto(w, "batched")
    /\ UNCHANGED <<stateVars, wal_files, wal_id, ss_files, lockVars, notifyVars,
                   taskVars>>

\* Append TxCommit: from here on the batch survives a crash.
TxCommit(w) ==
    /\ at[w] = "put"
    /\ batch[w] \subseteq entries[mem_table]
    /\ log' = [log EXCEPT ![mem_table] = @ \cup batch[w]]
    /\ batching' = batching \ {w}
    /\ Goto(w, "batched")
    /\ UNCHANGED <<stateVars, wal_files, wal_id, ss_files, state_lock, flush_lock,
                   notifyVars, taskVars>>

\* An append fails, before the first put or after the last.  A TxCommit that
\* failed may be in the log all the same: it was written and not synced.
AppendFails(w) ==
    /\ "append" \in Faults
    /\ at[w] = "put"
    /\ \/ batch[w] \cap entries[mem_table] = {} /\ UNCHANGED log
       \/ /\ batch[w] \subseteq entries[mem_table]
          /\ \/ UNCHANGED log
             \/ log' = [log EXCEPT ![mem_table] = @ \cup batch[w]]
    /\ batching' = batching \ {w}
    /\ Goto(w, "idle")
    /\ UNCHANGED <<stateVars, wal_files, wal_id, ss_files, state_lock, flush_lock,
                   notifyVars, taskVars>>

-----------------------------------------------------------------------------
(* freeze_if_full, freeze_active, force_freeze.                            *)

Full == Cardinality(entries[mem_table]) >= Capacity

\* The first look of freeze_if_full, without the state lock.
FreezeIfFull(w) ==
    /\ at[w] = "batched"
    /\ Goto(w, IF Full THEN "freeze" ELSE "throttle")
    /\ UNCHANGED <<stateVars, diskVars, lockVars, notifyVars, taskVars>>

\* DB::flush, and DB::close which begins with it.
CallFlush(f) ==
    /\ at[f] = "idle"
    /\ NoneExclusive
    /\ Goto(f, "freeze")
    /\ \/ UNCHANGED closing
       \/ CanClose /\ closing' = closing \cup {f}
    /\ UNCHANGED <<stateVars, diskVars, lockVars, notifyVars, batch, new_id,
                   victim, clock>>

\* Where a task goes when its freeze is over: a writer to the backpressure,
\* a flusher to flush_frozen.
AfterFreeze(p) == IF p \in Writer THEN "throttle" ELSE "drain"

\* Broken: flush_loop ends at its first error.
AfterFlushGivesUp(p) ==
    IF p = Loop THEN "exited" ELSE IF p \in closing THEN "shutdown" ELSE "idle"

\* Where a flusher goes when its flush returns, with or without an error.
AfterFlush(p) ==
    IF p = Loop THEN "failed" ELSE IF p \in closing THEN "shutdown" ELSE "idle"

FreezeLock(p) ==
    /\ at[p] = "freeze"
    /\ state_lock = Nobody
    /\ state_lock' = p
    /\ Goto(p, "check")
    /\ UNCHANGED <<stateVars, diskVars, flush_lock, batching, notifyVars, taskVars>>

\* The second look: full for a writer, anything at all for a flusher.
StillDue(p) == IF p \in Writer THEN Full ELSE entries[mem_table] # {}

NotDue(p) ==
    /\ at[p] = "check"
    /\ ~StillDue(p)
    /\ state_lock' = Nobody
    /\ Goto(p, AfterFreeze(p))
    /\ UNCHANGED <<stateVars, diskVars, flush_lock, batching, notifyVars, taskVars>>

\* new_writer creates the log of the memtable to come.
NewWal(p) ==
    /\ at[p] = "check"
    /\ StillDue(p)
    /\ wal_id' = wal_id + 1
    /\ wal_files' = wal_files \cup {wal_id}
    /\ log' = [i \in DOMAIN log \cup {wal_id} |->
                 IF i = wal_id THEN {} ELSE log[i]]
    /\ new_id' = [new_id EXCEPT ![p] = wal_id]
    /\ Goto(p, "swap")
    /\ UNCHANGED <<stateVars, ss_files, lockVars, notifyVars, batch, victim,
                   closing, clock>>

\* The number is drawn but the file cannot be opened; the error goes up.
NewWalFails(p) ==
    /\ "new_wal" \in Faults
    /\ at[p] = "check"
    /\ StillDue(p)
    /\ wal_id < MaxWal
    /\ wal_id' = wal_id + 1
    /\ state_lock' = Nobody
    /\ Goto(p, IF p \in Writer THEN "idle" ELSE AfterFlush(p))
    /\ UNCHANGED <<stateVars, wal_files, log, ss_files, flush_lock, batching,
                   notifyVars, taskVars>>

\* Broken: the frozen memtable goes to the far end of the list.
SwapAppends(p) ==
    /\ at[p] = "swap"
    /\ batching = {}
    /\ mem_table' = new_id[p]
    /\ frozen' = Append(frozen, mem_table)
    /\ entries' = [i \in DOMAIN entries \cup {new_id[p]} |->
                     IF i = new_id[p] THEN {} ELSE entries[i]]
    /\ new_id' = [new_id EXCEPT ![p] = 0]
    /\ flush_notify' = TRUE
    /\ state_lock' = Nobody
    /\ Goto(p, AfterFreeze(p))
    /\ UNCHANGED <<tables, diskVars, flush_lock, batching, shutdown,
                   shutdown_notify, batch, victim, closing, clock>>

\* Broken: the memtable takes the number that the counter shows by now.
SwapNextId(p) ==
    /\ at[p] = "swap"
    /\ batching = {}
    /\ mem_table' = wal_id
    /\ frozen' = <<mem_table>> \o frozen
    /\ entries' = [i \in DOMAIN entries \cup {new_id[p]} |->
                     IF i = new_id[p] THEN {} ELSE entries[i]]
    /\ new_id' = [new_id EXCEPT ![p] = 0]
    /\ flush_notify' = TRUE
    /\ state_lock' = Nobody
    /\ Goto(p, AfterFreeze(p))
    /\ UNCHANGED <<tables, diskVars, flush_lock, batching, shutdown,
                   shutdown_notify, batch, victim, closing, clock>>

\* Under the write guard: a new memtable and log, the old one frozen.  Then
\* notify_one; the state lock goes last.
Swap(p) ==
    /\ at[p] = "swap"
    /\ batching = {}
    /\ mem_table' = new_id[p]
    /\ frozen' = <<mem_table>> \o frozen
    /\ entries' = [i \in DOMAIN entries \cup {new_id[p]} |->
                     IF i = new_id[p] THEN {} ELSE entries[i]]
    /\ new_id' = [new_id EXCEPT ![p] = 0]
    /\ flush_notify' = TRUE
    /\ state_lock' = Nobody
    /\ Goto(p, AfterFreeze(p))
    /\ UNCHANGED <<tables, diskVars, flush_lock, batching, shutdown,
                   shutdown_notify, batch, victim, closing, clock>>

-----------------------------------------------------------------------------
(* flush_oldest, called by flush_frozen and by flush_loop.                 *)

\* The newest version of a key in S, as a set.
Newest(S, k) ==
    {v \in S : v[1] = k /\ \A u \in S : u[1] = k => u[2] <= v[2]}

FlushPick(p) ==
    /\ at[p] = "drain"
    /\ flush_lock = Nobody
    /\ frozen # <<>>
    /\ flush_lock' = p
    /\ victim' = [victim EXCEPT ![p] = Oldest]
    /\ Goto(p, "l0")
    /\ UNCHANGED <<stateVars, diskVars, state_lock, batching, notifyVars, batch,
                   new_id, closing, clock>>

\* Nothing is frozen: flush_frozen returns, flush_loop looks at the flag.
FlushNothing(p) ==
    /\ at[p] = "drain"
    /\ flush_lock = Nobody
    /\ frozen = <<>>
    /\ Goto(p, IF p = Loop THEN "flag" ELSE AfterFlush(p))
    /\ UNCHANGED <<stateVars, diskVars, lockVars, notifyVars, taskVars>>

\* What DiskStorage::l0 writes of a memtable: the newest version of each key.
Compacted(i) == UNION {Newest(entries[i], k) : k \in Key}

\* The table files when one more was given its name.  Equal files side by side
\* count as one: a search that does not stop at the first does not at the next.
Named(table) ==
    IF ss_files # <<>> /\ ss_files[1] = table THEN ss_files
    ELSE <<table>> \o ss_files

\* Broken: of the versions of a key the last one in the memtable's order, the
\* oldest, is kept.
L0KeepsOldest(p) ==
    LET all == entries[victim[p]]
        table == {v \in all : \A u \in all : u[1] = v[1] => u[2] >= v[2]}
    IN
    /\ at[p] = "l0"
    /\ IF table = {} THEN UNCHANGED <<tables, ss_files>>
       ELSE tables' = <<table>> \o tables /\ ss_files' = Named(table)
    /\ Goto(p, "retire")
    /\ UNCHANGED <<mem_table, frozen, entries, wal_files, log, wal_id, lockVars,
                   notifyVars, taskVars>>

\* DiskStorage::l0 names the file and puts the table in front, and makes none
\* of an empty memtable.
L0(p) ==
    LET table == Compacted(victim[p]) IN
    /\ at[p] = "l0"
    /\ IF table = {} THEN UNCHANGED <<tables, ss_files>>
       ELSE tables' = <<table>> \o tables /\ ss_files' = Named(table)
    /\ Goto(p, "retire")
    /\ UNCHANGED <<mem_table, frozen, entries, wal_files, log, wal_id, lockVars,
                   notifyVars, taskVars>>

\* Broken: the error of l0 is dropped and the memtable retired.
L0FailsUnnoticed(p) ==
    /\ "l0" \in Faults
    /\ at[p] = "l0"
    /\ Goto(p, "retire")
    /\ UNCHANGED <<stateVars, diskVars, lockVars, notifyVars, taskVars>>

\* The temporary file is removed, but not one that has its name already: then
\* the table is on disk and nobody lists it.  The memtable stays where it is.
L0Fails(p) ==
    LET table == Compacted(victim[p]) IN
    /\ "l0" \in Faults
    /\ at[p] = "l0"
    /\ \/ UNCHANGED ss_files
       \/ table # {} /\ ss_files' = Named(table)
    /\ flush_lock' = Nobody
    /\ Goto(p, AfterFlush(p))
    /\ UNCHANGED <<stateVars, wal_files, log, wal_id, state_lock, batching,
                   notifyVars, taskVars>>

RetireLock(p) ==
    /\ at[p] = "retire"
    /\ state_lock = Nobody
    /\ state_lock' = p
    /\ Goto(p, "retain")
    /\ UNCHANGED <<stateVars, diskVars, flush_lock, batching, notifyVars, taskVars>>

\* Under the write guard.
Retire(p) ==
    /\ at[p] = "retain"
    /\ batching = {}
    /\ frozen' = Without(frozen, victim[p])
    /\ state_lock' = Nobody
    /\ Goto(p, "remove")
    /\ UNCHANGED <<mem_table, tables, entries, diskVars, flush_lock, batching,
                   notifyVars, taskVars>>

\* The log goes, the waiters on flush_notify are woken (no permit is left
\* behind), and the caller goes on to the next memtable.
RemoveWal(p) ==
    /\ at[p] = "remove"
    /\ wal_files' = wal_files \ {victim[p]}
    /\ flush_notify' = (flush_notify \/ at[Loop] = "wait")
    /\ flush_lock' = Nobody
    /\ Goto(p, "drain")
    /\ UNCHANGED <<stateVars, log, wal_id, ss_files, state_lock, batching, shutdown,
                   shutdown_notify, taskVars>>

\* The memtable is gone, so nobody tries again.
RemoveWalFails(p) ==
    /\ "remove" \in Faults
    /\ at[p] = "remove"
    /\ flush_lock' = Nobody
    /\ Goto(p, AfterFlush(p))
    /\ UNCHANGED <<stateVars, diskVars, state_lock, batching, notifyVars, taskVars>>

-----------------------------------------------------------------------------
(* await_flush_capacity: look, notify_one, look again at the latest 50 ms  *)
(* later (nobody ever notifies flushed_notify).                            *)

\* Broken: one wait is enough, whatever the number of frozen memtables.
ProceedAnyway(w) ==
    /\ at[w] = "throttle"
    /\ Goto(w, "idle")
    /\ UNCHANGED <<stateVars, diskVars, lockVars, notifyVars, taskVars>>

Proceed(w) ==
    /\ at[w] = "throttle"
    /\ Len(frozen) <= MaxFrozen
    /\ Goto(w, "idle")
    /\ UNCHANGED <<stateVars, diskVars, lockVars, notifyVars, taskVars>>

Poke(w) ==
    /\ at[w] = "throttle"
    /\ Len(frozen) > MaxFrozen
    /\ flush_notify' = TRUE
    /\ UNCHANGED <<stateVars, diskVars, lockVars, shutdown, shutdown_notify,
                   taskVars, at>>

-----------------------------------------------------------------------------
(* flush_loop around flush_oldest, and shutdown.                           *)

\* Broken: after an error the loop waits for the next notification.
LoopFlagNoRetry ==
    /\ at[Loop] \in {"flag", "failed"}
    /\ Goto(Loop, IF shutdown THEN "exited" ELSE "wait")
    /\ UNCHANGED <<stateVars, diskVars, lockVars, notifyVars, taskVars>>

\* After "nothing to flush" and after an error the loop leaves if it is told
\* to; else it waits for a notification, or sleeps and tries again.
LoopFlag ==
    /\ at[Loop] \in {"flag", "failed"}
    /\ Goto(Loop, IF shutdown THEN "exited"
                  ELSE IF at[Loop] = "flag" THEN "wait" ELSE "drain")
    /\ UNCHANGED <<stateVars, diskVars, lockVars, notifyVars, taskVars>>

\* select! takes one of the notifications.
LoopWake ==
    /\ at[Loop] = "wait"
    /\ \/ flush_notify /\ flush_notify' = FALSE /\ UNCHANGED shutdown_notify
       \/ shutdown_notify /\ shutdown_notify' = FALSE /\ UNCHANGED flush_notify
    /\ Goto(Loop, "drain")
    /\ UNCHANGED <<stateVars, diskVars, lockVars, shutdown, taskVars>>

\* Broken: the flag is set and nobody is told.
BeginShutdownSilently == shutdown' = TRUE /\ UNCHANGED shutdown_notify

BeginShutdown == shutdown' = TRUE /\ shutdown_notify' = TRUE

\* The rest of DB::close: tell the loop, wait for it to end.
Shutdown(f) ==
    /\ at[f] = "shutdown"
    /\ BeginShutdown
    /\ Goto(f, "join")
    /\ UNCHANGED <<stateVars, diskVars, lockVars, flush_notify, taskVars>>

Join(f) ==
    /\ at[f] = "join"
    /\ at[Loop] = "exited"
    /\ closing' = closing \ {f}
    /\ Goto(f, "idle")
    /\ UNCHANGED <<stateVars, diskVars, lockVars, notifyVars, batch, new_id,
                   victim, clock>>

\* Drop for DB: any clone of the handle, with other clones or transactions
\* still in use.
DropHandle ==
    /\ CanDrop
    /\ BeginShutdown
    /\ UNCHANGED <<stateVars, diskVars, lockVars, flush_notify, taskVars, at>>

-----------------------------------------------------------------------------

Freeze(p) ==
    FreezeLock(p) \/ NotDue(p) \/ NewWal(p) \/ NewWalFails(p) \/ Swap(p)

FlushOldest(p) ==
    \/ FlushPick(p) \/ FlushNothing(p) \/ L0(p) \/ L0Fails(p)
    \/ RetireLock(p) \/ Retire(p) \/ RemoveWal(p) \/ RemoveWalFails(p)

Next ==
    \/ \E w \in Writer :
         \/ clock < MaxSeq /\ \E keys \in (SUBSET Key) \ {{}} : Start(w, keys)
         \/ \E v \in batch[w] : Put(w, v)
         \/ TxCommit(w) \/ AppendFails(w) \/ FreezeIfFull(w)
         \/ Proceed(w) \/ Poke(w)
    \/ \E f \in Flusher : CallFlush(f) \/ Shutdown(f) \/ Join(f)
    \/ \E p \in Proc : Freeze(p) \/ FlushOldest(p)
    \/ LoopFlag \/ LoopWake
    \/ DropHandle

Spec == Init /\ [][Next]_vars

-----------------------------------------------------------------------------
(* What the code's scheduling justifies.  tokio polls every ready task and *)
(* serves the waiters of a Mutex or RwLock in FIFO order, so a task whose  *)
(* next step is possible again and again takes it (strong fairness for     *)
(* what waits for a lock).  A table that could not be written for a        *)
(* passing reason is written at last when flush_loop tries again and       *)
(* again.  Nobody has to call anything, and nothing has to fail.           *)

Turn(p) ==
    \/ p \in Writer /\ \/ \E v \in batch[p] : Put(p, v)
                       \/ TxCommit(p) \/ FreezeIfFull(p)
                       \/ Proceed(p) \/ Poke(p)
    \/ p \in Flusher /\ (Shutdown(p) \/ Join(p))
    \/ FreezeLock(p) \/ NotDue(p) \/ NewWal(p) \/ Swap(p)
    \/ FlushPick(p) \/ FlushNothing(p) \/ L0(p)
    \/ RetireLock(p) \/ Retire(p) \/ RemoveWal(p)
    \/ p = Loop /\ (LoopFlag \/ LoopWake)

Fairness == (\A p \in Proc : SF_vars(Turn(p))) /\ SF_vars(L0(Loop))

FairSpec == Spec /\ Fairness

-----------------------------------------------------------------------------
(* Properties.  The operators marked "Broken" above are faults of the kind *)
(* the properties are there to catch; no action uses them.                 *)

Ids == DOMAIN entries

Version == Key \X Nat

\* Every variable holds a value of its type.
TypeOK ==
    /\ mem_table \in Ids
    /\ frozen \in Seq(Ids)
    /\ tables \in Seq(SUBSET Version)
    /\ Ids \subseteq Nat /\ entries \in [Ids -> SUBSET Version]
    /\ wal_files \subseteq DOMAIN log
    /\ DOMAIN log \subseteq Nat /\ log \in [DOMAIN log -> SUBSET Version]
    /\ wal_id \in Nat
    /\ ss_files \in Seq(SUBSET Version)
    /\ state_lock \in Proc \cup {Nobody}
    /\ flush_lock \in Proc \cup {Nobody}
    /\ batching \subseteq Writer
    /\ flush_notify \in BOOLEAN
    /\ shutdown \in BOOLEAN /\ shutdown_notify \in BOOLEAN
    /\ at \in [Proc -> {"idle", "put", "batched", "freeze", "check", "swap",
                        "throttle", "drain", "l0", "retire", "retain", "remove",
                        "flag", "failed", "wait", "exited", "shutdown", "join"}]
    /\ batch \in [Writer -> SUBSET Version]
    /\ new_id \in [Proc -> Nat] /\ victim \in [Proc -> Nat]
    /\ closing \subseteq Flusher
    /\ clock \in Nat

\* What a search of `places', first to last, finds for k: the newest version
\* in the first place that has one.  Empty when none has.
Has(S, k) == \E v \in S : v[1] = k

Search(places, k) ==
    LET hits == {i \in DOMAIN places : Has(places[i], k)}
    IN  UNION {Newest(places[i], k) : i \in {j \in hits : \A h \in hits : j <= h}}

\* The order of State::get_snap.
Places == <<entries[mem_table]>>
            \o [i \in DOMAIN frozen |-> entries[frozen[i]]]
            \o tables

\* Whatever is being frozen, flushed or retired, a read of the latest version
\* finds the latest version ever put: the places are searched newest first,
\* and no version is between two of them.
LookupIsNewest ==
    \A k \in Key : Search(Places, k) = Newest(UNION {entries[i] : i \in Ids}, k)

\* What Wal::restore and DiskStorage::load would find for k if the process
\* ended now: the logs become frozen memtables, newest first, above level 0.
Recovered(k) ==
    LET holds == {i \in wal_files : Has(log[i], k)}
    IN  IF holds = {}
        THEN Search(ss_files, k)
        ELSE UNION {Newest(log[i], k) : i \in {j \in holds : \A h \in holds : j >= h}}

\* A crash at any point loses no committed batch and brings back no older
\* version: what the files hold of a key is at least as new as the newest
\* version whose TxCommit was ever appended.  (Newer it can be by a commit
\* that failed at its TxCommit and was flushed with its memtable.)
CrashSafe ==
    \A i \in DOMAIN log : \A v \in log[i] :
        \E u \in Recovered(v[1]) : u[2] >= v[2]

\* Level 0 is in strictly decreasing age per key, so the first hit is the
\* newest: no memtable is flushed twice and none overtakes an older one.
NewestTableFirst ==
    \A i, j \in DOMAIN tables : i < j =>
        \A u \in tables[i], v \in tables[j] : u[1] = v[1] => u[2] > v[2]

\* Backpressure bounds memory: past the limit every writer gets at most one
\* more memtable frozen before it waits, and a flush call one more.  (A commit
\* that fails does not wait: with "append" or "new_wal" in Faults there is no
\* bound.)
BackpressureBound == Len(frozen) <= MaxFrozen + Cardinality(Writer) + 1

\* A memtable that was frozen is flushed and its log removed, unless somebody
\* shuts down: no notification is lost between a freeze, a waiting loop and a
\* flush by somebody else.
EveryFrozenFlushed ==
    \A i \in 1..(MaxSeq + 1) :
        (\E n \in DOMAIN frozen : frozen[n] = i)
            ~> \/ shutdown
               \/ i \notin wal_files /\ \A n \in DOMAIN frozen : frozen[n] # i

\* A commit held back by backpressure returns (await_flush_capacity waits
\* until the number of frozen memtables is back under the limit).
ThrottledReturns == \A w \in Writer : at[w] = "throttle" ~> at[w] = "idle"

\* It does as long as nobody shuts the flush loop down.
ThrottledReturnsWhileOpen ==
    \A w \in Writer : at[w] = "throttle" ~> at[w] = "idle" \/ shutdown

\* DB::close returns: the loop sees the flag or the notification, whatever it
\* was doing when close was called.
CloseReturns == \A f \in Flusher : f \in closing ~> f \notin closing

=============================================================================
