------------------------------- MODULE Recovery -------------------------------
(***************************************************************************)
(* One database directory and the processes that open it, one after the    *)
(* other: the records of the logs, the table files, what a crash leaves of *)
(* them, and DB::open, which rebuilds the memory and the counters.         *)
(*                                                                         *)
(* The process runs one commit (they hold the commit lock) and one flush   *)
(* (they hold the flush lock) at a time, step by step; the two interleave  *)
(* with each other and with a crash.  Oracle and Storage model the tasks   *)
(* in front of these locks.                                                *)
(*                                                                         *)
(* A version is a pair <<key, seq>>; a deletion is a version like another. *)
(* A crash may cut the record that is being appended; what was appended    *)
(* before is synced, and files do not disappear.                           *)
(***************************************************************************)
EXTENDS Naturals, Sequences, SequencesExt, FiniteSets, Lists

CONSTANTS Key,          \* user keys
          MaxSeq,       \* bound: no commit is numbered higher
          MaxWal,       \* bound: no freeze makes a log numbered higher
          MaxCrashes,   \* bound: crashes
          MaxRefused    \* bound: commits with a value that no record can hold

ASSUME RecoveryAssumption ==
    /\ MaxSeq \in Nat /\ MaxWal \in Nat
    /\ MaxCrashes \in Nat /\ MaxRefused \in Nat

VARIABLES
    \* the directory
    wal_files,      \* id |-> the records of that log
    ss,             \* id |-> the versions in that table
    stray,          \* ids of the temporary files of tables
    \* the process
    phase,          \* "down", "restored", "loaded", "up", "failed", "misled"
    found,          \* largest seq and transaction id DB::open has seen
    mem_table,      \* id of the active memtable and log
    frozen,         \* ids of the frozen memtables, newest first
    entries,        \* id |-> the versions in that memtable
    tables,         \* ids of the tables, in the order of a search
    wal_id,         \* Wal.id: the next log
    table_id,       \* DiskStorage.id: the next table
    next_seq, visible, tx_id,   \* the counters of the Oracle
    unflushed,      \* is part of a refused record in the buffer of the log?
    \* its tasks
    step,           \* where the commit stands
    cur,            \* the commit: its transaction and versions
    freezing,       \* is a new log waiting to be swapped in?
    flushing,       \* where the flush stands
    victim,         \* the memtable it works on
    \* history and bounds
    acked,          \* [Key -> seq of the last acknowledged version]
    crashes, refused

diskVars    == <<wal_files, ss, stray>>
stateVars   == <<mem_table, frozen, entries, tables>>
counterVars == <<wal_id, table_id, next_seq, visible, tx_id>>
taskVars    == <<step, cur, freezing, flushing, victim>>
boundVars   == <<crashes, refused>>

vars == <<diskVars, phase, found, stateVars, counterVars, unflushed, taskVars,
          acked, boundVars>>

-----------------------------------------------------------------------------
(* The records of a log, and what WalReader and restore_tables make of     *)
(* them.                                                                   *)

Record(cmd, tx, ops) == [cmd |-> cmd, tx |-> tx, ops |-> ops]

TxBegin(tx)    == Record("TxBegin", tx, {})
Batch(tx, ops) == Record("Batch", tx, ops)
TxCommit(tx)   == Record("TxCommit", tx, {})

\* A record of which at least one byte is there and at least one is missing.
Torn == Record("torn", 0, {})

\* Is tx in the map of begun transactions when the reader comes to record i?
Begun(log, tx, i) ==
    \E b \in 1..(i - 1) :
        /\ log[b] = TxBegin(tx)
        /\ \A c \in b..(i - 1) : log[c] # TxCommit(tx)

\* What makes next() or restore_tables return an error at record i.
Rejected(log, i) ==
    \/ log[i] = Torn
    \/ log[i].cmd = "TxBegin" /\ Begun(log, log[i].tx, i)
    \/ log[i].cmd = "TxCommit" /\ ~Begun(log, log[i].tx, i)

Readable(log) == \A i \in DOMAIN log : ~Rejected(log, i)

\* What is behind a torn record is read as if it were the rest of it.
Garbled(log) == \E i \in 1..(Len(log) - 1) : log[i] = Torn

\* The versions of the transactions that committed.
Restored(log) ==
    UNION {log[i].ops : i \in {b \in DOMAIN log :
        /\ log[b].cmd = "Batch"
        /\ \E c \in (b + 1)..Len(log) : log[c] = TxCommit(log[b].tx)
        /\ Begun(log, log[b].tx, b)}}

\* Every version of a begun transaction counts here, committed or not.
LargestSeq(log) ==
    Max({0} \cup {v[2] : v \in UNION {log[i].ops : i \in DOMAIN log}})

LargestTx(log) ==
    Max({0} \cup {log[i].tx : i \in {b \in DOMAIN log : log[b].cmd = "TxBegin"}})

\* Ids in decreasing order, the newest first.
Descending(ids) ==
    [n \in 1..Cardinality(ids) |->
        CHOOSE a \in ids : Cardinality({b \in ids : b > a}) = n - 1]

Largest(ids) == Max(ids \cup {0})

-----------------------------------------------------------------------------
(* A search (State::get_snap): the newest version not above seq in the     *)
(* first place that has one; 0 when none has.                              *)

UpTo(versions, k, seq) == {v[2] : v \in {u \in versions : u[1] = k /\ u[2] <= seq}}

Search(places, k, seq) ==
    LET hits == {i \in DOMAIN places : UpTo(places[i], k, seq) # {}}
    IN  IF hits = {} THEN 0 ELSE Max(UpTo(places[Min(hits)], k, seq))

Places == <<entries[mem_table]>>
            \o [i \in DOMAIN frozen |-> entries[frozen[i]]]
            \o [i \in DOMAIN tables |-> ss[tables[i]]]

\* The versions that the next DB::open can find.
OnDisk == (UNION {Restored(wal_files[id]) : id \in DOMAIN wal_files})
            \cup UNION {ss[id] : id \in DOMAIN ss}

Held == [k \in Key |-> Max({0} \cup {v[2] : v \in {u \in OnDisk : u[1] = k}})]

-----------------------------------------------------------------------------

Empty == [i \in {} |-> {}]

With(f, i, x) == [j \in DOMAIN f \cup {i} |-> IF j = i THEN x ELSE f[j]]

Dropped(f, i) == [j \in DOMAIN f \ {i} |-> f[j]]

NoCommit == [tx |-> 0, ops |-> {}]

\* Everything in memory, of a process that is not there.
Init ==
    /\ wal_files = Empty /\ ss = Empty /\ stray = {}
    /\ phase = "down"
    /\ found = [seq |-> 0, tx |-> 0]
    /\ mem_table = 0 /\ frozen = <<>> /\ entries = Empty /\ tables = <<>>
    /\ wal_id = 0 /\ table_id = 0
    /\ next_seq = 0 /\ visible = 0 /\ tx_id = 0
    /\ unflushed = FALSE
    /\ step = "idle" /\ cur = NoCommit /\ freezing = FALSE
    /\ flushing = "idle" /\ victim = 0
    /\ acked = [k \in Key |-> 0]
    /\ crashes = 0 /\ refused = 0

ForgetMemory ==
    /\ found' = [seq |-> 0, tx |-> 0]
    /\ mem_table' = 0 /\ frozen' = <<>> /\ entries' = Empty /\ tables' = <<>>
    /\ wal_id' = 0 /\ table_id' = 0
    /\ next_seq' = 0 /\ visible' = 0 /\ tx_id' = 0
    /\ unflushed' = FALSE
    /\ step' = "idle" /\ cur' = NoCommit /\ freezing' = FALSE
    /\ flushing' = "idle" /\ victim' = 0

-----------------------------------------------------------------------------
(* DB::open: Wal::new and restore, DiskStorage::load, Storage::new and     *)
(* Oracle::new.                                                            *)

\* latest_id + 1.
FirstWalId == Largest(DOMAIN wal_files) + 1

\* Every log becomes a frozen memtable, the newest first.
Restore ==
    /\ phase = "down"
    /\ \A id \in DOMAIN wal_files : Readable(wal_files[id])
    /\ wal_id' = FirstWalId
    /\ frozen' = Descending(DOMAIN wal_files)
    /\ entries' = [id \in DOMAIN wal_files |-> Restored(wal_files[id])]
    /\ found' = [seq |-> Largest({LargestSeq(wal_files[id]) : id \in DOMAIN wal_files}),
                 tx  |-> Largest({LargestTx(wal_files[id]) : id \in DOMAIN wal_files})]
    /\ phase' = "restored"
    /\ UNCHANGED <<diskVars, mem_table, tables, table_id, next_seq, visible, tx_id,
                   unflushed, taskVars, acked, boundVars>>

\* A record is rejected and DB::open returns the error.
RestoreFails ==
    /\ phase = "down"
    /\ \E id \in DOMAIN wal_files : ~Readable(wal_files[id])
    /\ phase' = "failed"
    /\ UNCHANGED <<diskVars, found, stateVars, counterVars, unflushed, taskVars,
                   acked, boundVars>>

\* Or the bytes behind a torn record happen to make sense, of another kind:
\* nothing is claimed of the database that is opened then.
RestoreMisled ==
    /\ phase = "down"
    /\ \E id \in DOMAIN wal_files : Garbled(wal_files[id])
    /\ phase' = "misled"
    /\ UNCHANGED <<diskVars, found, stateVars, counterVars, unflushed, taskVars,
                   acked, boundVars>>

\* Broken: the tables are listed oldest first.
LoadAscending ==
    /\ phase = "restored"
    /\ stray' = {}
    /\ tables' = Reverse(Descending(DOMAIN ss))
    /\ table_id' = Largest(DOMAIN ss) + 1
    /\ found' = [found EXCEPT !.seq =
                    Largest({@} \cup {v[2] : v \in UNION {ss[id] : id \in DOMAIN ss}})]
    /\ phase' = "loaded"
    /\ UNCHANGED <<wal_files, ss, mem_table, frozen, entries, wal_id, next_seq,
                   visible, tx_id, unflushed, taskVars, acked, boundVars>>

\* Broken: the sequence numbers in the tables do not count.
LoadIgnoresSeq ==
    /\ phase = "restored"
    /\ stray' = {}
    /\ tables' = Descending(DOMAIN ss)
    /\ table_id' = Largest(DOMAIN ss) + 1
    /\ phase' = "loaded"
    /\ UNCHANGED <<wal_files, ss, found, mem_table, frozen, entries, wal_id,
                   next_seq, visible, tx_id, unflushed, taskVars, acked, boundVars>>

\* Temporary files go, tables are listed newest first, and the largest number
\* of logs and tables is known.
Load ==
    /\ phase = "restored"
    /\ stray' = {}
    /\ tables' = Descending(DOMAIN ss)
    /\ table_id' = Largest(DOMAIN ss) + 1
    /\ found' = [found EXCEPT !.seq =
                    Largest({@} \cup {v[2] : v \in UNION {ss[id] : id \in DOMAIN ss}})]
    /\ phase' = "loaded"
    /\ UNCHANGED <<wal_files, ss, mem_table, frozen, entries, wal_id, next_seq,
                   visible, tx_id, unflushed, taskVars, acked, boundVars>>

\* A new log and memtable; Oracle::new(max_seq + 1, max_tx_id + 1).
Start ==
    /\ phase = "loaded"
    /\ wal_files' = IF wal_id \in DOMAIN wal_files THEN wal_files
                    ELSE With(wal_files, wal_id, <<>>)
    /\ wal_id' = wal_id + 1
    /\ mem_table' = wal_id
    /\ entries' = With(entries, wal_id, {})
    /\ visible' = found.seq + 1
    /\ next_seq' = found.seq + 2
    /\ tx_id' = found.tx + 1
    /\ found' = [seq |-> 0, tx |-> 0]
    /\ phase' = "up"
    /\ UNCHANGED <<ss, stray, frozen, tables, table_id, unflushed, taskVars,
                   acked, boundVars>>

\* Whoever opened the database and got an error tries again.
OpenAgain ==
    /\ phase = "failed"
    /\ phase' = "down"
    /\ UNCHANGED <<diskVars, found, stateVars, counterVars, unflushed, taskVars,
                   acked, boundVars>>

-----------------------------------------------------------------------------
(* Oracle::commit around Storage::set_batch.                               *)

\* The log after an append: what a refused record left in the buffer of the
\* writer is flushed in front of the new one.
Appended(record) ==
    LET remains == IF unflushed THEN <<Torn>> ELSE <<>>
    IN  [wal_files EXCEPT ![mem_table] = @ \o remains \o <<record>>]

\* A number, a transaction, and TxBegin.  Transactions get their ids when they
\* begin and so commit in any order of them; a log is read the same way then.
Begin(keys) ==
    /\ phase = "up" /\ step = "idle" /\ ~freezing
    /\ next_seq <= MaxSeq
    /\ cur' = [tx |-> tx_id, ops |-> keys \X {next_seq}]
    /\ tx_id' = tx_id + 1
    /\ next_seq' = next_seq + 1
    /\ wal_files' = Appended(TxBegin(tx_id))
    /\ unflushed' = FALSE
    /\ step' = "batch"
    /\ UNCHANGED <<ss, stray, phase, found, stateVars, wal_id, table_id, visible,
                   freezing, flushing, victim, acked, boundVars>>

\* Broken: an append that failed half-way is tried again behind what it left.
AppendBatchRetries ==
    /\ phase = "up" /\ step = "batch"
    /\ \/ wal_files' = Appended(Batch(cur.tx, cur.ops))
       \/ wal_files' = [wal_files EXCEPT ![mem_table] = @ \o <<Torn, Batch(cur.tx, cur.ops)>>]
    /\ unflushed' = FALSE
    /\ step' = "put"
    /\ UNCHANGED <<ss, stray, phase, found, stateVars, counterVars, cur, freezing,
                   flushing, victim, acked, boundVars>>

AppendBatch ==
    /\ phase = "up" /\ step = "batch"
    /\ wal_files' = Appended(Batch(cur.tx, cur.ops))
    /\ unflushed' = FALSE
    /\ step' = "put"
    /\ UNCHANGED <<ss, stray, phase, found, stateVars, counterVars, cur, freezing,
                   flushing, victim, acked, boundVars>>

\* More pairs than a u16 can count are refused before anything is written.  A key
\* or a value that is longer than its u16 can say is refused when the front of the
\* record is in the buffer of the writer already, or, of a long one, in the file.
\* The commit returns the error.
RefuseBatch ==
    /\ phase = "up" /\ step = "batch"
    /\ refused < MaxRefused
    /\ refused' = refused + 1
    /\ \/ UNCHANGED <<wal_files, unflushed>>
       \/ UNCHANGED wal_files /\ unflushed' = TRUE
       \/ wal_files' = Appended(Torn) /\ unflushed' = TRUE
    /\ step' = "idle"
    /\ cur' = NoCommit
    /\ UNCHANGED <<ss, stray, phase, found, stateVars, counterVars, freezing,
                   flushing, victim, acked, crashes>>

Put ==
    /\ phase = "up" /\ step = "put"
    /\ entries' = [entries EXCEPT ![mem_table] = @ \cup cur.ops]
    /\ step' = "commit"
    /\ UNCHANGED <<diskVars, phase, found, mem_table, frozen, tables, counterVars,
                   unflushed, cur, freezing, flushing, victim, acked, boundVars>>

AppendCommit ==
    /\ phase = "up" /\ step = "commit"
    /\ wal_files' = Appended(TxCommit(cur.tx))
    /\ unflushed' = FALSE
    /\ step' = "publish"
    /\ UNCHANGED <<ss, stray, phase, found, stateVars, counterVars, cur, freezing,
                   flushing, victim, acked, boundVars>>

\* visible.store(commit_ts); commit returns.
Publish ==
    LET seq == (CHOOSE v \in cur.ops : TRUE)[2] IN
    /\ phase = "up" /\ step = "publish"
    /\ visible' = seq
    /\ acked' = [k \in Key |-> IF <<k, seq>> \in cur.ops THEN seq ELSE acked[k]]
    /\ step' = "idle"
    /\ cur' = NoCommit
    /\ UNCHANGED <<diskVars, phase, found, stateVars, wal_id, table_id, next_seq,
                   tx_id, unflushed, freezing, flushing, victim, boundVars>>

-----------------------------------------------------------------------------
(* force_freeze, with the commit lock held: after a commit that filled the *)
(* memtable, or in Oracle::freeze for DB::flush.                           *)

\* Broken: nobody waits for the commit in progress.
NewWalAnytime ==
    /\ phase = "up" /\ ~freezing
    /\ entries[mem_table] # {}
    /\ wal_id <= MaxWal
    /\ wal_files' = With(wal_files, wal_id, <<>>)
    /\ wal_id' = wal_id + 1
    /\ freezing' = TRUE
    /\ UNCHANGED <<ss, stray, phase, found, stateVars, table_id, next_seq, visible,
                   tx_id, unflushed, step, cur, flushing, victim, acked, boundVars>>

NewWal ==
    /\ phase = "up" /\ step = "idle" /\ ~freezing
    /\ entries[mem_table] # {}
    /\ wal_id <= MaxWal
    /\ wal_files' = With(wal_files, wal_id, <<>>)
    /\ wal_id' = wal_id + 1
    /\ freezing' = TRUE
    /\ UNCHANGED <<ss, stray, phase, found, stateVars, table_id, next_seq, visible,
                   tx_id, unflushed, step, cur, flushing, victim, acked, boundVars>>

\* A new memtable and log.  The old writer is dropped with what it buffers.
Swap ==
    /\ phase = "up" /\ freezing
    /\ mem_table' = wal_id - 1
    /\ frozen' = <<mem_table>> \o frozen
    /\ entries' = With(entries, wal_id - 1, {})
    /\ unflushed' = FALSE
    /\ freezing' = FALSE
    /\ UNCHANGED <<diskVars, phase, found, tables, counterVars, step, cur, flushing,
                   victim, acked, boundVars>>

-----------------------------------------------------------------------------
(* flush_oldest: l0 by way of a temporary file, retire, remove.            *)

Oldest == frozen[Len(frozen)]

\* SSTableWriter::create.
CreateTmp ==
    /\ phase = "up" /\ flushing = "idle"
    /\ frozen # <<>>
    /\ victim' = Oldest
    /\ table_id' = table_id + 1
    /\ stray' = stray \cup {table_id}
    /\ flushing' = "write"
    /\ UNCHANGED <<wal_files, ss, phase, found, stateVars, wal_id, next_seq, visible,
                   tx_id, unflushed, step, cur, freezing, acked, boundVars>>

\* Broken: of the versions of a key the oldest one is written.
FinishKeepsOldest ==
    LET id    == table_id - 1
        all   == entries[victim]
        table == {v \in all : \A u \in all : u[1] = v[1] => u[2] >= v[2]}
    IN
    /\ phase = "up" /\ flushing = "write"
    /\ stray' = stray \ {id}
    /\ IF all = {} THEN UNCHANGED <<ss, tables>>
       ELSE ss' = With(ss, id, table) /\ tables' = <<id>> \o tables
    /\ flushing' = "retire"
    /\ UNCHANGED <<wal_files, phase, found, mem_table, frozen, entries, counterVars,
                   unflushed, step, cur, freezing, victim, acked, boundVars>>

\* finish: the file is renamed and listed first; a memtable without entries
\* makes no table.
Finish ==
    LET id    == table_id - 1
        all   == entries[victim]
        table == {v \in all : \A u \in all : u[1] = v[1] => u[2] <= v[2]}
    IN
    /\ phase = "up" /\ flushing = "write"
    /\ stray' = stray \ {id}
    /\ IF all = {} THEN UNCHANGED <<ss, tables>>
       ELSE ss' = With(ss, id, table) /\ tables' = <<id>> \o tables
    /\ flushing' = "retire"
    /\ UNCHANGED <<wal_files, phase, found, mem_table, frozen, entries, counterVars,
                   unflushed, step, cur, freezing, victim, acked, boundVars>>

\* Broken: the list keeps the memtable that was flushed, and only that one.
RetireOthers ==
    /\ phase = "up" /\ flushing = "retire"
    /\ frozen' = SelectSeq(frozen, LAMBDA id : id = victim)
    /\ entries' = Dropped(entries, victim)
    /\ flushing' = "remove"
    /\ UNCHANGED <<diskVars, phase, found, mem_table, tables, counterVars,
                   unflushed, step, cur, freezing, victim, acked, boundVars>>

Retire ==
    /\ phase = "up" /\ flushing = "retire"
    /\ frozen' = Without(frozen, victim)
    /\ entries' = Dropped(entries, victim)
    /\ flushing' = "remove"
    /\ UNCHANGED <<diskVars, phase, found, mem_table, tables, counterVars,
                   unflushed, step, cur, freezing, victim, acked, boundVars>>

\* The log outlives its memtable by a moment.
RemoveWal ==
    /\ phase = "up" /\ flushing = "remove"
    /\ wal_files' = Dropped(wal_files, victim)
    /\ flushing' = "idle"
    /\ victim' = 0
    /\ UNCHANGED <<ss, stray, phase, found, stateVars, counterVars, unflushed, step,
                   cur, freezing, acked, boundVars>>

-----------------------------------------------------------------------------

Up == phase \in {"restored", "loaded", "up", "misled"}

Appending == phase = "up" /\ step \in {"idle", "batch", "commit"} /\ ~freezing

\* The process ends, by a crash or otherwise, between two steps or in the
\* middle of an append.
Crash ==
    /\ Up
    /\ crashes < MaxCrashes
    /\ crashes' = crashes + 1
    /\ \/ UNCHANGED wal_files
       \/ Appending /\ wal_files' = Appended(Torn)
    /\ phase' = "down"
    /\ ForgetMemory
    /\ UNCHANGED <<ss, stray, acked, refused>>

Next ==
    \/ Restore \/ RestoreFails \/ RestoreMisled \/ Load \/ Start \/ OpenAgain
    \/ \E keys \in (SUBSET Key) \ {{}} : Begin(keys)
    \/ AppendBatch \/ RefuseBatch \/ Put \/ AppendCommit \/ Publish
    \/ NewWal \/ Swap
    \/ CreateTmp \/ Finish \/ Retire \/ RemoveWal
    \/ Crash

Spec == Init /\ [][Next]_vars

-----------------------------------------------------------------------------
(* Properties.  The operators marked "Broken" above are faults of the kind *)
(* the properties are there to catch; no action uses them.                 *)

Version == Key \X Nat

Records == [cmd : {"TxBegin", "Batch", "TxCommit", "torn"}, tx : Nat,
            ops : SUBSET Version]

\* Every variable holds a value of its type, and whatever is listed is there.
TypeOK ==
    /\ wal_files \in [DOMAIN wal_files -> Seq(Records)]
    /\ ss \in [DOMAIN ss -> SUBSET Version]
    /\ DOMAIN wal_files \cup DOMAIN ss \cup stray \subseteq Nat
    /\ phase \in {"down", "restored", "loaded", "up", "failed", "misled"}
    /\ found \in [seq : Nat, tx : Nat]
    /\ phase = "up" => mem_table \in DOMAIN entries \cap DOMAIN wal_files
    /\ frozen \in Seq(DOMAIN entries) /\ DOMAIN entries \subseteq DOMAIN wal_files
    /\ entries \in [DOMAIN entries -> SUBSET Version]
    /\ tables \in Seq(DOMAIN ss)
    /\ wal_id \in Nat /\ table_id \in Nat
    /\ next_seq \in Nat /\ visible \in Nat /\ tx_id \in Nat
    /\ unflushed \in BOOLEAN /\ freezing \in BOOLEAN
    /\ step \in {"idle", "batch", "put", "commit", "publish"}
    /\ cur \in [tx : Nat, ops : SUBSET Version]
    /\ flushing \in {"idle", "write", "retire", "remove"}
    /\ victim \in Nat
    /\ acked \in [Key -> Nat]

\* However often the database was opened before, a read finds the newest
\* published version that the files hold: restored memtables and loaded tables
\* are searched in the order of their age.
ReadsExact ==
    phase = "up" =>
        \A k \in Key : Search(Places, k, visible) = Search(<<OnDisk>>, k, visible)

\* A number is never given out again: the next commit is numbered above every
\* version in memory and on disk, in a table or a log, committed or not.
SeqFresh ==
    phase = "up" =>
        /\ \A v \in (UNION {entries[i] : i \in DOMAIN entries}) \cup OnDisk : v[2] < next_seq
        /\ \A id \in DOMAIN wal_files : LargestSeq(wal_files[id]) < next_seq

\* DB::open refuses a directory only if a record in it is cut off: by a crash
\* in the middle of an append, or by a commit that was refused.  No order of
\* commits, freezes, flushes and crashes makes a log that is rejected for its
\* transactions.
OpenFailsOnlyTorn ==
    \A id \in DOMAIN wal_files :
        \A i \in DOMAIN wal_files[id] :
            Rejected(wal_files[id], i) =>
                \E j \in 1..i : wal_files[id][j] = Torn

\* The records that a reader gets to see, and the versions of the transactions
\* that begin and commit there.
Legible(log) == {i \in DOMAIN log : \A j \in 1..i : ~Rejected(log, j)}

ReadBefore(log) ==
    UNION {log[i].ops : i \in {b \in Legible(log) :
        /\ log[b].cmd = "Batch"
        /\ \E c \in Legible(log) : b < c /\ log[c] = TxCommit(log[b].tx)}}

Readables == (UNION {ReadBefore(wal_files[id]) : id \in DOMAIN wal_files})
                \cup UNION {ss[id] : id \in DOMAIN ss}

\* No acknowledged commit is behind a record that a reader rejects: every version
\* that was acknowledged, or a newer one, is in a table or can be read from a log
\* up to the first such record.
AckedReadable ==
    \A k \in Key : acked[k] > 0 =>
        \E v \in Readables : v[1] = k /\ v[2] >= acked[k]

\* That is so as long as no commit is refused: only the last record of a log is
\* ever cut off, and nothing is appended behind it by the processes that come.
AckedReadableUnrefused == refused = 0 => AckedReadable

D == INSTANCE DurableMap WITH
        Seqs <- 0..MaxSeq,
        store <- Held

\* Through any sequence of commits, freezes, flushes, crashes and restarts the
\* files hold one map, which a commit changes as a whole when its TxCommit is
\* appended, and which nothing else changes; what was acknowledged is in it.
\* (A torn record may keep DB::open from reading the map; it takes nothing
\* out of it.  What is behind it is the question of AckedReadable.)
ImplementsDurableMap == D!Spec

=============================================================================
