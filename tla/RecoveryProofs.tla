---------------------------- MODULE RecoveryProofs ----------------------------
(***************************************************************************)
(* Proofs about Recovery, for every set of keys and every bound: the       *)
(* numbers are never given out again, a directory is refused only for a    *)
(* torn record, reads of a reopened database find the newest versions, the *)
(* files implement one durable map, and what was acknowledged can be read  *)
(* back from them unless a commit was refused.                             *)
(*                                                                         *)
(* The inductive invariant says of the directory, whatever the process     *)
(* does: every log is one that a sequence of commits can have written      *)
(* (WellFormed); a log is newer than the logs before it, a table is not    *)
(* older than the tables before it, and a log that has an older version of *)
(* a key than a table is the one the table was made of (OrderInv).  And of *)
(* the process: the memtables are the logs, listed by age (MemoryInv), the *)
(* counters are above everything on disk (CounterInv), the commit is where *)
(* its records say (CommitInv), and the log that is being flushed is the   *)
(* oldest one, and in the tables before it is removed (FlushInv).          *)
(***************************************************************************)
EXTENDS Recovery, ListLemmas

-----------------------------------------------------------------------------
(* What a log says, without the order of its records.                      *)

Begins(log) == {log[i].tx : i \in {b \in DOMAIN log : log[b].cmd = "TxBegin"}}

Commits(log) == {log[i].tx : i \in {b \in DOMAIN log : log[b].cmd = "TxCommit"}}

\* The versions in the batches of a transaction.
BatchOps(log, tx) ==
    {log[i].ops : i \in {b \in DOMAIN log : log[b].cmd = "Batch" /\ log[b].tx = tx}}

\* All versions, of committed transactions and others.
Logged(log) == UNION {log[i].ops : i \in DOMAIN log}

\* A log as a sequence of commits writes it: a transaction begins once and
\* commits at most once, and its batches are in between.
WellFormed(log) ==
    /\ log \in Seq(Records)
    /\ \A i \in DOMAIN log :
        /\ log[i].cmd # "Batch" => log[i] = Record(log[i].cmd, log[i].tx, {})
        /\ log[i].cmd = "torn" => log[i] = Torn
        /\ log[i].cmd \in {"Batch", "TxCommit"} =>
            /\ \E b \in 1..(i - 1) : log[b] = TxBegin(log[i].tx)
            /\ \A c \in 1..(i - 1) : log[c] # TxCommit(log[i].tx)
        /\ log[i].cmd = "TxBegin" => \A b \in 1..(i - 1) : log[b] # log[i]

-----------------------------------------------------------------------------
(* The inductive invariant.                                                *)

Logs == DOMAIN wal_files

LogVersions(id) == Restored(wal_files[id])

\* What TypeOK says and the rest of the invariant does not.
Typed ==
    /\ wal_files = [id \in Logs |-> wal_files[id]]
    /\ ss = [t \in DOMAIN ss |-> ss[t]]
    /\ entries = [id \in DOMAIN entries |-> entries[id]]
    /\ stray \subseteq Nat
    /\ phase \in {"down", "restored", "loaded", "up", "failed", "misled"}
    /\ found \in [seq : Nat, tx : Nat]
    /\ wal_id \in Nat /\ table_id \in Nat
    /\ next_seq \in Nat /\ visible \in Nat /\ tx_id \in Nat
    /\ unflushed \in BOOLEAN /\ freezing \in BOOLEAN
    /\ step \in {"idle", "batch", "put", "commit", "publish"}
    /\ cur \in [tx : Nat, ops : SUBSET Version]
    /\ flushing \in {"idle", "write", "retire", "remove"}
    /\ victim \in Nat
    /\ acked \in [Key -> Nat]

LogsInv == \A id \in Logs : WellFormed(wal_files[id])

\* Everything is finite, and numbered up to MaxSeq.
BoundInv ==
    /\ \E c \in Nat :
        /\ Logs \subseteq 0..c /\ DOMAIN ss \subseteq 0..c
        /\ \A id \in Logs : Begins(wal_files[id]) \subseteq 0..c
    /\ \A id \in Logs : Logged(wal_files[id]) \subseteq Key \X (0..MaxSeq)
    /\ \A t \in DOMAIN ss : ss[t] \subseteq Key \X (0..MaxSeq)

OrderInv ==
    /\ \A a, b \in Logs : a < b =>
        \A u \in LogVersions(a), v \in LogVersions(b) : u[2] < v[2]
    /\ \A s, t \in DOMAIN ss : s < t =>
        \A u \in ss[s], v \in ss[t] : u[1] = v[1] => u[2] <= v[2]
    /\ \A t \in DOMAIN ss, a \in Logs :
        \A u \in ss[t], v \in LogVersions(a) :
            u[1] = v[1] => u[2] <= v[2] \/ u \in LogVersions(a)

\* The ids, each once, the largest first.
Descends(s, ids) ==
    /\ s \in Seq(ids)
    /\ \A i, j \in DOMAIN s : i < j => s[i] > s[j]
    /\ \A a \in ids : \E i \in DOMAIN s : s[i] = a

Idle == step = "idle" /\ cur = NoCommit /\ ~freezing /\ flushing = "idle" /\ ~unflushed

\* What the active memtable has and its log has not committed yet.
Pending(id) == IF step = "commit" /\ id = mem_table THEN cur.ops ELSE {}

MemoryInv ==
    /\ phase # "up" => Idle
    /\ phase \in {"down", "failed", "misled"} =>
        entries = Empty /\ frozen = <<>> /\ tables = <<>>
    /\ phase \in {"restored", "loaded"} =>
        /\ DOMAIN entries = Logs
        /\ \A id \in Logs : id < wal_id /\ entries[id] = LogVersions(id)
        /\ Descends(frozen, Logs)
    /\ phase = "restored" => tables = <<>>
    /\ phase \in {"loaded", "up"} => Descends(tables, DOMAIN ss)
    /\ phase = "up" =>
        /\ mem_table \in DOMAIN entries
        /\ \A id \in DOMAIN entries : entries[id] = LogVersions(id) \cup Pending(id)
        /\ Descends(frozen, DOMAIN entries \ {mem_table})
        /\ \A id \in DOMAIN entries : id <= mem_table
        /\ Logs = DOMAIN entries \cup (IF freezing THEN {wal_id - 1} ELSE {})
                                 \cup (IF flushing = "remove" THEN {victim} ELSE {})
        /\ freezing =>
            /\ step = "idle" /\ mem_table < wal_id - 1
            /\ wal_files[wal_id - 1] = <<>>

CounterInv ==
    /\ phase \in {"restored", "loaded"} =>
        \A id \in Logs :
            /\ \A v \in Logged(wal_files[id]) : v[2] <= found.seq
            /\ \A tx \in Begins(wal_files[id]) : tx <= found.tx
    /\ phase = "loaded" =>
        \A t \in DOMAIN ss : t < table_id /\ \A v \in ss[t] : v[2] <= found.seq
    /\ phase = "up" =>
        /\ \A id \in Logs :
            /\ id < wal_id
            /\ \A v \in Logged(wal_files[id]) : v[2] < next_seq
            /\ \A tx \in Begins(wal_files[id]) : tx < tx_id
            /\ \A v \in LogVersions(id) :
                \/ v[2] <= visible
                \/ step = "publish" /\ id = mem_table /\ v \in cur.ops
        /\ \A t \in DOMAIN ss :
            /\ t < table_id
            /\ flushing = "write" => t < table_id - 1
            /\ \A v \in ss[t] : v[2] <= visible
        /\ flushing = "write" => table_id > 0
        /\ visible < next_seq

CommitInv ==
    phase = "up" /\ step # "idle" =>
        /\ \E keys \in (SUBSET Key) \ {{}} : cur.ops = keys \X {next_seq - 1}
        /\ visible < next_seq - 1 /\ next_seq - 1 <= MaxSeq
        /\ cur.tx \in Begins(wal_files[mem_table])
        /\ step # "publish" => cur.tx \notin Commits(wal_files[mem_table])
        /\ step = "batch" => BatchOps(wal_files[mem_table], cur.tx) = {}
        /\ step \in {"put", "commit"} => BatchOps(wal_files[mem_table], cur.tx) = {cur.ops}
        /\ step = "publish" => cur.ops \subseteq LogVersions(mem_table)

\* A table has these versions, or newer ones of the same keys.
Tabled(versions) ==
    \A v \in versions :
        \E t \in DOMAIN ss : \E w \in ss[t] : w[1] = v[1] /\ w[2] >= v[2]

FlushInv ==
    phase = "up" /\ flushing # "idle" =>
        /\ victim \in Logs /\ \A id \in Logs : victim <= id
        /\ flushing \in {"write", "retire"} =>
            frozen # <<>> /\ victim = frozen[Len(frozen)]
        /\ flushing = "remove" => victim \notin DOMAIN entries
        /\ flushing \in {"retire", "remove"} => Tabled(LogVersions(victim))

AckInv ==
    \A k \in Key :
        /\ acked[k] <= Held[k]
        /\ phase = "up" => acked[k] <= visible

IInv ==
    /\ Typed
    /\ LogsInv
    /\ BoundInv
    /\ OrderInv
    /\ MemoryInv
    /\ CounterInv
    /\ CommitInv
    /\ FlushInv
    /\ AckInv

-----------------------------------------------------------------------------
(* Logs.                                                                   *)

\* A record that a commit can append to the log.
CanFollow(r, log) ==
    \/ r = Torn
    \/ \E tx \in Nat \ Begins(log) : r = TxBegin(tx)
    \/ \E tx \in Begins(log) \ Commits(log), ops \in SUBSET Version : r = Batch(tx, ops)
    \/ \E tx \in Begins(log) \ Commits(log) : r = TxCommit(tx)

\* What an append adds to what the log says.
Grown(new, log, r) ==
    /\ WellFormed(new)
    /\ Begins(new) = Begins(log) \cup (IF r.cmd = "TxBegin" THEN {r.tx} ELSE {})
    /\ Commits(new) = Commits(log) \cup (IF r.cmd = "TxCommit" THEN {r.tx} ELSE {})
    /\ \A tx : BatchOps(new, tx) = BatchOps(log, tx)
                 \cup (IF r.cmd = "Batch" /\ r.tx = tx THEN {r.ops} ELSE {})
    /\ Logged(new) = Logged(log) \cup r.ops

\* The records are what they are built of.
LEMMA RecordTypes ==
  /\ \A tx \in Nat, ops \in SUBSET Version :
        TxBegin(tx) \in Records /\ Batch(tx, ops) \in Records /\ TxCommit(tx) \in Records
  /\ Torn \in Records
BY DEF Records, Record, TxBegin, Batch, TxCommit, Torn

\* A log with one more record.
LEMMA OneMore ==
  ASSUME NEW log \in Seq(Records), NEW r \in Records
  PROVE  LET new == log \o <<r>>
         IN  /\ new \in Seq(Records)
             /\ Len(new) = Len(log) + 1 /\ DOMAIN new = 1..(Len(log) + 1)
             /\ DOMAIN log = 1..Len(log) /\ Len(log) \in Nat
             /\ \A i \in 1..Len(log) : new[i] = log[i]
             /\ new[Len(log) + 1] = r
<1>1. <<r>> \in Seq(Records) /\ Len(<<r>>) = 1 /\ <<r>>[1] = r
  OBVIOUS
<1> QED
  BY <1>1, ConcatProperties, LenProperties

\* Everything a log says is typed.
LEMMA LogTypes ==
  ASSUME NEW log, WellFormed(log)
  PROVE  /\ log \in Seq(Records) /\ DOMAIN log = 1..Len(log) /\ Len(log) \in Nat
         /\ \A i \in DOMAIN log :
              /\ log[i] \in Records
              /\ log[i].cmd \in {"TxBegin", "Batch", "TxCommit", "torn"}
              /\ log[i].tx \in Nat /\ log[i].ops \in SUBSET Version
              /\ log[i].cmd = "TxBegin" => log[i] = TxBegin(log[i].tx)
              /\ log[i].cmd = "TxCommit" => log[i] = TxCommit(log[i].tx)
         /\ Begins(log) \subseteq Nat /\ Commits(log) \subseteq Begins(log)
         /\ \A tx : BatchOps(log, tx) # {} => tx \in Begins(log)
<1>1. log \in Seq(Records) /\ DOMAIN log = 1..Len(log) /\ Len(log) \in Nat
  BY LenProperties DEF WellFormed
<1>2. ASSUME NEW i \in DOMAIN log
      PROVE  /\ log[i] \in Records
             /\ log[i].cmd \in {"TxBegin", "Batch", "TxCommit", "torn"}
             /\ log[i].tx \in Nat /\ log[i].ops \in SUBSET Version
             /\ log[i].cmd = "TxBegin" => log[i] = TxBegin(log[i].tx)
             /\ log[i].cmd = "TxCommit" => log[i] = TxCommit(log[i].tx)
  <2>1. log[i] \in Records
    BY <1>1
  <2> QED
    BY <2>1 DEF Records, WellFormed, TxBegin, TxCommit
<1>3. ASSUME NEW i \in DOMAIN log, log[i].cmd \in {"Batch", "TxCommit"}
      PROVE  log[i].tx \in Begins(log)
  <2>1. PICK b \in 1..(i - 1) : log[b] = TxBegin(log[i].tx)
    BY <1>3 DEF WellFormed
  <2>2. b \in DOMAIN log /\ log[b].cmd = "TxBegin" /\ log[b].tx = log[i].tx
    BY <1>1, <2>1 DEF TxBegin, Record
  <2> QED
    BY <2>2 DEF Begins
<1> QED
  BY <1>1, <1>2, <1>3 DEF Begins, Commits, BatchOps

LEMMA Extended ==
  ASSUME NEW log, WellFormed(log), NEW r, CanFollow(r, log)
  PROVE  Grown(log \o <<r>>, log, r)
<1> DEFINE new == log \o <<r>>
           end == Len(log) + 1
<1>1. r \in Records
  BY LogTypes, RecordTypes DEF CanFollow
<1>2. /\ new \in Seq(Records) /\ DOMAIN new = 1..end
      /\ DOMAIN log = 1..Len(log) /\ Len(log) \in Nat
      /\ \A i \in 1..Len(log) : new[i] = log[i]
      /\ new[end] = r
  BY <1>1, LogTypes, OneMore
<1> HIDE DEF new
<1>3. \A i \in DOMAIN new : (i \in DOMAIN log /\ new[i] = log[i]) \/ (i = end /\ new[i] = r)
  <2> TAKE i \in DOMAIN new
  <2>1. i \in 1..Len(log) \/ i = end
    BY <1>2
  <2> QED
    BY <1>2, <2>1
<1>4. \A i \in DOMAIN log : i \in DOMAIN new /\ new[i] = log[i]
  BY <1>2
<1>5. end \in DOMAIN new /\ new[end] = r
  BY <1>2
<1>6. Begins(new) = Begins(log) \cup (IF r.cmd = "TxBegin" THEN {r.tx} ELSE {})
  BY <1>3, <1>4, <1>5 DEF Begins
<1>7. Commits(new) = Commits(log) \cup (IF r.cmd = "TxCommit" THEN {r.tx} ELSE {})
  BY <1>3, <1>4, <1>5 DEF Commits
<1>8. ASSUME NEW tx
      PROVE  BatchOps(new, tx) = BatchOps(log, tx)
               \cup (IF r.cmd = "Batch" /\ r.tx = tx THEN {r.ops} ELSE {})
  BY <1>3, <1>4, <1>5 DEF BatchOps
<1>9. Logged(new) = Logged(log) \cup r.ops
  BY <1>3, <1>4, <1>5 DEF Logged
<1>10. WellFormed(new)
  <2>1. ASSUME NEW i \in DOMAIN log
        PROVE  /\ new[i].cmd # "Batch" => new[i] = Record(new[i].cmd, new[i].tx, {})
               /\ new[i].cmd = "torn" => new[i] = Torn
               /\ new[i].cmd \in {"Batch", "TxCommit"} =>
                    /\ \E b \in 1..(i - 1) : new[b] = TxBegin(new[i].tx)
                    /\ \A c \in 1..(i - 1) : new[c] # TxCommit(new[i].tx)
               /\ new[i].cmd = "TxBegin" => \A b \in 1..(i - 1) : new[b] # new[i]
    <3>1. \A b \in 1..(i - 1) : b \in 1..Len(log)
      BY <1>2
    <3> QED
      BY <1>2, <3>1 DEF WellFormed
  <2>2. \A b \in 1..(end - 1) : b \in DOMAIN log /\ new[b] = log[b]
    BY <1>2
  <2>3. \A tx \in Begins(log) : \E b \in 1..(end - 1) : new[b] = TxBegin(tx)
    <3> TAKE tx \in Begins(log)
    <3>1. PICK b \in DOMAIN log : log[b].cmd = "TxBegin" /\ log[b].tx = tx
      BY DEF Begins
    <3>2. log[b] = TxBegin(tx)
      BY <3>1, LogTypes
    <3> QED
      BY <1>2, <3>2
  <2>4. \A tx : tx \notin Commits(log) => \A c \in 1..(end - 1) : new[c] # TxCommit(tx)
    BY <2>2 DEF Commits, TxCommit, Record
  <2>5. \A tx : tx \notin Begins(log) => \A c \in 1..(end - 1) : new[c] # TxBegin(tx)
    BY <2>2 DEF Begins, TxBegin, Record
  <2>6. /\ r.cmd # "Batch" => r = Record(r.cmd, r.tx, {})
        /\ r.cmd = "torn" => r = Torn
        /\ r.cmd \in {"Batch", "TxCommit"} =>
             /\ \E b \in 1..(end - 1) : new[b] = TxBegin(r.tx)
             /\ \A c \in 1..(end - 1) : new[c] # TxCommit(r.tx)
        /\ r.cmd = "TxBegin" => \A b \in 1..(end - 1) : new[b] # r
    <3>1. CASE r = Torn
      BY <3>1 DEF Torn, Record
    <3>2. CASE \E tx \in Nat \ Begins(log) : r = TxBegin(tx)
      <4>1. PICK tx \in Nat \ Begins(log) : r = TxBegin(tx)
        BY <3>2
      <4>2. r.cmd = "TxBegin" /\ r.tx = tx /\ r = Record(r.cmd, r.tx, {})
        BY <4>1 DEF TxBegin, Record
      <4> QED
        BY <2>5, <4>1, <4>2
    <3>3. CASE \E tx \in Begins(log) \ Commits(log), ops \in SUBSET Version : r = Batch(tx, ops)
      <4>1. PICK tx \in Begins(log) \ Commits(log), ops \in SUBSET Version : r = Batch(tx, ops)
        BY <3>3
      <4>2. r.cmd = "Batch" /\ r.tx = tx
        BY <4>1 DEF Batch, Record
      <4> QED
        BY <2>3, <2>4, <4>1, <4>2
    <3>4. CASE \E tx \in Begins(log) \ Commits(log) : r = TxCommit(tx)
      <4>1. PICK tx \in Begins(log) \ Commits(log) : r = TxCommit(tx)
        BY <3>4
      <4>2. r.cmd = "TxCommit" /\ r.tx = tx /\ r = Record(r.cmd, r.tx, {})
        BY <4>1 DEF TxCommit, Record
      <4> QED
        BY <2>3, <2>4, <4>1, <4>2
    <3> QED
      BY <3>1, <3>2, <3>3, <3>4 DEF CanFollow
  <2> QED
    BY <1>2, <1>3, <2>1, <2>6 DEF WellFormed
<1> QED
  BY <1>6, <1>7, <1>8, <1>9, <1>10 DEF Grown, new

\* A transaction's versions are found again when it committed.
LEMMA RestoredIs ==
  ASSUME NEW log, WellFormed(log)
  PROVE  \A v : v \in Restored(log) <=>
            \E tx \in Commits(log) : \E ops \in BatchOps(log, tx) : v \in ops
<1> DEFINE Kept(b) == /\ log[b].cmd = "Batch"
                      /\ \E c \in (b + 1)..Len(log) : log[c] = TxCommit(log[b].tx)
                      /\ Begun(log, log[b].tx, b)
<1>1. ASSUME NEW b \in DOMAIN log, log[b].cmd = "Batch"
      PROVE  Kept(b) <=> log[b].tx \in Commits(log)
  <2>1. b \in 1..Len(log) /\ Len(log) \in Nat
    BY LogTypes
  <2>2. /\ \E a \in 1..(b - 1) : log[a] = TxBegin(log[b].tx)
        /\ \A c \in 1..(b - 1) : log[c] # TxCommit(log[b].tx)
    BY <1>1 DEF WellFormed
  <2>3. Begun(log, log[b].tx, b)
    BY <2>1, <2>2 DEF Begun
  <2>4. ASSUME NEW c \in (b + 1)..Len(log), log[c] = TxCommit(log[b].tx)
        PROVE  log[b].tx \in Commits(log)
    <3>1. c \in DOMAIN log /\ log[c].cmd = "TxCommit" /\ log[c].tx = log[b].tx
      BY <2>1, <2>4, LogTypes DEF TxCommit, Record
    <3> QED
      BY <3>1 DEF Commits
  <2>5. ASSUME log[b].tx \in Commits(log)
        PROVE  \E c \in (b + 1)..Len(log) : log[c] = TxCommit(log[b].tx)
    <3>1. PICK c \in DOMAIN log : log[c].cmd = "TxCommit" /\ log[c].tx = log[b].tx
      BY <2>5 DEF Commits
    <3>2. log[c] = TxCommit(log[b].tx) /\ c \in 1..Len(log)
      BY <3>1, LogTypes
    <3>3. c # b
      BY <1>1, <3>1
    <3>4. c \notin 1..(b - 1)
      BY <2>2, <3>2
    <3> QED
      BY <2>1, <3>2, <3>3, <3>4
  <2> QED
    BY <1>1, <2>3, <2>4, <2>5
<1>2. ASSUME NEW v
      PROVE  v \in Restored(log) <=> \E b \in DOMAIN log : Kept(b) /\ v \in log[b].ops
  BY DEF Restored
<1>3. ASSUME NEW v
      PROVE  (\E tx \in Commits(log) : \E ops \in BatchOps(log, tx) : v \in ops) <=>
             \E b \in DOMAIN log : log[b].cmd = "Batch" /\ log[b].tx \in Commits(log)
                                      /\ v \in log[b].ops
  BY DEF BatchOps
<1> QED
  <2> HIDE DEF Kept
  <2>1. \A b : Kept(b) => log[b].cmd = "Batch"
    BY DEF Kept
  <2> QED
    BY <1>1, <1>2, <1>3, <2>1

LEMMA RestoredLogged ==
  ASSUME NEW log
  PROVE  Restored(log) \subseteq Logged(log)
BY DEF Restored, Logged

\* A log of commits is rejected only for what is torn.
LEMMA RejectedTorn ==
  ASSUME NEW log, WellFormed(log), NEW i \in DOMAIN log, Rejected(log, i)
  PROVE  log[i] = Torn
<1>1. i \in 1..Len(log) /\ Len(log) \in Nat
  BY LogTypes
<1>2. ~(log[i].cmd = "TxBegin" /\ Begun(log, log[i].tx, i))
  <2> SUFFICES ASSUME log[i].cmd = "TxBegin", Begun(log, log[i].tx, i) PROVE FALSE
    OBVIOUS
  <2>1. PICK b \in 1..(i - 1) : log[b] = TxBegin(log[i].tx)
    BY DEF Begun
  <2>2. log[i] = TxBegin(log[i].tx)
    BY LogTypes
  <2> QED
    BY <2>1, <2>2 DEF WellFormed
<1>3. ~(log[i].cmd = "TxCommit" /\ ~Begun(log, log[i].tx, i))
  <2> SUFFICES ASSUME log[i].cmd = "TxCommit" PROVE Begun(log, log[i].tx, i)
    OBVIOUS
  <2>1. PICK b \in 1..(i - 1) : log[b] = TxBegin(log[i].tx)
    BY DEF WellFormed
  <2>2. \A c \in 1..(i - 1) : log[c] # TxCommit(log[i].tx)
    BY DEF WellFormed
  <2>3. \A c \in b..(i - 1) : c \in 1..(i - 1)
    BY <1>1, <2>1
  <2> QED
    BY <2>1, <2>2, <2>3 DEF Begun
<1> QED
  BY <1>2, <1>3 DEF Rejected

-----------------------------------------------------------------------------
(* Largest numbers.                                                        *)

LEMMA MaxIs ==
  ASSUME NEW c \in Nat, NEW T, T \subseteq 0..c, T # {}
  PROVE  Max(T) \in T /\ \A n \in T : n <= Max(T)
<1>1. PICK m \in T : \A n \in T : n <= m
  BY Greatest
<1>2. \A n \in T : m >= n
  BY <1>1
<1>3. Max(T) \in T /\ \A n \in T : Max(T) >= n
  BY <1>2 DEF Max
<1> QED
  BY <1>3

\* It is what is in the set and not below anything in it.
LEMMA MaxUnique ==
  ASSUME NEW c \in Nat, NEW T, T \subseteq 0..c, NEW m \in T, \A n \in T : n <= m
  PROVE  Max(T) = m
<1>0. \A n \in T : n \in Nat
  OBVIOUS
<1>1. Max(T) \in T /\ m <= Max(T)
  BY MaxIs
<1>2. Max(T) <= m
  BY <1>1
<1>3. Max(T) \in Nat /\ m \in Nat
  BY <1>0, <1>1
<1> QED
  BY <1>1, <1>2, <1>3

LEMMA MinIs ==
  ASSUME NEW T, T \subseteq Nat, T # {}
  PROVE  Min(T) \in T /\ \A n \in T : Min(T) <= n
<1>1. PICK m \in T : \A n \in T : m <= n
  BY Least
<1> QED
  BY <1>1 DEF Min

LEMMA LargestIs ==
  ASSUME NEW c \in Nat, NEW T, T \subseteq 0..c
  PROVE  Largest(T) \in 0..c /\ \A n \in T : n <= Largest(T)
<1>1. T \cup {0} \subseteq 0..c
  OBVIOUS
<1>2. Max(T \cup {0}) \in T \cup {0} /\ \A n \in T \cup {0} : n <= Max(T \cup {0})
  BY <1>1, MaxIs
<1> QED
  BY <1>1, <1>2 DEF Largest

LEMMA LargestSeqIs ==
  ASSUME NEW c \in Nat, NEW log, Logged(log) \subseteq Key \X (0..c)
  PROVE  /\ LargestSeq(log) \in 0..c
         /\ \A v \in Logged(log) : v[2] <= LargestSeq(log)
         /\ LargestSeq(log) = 0 \/ \E v \in Logged(log) : v[2] = LargestSeq(log)
<1> DEFINE T == {0} \cup {v[2] : v \in Logged(log)}
<1>1. T \subseteq 0..c
  OBVIOUS
<1>2. Max(T) \in T /\ \A n \in T : n <= Max(T)
  <2> HIDE DEF T
  <2>1. 0 \in T
    BY DEF T
  <2> QED
    BY <1>1, <2>1, MaxIs
<1>3. LargestSeq(log) = Max(T)
  BY DEF LargestSeq, Logged
<1> QED
  BY <1>1, <1>2, <1>3

LEMMA LargestTxIs ==
  ASSUME NEW c \in Nat, NEW log, Begins(log) \subseteq 0..c
  PROVE  LargestTx(log) \in 0..c /\ \A tx \in Begins(log) : tx <= LargestTx(log)
<1> DEFINE T == {0} \cup Begins(log)
<1>1. T \subseteq 0..c
  OBVIOUS
<1>2. Max(T) \in T /\ \A n \in T : n <= Max(T)
  BY <1>1, MaxIs
<1>3. LargestTx(log) = Max(T)
  BY DEF LargestTx, Begins
<1> QED
  BY <1>1, <1>2, <1>3

-----------------------------------------------------------------------------
(* The newest first.                                                       *)

LEMMA DescendsIs ==
  ASSUME NEW s, NEW ids, Descends(s, ids)
  PROVE  /\ Len(s) \in Nat /\ DOMAIN s = 1..Len(s)
         /\ \A a \in ids : \E i \in 1..Len(s) : s[i] = a
         /\ \A i \in 1..Len(s) : s[i] \in ids
         /\ \A i, j \in 1..Len(s) : i < j => s[i] > s[j]
<1>1. s \in Seq(ids)
  BY DEF Descends
<1>2. Len(s) \in Nat /\ DOMAIN s = 1..Len(s)
  BY <1>1, LenProperties
<1>3. \A i \in 1..Len(s) : s[i] \in ids
  BY <1>1
<1> QED
  BY <1>2, <1>3 DEF Descends

\* Descending lists every id once.  An id has as many larger ones as its
\* place is; these numbers differ, and there are as many as ids.
LEMMA DescendingIs ==
  ASSUME NEW c \in Nat, NEW ids, ids \subseteq 0..c
  PROVE  Descends(Descending(ids), ids)
<1> DEFINE above(a) == {b \in ids : b > a}
           rank == [a \in ids |-> Cardinality(above(a)) + 1]
           size == Cardinality(ids)
<1>0. \A a \in ids : a \in Nat
  OBVIOUS
<1>1. IsFiniteSet(ids) /\ size \in Nat
  <2>1. IsFiniteSet(0..c)
    BY FS_Interval
  <2> QED
    BY <2>1, FS_Subset, FS_CardinalityType
<1>2. ASSUME NEW a \in ids
      PROVE  IsFiniteSet(above(a)) /\ Cardinality(above(a)) \in Nat
             /\ Cardinality(above(a)) < size
  <2>1. above(a) \subseteq ids /\ above(a) # ids
    OBVIOUS
  <2>2. IsFiniteSet(above(a)) /\ Cardinality(above(a)) <= size /\ Cardinality(above(a)) # size
    BY <1>1, <2>1, FS_Subset
  <2>3. Cardinality(above(a)) \in Nat
    BY <2>2, FS_CardinalityType
  <2> QED
    BY <1>1, <2>2, <2>3
<1>3. ASSUME NEW a \in ids, NEW b \in ids, a < b
      PROVE  rank[b] < rank[a]
  <2>1. above(b) \subseteq above(a) /\ b \in above(a) /\ b \notin above(b)
    <3>1. \A n \in ids : n > b => n > a
      BY <1>0, <1>3
    <3>2. b > a /\ ~(b > b)
      BY <1>0, <1>3
    <3> QED
      BY <3>1, <3>2
  <2>2. Cardinality(above(b)) <= Cardinality(above(a))
        /\ Cardinality(above(b)) # Cardinality(above(a))
    <3> HIDE DEF above
    <3> QED
      BY <1>2, <2>1, FS_Subset
  <2>3. Cardinality(above(a)) \in Nat /\ Cardinality(above(b)) \in Nat
    BY <1>2
  <2> QED
    BY <2>2, <2>3
<1>4. rank \in Injection(ids, 1..size)
  <2>1. rank \in [ids -> 1..size]
    BY <1>1, <1>2
  <2>2. \A a, b \in ids : rank[a] = rank[b] => a = b
    <3> TAKE a, b \in ids
    <3>1. a \in Nat /\ b \in Nat /\ rank[a] \in Nat /\ rank[b] \in Nat
      BY <2>1
    <3> QED
      BY <1>3, <3>1
  <2> QED
    BY <2>1, <2>2 DEF Injection, IsInjective
<1>5. rank \in Surjection(ids, 1..size)
  <2>1. IsFiniteSet(1..size) /\ Cardinality(1..size) = size
    BY <1>1, FS_Interval
  <2> QED
    BY <1>4, <2>1, FS_Injection
<1>6. \A n \in 1..size : \E a \in ids : rank[a] = n
  BY <1>5 DEF Surjection
<1> DEFINE s == Descending(ids)
<1>7. s = [n \in 1..size |-> CHOOSE a \in ids : Cardinality(above(a)) = n - 1]
  BY DEF Descending
<1>8. ASSUME NEW n \in 1..size
      PROVE  s[n] \in ids /\ rank[s[n]] = n
  <2>1. PICK a \in ids : rank[a] = n
    BY <1>6
  <2>2. Cardinality(above(a)) = n - 1
    BY <1>1, <1>2, <2>1
  <2>3. s[n] = CHOOSE b \in ids : Cardinality(above(b)) = n - 1
    BY <1>7
  <2>4. s[n] \in ids /\ Cardinality(above(s[n])) = n - 1
    <3> HIDE DEF above, s
    <3> QED
      BY <2>2, <2>3
  <2> QED
    BY <2>4
<1> HIDE DEF s
<1>9. s \in Seq(ids) /\ DOMAIN s = 1..size
  <2>1. s \in [1..size -> ids]
    BY <1>7, <1>8
  <2> QED
    BY <1>1, <2>1
<1>10. \A i, j \in DOMAIN s : i < j => s[i] > s[j]
  <2> SUFFICES ASSUME NEW i \in DOMAIN s, NEW j \in DOMAIN s, i < j PROVE s[i] > s[j]
    OBVIOUS
  <2>1. s[i] \in ids /\ s[j] \in ids /\ rank[s[i]] = i /\ rank[s[j]] = j
    BY <1>8, <1>9
  <2>2. ~(s[i] < s[j]) /\ s[i] # s[j] /\ s[i] \in Nat /\ s[j] \in Nat
    <3>1. s[i] \in Nat /\ s[j] \in Nat
      BY <1>0, <2>1
    <3>2. i \in Nat /\ j \in Nat
      BY <1>1, <1>9
    <3>3. s[i] # s[j]
      BY <2>1, <3>2
    <3>4. ~(s[i] < s[j])
      <4> HIDE DEF rank
      <4> SUFFICES ASSUME s[i] < s[j] PROVE FALSE
        OBVIOUS
      <4>1. rank[s[j]] < rank[s[i]]
        BY <1>3, <2>1
      <4> QED
        BY <2>1, <3>2, <4>1
    <3> QED
      BY <3>1, <3>3, <3>4
  <2> QED
    BY <2>2
<1>11. \A a \in ids : \E i \in DOMAIN s : s[i] = a
  <2> TAKE a \in ids
  <2>1. rank[a] \in 1..size
    BY <1>4 DEF Injection
  <2>2. s[rank[a]] \in ids /\ rank[s[rank[a]]] = rank[a]
    BY <1>8, <2>1
  <2>3. s[rank[a]] = a
    BY <1>4, <2>2 DEF Injection, IsInjective
  <2> QED
    BY <1>9, <2>1, <2>3
<1> QED
  BY <1>9, <1>10, <1>11 DEF Descends, s

-----------------------------------------------------------------------------
(* What a search finds, and what the files hold.                           *)

LEMMA UpToIs ==
  ASSUME NEW versions, NEW k, NEW seq
  PROVE  \A n : n \in UpTo(versions, k, seq) <=>
            \E v \in versions : v[1] = k /\ v[2] <= seq /\ v[2] = n
BY DEF UpTo

\* A search of places finds what a search of everything at once would, if an
\* earlier place that has versions of the key has one that is as new as any
\* in a later place.
LEMMA SearchIs ==
  ASSUME NEW k \in Key, NEW seq \in Nat, NEW all, all \subseteq Version,
         NEW places, NEW n \in Nat, DOMAIN places = 1..n,
         \A i \in 1..n : UpTo(places[i], k, seq) \subseteq UpTo(all, k, seq),
         \A x \in UpTo(all, k, seq) :
            \E i \in 1..n : \E y \in UpTo(places[i], k, seq) : x <= y,
         \A i, j \in 1..n : i < j /\ UpTo(places[i], k, seq) # {} =>
            \A x \in UpTo(places[j], k, seq) :
                \E y \in UpTo(places[i], k, seq) : x <= y
  PROVE  Search(places, k, seq) = Search(<<all>>, k, seq)
<1> DEFINE hits == {i \in 1..n : UpTo(places[i], k, seq) # {}}
           A == UpTo(all, k, seq)
           P(i) == UpTo(places[i], k, seq)
<1>1. A \subseteq 0..seq
  <2> SUFFICES ASSUME NEW x \in A PROVE x \in 0..seq
    OBVIOUS
  <2>1. PICK v \in all : v[2] <= seq /\ v[2] = x
    BY UpToIs
  <2>2. v[2] \in Nat
    BY DEF Version
  <2> QED
    BY <2>1, <2>2
<1>2. \A x \in A : x \in Nat
  BY <1>1
<1>3. Search(<<all>>, k, seq) = IF A = {} THEN 0 ELSE Max(A)
  <2> DEFINE one == {i \in DOMAIN <<all>> : UpTo(<<all>>[i], k, seq) # {}}
  <2>1. DOMAIN <<all>> = {1} /\ <<all>>[1] = all
    OBVIOUS
  <2>2. one = IF A = {} THEN {} ELSE {1}
    BY <2>1
  <2>3. A # {} => Min(one) = 1
    <3> SUFFICES ASSUME A # {} PROVE Min(one) = 1
      OBVIOUS
    <3>1. one = {1}
      BY <2>2
    <3> HIDE DEF one
    <3>2. one \subseteq Nat /\ one # {}
      BY <3>1
    <3>3. Min(one) \in one
      BY <3>2, MinIs
    <3> QED
      BY <3>1, <3>3
  <2>4. Search(<<all>>, k, seq)
          = IF one = {} THEN 0 ELSE Max(UpTo(<<all>>[Min(one)], k, seq))
    BY DEF Search
  <2> HIDE DEF one, A
  <2>5. CASE A = {}
    BY <2>2, <2>4, <2>5
  <2>6. CASE A # {}
    <3>1. Min(one) = 1 /\ one # {}
      BY <2>2, <2>3, <2>6
    <3> QED
      BY <2>1, <2>4, <2>6, <3>1 DEF A
  <2> QED
    BY <2>5, <2>6
<1>4. Search(places, k, seq) = IF hits = {} THEN 0 ELSE Max(P(Min(hits)))
  BY DEF Search
<1>5. CASE hits = {}
  <2>1. \A i \in 1..n : P(i) = {}
    BY <1>5
  <2>2. A = {}
    BY <2>1
  <2> HIDE DEF hits, A, P
  <2> QED
    BY <1>3, <1>4, <1>5, <2>2
<1>6. CASE hits # {}
  <2> DEFINE first == Min(hits)
  <2>1. first \in hits /\ \A j \in hits : first <= j
    <3>1. hits \subseteq Nat
      OBVIOUS
    <3> HIDE DEF hits
    <3> QED
      BY <1>6, <3>1, MinIs
  <2> HIDE DEF first
  <2>2. first \in 1..n /\ P(first) # {} /\ P(first) \subseteq A
    BY <2>1
  <2>3. P(first) \subseteq 0..seq
    BY <1>1, <2>2
  <2>4. Max(P(first)) \in P(first) /\ \A x \in P(first) : x <= Max(P(first))
    <3> HIDE DEF P
    <3> QED
      BY <2>2, <2>3, MaxIs
  <2>5. ASSUME NEW x \in A
        PROVE  x <= Max(P(first))
    <3>1. PICK j \in 1..n : \E y \in P(j) : x <= y
      OBVIOUS
    <3>2. PICK y \in P(j) : x <= y
      BY <3>1
    <3>3. j \in hits /\ first <= j
      BY <2>1, <3>2
    <3>4. \E z \in P(first) : y <= z
      <4>1. CASE j = first
        <5>1. y \in P(first) /\ y <= y
          BY <1>2, <2>2, <3>2, <4>1
        <5> QED
          BY <5>1
      <4>2. CASE first < j
        BY <2>2, <3>2, <4>2
      <4> QED
        BY <2>2, <3>3, <4>1, <4>2
    <3>5. PICK z \in P(first) : y <= z
      BY <3>4
    <3>6. z <= Max(P(first))
      BY <2>4, <3>5
    <3>7. y \in A /\ z \in A /\ Max(P(first)) \in A
      BY <2>2, <2>4, <3>2, <3>5
    <3> HIDE DEF P, A
    <3>8. x \in Nat /\ y \in Nat /\ z \in Nat /\ Max(P(first)) \in Nat
      BY <1>2, <3>7
    <3> QED
      BY <3>2, <3>5, <3>6, <3>8
  <2>6. Max(A) = Max(P(first))
    <3>1. Max(P(first)) \in A
      BY <2>2, <2>4
    <3> HIDE DEF P, A
    <3> QED
      BY <1>1, <2>5, <3>1, MaxUnique
  <2>7. A # {}
    BY <2>2
  <2> HIDE DEF hits, A, P
  <2> QED
    BY <1>3, <1>4, <1>6, <2>6, <2>7 DEF first
<1> QED
  BY <1>5, <1>6

\* The newest version of a key in a set of versions.
HeldIn(versions, k) == Max({0} \cup {v[2] : v \in {u \in versions : u[1] = k}})

LEMMA HeldInIs ==
  ASSUME NEW c \in Nat, NEW versions, versions \subseteq Key \X (0..c), NEW k
  PROVE  /\ HeldIn(versions, k) \in 0..c
         /\ \A v \in versions : v[1] = k => v[2] <= HeldIn(versions, k)
         /\ \/ HeldIn(versions, k) = 0
            \/ \E v \in versions : v[1] = k /\ v[2] = HeldIn(versions, k)
<1> DEFINE T == {0} \cup {v[2] : v \in {u \in versions : u[1] = k}}
<1>1. T \subseteq 0..c /\ T # {}
  OBVIOUS
<1>2. \A x : x \in T <=> x = 0 \/ \E v \in versions : v[1] = k /\ v[2] = x
  OBVIOUS
<1>3. HeldIn(versions, k) = Max(T)
  BY DEF HeldIn
<1> HIDE DEF T
<1>4. Max(T) \in T /\ \A n \in T : n <= Max(T)
  BY <1>1, MaxIs
<1> QED
  BY <1>1, <1>2, <1>3, <1>4

\* Versions that are not newer than others that stay, change nothing.
LEMMA HeldInSame ==
  ASSUME NEW c \in Nat, NEW X, X \subseteq Key \X (0..c),
         NEW Y, Y \subseteq Key \X (0..c), NEW k,
         \A v \in X : \E w \in Y : w[1] = v[1] /\ v[2] <= w[2],
         \A v \in Y : \E w \in X : w[1] = v[1] /\ v[2] <= w[2]
  PROVE  HeldIn(X, k) = HeldIn(Y, k)
<1>1. /\ HeldIn(X, k) \in 0..c
      /\ \A v \in X : v[1] = k => v[2] <= HeldIn(X, k)
      /\ HeldIn(X, k) = 0 \/ \E v \in X : v[1] = k /\ v[2] = HeldIn(X, k)
  BY HeldInIs
<1>2. /\ HeldIn(Y, k) \in 0..c
      /\ \A v \in Y : v[1] = k => v[2] <= HeldIn(Y, k)
      /\ HeldIn(Y, k) = 0 \/ \E v \in Y : v[1] = k /\ v[2] = HeldIn(Y, k)
  BY HeldInIs
<1>3. \A v \in X \cup Y : v[2] \in Nat
  OBVIOUS
<1>4. HeldIn(X, k) <= HeldIn(Y, k)
  <2>1. CASE HeldIn(X, k) = 0
    BY <1>2, <2>1
  <2>2. CASE \E v \in X : v[1] = k /\ v[2] = HeldIn(X, k)
    <3>1. PICK v \in X : v[1] = k /\ v[2] = HeldIn(X, k)
      BY <2>2
    <3>2. PICK w \in Y : w[1] = k /\ v[2] <= w[2]
      BY <3>1
    <3>3. w[2] <= HeldIn(Y, k)
      BY <1>2, <3>2
    <3> QED
      BY <1>2, <1>3, <3>1, <3>2, <3>3
  <2> QED
    BY <1>1, <2>1, <2>2
<1>5. HeldIn(Y, k) <= HeldIn(X, k)
  <2>1. CASE HeldIn(Y, k) = 0
    BY <1>1, <2>1
  <2>2. CASE \E v \in Y : v[1] = k /\ v[2] = HeldIn(Y, k)
    <3>1. PICK v \in Y : v[1] = k /\ v[2] = HeldIn(Y, k)
      BY <2>2
    <3>2. PICK w \in X : w[1] = k /\ v[2] <= w[2]
      BY <3>1
    <3>3. w[2] <= HeldIn(X, k)
      BY <1>1, <3>2
    <3> QED
      BY <1>1, <1>3, <3>1, <3>2, <3>3
  <2> QED
    BY <1>2, <2>1, <2>2
<1> QED
  BY <1>1, <1>2, <1>4, <1>5

-----------------------------------------------------------------------------
(* What the invariant says of the disk.                                    *)

LEMMA DiskTypes ==
  ASSUME LogsInv, BoundInv
  PROVE  /\ \A id \in Logs : LogVersions(id) \subseteq Key \X (0..MaxSeq)
         /\ OnDisk \subseteq Key \X (0..MaxSeq)
         /\ \A v : v \in OnDisk <=> \/ \E id \in Logs : v \in LogVersions(id)
                                    \/ \E t \in DOMAIN ss : v \in ss[t]
<1>1. \A id \in Logs : LogVersions(id) \subseteq Key \X (0..MaxSeq)
  BY RestoredLogged DEF BoundInv, LogVersions
<1>2. \A v : v \in OnDisk <=> \/ \E id \in Logs : v \in LogVersions(id)
                              \/ \E t \in DOMAIN ss : v \in ss[t]
  BY DEF OnDisk, Logs, LogVersions
<1>3. \A t \in DOMAIN ss : ss[t] \subseteq Key \X (0..MaxSeq)
  BY DEF BoundInv
<1> QED
  BY <1>1, <1>2, <1>3

\* The invariant types everything.
LEMMA TypesHold ==
  ASSUME IInv
  PROVE  /\ TypeOK
         /\ DOMAIN entries \subseteq Logs
         /\ phase = "up" => mem_table \in Logs
<1>1. DOMAIN wal_files \subseteq Nat /\ DOMAIN ss \subseteq Nat
  BY DEF IInv, BoundInv, Logs
<1>2. wal_files \in [DOMAIN wal_files -> Seq(Records)]
  <2>1. \A id \in DOMAIN wal_files : wal_files[id] \in Seq(Records)
    BY DEF IInv, LogsInv, WellFormed, Logs
  <2>2. wal_files = [id \in DOMAIN wal_files |-> wal_files[id]]
    BY DEF IInv, Typed, Logs
  <2> QED
    BY <2>1, <2>2
<1>3. \A X : X \subseteq Key \X (0..MaxSeq) => X \subseteq Version
  BY RecoveryAssumption DEF Version
<1>4. ss \in [DOMAIN ss -> SUBSET Version]
  <2>1. \A t \in DOMAIN ss : ss[t] \in SUBSET Version
    BY <1>3 DEF IInv, BoundInv
  <2>2. ss = [t \in DOMAIN ss |-> ss[t]]
    BY DEF IInv, Typed
  <2> QED
    BY <2>1, <2>2
<1>5. DOMAIN entries \subseteq Logs /\ (phase = "up" => mem_table \in DOMAIN entries)
  <2>1. CASE phase \in {"down", "failed", "misled"}
    BY <2>1 DEF IInv, MemoryInv, Empty
  <2>2. CASE phase \in {"restored", "loaded", "up"}
    BY <2>2 DEF IInv, MemoryInv
  <2> QED
    BY <2>1, <2>2 DEF IInv, Typed
<1>6. frozen \in Seq(DOMAIN entries)
  <2>1. CASE phase \in {"down", "failed", "misled"}
    <3>1. frozen = <<>>
      BY <2>1 DEF IInv, MemoryInv
    <3> QED
      BY <3>1
  <2>2. CASE phase \in {"restored", "loaded"}
    BY <2>2 DEF IInv, MemoryInv, Descends
  <2>3. CASE phase = "up"
    <3>1. frozen \in Seq(DOMAIN entries \ {mem_table})
      BY <2>3 DEF IInv, MemoryInv, Descends
    <3> QED
      BY <3>1
  <2> QED
    BY <2>1, <2>2, <2>3 DEF IInv, Typed
<1>7. tables \in Seq(DOMAIN ss)
  <2>1. CASE phase \in {"down", "failed", "misled", "restored"}
    <3>1. tables = <<>>
      BY <2>1 DEF IInv, MemoryInv
    <3> QED
      BY <3>1
  <2>2. CASE phase \in {"loaded", "up"}
    BY <2>2 DEF IInv, MemoryInv, Descends
  <2> QED
    BY <2>1, <2>2 DEF IInv, Typed
<1>8. entries \in [DOMAIN entries -> SUBSET Version]
  <2>1. ASSUME NEW id \in DOMAIN entries PROVE entries[id] \in SUBSET Version
    <3>1. LogVersions(id) \subseteq Version
      BY <1>3, <1>5, DiskTypes DEF IInv
    <3>2. Pending(id) \subseteq Version
      BY DEF IInv, Typed, Pending
    <3>3. CASE phase \in {"down", "failed", "misled"}
      BY <3>3 DEF IInv, MemoryInv, Empty
    <3>4. CASE phase \in {"restored", "loaded"}
      BY <3>1, <3>4 DEF IInv, MemoryInv
    <3>5. CASE phase = "up"
      BY <3>1, <3>2, <3>5 DEF IInv, MemoryInv
    <3> QED
      BY <3>3, <3>4, <3>5 DEF IInv, Typed
  <2>2. entries = [id \in DOMAIN entries |-> entries[id]]
    BY DEF IInv, Typed
  <2> QED
    BY <2>1, <2>2
<1>9. DOMAIN wal_files \cup DOMAIN ss \cup stray \subseteq Nat
  BY <1>1 DEF IInv, Typed
<1> QED
  BY <1>2, <1>4, <1>5, <1>6, <1>7, <1>8, <1>9 DEF IInv, Typed, TypeOK, Logs

LEMMA HeldIs ==
  ASSUME NEW k \in Key
  PROVE  Held[k] = HeldIn(OnDisk, k)
BY DEF Held, HeldIn

\* The places of a search.
LEMMA PlacesAre ==
  ASSUME TypeOK, MemoryInv, phase = "up"
  PROVE  LET f == Len(frozen)
             t == Len(tables)
         IN  /\ f \in Nat /\ t \in Nat
             /\ DOMAIN frozen = 1..f /\ DOMAIN tables = 1..t
             /\ DOMAIN Places = 1..(1 + f + t)
             /\ Places[1] = entries[mem_table]
             /\ \A i \in 1..f : Places[1 + i] = entries[frozen[i]]
             /\ \A i \in 1..t : Places[1 + f + i] = ss[tables[i]]
<1> DEFINE f == Len(frozen)
           t == Len(tables)
           A == <<entries[mem_table]>>
           B == [i \in DOMAIN frozen |-> entries[frozen[i]]]
           C == [i \in DOMAIN tables |-> ss[tables[i]]]
           S == SUBSET Version
<1>1. frozen \in Seq(DOMAIN entries) /\ tables \in Seq(DOMAIN ss)
  BY DEF TypeOK
<1>2. f \in Nat /\ t \in Nat /\ DOMAIN frozen = 1..f /\ DOMAIN tables = 1..t
  BY <1>1, LenProperties
<1>3. A \in Seq(S) /\ Len(A) = 1 /\ A[1] = entries[mem_table]
  BY DEF TypeOK, MemoryInv
<1>4. B \in Seq(S) /\ Len(B) = f
  <2>1. \A i \in 1..f : frozen[i] \in DOMAIN entries /\ entries[frozen[i]] \in S
    BY <1>1, <1>2 DEF TypeOK
  <2>2. B \in [1..f -> S]
    BY <1>2, <2>1
  <2> QED
    BY <1>2, <2>2
<1>5. C \in Seq(S) /\ Len(C) = t
  <2>1. \A i \in 1..t : tables[i] \in DOMAIN ss /\ ss[tables[i]] \in S
    BY <1>1, <1>2 DEF TypeOK
  <2>2. C \in [1..t -> S]
    BY <1>2, <2>1
  <2> QED
    BY <1>2, <2>2
<1>6. /\ \A i \in 1..f : B[i] = entries[frozen[i]]
      /\ \A i \in 1..t : C[i] = ss[tables[i]]
  BY <1>2
<1>7. Places = (A \o B) \o C
  BY DEF Places
<1> HIDE DEF A, B, C, S, f, t
<1>8. /\ Places \in Seq(S) /\ Len(Places) = 1 + f + t
      /\ \A i \in 1..1 : Places[i] = A[i]
      /\ \A i \in 1..f : Places[1 + i] = B[i]
      /\ \A i \in 1..t : Places[1 + f + i] = C[i]
  <2>1. A \in Seq(S) /\ B \in Seq(S) /\ C \in Seq(S)
    BY <1>3, <1>4, <1>5
  <2>2. Places \in Seq(S) /\ Len(Places) = Len(A) + Len(B) + Len(C)
    BY <1>7, <2>1, JoinedThree
  <2>3. \A i \in 1..Len(A) : Places[i] = A[i]
    BY <1>7, <2>1, JoinedThree
  <2>4. \A i \in 1..Len(B) : Places[Len(A) + i] = B[i]
    BY <1>7, <2>1, JoinedThree
  <2>5. \A i \in 1..Len(C) : Places[Len(A) + Len(B) + i] = C[i]
    BY <1>7, <2>1, JoinedThree
  <2> QED
    BY <1>3, <1>4, <1>5, <2>2, <2>3, <2>4, <2>5
<1>9. DOMAIN Places = 1..(1 + f + t)
  BY <1>8, LenProperties
<1> QED
  BY <1>2, <1>3, <1>6, <1>8, <1>9 DEF f, t

-----------------------------------------------------------------------------
(* Reads of a reopened database.                                           *)

\* Nothing was read from a log without records.
LEMMA NothingRestored == Restored(<<>>) = {}
BY DEF Restored

LEMMA SearchIsExact ==
  ASSUME IInv
  PROVE  ReadsExact
<1> SUFFICES ASSUME phase = "up", NEW k \in Key
             PROVE  Search(Places, k, visible) = Search(<<OnDisk>>, k, visible)
  BY DEF ReadsExact
<1> USE DEF IInv
<1>0. TypeOK
  BY TypesHold
<1> DEFINE f == Len(frozen)
           t == Len(tables)
           log(i) == IF i = 1 THEN mem_table ELSE frozen[i - 1]
           V(i) == UpTo(Places[i], k, visible)
           A == UpTo(OnDisk, k, visible)
<1>1. /\ f \in Nat /\ t \in Nat
      /\ DOMAIN frozen = 1..f /\ DOMAIN tables = 1..t
      /\ DOMAIN Places = 1..(1 + f + t)
      /\ Places[1] = entries[mem_table]
      /\ \A i \in 1..f : Places[1 + i] = entries[frozen[i]]
      /\ \A i \in 1..t : Places[1 + f + i] = ss[tables[i]]
  BY <1>0, PlacesAre
<1>2. /\ visible \in Nat
      /\ DOMAIN entries \subseteq Logs /\ mem_table \in DOMAIN entries
      /\ Logs \subseteq Nat /\ DOMAIN ss \subseteq Nat
  BY <1>0 DEF TypeOK, MemoryInv, Logs
<1>3. /\ \A v \in OnDisk : v[2] \in Nat
      /\ OnDisk \subseteq Version
      /\ \A v : v \in OnDisk <=> \/ \E id \in Logs : v \in LogVersions(id)
                                 \/ \E s \in DOMAIN ss : v \in ss[s]
  <2>1. OnDisk \subseteq Key \X (0..MaxSeq)
    BY DiskTypes
  <2>2. MaxSeq \in Nat
    BY RecoveryAssumption
  <2> QED
    BY <2>1, <2>2, DiskTypes DEF Version
<1>4. ASSUME NEW id \in DOMAIN entries
      PROVE  UpTo(entries[id], k, visible) = UpTo(LogVersions(id), k, visible)
  <2>1. entries[id] = LogVersions(id) \cup Pending(id)
    BY DEF MemoryInv
  <2>2. ASSUME NEW v \in Pending(id) PROVE ~(v[2] <= visible)
    <3>1. step = "commit" /\ v \in cur.ops
      BY <2>2 DEF Pending
    <3>2. PICK keys \in (SUBSET Key) \ {{}} : cur.ops = keys \X {next_seq - 1}
      BY <3>1 DEF CommitInv
    <3>3. v[2] = next_seq - 1 /\ visible < next_seq - 1 /\ next_seq \in Nat
      BY <1>0, <3>1, <3>2 DEF CommitInv, TypeOK
    <3> QED
      BY <1>2, <3>3
  <2>3. \A v : v[2] <= visible => (v \in entries[id] <=> v \in LogVersions(id))
    BY <2>1, <2>2
  <2> HIDE DEF IInv
  <2> QED
    BY <2>3 DEF UpTo
<1>5. /\ \A a \in DOMAIN entries \ {mem_table} : \E i \in 1..f : frozen[i] = a
      /\ \A i \in 1..f : frozen[i] \in DOMAIN entries \ {mem_table}
      /\ \A i, j \in 1..f : i < j => frozen[i] > frozen[j]
      /\ \A i \in 1..f : frozen[i] < mem_table
  <2>1. Descends(frozen, DOMAIN entries \ {mem_table})
    BY DEF MemoryInv
  <2>2. \A i \in 1..f : frozen[i] \in DOMAIN entries \ {mem_table}
    BY <2>1, DescendsIs
  <2>3. \A i \in 1..f : frozen[i] \in Nat /\ mem_table \in Nat /\ frozen[i] <= mem_table
    BY <1>2, <2>2 DEF MemoryInv
  <2>4. \A i \in 1..f : frozen[i] < mem_table
    BY <2>2, <2>3
  <2> QED
    BY <2>1, <2>2, <2>4, DescendsIs
<1>6. /\ \A a \in DOMAIN ss : \E i \in 1..t : tables[i] = a
      /\ \A i \in 1..t : tables[i] \in DOMAIN ss
      /\ \A i, j \in 1..t : i < j => tables[i] > tables[j]
  <2>1. Descends(tables, DOMAIN ss)
    BY DEF MemoryInv
  <2> QED
    BY <2>1, DescendsIs
<1>7. ASSUME NEW i \in 1..(1 + f)
      PROVE  log(i) \in DOMAIN entries /\ V(i) = UpTo(LogVersions(log(i)), k, visible)
  <2>1. CASE i = 1
    BY <1>1, <1>2, <1>4, <2>1
  <2>2. CASE i # 1
    <3>1. i - 1 \in 1..f /\ 1 + (i - 1) = i
      BY <1>1, <2>2
    <3>2. Places[i] = entries[frozen[i - 1]] /\ frozen[i - 1] \in DOMAIN entries
      BY <1>1, <1>5, <3>1
    <3> QED
      BY <1>4, <2>2, <3>2
  <2> QED
    BY <2>1, <2>2
<1>8. ASSUME NEW i \in 1..(1 + f + t), ~(i <= 1 + f)
      PROVE  /\ i - (1 + f) \in 1..t
             /\ V(i) = UpTo(ss[tables[i - (1 + f)]], k, visible)
  <2>1. i - (1 + f) \in 1..t /\ 1 + f + (i - (1 + f)) = i
    BY <1>1, <1>8
  <2> QED
    BY <1>1, <2>1
<1>9. ASSUME NEW i \in 1..(1 + f + t)
      PROVE  V(i) \subseteq A
  <2>1. CASE i <= 1 + f
    <3>1. i \in 1..(1 + f)
      BY <1>1, <2>1
    <3>2. V(i) = UpTo(LogVersions(log(i)), k, visible) /\ log(i) \in Logs
      BY <1>2, <1>7, <3>1
    <3>3. LogVersions(log(i)) \subseteq OnDisk
      BY <1>3, <3>2
    <3> HIDE DEF log
    <3> QED
      BY <3>2, <3>3 DEF UpTo
  <2>2. CASE ~(i <= 1 + f)
    <3> DEFINE s == tables[i - (1 + f)]
    <3>1. V(i) = UpTo(ss[s], k, visible) /\ s \in DOMAIN ss
      BY <1>6, <1>8, <2>2
    <3>2. ss[s] \subseteq OnDisk
      BY <1>3, <3>1
    <3> HIDE DEF s
    <3> QED
      BY <3>1, <3>2 DEF UpTo
  <2> QED
    BY <2>1, <2>2
<1>10. ASSUME NEW s \in DOMAIN ss, NEW v \in ss[s], v[1] = k, v[2] <= visible
       PROVE  \E i \in 1..(1 + f + t) : v[2] \in V(i)
  <2>1. PICK i \in 1..t : tables[i] = s
    BY <1>6
  <2>2. 1 + f + i \in 1..(1 + f + t)
    BY <1>1
  <2>3. v[2] \in V(1 + f + i)
    BY <1>1, <1>10, <2>1, UpToIs
  <2> QED
    BY <2>2, <2>3
<1>11. ASSUME NEW x \in A
       PROVE  \E i \in 1..(1 + f + t) : \E y \in V(i) : x <= y
  <2>1. PICK v \in OnDisk : v[1] = k /\ v[2] <= visible /\ v[2] = x
    BY UpToIs
  <2>2. x \in Nat
    BY <1>3, <2>1
  <2>3. CASE \E s \in DOMAIN ss : v \in ss[s]
    BY <1>10, <2>1, <2>2, <2>3
  <2>4. CASE \E id \in Logs : v \in LogVersions(id)
    <3>1. PICK id \in Logs : v \in LogVersions(id)
      BY <2>4
    <3>2. CASE id = mem_table
      <4>1. 1 \in 1..(1 + f) /\ 1 \in 1..(1 + f + t) /\ log(1) = mem_table
        BY <1>1
      <4>2. x \in V(1)
        BY <1>7, <2>1, <3>1, <3>2, <4>1, UpToIs
      <4> QED
        BY <2>2, <4>1, <4>2
    <3>3. CASE id \in DOMAIN entries /\ id # mem_table
      <4>1. PICK i \in 1..f : frozen[i] = id
        BY <1>5, <3>3
      <4>2. 1 + i \in 1..(1 + f) /\ 1 + i \in 1..(1 + f + t) /\ log(1 + i) = id
        BY <1>1, <4>1
      <4>3. x \in V(1 + i)
        BY <1>7, <2>1, <3>1, <4>2, UpToIs
      <4> QED
        BY <2>2, <4>2, <4>3
    <3>4. CASE freezing /\ id = wal_id - 1
      BY <3>1, <3>4, NothingRestored DEF MemoryInv, LogVersions
    <3>5. CASE flushing = "remove" /\ id = victim
      <4>1. Tabled(LogVersions(id))
        BY <3>5 DEF FlushInv
      <4>2. PICK s \in DOMAIN ss : \E w \in ss[s] : w[1] = k /\ w[2] >= x
        BY <2>1, <3>1, <4>1 DEF Tabled
      <4>3. PICK w \in ss[s] : w[1] = k /\ w[2] >= x
        BY <4>2
      <4>4. w[2] <= visible
        BY <4>3 DEF CounterInv
      <4>5. w[2] \in Nat
        BY <1>3, <4>3
      <4>6. x <= w[2]
        BY <2>2, <4>3, <4>5
      <4> QED
        BY <1>10, <4>3, <4>4, <4>6
    <3> QED
      BY <3>2, <3>3, <3>4, <3>5 DEF MemoryInv
  <2> QED
    BY <1>3, <2>3, <2>4
<1>12. ASSUME NEW i \in 1..(1 + f + t), NEW j \in 1..(1 + f + t), i < j,
              V(i) # {}, NEW x \in V(j)
       PROVE  \E y \in V(i) : x <= y
  <2>1. PICK y \in V(i) : TRUE
    BY <1>12
  <2>2. x \in Nat /\ y \in Nat
    <3>1. x \in A /\ y \in A
      BY <1>9
    <3> QED
      BY <1>3, <3>1, UpToIs
  <2>3. CASE j <= 1 + f
    <3>1. i \in 1..(1 + f) /\ j \in 1..(1 + f)
      BY <1>1, <1>12, <2>3
    <3>2. log(j) \in Logs /\ log(i) \in Logs
      BY <1>2, <1>7, <3>1
    <3>3. log(j) < log(i)
      <4>1. j # 1 /\ j - 1 \in 1..f
        BY <1>1, <1>12, <3>1
      <4>2. CASE i = 1
        BY <1>5, <4>1, <4>2
      <4>3. CASE i # 1
        <5>1. i - 1 \in 1..f /\ i - 1 < j - 1
          BY <1>1, <1>12, <3>1, <4>3
        <5>2. frozen[i - 1] > frozen[j - 1]
          BY <1>5, <4>1, <5>1
        <5>3. frozen[i - 1] \in Nat /\ frozen[j - 1] \in Nat
          BY <1>2, <1>5, <4>1, <5>1
        <5> QED
          BY <4>1, <4>3, <5>2, <5>3
      <4> QED
        BY <4>2, <4>3
    <3> DEFINE a == log(j)
               b == log(i)
    <3>4. x \in UpTo(LogVersions(a), k, visible) /\ y \in UpTo(LogVersions(b), k, visible)
      BY <1>7, <3>1
    <3> HIDE DEF log, V, a, b
    <3>5. PICK u \in LogVersions(a) : u[2] = x
      BY <3>4, UpToIs
    <3>6. PICK v \in LogVersions(b) : v[2] = y
      BY <3>4, UpToIs
    <3>7. u[2] < v[2]
      BY <3>2, <3>3, <3>5, <3>6 DEF OrderInv, a, b
    <3> QED
      BY <2>1, <2>2, <3>5, <3>6, <3>7
  <2>4. CASE i <= 1 + f /\ ~(j <= 1 + f)
    <3>1. i \in 1..(1 + f)
      BY <1>1, <2>4
    <3> DEFINE a == log(i)
               s == tables[j - (1 + f)]
    <3>2. a \in Logs /\ V(i) = UpTo(LogVersions(a), k, visible)
      BY <1>2, <1>7, <3>1
    <3>3. s \in DOMAIN ss /\ V(j) = UpTo(ss[s], k, visible)
      BY <1>6, <1>8, <2>4
    <3> HIDE DEF log, V, a, s
    <3>4. PICK u \in ss[s] : u[1] = k /\ u[2] <= visible /\ u[2] = x
      BY <3>3, UpToIs
    <3>5. PICK v \in LogVersions(a) : v[1] = k /\ v[2] <= visible /\ v[2] = y
      BY <2>1, <3>2, UpToIs
    <3>6. u[2] <= v[2] \/ u \in LogVersions(a)
      BY <3>2, <3>3, <3>4, <3>5 DEF OrderInv
    <3>7. CASE u[2] <= v[2]
      BY <2>1, <3>4, <3>5, <3>7
    <3>8. CASE u \in LogVersions(a)
      <4>1. x \in V(i)
        BY <3>2, <3>4, <3>8, UpToIs
      <4> QED
        BY <2>2, <4>1
    <3> QED
      BY <3>6, <3>7, <3>8
  <2>5. CASE ~(i <= 1 + f)
    <3>1. ~(j <= 1 + f)
      BY <1>1, <1>12, <2>5
    <3> DEFINE r == tables[i - (1 + f)]
               s == tables[j - (1 + f)]
    <3>2. /\ r \in DOMAIN ss /\ V(i) = UpTo(ss[r], k, visible)
          /\ s \in DOMAIN ss /\ V(j) = UpTo(ss[s], k, visible)
      BY <1>6, <1>8, <2>5, <3>1
    <3>3. s < r
      <4>1. i - (1 + f) \in 1..t /\ j - (1 + f) \in 1..t
        BY <1>8, <2>5, <3>1
      <4>2. i - (1 + f) < j - (1 + f)
        BY <1>1, <1>12
      <4>3. r > s
        BY <1>6, <4>1, <4>2
      <4>4. r \in Nat /\ s \in Nat
        BY <1>2, <3>2
      <4> QED
        BY <4>3, <4>4
    <3> HIDE DEF V, r, s
    <3>4. PICK u \in ss[s] : u[1] = k /\ u[2] = x
      BY <3>2, UpToIs
    <3>5. PICK v \in ss[r] : v[1] = k /\ v[2] = y
      BY <2>1, <3>2, UpToIs
    <3>6. u[2] <= v[2]
      BY <3>2, <3>3, <3>4, <3>5 DEF OrderInv
    <3> QED
      BY <2>1, <3>4, <3>5, <3>6
  <2> QED
    BY <2>3, <2>4, <2>5
<1> HIDE DEF IInv
<1>13. \A i, j \in 1..(1 + f + t) : i < j /\ V(i) # {} =>
          \A x \in V(j) : \E y \in V(i) : x <= y
  BY <1>12
<1> DEFINE n == 1 + f + t
<1>14. n \in Nat /\ DOMAIN Places = 1..n
  BY <1>1
<1> HIDE DEF f, t, log, n
<1>15. /\ \A i \in 1..n : V(i) \subseteq A
       /\ \A x \in A : \E i \in 1..n : \E y \in V(i) : x <= y
       /\ \A i, j \in 1..n : i < j /\ V(i) # {} =>
            \A x \in V(j) : \E y \in V(i) : x <= y
  BY <1>9, <1>11, <1>13 DEF n
<1> QED
  BY <1>2, <1>3, <1>14, <1>15, SearchIs

-----------------------------------------------------------------------------
(* What a step does to the disk.                                           *)

\* The log after an append.
LEMMA AppendedIs ==
  ASSUME Typed, LogsInv, mem_table \in Logs,
         NEW r, CanFollow(r, wal_files[mem_table])
  PROVE  /\ DOMAIN Appended(r) = Logs
         /\ Appended(r) = [id \in Logs |-> Appended(r)[id]]
         /\ \A id \in Logs : id # mem_table => Appended(r)[id] = wal_files[id]
         /\ Grown(Appended(r)[mem_table], wal_files[mem_table], r)
<1> DEFINE log == wal_files[mem_table]
           remains == IF unflushed THEN <<Torn>> ELSE <<>>
           new == log \o remains \o <<r>>
<1>1. WellFormed(log) /\ log \in Seq(Records)
  BY LogTypes DEF LogsInv
<1>2. Appended(r) = [wal_files EXCEPT ![mem_table] = new]
  BY DEF Appended
<1>3. Appended(r) = [id \in Logs |-> IF id = mem_table THEN new ELSE wal_files[id]]
  <2> HIDE DEF new
  <2> QED
    BY <1>2 DEF Typed, Logs
<1>4. Grown(new, log, r)
  <2>1. CASE ~unflushed
    <3>1. new = log \o <<r>>
      BY <1>1, <2>1, ConcatEmptySeq
    <3> HIDE DEF new
    <3> QED
      BY <1>1, <3>1, Extended
  <2>2. CASE unflushed
    <3> DEFINE mid == log \o <<Torn>>
    <3>1. CanFollow(Torn, log)
      BY DEF CanFollow
    <3>2. Grown(mid, log, Torn)
      BY <1>1, <3>1, Extended
    <3>3. new = mid \o <<r>>
      BY <2>2
    <3> HIDE DEF mid, new
    <3>4. /\ WellFormed(mid)
          /\ Begins(mid) = Begins(log) /\ Commits(mid) = Commits(log)
          /\ \A tx : BatchOps(mid, tx) = BatchOps(log, tx)
          /\ Logged(mid) = Logged(log)
      <4>1. Torn.cmd = "torn" /\ Torn.ops = {}
        BY DEF Torn, Record
      <4> QED
        BY <3>2, <4>1 DEF Grown
    <3>5. CanFollow(r, mid)
      BY <3>4 DEF CanFollow
    <3>6. Grown(new, mid, r)
      BY <3>3, <3>4, <3>5, Extended
    <3> QED
      BY <3>4, <3>6 DEF Grown
  <2> QED
    BY <2>1, <2>2
<1> HIDE DEF new
<1> QED
  BY <1>3, <1>4

\* Before its commit is recorded a transaction restores nothing.
LEMMA GrownSame ==
  ASSUME NEW log, WellFormed(log), NEW r, CanFollow(r, log), NEW new,
         Grown(new, log, r), r.cmd # "TxCommit"
  PROVE  Restored(new) = Restored(log)
<1>1. Commits(new) = Commits(log)
  BY DEF Grown
<1>2. ASSUME NEW tx \in Commits(log) PROVE BatchOps(new, tx) = BatchOps(log, tx)
  <2>1. ~(r.cmd = "Batch" /\ r.tx = tx)
    <3> SUFFICES ASSUME r.cmd = "Batch" PROVE r.tx \notin Commits(log)
      OBVIOUS
    <3> QED
      BY DEF CanFollow, Torn, TxBegin, Batch, TxCommit, Record
  <2> QED
    BY <2>1 DEF Grown
<1>3. \A v : v \in Restored(log) <=>
            \E tx \in Commits(log) : \E ops \in BatchOps(log, tx) : v \in ops
  BY RestoredIs
<1>4. \A v : v \in Restored(new) <=>
            \E tx \in Commits(new) : \E ops \in BatchOps(new, tx) : v \in ops
  BY RestoredIs DEF Grown
<1> QED
  BY <1>1, <1>2, <1>3, <1>4

\* After it, its versions.
LEMMA GrownCommit ==
  ASSUME NEW log, WellFormed(log), NEW tx, NEW new, Grown(new, log, TxCommit(tx)),
         NEW ops, BatchOps(log, tx) = {ops}
  PROVE  Restored(new) = Restored(log) \cup ops
<1>1. TxCommit(tx).cmd = "TxCommit" /\ TxCommit(tx).tx = tx
  BY DEF TxCommit, Record
<1>2. Commits(new) = Commits(log) \cup {tx} /\ \A t : BatchOps(new, t) = BatchOps(log, t)
  BY <1>1 DEF Grown
<1>3. \A v : v \in Restored(log) <=>
            \E t \in Commits(log) : \E o \in BatchOps(log, t) : v \in o
  BY RestoredIs
<1>4. \A v : v \in Restored(new) <=>
            \E t \in Commits(new) : \E o \in BatchOps(new, t) : v \in o
  BY RestoredIs DEF Grown
<1> QED
  BY <1>2, <1>3, <1>4

\* Logs that go, or come without versions, leave the order.
LEMMA OrderKept ==
  ASSUME OrderInv, ss' = ss,
         \A id \in Logs' :
            \/ LogVersions(id)' = {}
            \/ id \in Logs /\ LogVersions(id)' = LogVersions(id)
  PROVE  OrderInv'
<1>1. \A a, b \in Logs' : a < b =>
        \A u \in LogVersions(a)', v \in LogVersions(b)' : u[2] < v[2]
  BY DEF OrderInv
<1>2. \A s, t \in DOMAIN ss' : s < t =>
        \A u \in ss'[s], v \in ss'[t] : u[1] = v[1] => u[2] <= v[2]
  BY DEF OrderInv
<1>3. \A t \in DOMAIN ss', a \in Logs' :
        \A u \in ss'[t], v \in LogVersions(a)' :
            u[1] = v[1] => u[2] <= v[2] \/ u \in LogVersions(a)'
  BY DEF OrderInv
<1> QED
  BY <1>1, <1>2, <1>3 DEF OrderInv

\* A step that leaves the logs and the tables.
LEMMA DiskSame ==
  ASSUME LogsInv, BoundInv, OrderInv, wal_files' = wal_files, ss' = ss
  PROVE  /\ Logs' = Logs /\ \A id \in Logs : LogVersions(id)' = LogVersions(id)
         /\ LogsInv' /\ BoundInv' /\ OrderInv'
         /\ OnDisk' = OnDisk /\ Held' = Held
<1>1. Logs' = Logs /\ \A id \in Logs : LogVersions(id)' = LogVersions(id)
  BY DEF Logs, LogVersions
<1>2. OnDisk' = OnDisk
  BY DEF OnDisk
<1>3. LogsInv' /\ BoundInv'
  BY DEF LogsInv, BoundInv, Logs
<1>4. OrderInv'
  BY <1>1, OrderKept
<1> QED
  BY <1>1, <1>2, <1>3, <1>4 DEF Held

\* A step that appends anything but a TxCommit.
LEMMA DiskGrown ==
  ASSUME Typed, LogsInv, BoundInv, OrderInv, mem_table \in Logs, ss' = ss,
         NEW r, CanFollow(r, wal_files[mem_table]), wal_files' = Appended(r),
         r.cmd # "TxCommit", r.tx \in Nat, r.ops \subseteq Key \X (0..MaxSeq)
  PROVE  /\ Logs' = Logs /\ wal_files' = [id \in Logs |-> wal_files'[id]]
         /\ \A id \in Logs : LogVersions(id)' = LogVersions(id)
         /\ \A id \in Logs : id # mem_table => wal_files'[id] = wal_files[id]
         /\ Grown(wal_files'[mem_table], wal_files[mem_table], r)
         /\ LogsInv' /\ BoundInv' /\ OrderInv'
         /\ OnDisk' = OnDisk /\ Held' = Held
<1>1. /\ Logs' = Logs /\ wal_files' = [id \in Logs |-> wal_files'[id]]
      /\ \A id \in Logs : id # mem_table => wal_files'[id] = wal_files[id]
      /\ Grown(wal_files'[mem_table], wal_files[mem_table], r)
  BY AppendedIs DEF Logs
<1>2. WellFormed(wal_files[mem_table])
  BY DEF LogsInv
<1>3. \A id \in Logs : LogVersions(id)' = LogVersions(id)
  <2>1. Restored(wal_files'[mem_table]) = Restored(wal_files[mem_table])
    BY <1>1, <1>2, GrownSame
  <2> QED
    BY <1>1, <2>1 DEF LogVersions
<1>4. LogsInv'
  <2>1. \A id \in Logs : WellFormed(wal_files'[id])
    BY <1>1 DEF LogsInv, Grown
  <2> QED
    BY <1>1, <2>1 DEF LogsInv
<1>5. BoundInv'
  <2>1. PICK c \in Nat :
          /\ Logs \subseteq 0..c /\ DOMAIN ss \subseteq 0..c
          /\ \A id \in Logs : Begins(wal_files[id]) \subseteq 0..c
    BY DEF BoundInv
  <2> DEFINE d == c + r.tx
  <2>2. d \in Nat /\ 0..c \subseteq 0..d /\ r.tx \in 0..d
    OBVIOUS
  <2> HIDE DEF d
  <2>3. \A id \in Logs : Begins(wal_files'[id]) \subseteq 0..d
    <3>1. Begins(wal_files'[mem_table]) \subseteq 0..d
      <4>1. Begins(wal_files'[mem_table]) \subseteq Begins(wal_files[mem_table]) \cup {r.tx}
        BY <1>1 DEF Grown
      <4> QED
        BY <2>1, <2>2, <4>1
    <3> QED
      BY <1>1, <2>1, <2>2, <3>1
  <2>4. \A id \in Logs : Logged(wal_files'[id]) \subseteq Key \X (0..MaxSeq)
    <3>1. Logged(wal_files'[mem_table]) \subseteq Key \X (0..MaxSeq)
      <4>1. Logged(wal_files'[mem_table]) = Logged(wal_files[mem_table]) \cup r.ops
        BY <1>1 DEF Grown
      <4> QED
        BY <4>1 DEF BoundInv
    <3> QED
      BY <1>1, <3>1 DEF BoundInv
  <2>5. Logs \subseteq 0..d /\ DOMAIN ss \subseteq 0..d
    BY <2>1, <2>2
  <2> QED
    BY <1>1, <2>2, <2>3, <2>4, <2>5 DEF BoundInv
<1>6. OrderInv'
  BY <1>1, <1>3, OrderKept
<1>7. OnDisk' = OnDisk
  BY <1>1, <1>3 DEF OnDisk, LogVersions, Logs
<1> QED
  BY <1>1, <1>3, <1>4, <1>5, <1>6, <1>7 DEF Held

LEMMA EmptyLog ==
  /\ WellFormed(<<>>) /\ Begins(<<>>) = {} /\ Logged(<<>>) = {}
  /\ Restored(<<>>) = {}
<1>1. WellFormed(<<>>)
  BY DEF WellFormed
<1>2. Begins(<<>>) = {} /\ Logged(<<>>) = {}
  BY DEF Begins, Logged
<1> QED
  BY <1>1, <1>2, NothingRestored

\* A step that makes a log.
LEMMA DiskNewLog ==
  ASSUME Typed, LogsInv, BoundInv, OrderInv, ss' = ss,
         NEW new \in Nat, new \notin Logs, wal_files' = With(wal_files, new, <<>>)
  PROVE  /\ Logs' = Logs \cup {new} /\ wal_files' = [id \in Logs' |-> wal_files'[id]]
         /\ wal_files'[new] = <<>>
         /\ \A id \in Logs : wal_files'[id] = wal_files[id]
         /\ LogVersions(new)' = {}
         /\ \A id \in Logs : LogVersions(id)' = LogVersions(id)
         /\ LogsInv' /\ BoundInv' /\ OrderInv'
         /\ OnDisk' = OnDisk /\ Held' = Held
<1>1. /\ Logs' = Logs \cup {new} /\ wal_files' = [id \in Logs' |-> wal_files'[id]]
      /\ wal_files'[new] = <<>>
      /\ \A id \in Logs : wal_files'[id] = wal_files[id]
  BY DEF With, Logs
<1>2. LogVersions(new)' = {} /\ \A id \in Logs : LogVersions(id)' = LogVersions(id)
  BY <1>1, NothingRestored DEF LogVersions
<1>3. LogsInv'
  BY <1>1, EmptyLog DEF LogsInv
<1>4. BoundInv'
  <2>1. PICK c \in Nat :
          /\ Logs \subseteq 0..c /\ DOMAIN ss \subseteq 0..c
          /\ \A id \in Logs : Begins(wal_files[id]) \subseteq 0..c
    BY DEF BoundInv
  <2> DEFINE d == c + new
  <2>2. d \in Nat /\ 0..c \subseteq 0..d /\ new \in 0..d
    OBVIOUS
  <2> HIDE DEF d
  <2>3. \A id \in Logs' : Begins(wal_files'[id]) \subseteq 0..d
    BY <1>1, <2>1, <2>2, EmptyLog
  <2>4. \A id \in Logs' : Logged(wal_files'[id]) \subseteq Key \X (0..MaxSeq)
    BY <1>1, EmptyLog DEF BoundInv
  <2>5. Logs' \subseteq 0..d /\ DOMAIN ss \subseteq 0..d
    BY <1>1, <2>1, <2>2
  <2> QED
    BY <2>2, <2>3, <2>4, <2>5 DEF BoundInv
<1>5. OrderInv'
  BY <1>1, <1>2, OrderKept
<1>6. OnDisk' = OnDisk
  <2>1. \A v : (\E id \in Logs' : v \in LogVersions(id)')
                  <=> \E id \in Logs : v \in LogVersions(id)
    BY <1>1, <1>2
  <2> QED
    BY <2>1 DEF OnDisk, LogVersions, Logs
<1> QED
  BY <1>1, <1>2, <1>3, <1>4, <1>5, <1>6 DEF Held

-----------------------------------------------------------------------------
(* A process that is not there, or opens the directory.                    *)

\* Without a process only the disk matters.
LEMMA NoProcess ==
  ASSUME phase \in {"down", "failed", "misled"}, Idle,
         entries = Empty, frozen = <<>>, tables = <<>>
  PROVE  MemoryInv /\ CounterInv /\ CommitInv /\ FlushInv
BY DEF MemoryInv, CounterInv, CommitInv, FlushInv

\* What is acknowledged stays on the disk.
LEMMA AckKept ==
  ASSUME AckInv, Held' = Held, acked' = acked,
         phase' = "up" => phase = "up" /\ visible' = visible
  PROVE  AckInv'
BY DEF AckInv

LEMMA InitInv ==
  ASSUME Init
  PROVE  IInv
<1> USE RecoveryAssumption DEF Init
<1>1. Logs = {} /\ DOMAIN ss = {} /\ DOMAIN entries = {}
  BY DEF Empty, Logs
<1>2. Typed
  BY <1>1 DEF Typed, NoCommit, Empty, Logs
<1>3. LogsInv /\ OrderInv
  BY <1>1 DEF LogsInv, OrderInv
<1>4. BoundInv
  BY <1>1 DEF BoundInv
<1>5. MemoryInv /\ CounterInv /\ CommitInv /\ FlushInv
  BY NoProcess DEF Idle
<1>6. AckInv
  <2>1. ASSUME NEW k \in Key PROVE acked[k] <= Held[k]
    <3>1. Held[k] \in 0..MaxSeq
      BY <1>3, <1>4, DiskTypes, HeldIs, HeldInIs
    <3> QED
      BY <3>1
  <2> QED
    BY <2>1 DEF AckInv
<1> QED
  BY <1>2, <1>3, <1>4, <1>5, <1>6 DEF IInv

\* The ways of not opening the directory.
LEMMA RefusedStep ==
  ASSUME IInv, RestoreFails \/ RestoreMisled \/ OpenAgain
  PROVE  IInv' /\ Held' = Held
<1> USE DEF IInv
<1>1. /\ phase \in {"down", "failed"} /\ phase' \in {"down", "failed", "misled"}
      /\ wal_files' = wal_files /\ ss' = ss /\ stray' = stray
      /\ UNCHANGED <<found, stateVars, counterVars, unflushed, taskVars, acked>>
  BY DEF RestoreFails, RestoreMisled, OpenAgain, diskVars
<1>2. Typed'
  BY <1>1 DEF Typed, Logs, stateVars, counterVars, taskVars
<1>3. LogsInv' /\ BoundInv' /\ OrderInv' /\ Held' = Held
  BY <1>1, DiskSame
<1>4. MemoryInv' /\ CounterInv' /\ CommitInv' /\ FlushInv'
  <2>1. Idle' /\ entries' = Empty /\ frozen' = <<>> /\ tables' = <<>>
    BY <1>1 DEF MemoryInv, Idle, stateVars, taskVars
  <2> QED
    BY <1>1, <2>1 DEF MemoryInv, CounterInv, CommitInv, FlushInv
<1>5. AckInv'
  BY <1>1, <1>3, AckKept
<1> QED
  BY <1>2, <1>3, <1>4, <1>5

LEMMA CrashStep ==
  ASSUME IInv, Crash
  PROVE  IInv' /\ Held' = Held
<1> USE DEF IInv
<1>1. /\ phase' = "down" /\ ForgetMemory /\ ss' = ss /\ stray' = stray /\ acked' = acked
      /\ wal_files' = wal_files \/ (Appending /\ wal_files' = Appended(Torn))
  BY DEF Crash
<1>2. /\ Logs' = Logs /\ wal_files' = [id \in Logs |-> wal_files'[id]]
      /\ LogsInv' /\ BoundInv' /\ OrderInv' /\ Held' = Held
  <2>1. CASE wal_files' = wal_files
    BY <1>1, <2>1, DiskSame DEF Typed, Logs
  <2>2. CASE Appending /\ wal_files' = Appended(Torn)
    <3>1. mem_table \in Logs
      BY <2>2, TypesHold DEF Appending
    <3>2. CanFollow(Torn, wal_files[mem_table])
      BY DEF CanFollow
    <3>3. Torn.cmd # "TxCommit" /\ Torn.tx \in Nat /\ Torn.ops \subseteq Key \X (0..MaxSeq)
      BY DEF Torn, Record
    <3> QED
      BY <1>1, <2>2, <3>1, <3>2, <3>3, DiskGrown
  <2> QED
    BY <1>1, <2>1, <2>2
<1>3. Typed'
  <2>1. wal_files' = [id \in Logs' |-> wal_files'[id]]
    BY <1>2
  <2>2. ss' = [t \in DOMAIN ss' |-> ss'[t]] /\ stray' \subseteq Nat /\ acked' \in [Key -> Nat]
    BY <1>1 DEF Typed
  <2>3. entries' = [id \in DOMAIN entries' |-> entries'[id]]
    BY <1>1 DEF ForgetMemory, Empty
  <2>4. cur' \in [tx : Nat, ops : SUBSET Version] /\ found' \in [seq : Nat, tx : Nat]
    BY <1>1 DEF ForgetMemory, NoCommit
  <2>5. /\ phase' = "down" /\ step' = "idle" /\ flushing' = "idle"
        /\ unflushed' = FALSE /\ freezing' = FALSE
    BY <1>1 DEF ForgetMemory
  <2>6. /\ wal_id' \in Nat /\ table_id' \in Nat /\ next_seq' \in Nat
        /\ visible' \in Nat /\ tx_id' \in Nat /\ victim' \in Nat
    BY <1>1 DEF ForgetMemory
  <2> QED
    BY <2>1, <2>2, <2>3, <2>4, <2>5, <2>6 DEF Typed
<1>4. MemoryInv' /\ CounterInv' /\ CommitInv' /\ FlushInv'
  <2>1. Idle' /\ entries' = Empty /\ frozen' = <<>> /\ tables' = <<>>
    BY <1>1 DEF ForgetMemory, Idle
  <2> QED
    BY <1>1, <2>1 DEF MemoryInv, CounterInv, CommitInv, FlushInv
<1>5. AckInv'
  BY <1>1, <1>2, AckKept
<1> QED
  BY <1>2, <1>3, <1>4, <1>5

LEMMA RestoreStep ==
  ASSUME IInv, Restore
  PROVE  IInv' /\ Held' = Held
<1> USE DEF IInv
<1>1. /\ phase = "down" /\ phase' = "restored"
      /\ wal_files' = wal_files /\ ss' = ss /\ stray' = stray
      /\ wal_id' = Largest(Logs) + 1
      /\ frozen' = Descending(Logs)
      /\ entries' = [id \in Logs |-> LogVersions(id)]
      /\ found' = [seq |-> Largest({LargestSeq(wal_files[id]) : id \in Logs}),
                   tx  |-> Largest({LargestTx(wal_files[id]) : id \in Logs})]
      /\ UNCHANGED <<mem_table, tables, table_id, next_seq, visible, tx_id,
                     unflushed, taskVars, acked>>
  BY DEF Restore, diskVars, FirstWalId, Logs, LogVersions
<1>2. /\ Logs' = Logs /\ \A id \in Logs : LogVersions(id)' = LogVersions(id)
      /\ LogsInv' /\ BoundInv' /\ OrderInv' /\ Held' = Held
  BY <1>1, DiskSame
<1>3. PICK c \in Nat : Logs \subseteq 0..c
                       /\ \A id \in Logs : Begins(wal_files[id]) \subseteq 0..c
  BY DEF BoundInv
<1>4. Largest(Logs) \in 0..c /\ \A id \in Logs : id <= Largest(Logs)
  BY <1>3, LargestIs
<1>5. wal_id' \in Nat /\ \A id \in Logs : id < wal_id'
  <2>1. \A id \in Logs : id \in Nat
    BY <1>3
  <2> QED
    BY <1>1, <1>4, <2>1
<1>6. /\ found'.seq \in Nat
      /\ \A id \in Logs : \A v \in Logged(wal_files[id]) : v[2] <= found'.seq
  <2> DEFINE T == {LargestSeq(wal_files[id]) : id \in Logs}
  <2>1. ASSUME NEW id \in Logs
        PROVE  /\ LargestSeq(wal_files[id]) \in 0..MaxSeq
               /\ \A v \in Logged(wal_files[id]) :
                    v[2] \in Nat /\ v[2] <= LargestSeq(wal_files[id])
    <3>1. Logged(wal_files[id]) \subseteq Key \X (0..MaxSeq)
      BY DEF BoundInv
    <3>2. \A v \in Logged(wal_files[id]) : v[2] \in Nat
      BY <3>1
    <3> QED
      BY <3>1, <3>2, LargestSeqIs, RecoveryAssumption
  <2>2. T \subseteq 0..MaxSeq
    BY <2>1
  <2>3. found'.seq = Largest(T)
    BY <1>1
  <2>4. Largest(T) \in 0..MaxSeq /\ \A n \in T : n <= Largest(T)
    <3> HIDE DEF T
    <3> QED
      BY <2>2, LargestIs, RecoveryAssumption
  <2>5. ASSUME NEW id \in Logs, NEW v \in Logged(wal_files[id])
        PROVE  v[2] <= found'.seq
    <3>1. LargestSeq(wal_files[id]) <= found'.seq
      BY <2>3, <2>4
    <3>2. v[2] <= LargestSeq(wal_files[id]) /\ v[2] \in Nat
          /\ LargestSeq(wal_files[id]) \in Nat /\ found'.seq \in Nat
      BY <2>1, <2>3, <2>4
    <3> HIDE DEF T
    <3> QED
      BY <3>1, <3>2
  <2>6. found'.seq \in Nat
    BY <2>3, <2>4
  <2> QED
    BY <2>5, <2>6
<1>7. /\ found'.tx \in Nat
      /\ \A id \in Logs : \A tx \in Begins(wal_files[id]) : tx <= found'.tx
  <2> DEFINE T == {LargestTx(wal_files[id]) : id \in Logs}
  <2>1. ASSUME NEW id \in Logs
        PROVE  /\ LargestTx(wal_files[id]) \in 0..c
               /\ \A tx \in Begins(wal_files[id]) :
                    tx \in Nat /\ tx <= LargestTx(wal_files[id])
    <3>1. Begins(wal_files[id]) \subseteq 0..c
      BY <1>3
    <3>2. \A tx \in Begins(wal_files[id]) : tx \in Nat
      BY <3>1
    <3> QED
      BY <3>1, <3>2, LargestTxIs
  <2>2. T \subseteq 0..c
    BY <2>1
  <2>3. found'.tx = Largest(T)
    BY <1>1
  <2>4. Largest(T) \in 0..c /\ \A n \in T : n <= Largest(T)
    <3> HIDE DEF T
    <3> QED
      BY <2>2, LargestIs
  <2>5. ASSUME NEW id \in Logs, NEW tx \in Begins(wal_files[id])
        PROVE  tx <= found'.tx
    <3>1. LargestTx(wal_files[id]) <= found'.tx
      BY <2>3, <2>4
    <3>2. tx <= LargestTx(wal_files[id]) /\ tx \in Nat
          /\ LargestTx(wal_files[id]) \in Nat /\ found'.tx \in Nat
      BY <2>1, <2>3, <2>4
    <3> HIDE DEF T
    <3> QED
      BY <3>1, <3>2
  <2>6. found'.tx \in Nat
    BY <2>3, <2>4
  <2> QED
    BY <2>5, <2>6
<1>8. Typed'
  <2>1. found' = [seq |-> found'.seq, tx |-> found'.tx]
    BY <1>1
  <2>2. found' \in [seq : Nat, tx : Nat]
    BY <1>6, <1>7, <2>1
  <2>3. entries' = [id \in DOMAIN entries' |-> entries'[id]]
    BY <1>1
  <2> QED
    BY <1>1, <1>5, <2>2, <2>3 DEF Typed, Logs, taskVars
<1>9. MemoryInv'
  <2>1. Idle' /\ tables' = <<>>
    BY <1>1 DEF MemoryInv, Idle, taskVars
  <2>2. Descends(frozen', Logs)
    BY <1>1, <1>3, DescendingIs
  <2>3. DOMAIN entries' = Logs /\ \A id \in Logs : entries'[id] = LogVersions(id)
    BY <1>1
  <2> QED
    BY <1>1, <1>2, <1>5, <2>1, <2>2, <2>3 DEF MemoryInv
<1>10. CounterInv' /\ CommitInv' /\ FlushInv'
  BY <1>1, <1>2, <1>6, <1>7 DEF CounterInv, CommitInv, FlushInv
<1>11. AckInv'
  BY <1>1, <1>2, AckKept
<1> QED
  BY <1>2, <1>8, <1>9, <1>10, <1>11

LEMMA LoadStep ==
  ASSUME IInv, Load
  PROVE  IInv' /\ Held' = Held
<1> USE DEF IInv
<1> DEFINE T == {found.seq} \cup {v[2] : v \in UNION {ss[id] : id \in DOMAIN ss}}
<1>1. /\ phase = "restored" /\ phase' = "loaded"
      /\ wal_files' = wal_files /\ ss' = ss /\ stray' = {}
      /\ tables' = Descending(DOMAIN ss)
      /\ table_id' = Largest(DOMAIN ss) + 1
      /\ found' = [found EXCEPT !.seq = Largest(T)]
      /\ UNCHANGED <<mem_table, frozen, entries, wal_id, next_seq, visible, tx_id,
                     unflushed, taskVars, acked>>
  BY DEF Load
<1>2. /\ Logs' = Logs /\ \A id \in Logs : LogVersions(id)' = LogVersions(id)
      /\ LogsInv' /\ BoundInv' /\ OrderInv' /\ Held' = Held
  BY <1>1, DiskSame
<1>3. PICK c \in Nat : DOMAIN ss \subseteq 0..c
  BY DEF BoundInv
<1>4. Largest(DOMAIN ss) \in 0..c /\ \A t \in DOMAIN ss : t <= Largest(DOMAIN ss)
  BY <1>3, LargestIs
<1>5. table_id' \in Nat /\ \A t \in DOMAIN ss : t < table_id'
  <2>1. \A t \in DOMAIN ss : t \in Nat
    BY <1>3
  <2> QED
    BY <1>1, <1>4, <2>1
<1>6. /\ Largest(T) \in Nat /\ found.seq <= Largest(T)
      /\ \A t \in DOMAIN ss : \A v \in ss[t] : v[2] <= Largest(T)
  <2> DEFINE d == found.seq + MaxSeq
  <2>1. found.seq \in Nat /\ MaxSeq \in Nat
    BY RecoveryAssumption DEF Typed
  <2>2. d \in Nat /\ 0..MaxSeq \subseteq 0..d /\ found.seq \in 0..d
    BY <2>1
  <2>3. \A t \in DOMAIN ss : \A v \in ss[t] : v[2] \in 0..MaxSeq
    BY DEF BoundInv
  <2>4. T \subseteq 0..d
    BY <2>2, <2>3
  <2>5. Largest(T) \in 0..d /\ \A n \in T : n <= Largest(T)
    <3> HIDE DEF T, d
    <3> QED
      BY <2>2, <2>4, LargestIs
  <2> HIDE DEF d
  <2>6. Largest(T) \in Nat
    BY <2>5
  <2> QED
    BY <2>5, <2>6
<1> HIDE DEF T
<1>7. found'.seq = Largest(T) /\ found'.tx = found.tx /\ found' \in [seq : Nat, tx : Nat]
  BY <1>1, <1>6 DEF Typed
<1>8. Typed'
  BY <1>1, <1>5, <1>7 DEF Typed, Logs, taskVars
<1>9. MemoryInv'
  <2>1. Idle'
    BY <1>1 DEF MemoryInv, Idle, taskVars
  <2>2. Descends(tables', DOMAIN ss)
    BY <1>1, <1>3, DescendingIs
  <2>3. /\ DOMAIN entries = Logs /\ Descends(frozen, Logs)
        /\ \A id \in Logs : id < wal_id /\ entries[id] = LogVersions(id)
    BY <1>1 DEF MemoryInv
  <2> QED
    BY <1>1, <1>2, <2>1, <2>2, <2>3 DEF MemoryInv
<1>10. CounterInv'
  <2>1. ASSUME NEW id \in Logs
        PROVE  /\ \A v \in Logged(wal_files[id]) : v[2] <= Largest(T)
               /\ \A tx \in Begins(wal_files[id]) : tx <= found.tx
    <3>1. /\ \A v \in Logged(wal_files[id]) : v[2] <= found.seq
          /\ \A tx \in Begins(wal_files[id]) : tx <= found.tx
      BY <1>1 DEF CounterInv
    <3>2. \A v \in Logged(wal_files[id]) : v[2] \in 0..MaxSeq
      BY DEF BoundInv
    <3>3. \A v \in Logged(wal_files[id]) : v[2] \in Nat
      BY <3>2
    <3>4. found.seq \in Nat
      BY DEF Typed
    <3> QED
      BY <1>6, <3>1, <3>3, <3>4
  <2> QED
    BY <1>1, <1>2, <1>5, <1>6, <1>7, <2>1 DEF CounterInv
<1>11. CommitInv' /\ FlushInv'
  BY <1>1 DEF CommitInv, FlushInv
<1>12. AckInv'
  BY <1>1, <1>2, AckKept
<1> QED
  BY <1>2, <1>8, <1>9, <1>10, <1>11, <1>12

LEMMA StartStep ==
  ASSUME IInv, Start
  PROVE  IInv' /\ Held' = Held
<1> USE DEF IInv
<1>1. /\ phase = "loaded" /\ phase' = "up"
      /\ wal_id' = wal_id + 1 /\ mem_table' = wal_id
      /\ entries' = With(entries, wal_id, {})
      /\ visible' = found.seq + 1 /\ next_seq' = found.seq + 2 /\ tx_id' = found.tx + 1
      /\ found' = [seq |-> 0, tx |-> 0]
      /\ ss' = ss /\ stray' = stray
      /\ UNCHANGED <<frozen, tables, table_id, unflushed, taskVars, acked>>
  BY DEF Start
<1>2. /\ wal_id \in Nat /\ found.seq \in Nat /\ found.tx \in Nat
      /\ DOMAIN entries = Logs /\ Descends(frozen, Logs)
      /\ \A id \in Logs : id \in Nat /\ id < wal_id /\ entries[id] = LogVersions(id)
      /\ Idle
  <2>1. Logs \subseteq Nat
    BY DEF BoundInv
  <2> QED
    BY <1>1, <2>1 DEF Typed, MemoryInv
<1>3. PICK new \in Nat : new = wal_id
  BY <1>2
<1>4. new \notin Logs /\ wal_files' = With(wal_files, new, <<>>)
  <2>1. new \notin Logs
    BY <1>2, <1>3
  <2> QED
    BY <1>3, <2>1 DEF Start, Logs
<1>5. /\ Logs' = Logs \cup {new} /\ wal_files' = [id \in Logs' |-> wal_files'[id]]
      /\ wal_files'[new] = <<>>
      /\ \A id \in Logs : wal_files'[id] = wal_files[id]
      /\ LogVersions(new)' = {}
      /\ \A id \in Logs : LogVersions(id)' = LogVersions(id)
      /\ LogsInv' /\ BoundInv' /\ OrderInv'
      /\ OnDisk' = OnDisk /\ Held' = Held
  <2>1. Typed /\ LogsInv /\ BoundInv /\ OrderInv /\ ss' = ss
    BY <1>1, <1>2
  <2> HIDE DEF IInv
  <2>2. Logs' = Logs \cup {new} /\ wal_files' = [id \in Logs' |-> wal_files'[id]]
    BY <1>4, <2>1, DiskNewLog
  <2>3. /\ wal_files'[new] = <<>> /\ LogVersions(new)' = {}
        /\ \A id \in Logs : wal_files'[id] = wal_files[id]
                            /\ LogVersions(id)' = LogVersions(id)
    BY <1>4, <2>1, DiskNewLog
  <2>4. LogsInv' /\ BoundInv' /\ OrderInv' /\ OnDisk' = OnDisk /\ Held' = Held
    BY <1>4, <2>1, DiskNewLog
  <2> QED
    BY <2>2, <2>3, <2>4
<1>6. ASSUME NEW id \in Logs
      PROVE  /\ \A v \in Logged(wal_files[id]) : v[2] \in Nat /\ v[2] <= found.seq
             /\ \A v \in LogVersions(id) : v[2] \in Nat /\ v[2] <= found.seq
             /\ \A tx \in Begins(wal_files[id]) : tx \in Nat /\ tx <= found.tx
  <2>1. \A v \in Logged(wal_files[id]) : v[2] \in 0..MaxSeq
    BY DEF BoundInv
  <2>2. LogVersions(id) \subseteq Logged(wal_files[id])
    BY RestoredLogged DEF LogVersions
  <2>3. Begins(wal_files[id]) \subseteq Nat
    BY LogTypes DEF LogsInv
  <2> QED
    BY <1>1, <2>1, <2>2, <2>3 DEF CounterInv
<1>7. ASSUME NEW t \in DOMAIN ss
      PROVE  t < table_id /\ \A v \in ss[t] : v[2] \in Nat /\ v[2] <= found.seq
  <2>1. \A v \in ss[t] : v[2] \in 0..MaxSeq
    BY DEF BoundInv
  <2> QED
    BY <1>1, <2>1 DEF CounterInv
<1>8. Typed'
  <2>1. entries' = [id \in DOMAIN entries' |-> entries'[id]]
    BY <1>1 DEF With
  <2>2. found' \in [seq : Nat, tx : Nat]
    BY <1>1
  <2>3. visible' \in Nat /\ next_seq' \in Nat /\ tx_id' \in Nat /\ wal_id' \in Nat
    BY <1>1, <1>2
  <2> QED
    BY <1>1, <1>5, <2>1, <2>2, <2>3 DEF Typed, taskVars
<1>9. MemoryInv'
  <2>1. step' = "idle" /\ freezing' = FALSE /\ flushing' = "idle"
    BY <1>1, <1>2 DEF Idle, taskVars, Typed
  <2>2. DOMAIN entries' = Logs \cup {new}
    BY <1>1, <1>2, <1>3 DEF With
  <2>3. DOMAIN entries' \ {mem_table'} = Logs
    BY <1>1, <1>3, <1>4, <2>2
  <2>4. \A id \in DOMAIN entries' : entries'[id] = LogVersions(id)' /\ Pending(id)' = {}
    <3> SUFFICES ASSUME NEW id \in DOMAIN entries'
                 PROVE  entries'[id] = LogVersions(id)' /\ Pending(id)' = {}
      OBVIOUS
    <3>1. entries'[id] = IF id = new THEN {} ELSE entries[id]
      BY <1>1, <1>2, <1>3, <2>2 DEF With
    <3>2. entries'[id] = LogVersions(id)'
      BY <1>2, <1>4, <1>5, <2>2, <3>1
    <3> QED
      BY <2>1, <3>2 DEF Pending
  <2>5. \A id \in DOMAIN entries' : id <= mem_table'
    BY <1>1, <1>2, <1>3, <2>2
  <2>6. Descends(frozen', DOMAIN entries' \ {mem_table'}) /\ Descends(tables', DOMAIN ss')
    BY <1>1, <1>2, <2>3 DEF MemoryInv
  <2> QED
    BY <1>1, <1>3, <1>5, <2>1, <2>2, <2>4, <2>5, <2>6 DEF MemoryInv
<1>10. CounterInv'
  <2>1. flushing' = "idle"
    BY <1>1, <1>2 DEF Idle, taskVars
  <2>2. ASSUME NEW id \in Logs'
        PROVE  /\ id < wal_id'
               /\ \A v \in Logged(wal_files'[id]) : v[2] < next_seq'
               /\ \A tx \in Begins(wal_files'[id]) : tx < tx_id'
               /\ \A v \in LogVersions(id)' : v[2] <= visible'
    <3>1. CASE id = new
      <4>1. Logged(wal_files'[id]) = {} /\ Begins(wal_files'[id]) = {}
        BY <1>5, <3>1, EmptyLog
      <4> QED
        BY <1>1, <1>2, <1>3, <1>5, <3>1, <4>1
    <3>2. CASE id \in Logs
      <4>1. id < wal_id + 1
        BY <1>2, <3>2
      <4>2. \A v \in Logged(wal_files[id]) : v[2] < found.seq + 2
        BY <1>2, <1>6, <3>2
      <4>3. \A tx \in Begins(wal_files[id]) : tx < found.tx + 1
        BY <1>2, <1>6, <3>2
      <4>4. \A v \in LogVersions(id) : v[2] <= found.seq + 1
        BY <1>2, <1>6, <3>2
      <4> QED
        BY <1>1, <1>5, <3>2, <4>1, <4>2, <4>3, <4>4
    <3> QED
      BY <1>5, <3>1, <3>2
  <2>3. \A t \in DOMAIN ss' : t < table_id' /\ \A v \in ss'[t] : v[2] <= visible'
    BY <1>1, <1>2, <1>7
  <2>4. visible' < next_seq'
    BY <1>1, <1>2
  <2> QED
    BY <1>1, <2>1, <2>2, <2>3, <2>4 DEF CounterInv
<1>11. CommitInv' /\ FlushInv'
  BY <1>1, <1>2 DEF CommitInv, FlushInv, Idle, taskVars
<1>12. AckInv'
  <2>1. ASSUME NEW k \in Key PROVE acked[k] <= found.seq + 1
    <3>1. acked[k] <= Held[k] /\ acked[k] \in Nat
      BY DEF AckInv, Typed
    <3>2. /\ Held[k] \in 0..MaxSeq
          /\ Held[k] = 0 \/ \E v \in OnDisk : v[1] = k /\ v[2] = Held[k]
      BY DiskTypes, HeldIs, HeldInIs, RecoveryAssumption
    <3>3. Held[k] <= found.seq
      BY <1>2, <1>6, <1>7, <3>2, DiskTypes
    <3>4. Held[k] \in Nat
      BY <3>2
    <3> QED
      BY <1>2, <3>1, <3>3, <3>4
  <2> QED
    BY <1>1, <1>5, <2>1 DEF AckInv
<1> QED
  BY <1>5, <1>8, <1>9, <1>10, <1>11, <1>12

-----------------------------------------------------------------------------
(* The commit.                                                             *)

\* What a flush works on is not the active memtable.
LEMMA VictimIs ==
  ASSUME IInv, phase = "up", flushing # "idle"
  PROVE  victim \in Logs /\ victim # mem_table
<1>1. victim \in Logs /\ mem_table \in DOMAIN entries
  BY DEF IInv, FlushInv, MemoryInv
<1>2. CASE flushing = "remove"
  BY <1>1, <1>2 DEF IInv, FlushInv
<1>3. CASE flushing \in {"write", "retire"}
  <2>1. frozen # <<>> /\ victim = frozen[Len(frozen)]
    BY <1>3 DEF IInv, FlushInv
  <2>2. Descends(frozen, DOMAIN entries \ {mem_table})
    BY DEF IInv, MemoryInv
  <2>3. frozen \in Seq(DOMAIN entries \ {mem_table})
    BY <2>2 DEF Descends
  <2>4. Len(frozen) \in 1..Len(frozen)
    BY <2>1, <2>3, EmptySeq, LenProperties
  <2>5. frozen[Len(frozen)] \in DOMAIN entries \ {mem_table}
    BY <2>2, <2>4, DescendsIs
  <2> QED
    BY <1>1, <2>1, <2>5
<1> QED
  BY <1>1, <1>2, <1>3 DEF IInv, Typed

\* Steps of a commit leave the lists and the flush.
LEMMA CommitFrame ==
  ASSUME IInv, phase = "up", phase' = "up", ~freezing,
         UNCHANGED <<ss, mem_table, frozen, tables, wal_id, freezing, flushing, victim>>,
         DOMAIN entries' = DOMAIN entries, Logs' = Logs,
         \A id \in DOMAIN entries : entries'[id] = LogVersions(id)' \cup Pending(id)',
         \A id \in Logs : id # mem_table => LogVersions(id)' = LogVersions(id)
  PROVE  MemoryInv' /\ FlushInv'
<1>1. MemoryInv'
  BY DEF IInv, MemoryInv
<1>2. FlushInv'
  <2> SUFFICES ASSUME flushing # "idle"
               PROVE  /\ victim \in Logs /\ \A id \in Logs : victim <= id
                      /\ flushing \in {"write", "retire"} =>
                            frozen # <<>> /\ victim = frozen[Len(frozen)]
                      /\ flushing = "remove" => victim \notin DOMAIN entries
                      /\ flushing \in {"retire", "remove"} => Tabled(LogVersions(victim))'
    BY DEF FlushInv
  <2>1. LogVersions(victim)' = LogVersions(victim)
    BY VictimIs DEF LogVersions
  <2>2. Tabled(LogVersions(victim))' <=> Tabled(LogVersions(victim))
    BY <2>1 DEF Tabled
  <2> QED
    BY <2>2 DEF IInv, FlushInv
<1> QED
  BY <1>1, <1>2

LEMMA BeginStep ==
  ASSUME IInv, NEW keys \in (SUBSET Key) \ {{}}, Begin(keys)
  PROVE  IInv' /\ Held' = Held
<1> DEFINE log == wal_files[mem_table]
           r == TxBegin(tx_id)
<1> USE DEF IInv
<1>1. /\ phase = "up" /\ phase' = "up" /\ step = "idle" /\ ~freezing
      /\ next_seq <= MaxSeq
      /\ cur' = [tx |-> tx_id, ops |-> keys \X {next_seq}]
      /\ tx_id' = tx_id + 1 /\ next_seq' = next_seq + 1
      /\ wal_files' = Appended(r) /\ unflushed' = FALSE /\ step' = "batch"
      /\ UNCHANGED <<ss, stray, found, mem_table, frozen, entries, tables, wal_id,
                     table_id, visible, freezing, flushing, victim, acked>>
  BY DEF Begin, stateVars
<1>2. /\ mem_table \in Logs /\ DOMAIN entries \subseteq Logs
      /\ tx_id \in Nat /\ next_seq \in Nat /\ visible \in Nat /\ MaxSeq \in Nat
  BY <1>1, TypesHold, RecoveryAssumption DEF Typed
<1>3. /\ WellFormed(log) /\ Begins(log) \subseteq Nat /\ Commits(log) \subseteq Begins(log)
      /\ \A tx : BatchOps(log, tx) # {} => tx \in Begins(log)
  BY <1>2, LogTypes DEF LogsInv
<1>4. tx_id \notin Begins(log)
  <2>1. \A tx \in Begins(log) : tx < tx_id
    BY <1>1, <1>2 DEF CounterInv
  <2> HIDE DEF IInv
  <2> QED
    BY <1>2, <2>1
<1>5. /\ CanFollow(r, log) /\ r.cmd = "TxBegin" /\ r.tx = tx_id /\ r.ops = {}
  BY <1>2, <1>4 DEF CanFollow, TxBegin, Record
<1>6. /\ Logs' = Logs /\ wal_files' = [id \in Logs |-> wal_files'[id]]
      /\ \A id \in Logs : LogVersions(id)' = LogVersions(id)
      /\ \A id \in Logs : id # mem_table => wal_files'[id] = wal_files[id]
      /\ Grown(wal_files'[mem_table], log, r)
      /\ LogsInv' /\ BoundInv' /\ OrderInv' /\ Held' = Held
  <2>1. Typed /\ LogsInv /\ BoundInv /\ OrderInv /\ ss' = ss /\ r.cmd # "TxCommit"
        /\ r.tx \in Nat /\ r.ops \subseteq Key \X (0..MaxSeq)
    BY <1>1, <1>2, <1>5
  <2> HIDE DEF IInv, r
  <2> QED
    BY <1>1, <1>2, <1>5, <2>1, DiskGrown
<1>7. /\ Begins(wal_files'[mem_table]) = Begins(log) \cup {tx_id}
      /\ Commits(wal_files'[mem_table]) = Commits(log)
      /\ \A tx : BatchOps(wal_files'[mem_table], tx) = BatchOps(log, tx)
      /\ Logged(wal_files'[mem_table]) = Logged(log)
  <2> HIDE DEF r, IInv
  <2> QED
    BY <1>5, <1>6 DEF Grown
<1> HIDE DEF r
<1>8. Typed'
  <2>1. cur' \in [tx : Nat, ops : SUBSET Version]
    BY <1>1, <1>2 DEF Version
  <2>2. tx_id' \in Nat /\ next_seq' \in Nat
    BY <1>1, <1>2
  <2>3. wal_files' = [id \in Logs' |-> wal_files'[id]]
    BY <1>6
  <2>4. ss' = [t \in DOMAIN ss' |-> ss'[t]] /\ entries' = [id \in DOMAIN entries' |-> entries'[id]]
    <3>1. ss' = ss /\ entries' = entries
      BY <1>1
    <3>2. ss = [t \in DOMAIN ss |-> ss[t]] /\ entries = [id \in DOMAIN entries |-> entries[id]]
      BY DEF Typed
    <3> HIDE DEF IInv
    <3> QED
      BY <3>1, <3>2
  <2>5. /\ stray' \subseteq Nat
        /\ phase' \in {"down", "restored", "loaded", "up", "failed", "misled"}
        /\ found' \in [seq : Nat, tx : Nat]
        /\ wal_id' \in Nat /\ table_id' \in Nat /\ visible' \in Nat
        /\ unflushed' \in BOOLEAN /\ freezing' \in BOOLEAN
        /\ step' \in {"idle", "batch", "put", "commit", "publish"}
        /\ flushing' \in {"idle", "write", "retire", "remove"}
        /\ victim' \in Nat /\ acked' \in [Key -> Nat]
    BY <1>1 DEF Typed
  <2> QED
    BY <2>1, <2>2, <2>3, <2>4, <2>5 DEF Typed
<1>9. MemoryInv' /\ FlushInv'
  <2>1. \A id \in DOMAIN entries : entries'[id] = LogVersions(id)' \cup Pending(id)'
    BY <1>1, <1>2, <1>6 DEF MemoryInv, Pending
  <2> HIDE DEF IInv
  <2> QED
    BY <1>1, <1>6, <2>1, CommitFrame
<1>10. CounterInv'
  <2>1. ASSUME NEW id \in Logs
        PROVE  /\ id < wal_id
               /\ \A v \in Logged(wal_files'[id]) : v[2] < next_seq + 1
               /\ \A tx \in Begins(wal_files'[id]) : tx < tx_id + 1
               /\ \A v \in LogVersions(id) : v[2] <= visible
    <3>1. /\ id < wal_id
          /\ \A v \in Logged(wal_files[id]) : v[2] < next_seq
          /\ \A tx \in Begins(wal_files[id]) : tx < tx_id
          /\ \A v \in LogVersions(id) : v[2] <= visible
      BY <1>1 DEF CounterInv
    <3>2. Logged(wal_files'[id]) = Logged(wal_files[id])
          /\ Begins(wal_files'[id]) \subseteq Begins(wal_files[id]) \cup {tx_id}
      BY <1>6, <1>7
    <3>3. \A v \in Logged(wal_files[id]) : v[2] \in 0..MaxSeq
      BY DEF BoundInv
    <3>4. Begins(wal_files[id]) \subseteq Nat
      BY LogTypes DEF LogsInv
    <3>5. \A v \in Logged(wal_files[id]) : v[2] < next_seq + 1
      BY <1>2, <3>1, <3>3
    <3>6. \A tx \in Begins(wal_files[id]) \cup {tx_id} : tx < tx_id + 1
      BY <1>2, <3>1, <3>4
    <3> QED
      BY <3>1, <3>2, <3>5, <3>6
  <2>2. visible < next_seq + 1
    BY <1>1, <1>2 DEF CounterInv
  <2> QED
    BY <1>1, <1>6, <2>1, <2>2 DEF CounterInv
<1>11. CommitInv'
  <2>1. next_seq' - 1 = next_seq /\ visible < next_seq
    BY <1>1, <1>2 DEF CounterInv
  <2>2. cur'.tx = tx_id /\ cur'.ops = keys \X {next_seq}
    BY <1>1
  <2>3. tx_id \in Begins(wal_files'[mem_table]) /\ tx_id \notin Commits(wal_files'[mem_table])
    BY <1>3, <1>4, <1>7
  <2>4. BatchOps(wal_files'[mem_table], tx_id) = {}
    BY <1>3, <1>4, <1>7
  <2> QED
    BY <1>1, <2>1, <2>2, <2>3, <2>4 DEF CommitInv
<1>12. AckInv'
  BY <1>1, <1>6, AckKept
<1> QED
  BY <1>6, <1>8, <1>9, <1>10, <1>11, <1>12

\* Where a commit is, its log is, and no freeze.
LEMMA CommitIs ==
  ASSUME IInv, phase = "up", step # "idle"
  PROVE  /\ ~freezing /\ mem_table \in Logs /\ mem_table \in DOMAIN entries
         /\ DOMAIN entries \subseteq Logs
         /\ WellFormed(wal_files[mem_table])
         /\ next_seq \in Nat /\ visible \in Nat /\ MaxSeq \in Nat
         /\ visible < next_seq - 1 /\ next_seq - 1 \in 0..MaxSeq
         /\ cur.tx \in Nat /\ cur.ops \in SUBSET Version
         /\ cur.ops \subseteq Key \X (0..MaxSeq)
         /\ \E keys \in (SUBSET Key) \ {{}} : cur.ops = keys \X {next_seq - 1}
         /\ cur.ops # {} /\ \A v \in cur.ops : v[2] = next_seq - 1
<1>1. ~freezing /\ mem_table \in DOMAIN entries
  BY DEF IInv, MemoryInv
<1>2. mem_table \in Logs /\ DOMAIN entries \subseteq Logs
  BY TypesHold
<1>3. WellFormed(wal_files[mem_table])
  BY <1>2 DEF IInv, LogsInv
<1>4. /\ next_seq \in Nat /\ visible \in Nat /\ MaxSeq \in Nat
      /\ cur.tx \in Nat /\ cur.ops \in SUBSET Version
  BY RecoveryAssumption DEF IInv, Typed
<1>5. visible < next_seq - 1 /\ next_seq - 1 <= MaxSeq
  BY DEF IInv, CommitInv
<1>6. PICK keys \in (SUBSET Key) \ {{}} : cur.ops = keys \X {next_seq - 1}
  BY DEF IInv, CommitInv
<1>7. next_seq - 1 \in 0..MaxSeq
  BY <1>4, <1>5
<1>8. cur.ops \subseteq Key \X (0..MaxSeq) /\ cur.ops # {}
      /\ \A v \in cur.ops : v[2] = next_seq - 1
  <2> DEFINE n == next_seq - 1
  <2>1. n \in 0..MaxSeq /\ cur.ops = keys \X {n}
    BY <1>6, <1>7
  <2> HIDE DEF n
  <2>2. PICK k \in keys : TRUE
    OBVIOUS
  <2>3. <<k, n>> \in cur.ops
    BY <2>1
  <2>4. cur.ops \subseteq Key \X (0..MaxSeq) /\ \A v \in cur.ops : v[2] = n
    BY <2>1
  <2> QED
    BY <2>3, <2>4 DEF n
<1> QED
  BY <1>1, <1>2, <1>3, <1>4, <1>5, <1>6, <1>7, <1>8

LEMMA AppendBatchStep ==
  ASSUME IInv, AppendBatch
  PROVE  IInv' /\ Held' = Held
<1> DEFINE log == wal_files[mem_table]
           r == Batch(cur.tx, cur.ops)
<1>1. /\ phase = "up" /\ phase' = "up" /\ step = "batch" /\ step' = "put"
      /\ wal_files' = Appended(r) /\ unflushed' = FALSE
      /\ UNCHANGED <<ss, stray, found, mem_table, frozen, entries, tables, wal_id,
                     table_id, next_seq, visible, tx_id, cur, freezing, flushing,
                     victim, acked>>
  BY DEF AppendBatch, stateVars, counterVars
<1>2. /\ ~freezing /\ mem_table \in Logs /\ DOMAIN entries \subseteq Logs
      /\ WellFormed(log)
      /\ cur.tx \in Nat /\ cur.ops \in SUBSET Version
      /\ cur.ops \subseteq Key \X (0..MaxSeq)
  BY <1>1, CommitIs
<1>3. /\ cur.tx \in Begins(log) /\ cur.tx \notin Commits(log)
      /\ BatchOps(log, cur.tx) = {}
  BY <1>1 DEF IInv, CommitInv
<1>4. CanFollow(r, log) /\ r.cmd = "Batch" /\ r.tx = cur.tx /\ r.ops = cur.ops
  BY <1>2, <1>3 DEF CanFollow, Batch, Record
<1>5. Typed /\ LogsInv /\ BoundInv /\ OrderInv
  BY DEF IInv
<1>6. /\ Logs' = Logs /\ wal_files' = [id \in Logs |-> wal_files'[id]]
      /\ \A id \in Logs : LogVersions(id)' = LogVersions(id)
      /\ \A id \in Logs : id # mem_table => wal_files'[id] = wal_files[id]
      /\ Grown(wal_files'[mem_table], log, r)
      /\ LogsInv' /\ BoundInv' /\ OrderInv' /\ Held' = Held
  <2>1. r.cmd # "TxCommit" /\ r.tx \in Nat /\ r.ops \subseteq Key \X (0..MaxSeq)
    BY <1>2, <1>4
  <2> HIDE DEF r
  <2> QED
    BY <1>1, <1>2, <1>4, <1>5, <2>1, DiskGrown
<1>7. /\ Begins(wal_files'[mem_table]) = Begins(log)
      /\ Commits(wal_files'[mem_table]) = Commits(log)
      /\ BatchOps(wal_files'[mem_table], cur.tx) = {cur.ops}
      /\ Logged(wal_files'[mem_table]) = Logged(log) \cup cur.ops
  <2> HIDE DEF r
  <2> QED
    BY <1>3, <1>4, <1>6 DEF Grown
<1> HIDE DEF r
<1>8. Typed'
  <2>1. wal_files' = [id \in Logs' |-> wal_files'[id]]
    BY <1>6
  <2>2. ss' = [t \in DOMAIN ss' |-> ss'[t]] /\ entries' = [id \in DOMAIN entries' |-> entries'[id]]
    BY <1>1, <1>5 DEF Typed
  <2> QED
    BY <1>1, <1>5, <2>1, <2>2 DEF Typed
<1>9. MemoryInv' /\ FlushInv'
  <2>1. \A id \in DOMAIN entries : entries'[id] = LogVersions(id)' \cup Pending(id)'
    BY <1>1, <1>2, <1>6 DEF MemoryInv, Pending, IInv
  <2> QED
    BY <1>1, <1>2, <1>6, <2>1, CommitFrame
<1>10. CounterInv'
  <2>1. ASSUME NEW id \in Logs
        PROVE  /\ id < wal_id
               /\ \A v \in Logged(wal_files'[id]) : v[2] < next_seq
               /\ \A tx \in Begins(wal_files'[id]) : tx < tx_id
               /\ \A v \in LogVersions(id) : v[2] <= visible
    <3>1. /\ id < wal_id
          /\ \A v \in Logged(wal_files[id]) : v[2] < next_seq
          /\ \A tx \in Begins(wal_files[id]) : tx < tx_id
          /\ \A v \in LogVersions(id) : v[2] <= visible
      BY <1>1 DEF IInv, CounterInv
    <3>2. Logged(wal_files'[id]) \subseteq Logged(wal_files[id]) \cup cur.ops
          /\ Begins(wal_files'[id]) = Begins(wal_files[id])
      BY <1>6, <1>7
    <3>3. \A v \in cur.ops : v[2] < next_seq
      <4>1. next_seq \in Nat /\ next_seq - 1 < next_seq
            /\ \A v \in cur.ops : v[2] = next_seq - 1
        BY <1>1, CommitIs
      <4> QED
        BY <4>1
    <3> QED
      BY <3>1, <3>2, <3>3
  <2> QED
    BY <1>1, <1>6, <2>1 DEF IInv, CounterInv
<1>11. CommitInv'
  BY <1>1, <1>3, <1>7 DEF IInv, CommitInv
<1>12. AckInv'
  BY <1>1, <1>6, AckKept DEF IInv
<1> QED
  BY <1>6, <1>8, <1>9, <1>10, <1>11, <1>12 DEF IInv

LEMMA RefuseBatchStep ==
  ASSUME IInv, RefuseBatch
  PROVE  IInv' /\ Held' = Held
<1> DEFINE log == wal_files[mem_table]
<1>1. /\ phase = "up" /\ phase' = "up" /\ step = "batch" /\ step' = "idle"
      /\ cur' = NoCommit
      /\ wal_files' = wal_files \/ wal_files' = Appended(Torn)
      /\ unflushed' \in {unflushed, TRUE}
      /\ UNCHANGED <<ss, stray, found, mem_table, frozen, entries, tables, wal_id,
                     table_id, next_seq, visible, tx_id, freezing, flushing,
                     victim, acked>>
  BY DEF RefuseBatch, stateVars, counterVars
<1>2. /\ ~freezing /\ mem_table \in Logs /\ DOMAIN entries \subseteq Logs
      /\ WellFormed(log)
  BY <1>1, CommitIs
<1>3. Typed /\ LogsInv /\ BoundInv /\ OrderInv
  BY DEF IInv
<1>4. /\ Logs' = Logs /\ wal_files' = [id \in Logs |-> wal_files'[id]]
      /\ \A id \in Logs : /\ LogVersions(id)' = LogVersions(id)
                          /\ Begins(wal_files'[id]) = Begins(wal_files[id])
                          /\ Logged(wal_files'[id]) = Logged(wal_files[id])
      /\ LogsInv' /\ BoundInv' /\ OrderInv' /\ Held' = Held
  <2>1. CASE wal_files' = wal_files
    BY <1>1, <1>3, <2>1, DiskSame DEF Typed
  <2>2. CASE wal_files' = Appended(Torn)
    <3>1. CanFollow(Torn, log)
      BY DEF CanFollow
    <3>2. Torn.cmd = "torn" /\ Torn.tx \in Nat /\ Torn.ops = {}
      BY DEF Torn, Record
    <3>3. Torn.cmd # "TxCommit" /\ Torn.ops \subseteq Key \X (0..MaxSeq)
      BY <3>2
    <3>4. /\ Logs' = Logs /\ wal_files' = [id \in Logs |-> wal_files'[id]]
          /\ \A id \in Logs : LogVersions(id)' = LogVersions(id)
          /\ \A id \in Logs : id # mem_table => wal_files'[id] = wal_files[id]
          /\ Grown(wal_files'[mem_table], log, Torn)
          /\ LogsInv' /\ BoundInv' /\ OrderInv' /\ Held' = Held
      BY <1>1, <1>2, <1>3, <2>2, <3>1, <3>2, <3>3, DiskGrown
    <3>5. /\ Begins(wal_files'[mem_table]) = Begins(log)
          /\ Logged(wal_files'[mem_table]) = Logged(log)
      BY <3>2, <3>4 DEF Grown
    <3> QED
      BY <3>4, <3>5
  <2> QED
    BY <1>1, <2>1, <2>2
<1>5. Typed'
  <2>1. wal_files' = [id \in Logs' |-> wal_files'[id]]
    BY <1>4
  <2>2. ss' = [t \in DOMAIN ss' |-> ss'[t]] /\ entries' = [id \in DOMAIN entries' |-> entries'[id]]
    BY <1>1, <1>3 DEF Typed
  <2>3. cur' \in [tx : Nat, ops : SUBSET Version]
    BY <1>1 DEF NoCommit
  <2> QED
    BY <1>1, <1>3, <2>1, <2>2, <2>3 DEF Typed
<1>6. MemoryInv' /\ FlushInv'
  <2>1. \A id \in DOMAIN entries : entries'[id] = LogVersions(id)' \cup Pending(id)'
    BY <1>1, <1>2, <1>4 DEF MemoryInv, Pending, IInv
  <2> QED
    BY <1>1, <1>2, <1>4, <2>1, CommitFrame
<1>7. CounterInv'
  BY <1>1, <1>4 DEF IInv, CounterInv
<1>8. CommitInv'
  BY <1>1 DEF CommitInv
<1>9. AckInv'
  BY <1>1, <1>4, AckKept DEF IInv
<1> QED
  BY <1>4, <1>5, <1>6, <1>7, <1>8, <1>9 DEF IInv

LEMMA PutStep ==
  ASSUME IInv, Put
  PROVE  IInv' /\ Held' = Held
<1>1. /\ phase = "up" /\ phase' = "up" /\ step = "put" /\ step' = "commit"
      /\ entries' = [entries EXCEPT ![mem_table] = @ \cup cur.ops]
      /\ UNCHANGED <<wal_files, ss, stray, found, mem_table, frozen, tables, wal_id,
                     table_id, next_seq, visible, tx_id, unflushed, cur, freezing,
                     flushing, victim, acked>>
  BY DEF Put, diskVars, counterVars
<1>2. ~freezing /\ mem_table \in DOMAIN entries
  BY <1>1, CommitIs
<1>3. Typed /\ LogsInv /\ BoundInv /\ OrderInv
  BY DEF IInv
<1>4. /\ Logs' = Logs
      /\ \A id \in Logs : LogVersions(id)' = LogVersions(id)
      /\ LogsInv' /\ BoundInv' /\ OrderInv' /\ Held' = Held
  BY <1>1, <1>3, DiskSame
<1>5. /\ DOMAIN entries' = DOMAIN entries
      /\ entries' = [id \in DOMAIN entries |->
                        IF id = mem_table THEN entries[id] \cup cur.ops ELSE entries[id]]
  BY <1>1, <1>3 DEF Typed
<1>6. Typed'
  <2>1. wal_files' = [id \in Logs' |-> wal_files'[id]] /\ ss' = [t \in DOMAIN ss' |-> ss'[t]]
    BY <1>1, <1>3, <1>4 DEF Typed
  <2>2. entries' = [id \in DOMAIN entries' |-> entries'[id]]
    BY <1>5
  <2> QED
    BY <1>1, <1>3, <2>1, <2>2 DEF Typed
<1>7. MemoryInv' /\ FlushInv'
  <2>1. \A id \in DOMAIN entries : entries[id] = LogVersions(id)
    BY <1>1 DEF IInv, MemoryInv, Pending
  <2>2. ASSUME NEW id \in DOMAIN entries
        PROVE  entries'[id] = LogVersions(id)' \cup Pending(id)'
    <3>1. LogVersions(id)' = LogVersions(id)
      BY <1>1 DEF LogVersions
    <3>2. Pending(id)' = IF id = mem_table THEN cur.ops ELSE {}
      BY <1>1 DEF Pending
    <3> QED
      BY <1>5, <2>1, <3>1, <3>2
  <2> QED
    BY <1>1, <1>2, <1>4, <1>5, <2>2, CommitFrame
<1>8. CounterInv'
  BY <1>1, <1>4 DEF IInv, CounterInv
<1>9. CommitInv'
  BY <1>1 DEF IInv, CommitInv
<1>10. AckInv'
  BY <1>1, <1>4, AckKept DEF IInv
<1> QED
  BY <1>4, <1>6, <1>7, <1>8, <1>9, <1>10 DEF IInv

\* The active log is the newest one, and the commit newer than everything on
\* the disk.
LEMMA CommitNewest ==
  ASSUME IInv, phase = "up", step = "commit"
  PROVE  /\ \A id \in Logs : id \in Nat /\ id <= mem_table
         /\ \A v \in OnDisk : v[2] \in Nat /\ v[2] <= visible
         /\ \A id \in Logs : \A v \in LogVersions(id) : v[2] \in Nat /\ v[2] <= visible
         /\ \A t \in DOMAIN ss : \A v \in ss[t] : v[2] \in Nat /\ v[2] <= visible
<1>1. LogsInv /\ BoundInv
  BY DEF IInv
<1>2. Logs \subseteq Nat
  BY DEF IInv, BoundInv
<1>3. ASSUME NEW id \in Logs PROVE id <= mem_table
  <2>1. ~freezing /\ mem_table \in DOMAIN entries /\ DOMAIN entries \subseteq Logs
    BY CommitIs
  <2>2. CASE id \in DOMAIN entries
    BY <2>2 DEF IInv, MemoryInv
  <2>3. CASE flushing = "remove" /\ id = victim
    BY <2>1, <2>3 DEF IInv, FlushInv
  <2> QED
    BY <2>1, <2>2, <2>3 DEF IInv, MemoryInv
<1>4. \A v \in OnDisk : v[2] \in Nat
  <2>1. OnDisk \subseteq Key \X (0..MaxSeq)
    BY <1>1, DiskTypes
  <2> QED
    BY <2>1
<1>5. \A v : v \in OnDisk <=> \/ \E id \in Logs : v \in LogVersions(id)
                              \/ \E t \in DOMAIN ss : v \in ss[t]
  BY <1>1, DiskTypes
<1>6. /\ \A id \in Logs : \A v \in LogVersions(id) : v[2] <= visible
      /\ \A t \in DOMAIN ss : \A v \in ss[t] : v[2] <= visible
  BY DEF IInv, CounterInv
<1> QED
  BY <1>2, <1>3, <1>4, <1>5, <1>6

\* The TxCommit in the log makes the versions part of what the disk holds.
LEMMA DiskCommit ==
  ASSUME IInv, AppendCommit
  PROVE  /\ Logs' = Logs /\ wal_files' = [id \in Logs |-> wal_files'[id]]
         /\ \A id \in Logs : id # mem_table => wal_files'[id] = wal_files[id]
         /\ Grown(wal_files'[mem_table], wal_files[mem_table], TxCommit(cur.tx))
         /\ Restored(wal_files'[mem_table]) = LogVersions(mem_table) \cup cur.ops
         /\ LogsInv' /\ BoundInv' /\ OrderInv'
         /\ OnDisk' = OnDisk \cup cur.ops
<1> DEFINE log == wal_files[mem_table]
           r == TxCommit(cur.tx)
<1>1. /\ phase = "up" /\ step = "commit" /\ wal_files' = Appended(r) /\ ss' = ss
  BY DEF AppendCommit
<1>2. /\ ~freezing /\ mem_table \in Logs /\ WellFormed(log)
      /\ cur.tx \in Nat /\ cur.ops \subseteq Key \X (0..MaxSeq)
      /\ next_seq \in Nat /\ visible \in Nat /\ visible < next_seq - 1
      /\ \A v \in cur.ops : v[2] = next_seq - 1
  BY <1>1, CommitIs
<1>3. /\ cur.tx \in Begins(log) /\ cur.tx \notin Commits(log)
      /\ BatchOps(log, cur.tx) = {cur.ops}
  BY <1>1 DEF IInv, CommitInv
<1>4. Typed /\ LogsInv /\ BoundInv /\ OrderInv
  BY DEF IInv
<1>5. CanFollow(r, log)
  BY <1>3 DEF CanFollow
<1>6. /\ Logs' = Logs /\ wal_files' = [id \in Logs |-> wal_files'[id]]
      /\ \A id \in Logs : id # mem_table => wal_files'[id] = wal_files[id]
      /\ Grown(wal_files'[mem_table], log, r)
  <2> HIDE DEF r
  <2> QED
    BY <1>1, <1>2, <1>4, <1>5, AppendedIs DEF Logs
<1>7. Restored(wal_files'[mem_table]) = LogVersions(mem_table) \cup cur.ops
  BY <1>2, <1>3, <1>6, GrownCommit DEF LogVersions
<1>8. \A id \in Logs : id # mem_table => Restored(wal_files'[id]) = LogVersions(id)
  BY <1>6 DEF LogVersions
<1>9. LogsInv'
  <2>1. \A id \in Logs : WellFormed(wal_files'[id])
    BY <1>4, <1>6 DEF LogsInv, Grown
  <2> QED
    BY <1>6, <2>1 DEF LogsInv
<1>10. BoundInv'
  <2>1. /\ Begins(wal_files'[mem_table]) = Begins(log)
        /\ Logged(wal_files'[mem_table]) = Logged(log)
    <3>1. r.cmd = "TxCommit" /\ r.ops = {}
      BY DEF TxCommit, Record
    <3> HIDE DEF r
    <3> QED
      BY <1>6, <3>1 DEF Grown
  <2>2. \A id \in Logs : /\ Begins(wal_files'[id]) = Begins(wal_files[id])
                         /\ Logged(wal_files'[id]) = Logged(wal_files[id])
    BY <1>6, <2>1
  <2>3. PICK c \in Nat :
          /\ Logs \subseteq 0..c /\ DOMAIN ss \subseteq 0..c
          /\ \A id \in Logs : Begins(wal_files[id]) \subseteq 0..c
    BY <1>4 DEF BoundInv
  <2>4. \A id \in Logs : Logged(wal_files'[id]) \subseteq Key \X (0..MaxSeq)
    BY <1>4, <2>2 DEF BoundInv
  <2>5. \A t \in DOMAIN ss : ss[t] \subseteq Key \X (0..MaxSeq)
    BY <1>4 DEF BoundInv
  <2> QED
    BY <1>1, <1>6, <2>2, <2>3, <2>4, <2>5 DEF BoundInv
<1>11. /\ \A id \in Logs : id \in Nat /\ id <= mem_table
       /\ \A id \in Logs : \A v \in LogVersions(id) : v[2] \in Nat /\ v[2] <= visible
       /\ \A t \in DOMAIN ss : \A v \in ss[t] : v[2] \in Nat /\ v[2] <= visible
  BY <1>1, CommitNewest
<1>12. OrderInv'
  <2> DEFINE New(id) == Restored(wal_files'[id])
  <2>1. ASSUME NEW a \in Logs, NEW b \in Logs, a < b,
               NEW u \in New(a), NEW v \in New(b)
        PROVE  u[2] < v[2]
    <3>1. a # mem_table
      <4>1. a \in Nat /\ b \in Nat /\ mem_table \in Nat /\ b <= mem_table
        BY <1>2, <1>11
      <4> QED
        BY <2>1, <4>1
    <3>2. u \in LogVersions(a)
      BY <1>8, <3>1
    <3>3. CASE v \in LogVersions(b)
      BY <1>4, <2>1, <3>2, <3>3 DEF OrderInv
    <3>4. CASE v \in cur.ops
      <4>1. u[2] \in Nat /\ u[2] <= visible
        BY <1>11, <3>2
      <4> QED
        BY <1>2, <3>4, <4>1
    <3> QED
      BY <1>7, <1>8, <3>3, <3>4
  <2>2. ASSUME NEW t \in DOMAIN ss, NEW a \in Logs,
               NEW u \in ss[t], NEW v \in New(a), u[1] = v[1]
        PROVE  u[2] <= v[2] \/ u \in New(a)
    <3>1. CASE v \in LogVersions(a)
      <4>1. u[2] <= v[2] \/ u \in LogVersions(a)
        BY <1>4, <2>2, <3>1 DEF OrderInv
      <4> QED
        BY <1>7, <1>8, <4>1
    <3>2. CASE v \in cur.ops
      <4>1. u[2] \in Nat /\ u[2] <= visible
        BY <1>11
      <4> QED
        BY <1>2, <3>2, <4>1
    <3> QED
      BY <1>7, <1>8, <3>1, <3>2
  <2>3. \A s, t \in DOMAIN ss : s < t =>
          \A u \in ss[s], v \in ss[t] : u[1] = v[1] => u[2] <= v[2]
    BY <1>4 DEF OrderInv
  <2>4. \A id : LogVersions(id)' = New(id)
    BY DEF LogVersions
  <2> HIDE DEF New
  <2> QED
    BY <1>1, <1>6, <2>1, <2>2, <2>3, <2>4 DEF OrderInv
<1>13. OnDisk' = OnDisk \cup cur.ops
  <2>1. \A v : (\E id \in Logs : v \in Restored(wal_files'[id]))
                 <=> v \in cur.ops \/ \E id \in Logs : v \in LogVersions(id)
    BY <1>2, <1>7, <1>8
  <2>2. \A v : v \in OnDisk <=> \/ \E id \in Logs : v \in LogVersions(id)
                                \/ \E t \in DOMAIN ss : v \in ss[t]
    BY <1>4, DiskTypes
  <2>3. \A v : v \in OnDisk' <=> \/ \E id \in Logs : v \in Restored(wal_files'[id])
                                 \/ \E t \in DOMAIN ss : v \in ss[t]
    BY <1>1, <1>6 DEF OnDisk, Logs
  <2> QED
    BY <2>1, <2>2, <2>3
<1> QED
  BY <1>6, <1>7, <1>9, <1>10, <1>12, <1>13

\* And the keys of the commit have its number from then on.
LEMMA HeldCommit ==
  ASSUME IInv, AppendCommit
  PROVE  \A k \in Key : Held'[k] = IF <<k, next_seq - 1>> \in cur.ops THEN next_seq - 1
                                   ELSE Held[k]
<1> SUFFICES ASSUME NEW k \in Key
             PROVE  Held'[k] = IF <<k, next_seq - 1>> \in cur.ops THEN next_seq - 1
                               ELSE Held[k]
  OBVIOUS
<1> DEFINE n == next_seq - 1
<1>1. phase = "up" /\ step = "commit"
  BY DEF AppendCommit
<1>2. /\ cur.ops \subseteq Key \X (0..MaxSeq) /\ n \in 0..MaxSeq /\ MaxSeq \in Nat
      /\ visible \in Nat /\ visible < n
      /\ \A v \in cur.ops : v[2] = n
  BY <1>1, CommitIs
<1>3. OnDisk' = OnDisk \cup cur.ops /\ OnDisk \subseteq Key \X (0..MaxSeq)
  BY DiskCommit, DiskTypes DEF IInv
<1>4. \A v \in OnDisk : v[2] \in Nat /\ v[2] <= visible
  BY <1>1, CommitNewest
<1>5. Held[k] = HeldIn(OnDisk, k) /\ Held'[k] = HeldIn(OnDisk', k)
  BY DEF Held, HeldIn
<1> DEFINE X == OnDisk \cup cur.ops
           h == HeldIn(X, k)
<1>6. X \subseteq Key \X (0..MaxSeq)
  BY <1>2, <1>3
<1>7. /\ h \in 0..MaxSeq
      /\ \A v \in X : v[1] = k => v[2] <= h
      /\ h = 0 \/ \E v \in X : v[1] = k /\ v[2] = h
  <2> HIDE DEF X
  <2> QED
    BY <1>2, <1>6, HeldInIs
<1>8. Held'[k] = h
  BY <1>3, <1>5
<1>9. CASE <<k, n>> \in cur.ops
  <2>1. n <= h
    BY <1>7, <1>9
  <2>2. \A v \in X : v[2] <= n
    <3>1. n \in Nat
      BY <1>2
    <3> HIDE DEF n
    <3> QED
      BY <1>2, <1>4, <3>1
  <2>3. h <= n
    <3>1. n \in Nat /\ 0 <= n
      BY <1>2
    <3> HIDE DEF X, h, n
    <3> QED
      BY <1>7, <2>2, <3>1
  <2>4. h = n
    <3>1. h \in Nat /\ n \in Nat
      BY <1>2, <1>7
    <3> HIDE DEF h, n
    <3> QED
      BY <2>1, <2>3, <3>1
  <2> QED
    BY <1>8, <1>9, <2>4
<1>10. CASE <<k, n>> \notin cur.ops
  <2>1. \A v \in cur.ops : v[1] # k
    <3>1. \A v \in cur.ops : v = <<v[1], n>>
      BY <1>2
    <3> HIDE DEF n
    <3> QED
      BY <1>10, <3>1
  <2>2. {u \in X : u[1] = k} = {u \in OnDisk : u[1] = k}
    BY <2>1
  <2>3. h = HeldIn(OnDisk, k)
    <3> HIDE DEF X
    <3> QED
      BY <2>2 DEF HeldIn
  <2> QED
    BY <1>5, <1>8, <1>10, <2>3
<1> QED
  BY <1>9, <1>10

LEMMA AppendCommitStep ==
  ASSUME IInv, AppendCommit
  PROVE  IInv'
<1> DEFINE log == wal_files[mem_table]
           r == TxCommit(cur.tx)
<1>1. /\ phase = "up" /\ phase' = "up" /\ step = "commit" /\ step' = "publish"
      /\ unflushed' = FALSE
      /\ UNCHANGED <<ss, stray, found, mem_table, frozen, entries, tables, wal_id,
                     table_id, next_seq, visible, tx_id, cur, freezing, flushing,
                     victim, acked>>
  BY DEF AppendCommit, stateVars, counterVars
<1>2. /\ ~freezing /\ mem_table \in Logs /\ DOMAIN entries \subseteq Logs
      /\ \A v \in cur.ops : v[2] = next_seq - 1
  BY <1>1, CommitIs
<1>3. Typed
  BY DEF IInv
<1>4. /\ Logs' = Logs /\ wal_files' = [id \in Logs |-> wal_files'[id]]
      /\ \A id \in Logs : id # mem_table => wal_files'[id] = wal_files[id]
      /\ Grown(wal_files'[mem_table], log, r)
      /\ Restored(wal_files'[mem_table]) = LogVersions(mem_table) \cup cur.ops
      /\ LogsInv' /\ BoundInv' /\ OrderInv'
  BY DiskCommit
<1>5. Begins(wal_files'[mem_table]) = Begins(log) /\ Logged(wal_files'[mem_table]) = Logged(log)
  <2>1. r.cmd = "TxCommit" /\ r.ops = {}
    BY DEF TxCommit, Record
  <2> HIDE DEF r
  <2> QED
    BY <1>4, <2>1 DEF Grown
<1>6. \A id \in Logs : LogVersions(id)' = IF id = mem_table THEN LogVersions(id) \cup cur.ops
                                          ELSE LogVersions(id)
  BY <1>4 DEF LogVersions
<1>7. Typed'
  <2>1. wal_files' = [id \in Logs' |-> wal_files'[id]]
    BY <1>4
  <2>2. ss' = [t \in DOMAIN ss' |-> ss'[t]] /\ entries' = [id \in DOMAIN entries' |-> entries'[id]]
    BY <1>1, <1>3 DEF Typed
  <2> QED
    BY <1>1, <1>3, <2>1, <2>2 DEF Typed
<1>8. MemoryInv' /\ FlushInv'
  <2>1. ASSUME NEW id \in DOMAIN entries
        PROVE  entries'[id] = LogVersions(id)' \cup Pending(id)'
    <3>1. entries[id] = LogVersions(id) \cup (IF id = mem_table THEN cur.ops ELSE {})
      BY <1>1 DEF IInv, MemoryInv, Pending
    <3>2. Pending(id)' = {}
      BY <1>1 DEF Pending
    <3> QED
      BY <1>1, <1>2, <1>6, <3>1, <3>2
  <2>2. \A id \in Logs : id # mem_table => LogVersions(id)' = LogVersions(id)
    BY <1>6
  <2> QED
    BY <1>1, <1>2, <1>4, <2>1, <2>2, CommitFrame
<1>9. CounterInv'
  <2>1. ASSUME NEW id \in Logs
        PROVE  /\ id < wal_id
               /\ \A v \in Logged(wal_files'[id]) : v[2] < next_seq
               /\ \A tx \in Begins(wal_files'[id]) : tx < tx_id
               /\ \A v \in LogVersions(id)' : v[2] <= visible \/ (id = mem_table /\ v \in cur.ops)
    <3>1. /\ id < wal_id
          /\ \A v \in Logged(wal_files[id]) : v[2] < next_seq
          /\ \A tx \in Begins(wal_files[id]) : tx < tx_id
          /\ \A v \in LogVersions(id) : v[2] <= visible
      BY <1>1 DEF IInv, CounterInv
    <3>2. Logged(wal_files'[id]) = Logged(wal_files[id])
          /\ Begins(wal_files'[id]) = Begins(wal_files[id])
      BY <1>4, <1>5
    <3> QED
      BY <1>6, <3>1, <3>2
  <2> QED
    BY <1>1, <1>4, <2>1 DEF IInv, CounterInv
<1>10. CommitInv'
  <2>1. cur.ops \subseteq LogVersions(mem_table)'
    BY <1>1, <1>4 DEF LogVersions
  <2>2. cur.tx \in Begins(wal_files'[mem_table])
    BY <1>1, <1>5 DEF IInv, CommitInv
  <2>3. /\ \E keys \in (SUBSET Key) \ {{}} : cur.ops = keys \X {next_seq - 1}
        /\ visible < next_seq - 1 /\ next_seq - 1 <= MaxSeq
    BY <1>1 DEF IInv, CommitInv
  <2> QED
    BY <1>1, <2>1, <2>2, <2>3 DEF CommitInv, LogVersions
<1>11. AckInv'
  <2>1. ASSUME NEW k \in Key PROVE acked[k] <= Held'[k] /\ acked[k] <= visible
    <3>1. acked[k] <= Held[k] /\ acked[k] <= visible /\ acked[k] \in Nat
      BY <1>1, <1>3 DEF IInv, AckInv, Typed
    <3>2. Held'[k] = IF <<k, next_seq - 1>> \in cur.ops THEN next_seq - 1 ELSE Held[k]
      BY HeldCommit
    <3>3. visible < next_seq - 1 /\ visible \in Nat /\ next_seq \in Nat
      BY <1>1, CommitIs
    <3> QED
      BY <3>1, <3>2, <3>3
  <2> QED
    BY <1>1, <2>1 DEF AckInv
<1> QED
  BY <1>4, <1>7, <1>8, <1>9, <1>10, <1>11 DEF IInv

LEMMA PublishStep ==
  ASSUME IInv, Publish
  PROVE  IInv' /\ Held' = Held
<1> DEFINE n == next_seq - 1
<1>1. /\ phase = "up" /\ phase' = "up" /\ step = "publish" /\ step' = "idle"
      /\ cur' = NoCommit
      /\ visible' = (CHOOSE v \in cur.ops : TRUE)[2]
      /\ acked' = [k \in Key |-> IF <<k, visible'>> \in cur.ops THEN visible' ELSE acked[k]]
      /\ UNCHANGED <<wal_files, ss, stray, found, mem_table, frozen, entries, tables,
                     wal_id, table_id, next_seq, tx_id, unflushed, freezing, flushing,
                     victim>>
  BY DEF Publish, diskVars, stateVars
<1>2. /\ ~freezing /\ mem_table \in Logs /\ DOMAIN entries \subseteq Logs
      /\ next_seq \in Nat /\ visible \in Nat /\ visible < n /\ n \in 0..MaxSeq
      /\ MaxSeq \in Nat
      /\ cur.ops # {} /\ \A v \in cur.ops : v[2] = n
  BY <1>1, CommitIs
<1>3. visible' = n /\ n \in Nat
  <2>1. (CHOOSE v \in cur.ops : TRUE) \in cur.ops
    BY <1>2
  <2> QED
    BY <1>1, <1>2, <2>1
<1>4. Typed /\ LogsInv /\ BoundInv /\ OrderInv
  BY DEF IInv
<1>5. /\ Logs' = Logs
      /\ \A id \in Logs : LogVersions(id)' = LogVersions(id)
      /\ LogsInv' /\ BoundInv' /\ OrderInv' /\ Held' = Held
  BY <1>1, <1>4, DiskSame
<1>6. Typed'
  <2>1. wal_files' = [id \in Logs' |-> wal_files'[id]]
    BY <1>1, <1>4, <1>5 DEF Typed
  <2>2. ss' = [t \in DOMAIN ss' |-> ss'[t]] /\ entries' = [id \in DOMAIN entries' |-> entries'[id]]
    BY <1>1, <1>4 DEF Typed
  <2>3. visible' \in Nat /\ cur' \in [tx : Nat, ops : SUBSET Version]
    BY <1>1, <1>3 DEF NoCommit
  <2>4. acked' \in [Key -> Nat]
    <3>1. acked \in [Key -> Nat]
      BY <1>4 DEF Typed
    <3> QED
      BY <1>1, <2>3, <3>1
  <2> QED
    BY <1>1, <1>4, <2>1, <2>2, <2>3, <2>4 DEF Typed
<1>7. MemoryInv' /\ FlushInv'
  <2>1. \A id \in DOMAIN entries : entries'[id] = LogVersions(id)' \cup Pending(id)'
    BY <1>1, <1>2, <1>5 DEF MemoryInv, Pending, IInv
  <2> QED
    BY <1>1, <1>2, <1>5, <2>1, CommitFrame
<1>8. CounterInv'
  <2>1. ASSUME NEW id \in Logs, NEW v \in LogVersions(id)
        PROVE  v[2] <= n
    <3>1. v[2] <= visible \/ v \in cur.ops
      BY <1>1 DEF IInv, CounterInv
    <3>2. v[2] \in Nat
      <4>1. LogVersions(id) \subseteq Key \X (0..MaxSeq)
        BY <1>4, DiskTypes
      <4> QED
        BY <4>1
    <3> QED
      BY <1>2, <1>3, <3>1, <3>2
  <2>2. ASSUME NEW t \in DOMAIN ss, NEW v \in ss[t]
        PROVE  v[2] <= n
    <3>1. v[2] <= visible
      BY <1>1 DEF IInv, CounterInv
    <3>2. v[2] \in Nat
      <4>1. ss[t] \subseteq Key \X (0..MaxSeq)
        BY <1>4 DEF BoundInv
      <4> QED
        BY <4>1
    <3> QED
      BY <1>2, <1>3, <3>1, <3>2
  <2>3. n < next_seq
    BY <1>2
  <2> HIDE DEF n
  <2> QED
    BY <1>1, <1>3, <1>5, <2>1, <2>2, <2>3 DEF IInv, CounterInv
<1>9. CommitInv'
  BY <1>1 DEF CommitInv
<1>10. AckInv'
  <2>1. ASSUME NEW k \in Key PROVE acked'[k] <= Held[k] /\ acked'[k] <= n
    <3>1. CASE <<k, n>> \in cur.ops
      <4>1. acked'[k] = n
        BY <1>1, <1>3, <3>1
      <4>2. <<k, n>> \in OnDisk
        <5>1. <<k, n>> \in LogVersions(mem_table)
          BY <1>1, <3>1 DEF IInv, CommitInv
        <5> QED
          BY <1>2, <1>4, <5>1, DiskTypes
      <4>3. n <= Held[k]
        <5>1. OnDisk \subseteq Key \X (0..MaxSeq)
          BY <1>4, DiskTypes
        <5>2. \A v \in OnDisk : v[1] = k => v[2] <= HeldIn(OnDisk, k)
          BY <1>2, <5>1, HeldInIs
        <5> QED
          BY <4>2, <5>2, HeldIs
      <4> QED
        BY <1>3, <4>1, <4>3
    <3>2. CASE <<k, n>> \notin cur.ops
      <4>1. acked'[k] = acked[k]
        BY <1>1, <1>3, <3>2
      <4>2. acked[k] <= Held[k] /\ acked[k] <= visible /\ acked[k] \in Nat
        BY <1>1, <1>4 DEF IInv, AckInv, Typed
      <4> QED
        BY <1>2, <1>3, <4>1, <4>2
    <3> QED
      BY <3>1, <3>2
  <2> QED
    BY <1>1, <1>3, <1>5, <2>1 DEF AckInv
<1> QED
  BY <1>5, <1>6, <1>7, <1>8, <1>9, <1>10 DEF IInv

-----------------------------------------------------------------------------
(* The freeze.                                                             *)

LEMMA NewWalStep ==
  ASSUME IInv, NewWal
  PROVE  IInv' /\ Held' = Held
<1>1. /\ phase = "up" /\ phase' = "up" /\ step = "idle" /\ ~freezing
      /\ wal_id' = wal_id + 1 /\ freezing' = TRUE
      /\ UNCHANGED <<ss, stray, found, mem_table, frozen, entries, tables, table_id,
                     next_seq, visible, tx_id, unflushed, step, cur, flushing, victim,
                     acked>>
  BY DEF NewWal, stateVars
<1>2. /\ wal_id \in Nat /\ mem_table \in Logs /\ DOMAIN entries \subseteq Logs
      /\ \A id \in Logs : id \in Nat /\ id < wal_id
  <2>1. Logs \subseteq Nat
    BY DEF IInv, BoundInv
  <2> QED
    BY <1>1, <2>1, TypesHold DEF IInv, Typed, CounterInv
<1>3. PICK new \in Nat : new = wal_id
  BY <1>2
<1>4. new \notin Logs /\ wal_files' = With(wal_files, new, <<>>)
  <2>1. new \notin Logs
    BY <1>2, <1>3
  <2> QED
    BY <1>3, <2>1 DEF NewWal
<1>5. Typed /\ LogsInv /\ BoundInv /\ OrderInv
  BY DEF IInv
<1>6. /\ Logs' = Logs \cup {new} /\ wal_files' = [id \in Logs' |-> wal_files'[id]]
      /\ wal_files'[new] = <<>>
      /\ \A id \in Logs : wal_files'[id] = wal_files[id]
      /\ LogVersions(new)' = {}
      /\ \A id \in Logs : LogVersions(id)' = LogVersions(id)
      /\ LogsInv' /\ BoundInv' /\ OrderInv' /\ Held' = Held
  <2>1. Logs' = Logs \cup {new} /\ wal_files' = [id \in Logs' |-> wal_files'[id]]
    BY <1>1, <1>4, <1>5, DiskNewLog
  <2>2. /\ wal_files'[new] = <<>> /\ LogVersions(new)' = {}
        /\ \A id \in Logs : wal_files'[id] = wal_files[id]
                            /\ LogVersions(id)' = LogVersions(id)
    BY <1>1, <1>4, <1>5, DiskNewLog
  <2>3. LogsInv' /\ BoundInv' /\ OrderInv' /\ Held' = Held
    BY <1>1, <1>4, <1>5, DiskNewLog
  <2> QED
    BY <2>1, <2>2, <2>3
<1>7. Typed'
  <2>1. ss' = [t \in DOMAIN ss' |-> ss'[t]] /\ entries' = [id \in DOMAIN entries' |-> entries'[id]]
    BY <1>1, <1>5 DEF Typed
  <2>2. wal_id' \in Nat
    BY <1>1, <1>2
  <2> QED
    BY <1>1, <1>5, <1>6, <2>1, <2>2 DEF Typed
<1>8. MemoryInv'
  <2>1. wal_id' - 1 = new /\ mem_table < new
    BY <1>1, <1>2, <1>3
  <2>2. \A id \in DOMAIN entries : entries[id] = LogVersions(id)' \cup Pending(id)'
    BY <1>1, <1>2, <1>6 DEF IInv, MemoryInv, Pending
  <2>3. Logs' = DOMAIN entries \cup {new} \cup (IF flushing = "remove" THEN {victim} ELSE {})
    BY <1>1, <1>6 DEF IInv, MemoryInv
  <2>4. /\ Descends(tables, DOMAIN ss) /\ mem_table \in DOMAIN entries
        /\ Descends(frozen, DOMAIN entries \ {mem_table})
        /\ \A id \in DOMAIN entries : id <= mem_table
    BY <1>1 DEF IInv, MemoryInv
  <2> QED
    BY <1>1, <1>6, <2>1, <2>2, <2>3, <2>4 DEF MemoryInv
<1>9. CounterInv'
  <2>1. ASSUME NEW id \in Logs'
        PROVE  /\ id < wal_id + 1
               /\ \A v \in Logged(wal_files'[id]) : v[2] < next_seq
               /\ \A tx \in Begins(wal_files'[id]) : tx < tx_id
               /\ \A v \in LogVersions(id)' : v[2] <= visible
    <3>1. CASE id = new
      <4>1. Logged(wal_files'[id]) = {} /\ Begins(wal_files'[id]) = {}
        BY <1>6, <3>1, EmptyLog
      <4> QED
        BY <1>2, <1>3, <1>6, <3>1, <4>1
    <3>2. CASE id \in Logs
      <4>1. id < wal_id + 1
        BY <1>2, <3>2
      <4> QED
        BY <1>1, <1>6, <3>2, <4>1 DEF IInv, CounterInv
    <3> QED
      BY <1>6, <3>1, <3>2
  <2> QED
    BY <1>1, <2>1 DEF IInv, CounterInv
<1>10. CommitInv'
  BY <1>1 DEF CommitInv
<1>11. FlushInv'
  <2> SUFFICES ASSUME flushing # "idle"
               PROVE  /\ victim \in Logs' /\ \A id \in Logs' : victim <= id
                      /\ flushing \in {"write", "retire"} =>
                            frozen # <<>> /\ victim = frozen[Len(frozen)]
                      /\ flushing = "remove" => victim \notin DOMAIN entries
                      /\ flushing \in {"retire", "remove"} => Tabled(LogVersions(victim))'
    BY <1>1 DEF FlushInv
  <2>1. victim \in Logs /\ \A id \in Logs : victim <= id
    BY <1>1 DEF IInv, FlushInv
  <2>2. victim <= new
    BY <1>2, <1>3, <2>1
  <2>3. LogVersions(victim)' = LogVersions(victim)
    BY <1>1, <1>6, <2>1 DEF LogVersions
  <2>4. Tabled(LogVersions(victim))' <=> Tabled(LogVersions(victim))
    BY <1>1, <2>3 DEF Tabled
  <2> QED
    BY <1>1, <1>6, <2>1, <2>2, <2>4 DEF IInv, FlushInv
<1>12. AckInv'
  BY <1>1, <1>6, AckKept DEF IInv
<1> QED
  BY <1>6, <1>7, <1>8, <1>9, <1>10, <1>11, <1>12 DEF IInv

\* A list with a larger id in front.
LEMMA DescendsInFront ==
  ASSUME NEW s, NEW ids, ids \subseteq Nat, Descends(s, ids),
         NEW a \in Nat, \A b \in ids : b < a
  PROVE  /\ Descends(<<a>> \o s, ids \cup {a})
         /\ Len(<<a>> \o s) = Len(s) + 1
         /\ \A i \in 1..Len(s) : (<<a>> \o s)[i + 1] = s[i]
<1> DEFINE all == ids \cup {a}
           new == <<a>> \o s
<1>1. /\ Len(s) \in Nat
      /\ \A b \in ids : \E i \in 1..Len(s) : s[i] = b
      /\ \A i \in 1..Len(s) : s[i] \in ids
      /\ \A i, j \in 1..Len(s) : i < j => s[i] > s[j]
  BY DescendsIs
<1>2. s \in Seq(all)
  <2>1. s \in Seq(ids)
    BY DEF Descends
  <2> QED
    BY <2>1
<1>3. /\ new \in Seq(all) /\ Len(new) = Len(s) + 1
      /\ new[1] = a
      /\ \A n \in 1..Len(s) : new[n + 1] = s[n]
      /\ \A n \in 2..(Len(s) + 1) : new[n] = s[n - 1]
  <2> HIDE DEF all
  <2>1. a \in all
    BY DEF all
  <2>2. new \in Seq(all) /\ Len(new) = Len(s) + 1
    BY <1>2, <2>1, InFront
  <2>3. new[1] = a /\ \A n \in 1..Len(s) : new[n + 1] = s[n]
    BY <1>2, <2>1, InFront
  <2>4. \A n \in 2..(Len(s) + 1) : new[n] = s[n - 1]
    BY <1>2, <2>1, InFront
  <2> QED
    BY <2>2, <2>3, <2>4
<1>4. DOMAIN new = 1..(Len(s) + 1)
  BY <1>3, LenProperties
<1> HIDE DEF new
<1>5. ASSUME NEW i \in DOMAIN new, NEW j \in DOMAIN new, i < j
      PROVE  new[i] > new[j]
  <2>1. j \in 2..(Len(s) + 1) /\ j - 1 \in 1..Len(s) /\ new[j] = s[j - 1]
    BY <1>1, <1>3, <1>4, <1>5
  <2>2. CASE i = 1
    <3>1. s[j - 1] \in ids
      BY <1>1, <2>1
    <3>2. s[j - 1] < a /\ s[j - 1] \in Nat
      BY <3>1
    <3> QED
      BY <1>3, <2>1, <2>2, <3>2
  <2>3. CASE i # 1
    <3>1. i \in 2..(Len(s) + 1) /\ i - 1 \in 1..Len(s) /\ i - 1 < j - 1
      BY <1>1, <1>4, <1>5, <2>3
    <3> QED
      BY <1>1, <1>3, <2>1, <3>1
  <2> QED
    BY <2>2, <2>3
<1>6. ASSUME NEW b \in all
      PROVE  \E i \in DOMAIN new : new[i] = b
  <2>1. CASE b = a
    <3>1. 1 \in DOMAIN new
      BY <1>1, <1>4
    <3> QED
      BY <1>3, <2>1, <3>1
  <2>2. CASE b \in ids
    <3>1. PICK i \in 1..Len(s) : s[i] = b
      BY <1>1, <2>2
    <3>2. i + 1 \in DOMAIN new /\ new[i + 1] = b
      BY <1>1, <1>3, <1>4, <3>1
    <3> QED
      BY <3>2
  <2> QED
    BY <2>1, <2>2
<1>7. Descends(new, all)
  <2> HIDE DEF all
  <2> QED
    BY <1>3, <1>5, <1>6 DEF Descends
<1> QED
  BY <1>3, <1>7 DEF new

LEMMA SwapStep ==
  ASSUME IInv, Swap
  PROVE  IInv' /\ Held' = Held
<1>1. /\ phase = "up" /\ phase' = "up" /\ freezing /\ freezing' = FALSE
      /\ mem_table' = wal_id - 1 /\ frozen' = <<mem_table>> \o frozen
      /\ entries' = With(entries, wal_id - 1, {}) /\ unflushed' = FALSE
      /\ UNCHANGED <<wal_files, ss, stray, found, tables, wal_id, table_id, next_seq,
                     visible, tx_id, step, cur, flushing, victim, acked>>
  BY DEF Swap, diskVars, counterVars
<1>2. Typed /\ LogsInv /\ BoundInv /\ OrderInv
  BY DEF IInv
<1>3. /\ Logs' = Logs
      /\ \A id \in Logs : LogVersions(id)' = LogVersions(id)
      /\ LogsInv' /\ BoundInv' /\ OrderInv' /\ Held' = Held
  BY <1>1, <1>2, DiskSame
<1>4. /\ step = "idle" /\ mem_table < wal_id - 1 /\ wal_files[wal_id - 1] = <<>>
      /\ wal_id - 1 \in Logs /\ mem_table \in DOMAIN entries
      /\ DOMAIN entries \subseteq Logs /\ Logs \subseteq Nat
      /\ \A id \in DOMAIN entries : id <= mem_table
      /\ Descends(frozen, DOMAIN entries \ {mem_table})
  BY <1>1 DEF IInv, MemoryInv, BoundInv
<1>5. PICK new \in Nat : new = wal_id - 1
  BY <1>4
<1>6. new \notin DOMAIN entries /\ mem_table \in Nat /\ mem_table < new
  BY <1>4, <1>5
<1>7. DOMAIN entries' = DOMAIN entries \cup {new}
      /\ entries' = [id \in DOMAIN entries' |-> IF id = new THEN {} ELSE entries[id]]
  BY <1>1, <1>5 DEF With
<1>8. LogVersions(new) = {}
  BY <1>4, <1>5, NothingRestored DEF LogVersions
<1>9. /\ Descends(frozen', DOMAIN entries)
      /\ Len(frozen') = Len(frozen) + 1
      /\ \A i \in 1..Len(frozen) : frozen'[i + 1] = frozen[i]
  <2> DEFINE ids == DOMAIN entries \ {mem_table}
  <2>1. ids \subseteq Nat /\ \A id \in ids : id < mem_table
    <3>1. \A id \in ids : id \in Nat /\ id # mem_table /\ id <= mem_table
      BY <1>4
    <3> QED
      BY <1>6, <3>1
  <2>2. ids \cup {mem_table} = DOMAIN entries
    BY <1>4
  <2> HIDE DEF ids
  <2>3. Descends(frozen, ids)
    BY <1>4 DEF ids
  <2> DEFINE new_list == <<mem_table>> \o frozen
  <2>4. /\ Descends(new_list, ids \cup {mem_table})
        /\ Len(new_list) = Len(frozen) + 1
        /\ \A i \in 1..Len(frozen) : new_list[i + 1] = frozen[i]
    BY <1>6, <2>1, <2>3, DescendsInFront
  <2>5. frozen' = new_list
    BY <1>1
  <2> HIDE DEF new_list
  <2> QED
    BY <2>2, <2>4, <2>5
<1>10. Typed'
  <2>1. wal_files' = [id \in Logs' |-> wal_files'[id]] /\ ss' = [t \in DOMAIN ss' |-> ss'[t]]
    BY <1>1, <1>2, <1>3 DEF Typed
  <2>2. entries' = [id \in DOMAIN entries' |-> entries'[id]]
    BY <1>7
  <2> QED
    BY <1>1, <1>2, <2>1, <2>2 DEF Typed
<1>11. MemoryInv'
  <2>1. ASSUME NEW id \in DOMAIN entries'
        PROVE  entries'[id] = LogVersions(id)' /\ Pending(id)' = {} /\ id <= new
    <3>1. Pending(id)' = {}
      BY <1>1, <1>4 DEF Pending
    <3>2. CASE id = new
      <4>1. id <= new
        BY <1>5, <3>2
      <4> QED
        BY <1>3, <1>4, <1>5, <1>7, <1>8, <3>1, <3>2, <4>1
    <3>3. CASE id \in DOMAIN entries /\ id # new
      <4>1. entries[id] = LogVersions(id)
        BY <1>1, <1>4, <3>3 DEF IInv, MemoryInv, Pending
      <4>2. id <= new
        <5>1. id \in Nat /\ id <= mem_table
          BY <1>4, <3>3
        <5> QED
          BY <1>6, <5>1
      <4> QED
        BY <1>3, <1>4, <1>7, <3>1, <3>3, <4>1, <4>2
    <3> QED
      BY <1>7, <3>2, <3>3
  <2>2. DOMAIN entries' \ {new} = DOMAIN entries
    BY <1>6, <1>7
  <2>3. Logs' = DOMAIN entries' \cup (IF flushing = "remove" THEN {victim} ELSE {})
    BY <1>1, <1>3, <1>5, <1>7 DEF IInv, MemoryInv
  <2>4. Descends(frozen', DOMAIN entries' \ {mem_table'}) /\ mem_table' \in DOMAIN entries'
    BY <1>1, <1>5, <1>7, <1>9, <2>2
  <2>5. Descends(tables', DOMAIN ss')
    BY <1>1 DEF IInv, MemoryInv
  <2> QED
    BY <1>1, <1>5, <2>1, <2>3, <2>4, <2>5 DEF MemoryInv
<1>12. CounterInv'
  BY <1>1, <1>3, <1>4 DEF IInv, CounterInv
<1>13. CommitInv'
  BY <1>1, <1>4 DEF CommitInv
<1>14. FlushInv'
  <2> SUFFICES ASSUME flushing # "idle"
               PROVE  /\ victim \in Logs /\ \A id \in Logs : victim <= id
                      /\ flushing \in {"write", "retire"} =>
                            frozen' # <<>> /\ victim = frozen'[Len(frozen')]
                      /\ flushing = "remove" => victim \notin DOMAIN entries'
                      /\ flushing \in {"retire", "remove"} => Tabled(LogVersions(victim))'
    BY <1>1, <1>3 DEF FlushInv
  <2>1. victim \in Logs /\ \A id \in Logs : victim <= id
    BY <1>1 DEF IInv, FlushInv
  <2>2. victim # new
    <3>1. victim \in Nat /\ victim <= mem_table
      BY <1>4, <2>1
    <3> QED
      BY <1>5, <1>6, <3>1
  <2>3. ASSUME flushing \in {"write", "retire"}
        PROVE  frozen' # <<>> /\ victim = frozen'[Len(frozen')]
    <3>1. frozen # <<>> /\ victim = frozen[Len(frozen)]
      BY <1>1, <2>3 DEF IInv, FlushInv
    <3>2. frozen \in Seq(DOMAIN entries \ {mem_table})
      BY <1>4 DEF Descends
    <3>3. Len(frozen) \in 1..Len(frozen)
      BY <3>1, <3>2, EmptySeq, LenProperties
    <3>4. frozen' # <<>>
      BY <1>9, <3>3
    <3> QED
      BY <1>9, <3>1, <3>3, <3>4
  <2>4. flushing = "remove" => victim \notin DOMAIN entries'
    BY <1>1, <1>7, <2>2 DEF IInv, FlushInv
  <2>5. LogVersions(victim)' = LogVersions(victim)
    BY <1>1 DEF LogVersions
  <2>6. Tabled(LogVersions(victim))' <=> Tabled(LogVersions(victim))
    BY <1>1, <2>5 DEF Tabled
  <2> QED
    BY <1>1, <2>1, <2>3, <2>4, <2>6 DEF IInv, FlushInv
<1>15. AckInv'
  BY <1>1, <1>3, AckKept DEF IInv
<1> QED
  BY <1>3, <1>10, <1>11, <1>12, <1>13, <1>14, <1>15 DEF IInv

-----------------------------------------------------------------------------
(* The flush.                                                              *)

\* The oldest frozen memtable has the oldest log.
LEMMA OldestIs ==
  ASSUME IInv, phase = "up", flushing # "remove", frozen # <<>>
  PROVE  /\ Len(frozen) \in Nat \ {0}
         /\ Oldest \in DOMAIN entries \ {mem_table}
         /\ \A id \in Logs : Oldest <= id
<1>1. /\ Descends(frozen, DOMAIN entries \ {mem_table})
      /\ mem_table \in DOMAIN entries /\ DOMAIN entries \subseteq Logs /\ Logs \subseteq Nat
      /\ \A id \in DOMAIN entries : id <= mem_table
      /\ Logs = DOMAIN entries \cup (IF freezing THEN {wal_id - 1} ELSE {})
      /\ freezing => mem_table < wal_id - 1
  BY DEF IInv, MemoryInv, BoundInv
<1>2. frozen \in Seq(DOMAIN entries \ {mem_table})
  BY <1>1 DEF Descends
<1>3. Len(frozen) \in Nat \ {0} /\ Len(frozen) \in 1..Len(frozen)
  BY <1>2, EmptySeq, LenProperties
<1>4. /\ \A a \in DOMAIN entries \ {mem_table} : \E i \in 1..Len(frozen) : frozen[i] = a
      /\ \A i \in 1..Len(frozen) : frozen[i] \in DOMAIN entries \ {mem_table}
      /\ \A i, j \in 1..Len(frozen) : i < j => frozen[i] > frozen[j]
  BY <1>1, DescendsIs
<1>5. Oldest \in DOMAIN entries \ {mem_table} /\ Oldest \in Nat /\ mem_table \in Nat
  BY <1>1, <1>3, <1>4 DEF Oldest
<1>6. Oldest <= mem_table
  BY <1>1, <1>5
<1>7. ASSUME NEW id \in Logs PROVE Oldest <= id
  <2>1. CASE id \in DOMAIN entries \ {mem_table}
    <3>1. PICK i \in 1..Len(frozen) : frozen[i] = id
      BY <1>4, <2>1
    <3>2. i = Len(frozen) \/ i < Len(frozen)
      BY <1>3
    <3>3. id \in Nat
      BY <1>1
    <3> QED
      BY <1>3, <1>4, <1>5, <3>1, <3>2, <3>3 DEF Oldest
  <2>2. CASE id = mem_table
    BY <1>6, <2>2
  <2>3. CASE freezing /\ id = wal_id - 1
    <3>1. id \in Nat /\ mem_table < id
      BY <1>1, <2>3
    <3> QED
      BY <1>5, <1>6, <3>1
  <2> QED
    BY <1>1, <2>1, <2>2, <2>3
<1> QED
  BY <1>3, <1>5, <1>7

LEMMA CreateTmpStep ==
  ASSUME IInv, CreateTmp
  PROVE  IInv' /\ Held' = Held
<1>1. /\ phase = "up" /\ phase' = "up" /\ flushing = "idle" /\ flushing' = "write"
      /\ frozen # <<>> /\ victim' = Oldest
      /\ table_id' = table_id + 1 /\ stray' = stray \cup {table_id}
      /\ UNCHANGED <<wal_files, ss, found, mem_table, frozen, entries, tables, wal_id,
                     next_seq, visible, tx_id, unflushed, step, cur, freezing, acked>>
  BY DEF CreateTmp, stateVars
<1>2. Typed /\ LogsInv /\ BoundInv /\ OrderInv
  BY DEF IInv
<1>3. /\ Logs' = Logs
      /\ \A id \in Logs : LogVersions(id)' = LogVersions(id)
      /\ LogsInv' /\ BoundInv' /\ OrderInv' /\ Held' = Held
  BY <1>1, <1>2, DiskSame
<1>4. /\ Oldest \in DOMAIN entries /\ Oldest \in Logs /\ Oldest \in Nat
      /\ \A id \in Logs : Oldest <= id
  <2>1. DOMAIN entries \subseteq Logs /\ Logs \subseteq Nat
    BY TypesHold DEF IInv, BoundInv
  <2> QED
    BY <1>1, <2>1, OldestIs
<1>5. table_id \in Nat /\ table_id + 1 > 0 /\ table_id + 1 \in Nat /\ (table_id + 1) - 1 = table_id
  BY <1>2 DEF Typed
<1>6. Typed'
  <2>1. wal_files' = [id \in Logs' |-> wal_files'[id]] /\ ss' = [t \in DOMAIN ss' |-> ss'[t]]
        /\ entries' = [id \in DOMAIN entries' |-> entries'[id]]
    BY <1>1, <1>2, <1>3 DEF Typed
  <2>2. stray' \subseteq Nat /\ table_id' \in Nat /\ victim' \in Nat
    BY <1>1, <1>2, <1>4, <1>5 DEF Typed
  <2> QED
    BY <1>1, <1>2, <2>1, <2>2 DEF Typed
<1>7. MemoryInv'
  <2>1. \A id \in DOMAIN entries : LogVersions(id)' = LogVersions(id)
                                   /\ Pending(id)' = Pending(id)
    BY <1>1 DEF LogVersions, Pending
  <2> QED
    BY <1>1, <1>3, <2>1 DEF IInv, MemoryInv
<1>8. CounterInv'
  <2>1. ASSUME NEW t \in DOMAIN ss PROVE t < table_id + 1 /\ t < (table_id + 1) - 1
    <3>1. t < table_id /\ t \in Nat
      BY <1>1 DEF IInv, CounterInv, BoundInv
    <3> QED
      BY <1>5, <3>1
  <2> QED
    BY <1>1, <1>3, <1>5, <2>1 DEF IInv, CounterInv
<1>9. CommitInv'
  BY <1>1 DEF IInv, CommitInv, LogVersions
<1>10. FlushInv'
  BY <1>1, <1>3, <1>4 DEF FlushInv, Oldest
<1>11. AckInv'
  BY <1>1, <1>3, AckKept DEF IInv
<1> QED
  BY <1>3, <1>6, <1>7, <1>8, <1>9, <1>10, <1>11 DEF IInv

\* Of the versions of a key the newest one is written to the table.
Newest(all) == {v \in all : \A u \in all : u[1] = v[1] => u[2] <= v[2]}

LEMMA NewestIs ==
  ASSUME NEW c \in Nat, NEW all, all \subseteq Key \X (0..c), NEW v \in all
  PROVE  \E w \in Newest(all) : w[1] = v[1] /\ w[2] >= v[2]
<1> DEFINE T == {u[2] : u \in {x \in all : x[1] = v[1]}}
<1>1. T \subseteq 0..c /\ v[2] \in T
  OBVIOUS
<1>2. PICK m \in T : \A n \in T : n <= m
  <2> HIDE DEF T
  <2> QED
    BY <1>1, Greatest
<1>3. PICK w \in all : w[1] = v[1] /\ w[2] = m
  BY <1>2
<1>4. \A u \in all : u[1] = v[1] => u[2] <= m
  BY <1>2
<1>5. w \in Newest(all)
  BY <1>3, <1>4 DEF Newest
<1>6. v[2] \in Nat /\ m \in Nat /\ v[2] <= m
  BY <1>1, <1>2
<1> QED
  BY <1>3, <1>5, <1>6

\* A step that makes a table of the oldest log.
LEMMA DiskNewTable ==
  ASSUME LogsInv, BoundInv, OrderInv, wal_files' = wal_files,
         NEW id \in Nat, \A t \in DOMAIN ss : t < id,
         NEW a \in Logs, \A b \in Logs : a <= b,
         ss' = With(ss, id, Newest(LogVersions(a)))
  PROVE  /\ DOMAIN ss' = DOMAIN ss \cup {id} /\ ss' = [t \in DOMAIN ss' |-> ss'[t]]
         /\ ss'[id] = Newest(LogVersions(a))
         /\ \A t \in DOMAIN ss : ss'[t] = ss[t]
         /\ Logs' = Logs /\ \A b \in Logs : LogVersions(b)' = LogVersions(b)
         /\ LogsInv' /\ BoundInv' /\ OrderInv'
         /\ OnDisk' = OnDisk /\ Held' = Held
<1> DEFINE table == Newest(LogVersions(a))
<1>0. DOMAIN ss \subseteq Nat /\ Logs \subseteq Nat
  BY DEF BoundInv
<1>1. /\ DOMAIN ss' = DOMAIN ss \cup {id} /\ ss' = [t \in DOMAIN ss' |-> ss'[t]]
      /\ ss'[id] = table /\ \A t \in DOMAIN ss : ss'[t] = ss[t]
  <2>1. id \notin DOMAIN ss
    BY <1>0
  <2> QED
    BY <2>1 DEF With
<1>2. /\ table \subseteq LogVersions(a)
      /\ \A v \in table : \A u \in LogVersions(a) : u[1] = v[1] => u[2] <= v[2]
  BY DEF Newest
<1> HIDE DEF table
<1>3. Logs' = Logs /\ \A b \in Logs : LogVersions(b)' = LogVersions(b)
  BY DEF Logs, LogVersions
<1>4. LogsInv'
  BY <1>3 DEF LogsInv
<1>5. BoundInv'
  <2>1. PICK c \in Nat :
          /\ Logs \subseteq 0..c /\ DOMAIN ss \subseteq 0..c
          /\ \A b \in Logs : Begins(wal_files[b]) \subseteq 0..c
    BY DEF BoundInv
  <2> DEFINE d == c + id
  <2>2. d \in Nat /\ 0..c \subseteq 0..d /\ id \in 0..d
    OBVIOUS
  <2> HIDE DEF d
  <2>3. /\ Logs' \subseteq 0..d /\ DOMAIN ss' \subseteq 0..d
        /\ \A b \in Logs' : Begins(wal_files'[b]) \subseteq 0..d
    BY <1>1, <1>3, <2>1, <2>2
  <2>4. table \subseteq Key \X (0..MaxSeq)
    BY <1>2, DiskTypes
  <2>5. \A t \in DOMAIN ss' : ss'[t] \subseteq Key \X (0..MaxSeq)
    BY <1>1, <2>4 DEF BoundInv
  <2>6. \A b \in Logs' : Logged(wal_files'[b]) \subseteq Key \X (0..MaxSeq)
    BY <1>3 DEF BoundInv
  <2> QED
    BY <2>2, <2>3, <2>5, <2>6 DEF BoundInv
<1>6. OrderInv'
  <2>1. \A b, c \in Logs' : b < c =>
           \A u \in LogVersions(b)', v \in LogVersions(c)' : u[2] < v[2]
    BY <1>3 DEF OrderInv
  <2>2. ASSUME NEW s \in DOMAIN ss', NEW t \in DOMAIN ss', s < t,
               NEW u \in ss'[s], NEW v \in ss'[t], u[1] = v[1]
        PROVE  u[2] <= v[2]
    <3>1. s \in DOMAIN ss /\ ss'[s] = ss[s]
      <4>1. ~(id < t)
        BY <1>0, <1>1
      <4> QED
        BY <1>1, <2>2, <4>1
    <3>2. CASE t \in DOMAIN ss
      BY <1>1, <2>2, <3>1, <3>2 DEF OrderInv
    <3>3. CASE t = id
      <4>1. v \in table /\ v \in LogVersions(a)
        BY <1>1, <1>2, <3>3
      <4>2. u[2] <= v[2] \/ u \in LogVersions(a)
        BY <2>2, <3>1, <4>1 DEF OrderInv
      <4> QED
        BY <1>2, <2>2, <4>1, <4>2
    <3> QED
      BY <1>1, <3>2, <3>3
  <2>3. ASSUME NEW t \in DOMAIN ss', NEW b \in Logs,
               NEW u \in ss'[t], NEW v \in LogVersions(b), u[1] = v[1]
        PROVE  u[2] <= v[2] \/ u \in LogVersions(b)
    <3>1. CASE t \in DOMAIN ss
      BY <1>1, <2>3, <3>1 DEF OrderInv
    <3>2. CASE t = id
      <4>1. u \in LogVersions(a)
        BY <1>1, <1>2, <3>2
      <4>2. CASE b = a
        BY <4>1, <4>2
      <4>3. CASE b # a
        <5>1. a < b
          BY <1>0, <4>3
        <5>2. u[2] < v[2]
          BY <4>1, <5>1 DEF OrderInv
        <5>3. u[2] \in Nat /\ v[2] \in Nat
          <6>1. LogVersions(a) \subseteq Key \X (0..MaxSeq)
                /\ LogVersions(b) \subseteq Key \X (0..MaxSeq)
            BY DiskTypes
          <6> QED
            BY <4>1, <6>1
        <5> QED
          BY <5>2, <5>3
      <4> QED
        BY <4>2, <4>3
    <3> QED
      BY <1>1, <3>1, <3>2
  <2>4. \A t \in DOMAIN ss', b \in Logs' :
           \A u \in ss'[t], v \in LogVersions(b)' :
               u[1] = v[1] => u[2] <= v[2] \/ u \in LogVersions(b)'
    BY <1>3, <2>3
  <2> QED
    BY <2>1, <2>2, <2>4 DEF OrderInv
<1>7. OnDisk' = OnDisk
  <2>1. \A v : v \in OnDisk <=> \/ \E b \in Logs : v \in LogVersions(b)
                                \/ \E t \in DOMAIN ss : v \in ss[t]
    BY DEF OnDisk, Logs, LogVersions
  <2>2. \A v : v \in OnDisk' <=> \/ \E b \in Logs' : v \in LogVersions(b)'
                                 \/ \E t \in DOMAIN ss' : v \in ss'[t]
    BY DEF OnDisk, Logs, LogVersions
  <2>3. \A v : (\E b \in Logs' : v \in LogVersions(b)') <=> \E b \in Logs : v \in LogVersions(b)
    BY <1>3
  <2>4. \A v : (\E t \in DOMAIN ss' : v \in ss'[t])
                 <=> v \in table \/ \E t \in DOMAIN ss : v \in ss[t]
    BY <1>1
  <2>5. \A v : v \in OnDisk' <=> v \in OnDisk
    BY <1>2, <2>1, <2>2, <2>3, <2>4
  <2> QED
    BY <2>5
<1> QED
  BY <1>1, <1>3, <1>4, <1>5, <1>6, <1>7 DEF Held, table

LEMMA FinishStep ==
  ASSUME IInv, Finish
  PROVE  IInv' /\ Held' = Held
<1> DEFINE new == table_id - 1
           all == entries[victim]
<1>1. /\ phase = "up" /\ phase' = "up" /\ flushing = "write" /\ flushing' = "retire"
      /\ stray' \subseteq stray
      /\ IF all = {} THEN UNCHANGED <<ss, tables>>
         ELSE ss' = With(ss, new, Newest(all)) /\ tables' = <<new>> \o tables
      /\ UNCHANGED <<wal_files, found, mem_table, frozen, entries, wal_id, table_id,
                     next_seq, visible, tx_id, unflushed, step, cur, freezing, victim,
                     acked>>
  BY DEF Finish, counterVars, Newest
<1>2. Typed /\ LogsInv /\ BoundInv /\ OrderInv
  BY DEF IInv
<1>3. /\ victim \in DOMAIN entries /\ victim \in Logs /\ victim # mem_table
      /\ \A id \in Logs : victim <= id
      /\ all = LogVersions(victim)
  <2>1. victim \in Logs /\ victim # mem_table /\ \A id \in Logs : victim <= id
    BY <1>1, VictimIs DEF IInv, FlushInv
  <2>2. frozen # <<>> /\ victim = Oldest
    BY <1>1 DEF IInv, FlushInv, Oldest
  <2>3. victim \in DOMAIN entries
    BY <1>1, <2>2, OldestIs
  <2>4. all = LogVersions(victim)
    BY <1>1, <2>1, <2>3 DEF IInv, MemoryInv, Pending
  <2> QED
    BY <2>1, <2>3, <2>4
<1>4. PICK id : id = new
  OBVIOUS
<1>5. PICK a : a = victim
  OBVIOUS
<1> HIDE DEF new
<1>6. /\ id \in Nat /\ id < table_id /\ \A t \in DOMAIN ss : t \in Nat /\ t < id
      /\ \A t \in DOMAIN ss : t < table_id
  <2>1. table_id \in Nat /\ table_id > 0
    BY <1>1, <1>2 DEF IInv, CounterInv, Typed
  <2>2. \A t \in DOMAIN ss : t \in Nat /\ t < table_id - 1 /\ t < table_id
    BY <1>1, <1>2 DEF IInv, CounterInv, BoundInv
  <2> QED
    BY <1>4, <2>1, <2>2 DEF new
<1>7. \/ ss' = ss /\ tables' = tables /\ LogVersions(a) = {}
      \/ ss' = With(ss, id, Newest(LogVersions(a))) /\ tables' = <<id>> \o tables
  BY <1>1, <1>3, <1>4, <1>5
<1>8. /\ ss' = [t \in DOMAIN ss' |-> ss'[t]]
      /\ Logs' = Logs /\ \A b \in Logs : LogVersions(b)' = LogVersions(b)
      /\ LogsInv' /\ BoundInv' /\ OrderInv' /\ Held' = Held
      /\ \A t \in DOMAIN ss' : \/ t \in DOMAIN ss /\ ss'[t] = ss[t]
                               \/ t = id /\ ss'[t] \subseteq LogVersions(a)
      /\ Descends(tables', DOMAIN ss')
      /\ Tabled(LogVersions(a))'
  <2>0. Descends(tables, DOMAIN ss)
    BY <1>1 DEF IInv, MemoryInv
  <2>1. CASE ss' = ss /\ tables' = tables /\ LogVersions(a) = {}
    <3>1. /\ Logs' = Logs /\ \A b \in Logs : LogVersions(b)' = LogVersions(b)
          /\ LogsInv' /\ BoundInv' /\ OrderInv' /\ Held' = Held
      BY <1>1, <1>2, <2>1, DiskSame
    <3>2. Tabled(LogVersions(a))'
      BY <1>3, <1>5, <2>1, <3>1 DEF Tabled
    <3> QED
      BY <1>2, <2>0, <2>1, <3>1, <3>2 DEF Typed
  <2>2. CASE ss' = With(ss, id, Newest(LogVersions(a))) /\ tables' = <<id>> \o tables
    <3>1. a \in Logs /\ \A b \in Logs : a <= b
      BY <1>3, <1>5
    <3>2. /\ DOMAIN ss' = DOMAIN ss \cup {id} /\ ss' = [t \in DOMAIN ss' |-> ss'[t]]
          /\ ss'[id] = Newest(LogVersions(a))
          /\ \A t \in DOMAIN ss : ss'[t] = ss[t]
      BY <1>1, <1>2, <1>6, <2>2, <3>1, DiskNewTable
    <3>3. /\ Logs' = Logs /\ \A b \in Logs : LogVersions(b)' = LogVersions(b)
          /\ LogsInv' /\ BoundInv' /\ OrderInv' /\ Held' = Held
      BY <1>1, <1>2, <1>6, <2>2, <3>1, DiskNewTable
    <3>4. Newest(LogVersions(a)) \subseteq LogVersions(a)
      BY DEF Newest
    <3>5. Descends(tables', DOMAIN ss')
      <4> DEFINE list == <<id>> \o tables
      <4>1. Descends(list, DOMAIN ss \cup {id})
        <5>1. DOMAIN ss \subseteq Nat
          BY <1>6
        <5> QED
          BY <1>6, <2>0, <5>1, DescendsInFront
      <4> HIDE DEF list
      <4> QED
        BY <2>2, <3>2, <4>1 DEF list
    <3>6. Tabled(LogVersions(a))'
      <4>1. LogVersions(a) \subseteq Key \X (0..MaxSeq) /\ MaxSeq \in Nat
        BY <1>2, <3>1, DiskTypes, RecoveryAssumption
      <4>2. \A v \in LogVersions(a) :
               \E w \in Newest(LogVersions(a)) : w[1] = v[1] /\ w[2] >= v[2]
        BY <4>1, NewestIs
      <4>3. id \in DOMAIN ss'
        BY <3>2
      <4>4. LogVersions(a)' = LogVersions(a)
        BY <3>1, <3>3
      <4> QED
        BY <3>2, <4>2, <4>3, <4>4 DEF Tabled
    <3> QED
      BY <3>2, <3>3, <3>4, <3>5, <3>6
  <2> QED
    BY <1>7, <2>1, <2>2
<1>9. Typed'
  <2>1. wal_files' = [b \in Logs' |-> wal_files'[b]]
        /\ entries' = [b \in DOMAIN entries' |-> entries'[b]]
    BY <1>1, <1>2, <1>8 DEF Typed
  <2>2. stray' \subseteq Nat
    BY <1>1, <1>2 DEF Typed
  <2> QED
    BY <1>1, <1>2, <1>8, <2>1, <2>2 DEF Typed
<1>10. MemoryInv'
  <2>1. \A b \in DOMAIN entries : LogVersions(b)' = LogVersions(b)
                                  /\ Pending(b)' = Pending(b)
    BY <1>1 DEF LogVersions, Pending
  <2> QED
    BY <1>1, <1>8, <2>1 DEF IInv, MemoryInv
<1>11. CounterInv'
  <2>1. \A v \in LogVersions(a) : v[2] <= visible
    BY <1>1, <1>3, <1>5 DEF IInv, CounterInv
  <2>2. ASSUME NEW t \in DOMAIN ss' PROVE t < table_id /\ \A v \in ss'[t] : v[2] <= visible
    BY <1>1, <1>6, <1>8, <2>1 DEF IInv, CounterInv
  <2> QED
    BY <1>1, <1>8, <2>2 DEF IInv, CounterInv
<1>12. CommitInv'
  BY <1>1 DEF IInv, CommitInv, LogVersions
<1>13. FlushInv'
  <2>1. Tabled(LogVersions(victim))'
    <3>1. victim' = a
      BY <1>1, <1>5
    <3>2. LogVersions(victim)' = LogVersions(a)'
      BY <3>1 DEF LogVersions
    <3> QED
      BY <1>8, <3>2 DEF Tabled
  <2> QED
    BY <1>1, <1>3, <1>8, <2>1 DEF IInv, FlushInv
<1>14. AckInv'
  BY <1>1, <1>8, AckKept DEF IInv
<1> QED
  BY <1>8, <1>9, <1>10, <1>11, <1>12, <1>13, <1>14 DEF IInv

\* A list without its last id, the smallest one.
LEMMA DescendsWithoutLast ==
  ASSUME NEW s, NEW ids, ids \subseteq Nat, Descends(s, ids), s # <<>>,
         NEW x, x = s[Len(s)]
  PROVE  Descends(Without(s, x), ids \ {x})
<1> DEFINE new == Without(s, x)
           last == Len(s) - 1
<1>1. /\ Len(s) \in Nat
      /\ \A b \in ids : \E i \in 1..Len(s) : s[i] = b
      /\ \A i \in 1..Len(s) : s[i] \in ids
      /\ \A i, j \in 1..Len(s) : i < j => s[i] > s[j]
  BY DescendsIs
<1>2. s \in Seq(ids)
  BY DEF Descends
<1>3. last \in Nat /\ Len(s) = last + 1
  BY <1>1, <1>2, EmptySeq
<1>4. \A n \in 1..last : s[n] \in ids /\ s[n] # x
  <2> TAKE n \in 1..last
  <2>1. n \in 1..Len(s) /\ Len(s) \in 1..Len(s) /\ n < Len(s)
    BY <1>3
  <2>2. s[n] \in Nat /\ x \in Nat /\ s[n] > x /\ s[n] \in ids
    BY <1>1, <2>1
  <2> QED
    BY <2>2
<1>5. /\ new \in Seq(ids) /\ Len(new) = last
      /\ \A n \in 1..last : new[n] = s[n]
  BY <1>2, <1>4, WithoutLast
<1>6. DOMAIN new = 1..last
  BY <1>5, LenProperties
<1> HIDE DEF new
<1>7. new \in Seq(ids \ {x})
  <2>1. \A n \in 1..last : new[n] \in ids \ {x}
    BY <1>4, <1>5
  <2>2. new \in [1..last -> ids \ {x}]
    <3>1. new = [n \in 1..last |-> new[n]]
      BY <1>5, <1>6
    <3> QED
      BY <2>1, <3>1
  <2> QED
    BY <1>3, <2>2
<1>8. \A i, j \in DOMAIN new : i < j => new[i] > new[j]
  <2> TAKE i, j \in DOMAIN new
  <2>1. i \in 1..Len(s) /\ j \in 1..Len(s)
    BY <1>3, <1>6
  <2> QED
    BY <1>1, <1>5, <1>6, <2>1
<1>9. \A b \in ids \ {x} : \E i \in DOMAIN new : new[i] = b
  <2> TAKE b \in ids \ {x}
  <2>1. PICK i \in 1..Len(s) : s[i] = b
    BY <1>1
  <2>2. i # Len(s)
    BY <2>1
  <2>3. i \in 1..last
    <3>1. i \in 1..(last + 1) /\ i # last + 1
      BY <1>3, <2>1, <2>2
    <3> HIDE DEF last
    <3> QED
      BY <1>3, <3>1
  <2> QED
    BY <1>5, <1>6, <2>1, <2>3
<1> QED
  BY <1>7, <1>8, <1>9 DEF Descends, new

LEMMA RetireStep ==
  ASSUME IInv, Retire
  PROVE  IInv' /\ Held' = Held
<1>1. /\ phase = "up" /\ phase' = "up" /\ flushing = "retire" /\ flushing' = "remove"
      /\ frozen' = Without(frozen, victim) /\ entries' = Dropped(entries, victim)
      /\ UNCHANGED <<wal_files, ss, stray, found, mem_table, tables, wal_id, table_id,
                     next_seq, visible, tx_id, unflushed, step, cur, freezing, victim,
                     acked>>
  BY DEF Retire, diskVars, counterVars
<1>2. Typed /\ LogsInv /\ BoundInv /\ OrderInv
  BY DEF IInv
<1>3. /\ Logs' = Logs
      /\ \A id \in Logs : LogVersions(id)' = LogVersions(id)
      /\ LogsInv' /\ BoundInv' /\ OrderInv' /\ Held' = Held
  BY <1>1, <1>2, DiskSame
<1>4. /\ victim \in DOMAIN entries /\ victim # mem_table
      /\ frozen # <<>> /\ victim = frozen[Len(frozen)]
  <2>1. frozen # <<>> /\ victim = frozen[Len(frozen)]
    BY <1>1 DEF IInv, FlushInv
  <2> QED
    BY <1>1, <2>1, OldestIs DEF Oldest
<1>5. /\ DOMAIN entries' = DOMAIN entries \ {victim}
      /\ entries' = [id \in DOMAIN entries' |-> entries'[id]]
      /\ \A id \in DOMAIN entries' : entries'[id] = entries[id]
  BY <1>1 DEF Dropped
<1>6. Typed'
  <2>1. wal_files' = [id \in Logs' |-> wal_files'[id]] /\ ss' = [t \in DOMAIN ss' |-> ss'[t]]
    BY <1>1, <1>2, <1>3 DEF Typed
  <2> QED
    BY <1>1, <1>2, <1>5, <2>1 DEF Typed
<1>7. MemoryInv'
  <2>1. \A id \in DOMAIN entries' : /\ LogVersions(id)' = LogVersions(id)
                                    /\ Pending(id)' = Pending(id)
                                    /\ entries'[id] = entries[id]
                                    /\ id \in DOMAIN entries
    BY <1>1, <1>5 DEF LogVersions, Pending
  <2>2. Descends(frozen', DOMAIN entries' \ {mem_table})
    <3> DEFINE ids == DOMAIN entries \ {mem_table}
    <3>1. Descends(frozen, ids)
      BY <1>1 DEF IInv, MemoryInv
    <3>2. ids \subseteq Nat
      <4>1. DOMAIN entries \subseteq Logs /\ Logs \subseteq Nat
        BY TypesHold DEF IInv, BoundInv
      <4> QED
        BY <4>1
    <3>3. ids \ {victim} = DOMAIN entries' \ {mem_table}
      BY <1>5
    <3> HIDE DEF ids
    <3>4. Descends(Without(frozen, victim), ids \ {victim})
      BY <1>4, <3>1, <3>2, DescendsWithoutLast
    <3> QED
      BY <1>1, <3>3, <3>4
  <2>3. mem_table \in DOMAIN entries'
    BY <1>1, <1>4, <1>5 DEF IInv, MemoryInv
  <2>4. Logs' = DOMAIN entries' \cup (IF freezing THEN {wal_id - 1} ELSE {}) \cup {victim}
    <3>1. Logs = DOMAIN entries \cup (IF freezing THEN {wal_id - 1} ELSE {})
      BY <1>1 DEF IInv, MemoryInv
    <3> QED
      BY <1>3, <1>4, <1>5, <3>1
  <2> QED
    BY <1>1, <2>1, <2>2, <2>3, <2>4 DEF IInv, MemoryInv
<1>8. CounterInv'
  BY <1>1, <1>3 DEF IInv, CounterInv
<1>9. CommitInv'
  BY <1>1 DEF IInv, CommitInv, LogVersions
<1>10. FlushInv'
  <2>1. Tabled(LogVersions(victim))'
    BY <1>1 DEF IInv, FlushInv, Tabled, LogVersions
  <2> QED
    BY <1>1, <1>3, <1>5, <2>1 DEF IInv, FlushInv
<1>11. AckInv'
  BY <1>1, <1>3, AckKept DEF IInv
<1> QED
  BY <1>3, <1>6, <1>7, <1>8, <1>9, <1>10, <1>11 DEF IInv

\* A log goes, but a table has its versions or newer ones.
LEMMA DiskLogGone ==
  ASSUME LogsInv, BoundInv, OrderInv, ss' = ss,
         NEW a \in Logs, Tabled(LogVersions(a)), wal_files' = Dropped(wal_files, a)
  PROVE  /\ Logs' = Logs \ {a} /\ wal_files' = [id \in Logs' |-> wal_files'[id]]
         /\ \A id \in Logs' : wal_files'[id] = wal_files[id]
         /\ \A id \in Logs' : LogVersions(id)' = LogVersions(id)
         /\ LogsInv' /\ BoundInv' /\ OrderInv' /\ Held' = Held
<1>1. /\ Logs' = Logs \ {a} /\ wal_files' = [id \in Logs' |-> wal_files'[id]]
      /\ \A id \in Logs' : wal_files'[id] = wal_files[id]
  BY DEF Dropped, Logs
<1>2. \A id \in Logs' : id \in Logs /\ LogVersions(id)' = LogVersions(id)
  BY <1>1 DEF LogVersions
<1>3. LogsInv' /\ BoundInv'
  BY <1>1 DEF LogsInv, BoundInv
<1>4. OrderInv'
  BY <1>2, OrderKept
<1>5. Held' = Held
  <2>1. \A v : v \in OnDisk <=> \/ \E b \in Logs : v \in LogVersions(b)
                                \/ \E t \in DOMAIN ss : v \in ss[t]
    BY DEF OnDisk, Logs, LogVersions
  <2>2. \A v : v \in OnDisk' <=> \/ \E b \in Logs' : v \in LogVersions(b)'
                                 \/ \E t \in DOMAIN ss : v \in ss[t]
    BY DEF OnDisk, Logs, LogVersions
  <2>3. \A v \in OnDisk' : v \in OnDisk
    BY <1>2, <2>1, <2>2
  <2>4. OnDisk \subseteq Key \X (0..MaxSeq) /\ OnDisk' \subseteq Key \X (0..MaxSeq)
    BY <2>3, DiskTypes
  <2>5. \A v \in OnDisk : v[2] \in Nat
    BY <2>4
  <2>6. ASSUME NEW v \in OnDisk
        PROVE  \E w \in OnDisk' : w[1] = v[1] /\ v[2] <= w[2]
    <3>1. CASE v \in OnDisk'
      <4>1. v[1] = v[1] /\ v[2] <= v[2]
        BY <2>5
      <4> QED
        BY <3>1, <4>1
    <3>2. CASE v \notin OnDisk'
      <4>1. v \in LogVersions(a)
        BY <1>1, <1>2, <2>1, <2>2, <3>2
      <4>2. PICK t \in DOMAIN ss : \E w \in ss[t] : w[1] = v[1] /\ w[2] >= v[2]
        BY <4>1 DEF Tabled
      <4>3. PICK w \in ss[t] : w[1] = v[1] /\ w[2] >= v[2]
        BY <4>2
      <4>4. w \in OnDisk /\ w \in OnDisk' /\ w[2] \in Nat /\ v[2] \in Nat
        BY <2>1, <2>2, <2>5, <4>3
      <4> QED
        BY <4>3, <4>4
    <3> QED
      BY <3>1, <3>2
  <2>7. ASSUME NEW v \in OnDisk'
        PROVE  \E w \in OnDisk : w[1] = v[1] /\ v[2] <= w[2]
    <3>1. v \in OnDisk /\ v[1] = v[1] /\ v[2] <= v[2]
      BY <2>3, <2>5
    <3> QED
      BY <3>1
  <2>8. PICK X, Y : X = OnDisk /\ Y = OnDisk'
    OBVIOUS
  <2>9. \A k \in Key : HeldIn(X, k) = HeldIn(Y, k)
    BY <2>4, <2>6, <2>7, <2>8, HeldInSame, RecoveryAssumption
  <2>10. Held = [k \in Key |-> HeldIn(X, k)] /\ Held' = [k \in Key |-> HeldIn(Y, k)]
    BY <2>8 DEF Held, HeldIn
  <2> QED
    BY <2>9, <2>10
<1> QED
  BY <1>1, <1>2, <1>3, <1>4, <1>5

LEMMA RemoveWalStep ==
  ASSUME IInv, RemoveWal
  PROVE  IInv' /\ Held' = Held
<1>1. /\ phase = "up" /\ phase' = "up" /\ flushing = "remove" /\ flushing' = "idle"
      /\ wal_files' = Dropped(wal_files, victim) /\ victim' = 0
      /\ UNCHANGED <<ss, stray, found, mem_table, frozen, entries, tables, wal_id,
                     table_id, next_seq, visible, tx_id, unflushed, step, cur, freezing,
                     acked>>
  BY DEF RemoveWal, stateVars, counterVars
<1>2. Typed /\ LogsInv /\ BoundInv /\ OrderInv
  BY DEF IInv
<1>3. /\ victim \in Logs /\ victim # mem_table /\ victim \notin DOMAIN entries
      /\ \A id \in Logs : victim <= id
      /\ Tabled(LogVersions(victim))
  BY <1>1, VictimIs DEF IInv, FlushInv
<1>4. PICK a : a = victim
  OBVIOUS
<1>5. /\ Logs' = Logs \ {a} /\ wal_files' = [id \in Logs' |-> wal_files'[id]]
      /\ \A id \in Logs' : wal_files'[id] = wal_files[id]
      /\ \A id \in Logs' : LogVersions(id)' = LogVersions(id)
      /\ LogsInv' /\ BoundInv' /\ OrderInv' /\ Held' = Held
  <2>1. a \in Logs /\ Tabled(LogVersions(a)) /\ wal_files' = Dropped(wal_files, a)
    BY <1>1, <1>3, <1>4
  <2> QED
    BY <1>1, <1>2, <2>1, DiskLogGone
<1>6. /\ mem_table \in DOMAIN entries /\ DOMAIN entries \subseteq Logs'
      /\ mem_table \in Logs' /\ Logs \subseteq Nat
      /\ wal_files'[mem_table] = wal_files[mem_table]
  <2>1. mem_table \in DOMAIN entries /\ DOMAIN entries \subseteq Logs /\ Logs \subseteq Nat
    BY <1>1, TypesHold DEF IInv, MemoryInv, BoundInv
  <2> QED
    BY <1>3, <1>4, <1>5, <2>1
<1>7. Typed'
  <2>1. ss' = [t \in DOMAIN ss' |-> ss'[t]] /\ entries' = [id \in DOMAIN entries' |-> entries'[id]]
    BY <1>1, <1>2 DEF Typed
  <2> QED
    BY <1>1, <1>2, <1>5, <2>1 DEF Typed
<1>8. MemoryInv'
  <2>1. \A id \in DOMAIN entries : LogVersions(id)' = LogVersions(id)
                                   /\ Pending(id)' = Pending(id)
    BY <1>1, <1>5, <1>6 DEF Pending
  <2>2. freezing => /\ victim # wal_id - 1 /\ wal_id - 1 \in Logs'
                    /\ wal_files'[wal_id - 1] = <<>>
    <3> SUFFICES ASSUME freezing
                 PROVE  /\ victim # wal_id - 1 /\ wal_id - 1 \in Logs'
                        /\ wal_files'[wal_id - 1] = <<>>
      OBVIOUS
    <3>1. /\ mem_table < wal_id - 1 /\ wal_id - 1 \in Logs
          /\ wal_files[wal_id - 1] = <<>>
      BY <1>1 DEF IInv, MemoryInv
    <3>2. victim \in Nat /\ mem_table \in Nat /\ victim <= mem_table /\ wal_id \in Nat
      BY <1>2, <1>3, <1>5, <1>6 DEF Typed
    <3>3. victim # wal_id - 1
      BY <3>1, <3>2
    <3> QED
      BY <1>4, <1>5, <3>1, <3>3
  <2>3. Logs = DOMAIN entries \cup (IF freezing THEN {wal_id - 1} ELSE {}) \cup {victim}
    BY <1>1 DEF IInv, MemoryInv
  <2>4. Logs' = DOMAIN entries \cup (IF freezing THEN {wal_id - 1} ELSE {})
    BY <1>3, <1>4, <1>5, <2>2, <2>3
  <2> QED
    BY <1>1, <2>1, <2>2, <2>4 DEF IInv, MemoryInv
<1>9. CounterInv'
  <2>1. \A id \in Logs' : id \in Logs
    BY <1>5
  <2> QED
    BY <1>1, <1>5, <2>1 DEF IInv, CounterInv
<1>10. CommitInv'
  BY <1>1, <1>6 DEF IInv, CommitInv, LogVersions
<1>11. FlushInv'
  BY <1>1 DEF FlushInv
<1>12. AckInv'
  BY <1>1, <1>5, AckKept DEF IInv
<1> QED
  BY <1>5, <1>7, <1>8, <1>9, <1>10, <1>11, <1>12 DEF IInv

-----------------------------------------------------------------------------
(* Every step.                                                             *)

LEMMA StutterStep ==
  ASSUME IInv, UNCHANGED vars
  PROVE  IInv' /\ Held' = Held
<1>1. /\ wal_files' = wal_files /\ ss' = ss
      /\ UNCHANGED <<stray, phase, found, mem_table, frozen, entries, tables, wal_id,
                     table_id, next_seq, visible, tx_id, unflushed, step, cur, freezing,
                     flushing, victim, acked>>
  BY DEF vars, diskVars, stateVars, counterVars, taskVars
<1>2. Typed /\ LogsInv /\ BoundInv /\ OrderInv
  BY DEF IInv
<1>3. /\ Logs' = Logs
      /\ \A id \in Logs : LogVersions(id)' = LogVersions(id)
      /\ LogsInv' /\ BoundInv' /\ OrderInv' /\ Held' = Held
  BY <1>1, <1>2, DiskSame
<1>4. Typed'
  BY <1>1, <1>2 DEF Typed, Logs
<1>5. MemoryInv'
  BY <1>1 DEF IInv, MemoryInv, Idle, Pending, LogVersions, Logs
<1>6. CounterInv' /\ CommitInv'
  BY <1>1 DEF IInv, CounterInv, CommitInv, LogVersions, Logs
<1>7. FlushInv'
  BY <1>1 DEF IInv, FlushInv, Tabled, LogVersions, Logs
<1>8. AckInv'
  BY <1>1, <1>3, AckKept DEF IInv
<1> QED
  BY <1>3, <1>4, <1>5, <1>6, <1>7, <1>8 DEF IInv

\* Only AppendCommit changes what the files hold.
LEMMA InvStep ==
  ASSUME IInv, [Next]_vars
  PROVE  IInv' /\ (Held' = Held \/ AppendCommit)
<1>1. CASE RestoreFails \/ RestoreMisled \/ OpenAgain
  BY <1>1, RefusedStep
<1>2. CASE Restore
  BY <1>2, RestoreStep
<1>3. CASE Load
  BY <1>3, LoadStep
<1>4. CASE Start
  BY <1>4, StartStep
<1>5. CASE \E keys \in (SUBSET Key) \ {{}} : Begin(keys)
  BY <1>5, BeginStep
<1>6. CASE AppendBatch
  BY <1>6, AppendBatchStep
<1>7. CASE RefuseBatch
  BY <1>7, RefuseBatchStep
<1>8. CASE Put
  BY <1>8, PutStep
<1>9. CASE AppendCommit
  BY <1>9, AppendCommitStep
<1>10. CASE Publish
  BY <1>10, PublishStep
<1>11. CASE NewWal
  BY <1>11, NewWalStep
<1>12. CASE Swap
  BY <1>12, SwapStep
<1>13. CASE CreateTmp
  BY <1>13, CreateTmpStep
<1>14. CASE Finish
  BY <1>14, FinishStep
<1>15. CASE Retire
  BY <1>15, RetireStep
<1>16. CASE RemoveWal
  BY <1>16, RemoveWalStep
<1>17. CASE Crash
  BY <1>17, CrashStep
<1>18. CASE UNCHANGED vars
  BY <1>18, StutterStep
<1> QED
  BY <1>1, <1>2, <1>3, <1>4, <1>5, <1>6, <1>7, <1>8, <1>9, <1>10, <1>11, <1>12,
     <1>13, <1>14, <1>15, <1>16, <1>17, <1>18 DEF Next

-----------------------------------------------------------------------------
(* What is proved.                                                         *)

THEOREM Invariant == Spec => []IInv
<1>1. Init => IInv
  BY InitInv
<1>2. IInv /\ [Next]_vars => IInv'
  BY InvStep
<1> QED
  BY <1>1, <1>2, PTL DEF Spec

\* Every variable holds a value of its type, whatever the directory went
\* through: a memtable is listed only while its log is there, a table only
\* while its file is.
THEOREM TypeCorrect == Spec => []TypeOK
<1>1. IInv => TypeOK
  BY TypesHold
<1> QED
  BY <1>1, Invariant, PTL

\* A database that was opened, however often, searches memtables and tables in
\* an order in which the first hit is the newest visible version on the disk.
THEOREM ReadsAreExact == Spec => []ReadsExact
<1>1. IInv => ReadsExact
  BY SearchIsExact
<1> QED
  BY <1>1, Invariant, PTL

\* Everything in memory and in the files is numbered below the next commit.
LEMMA FreshInv ==
  ASSUME IInv
  PROVE  SeqFresh
<1> SUFFICES ASSUME phase = "up" PROVE SeqFresh
  BY DEF SeqFresh
<1>1. LogsInv /\ BoundInv /\ MaxSeq \in Nat /\ next_seq \in Nat /\ visible \in Nat
  BY RecoveryAssumption DEF IInv, Typed
<1>2. /\ \A id \in Logs : \A v \in Logged(wal_files[id]) : v[2] < next_seq
      /\ \A t \in DOMAIN ss : \A v \in ss[t] : v[2] <= visible
      /\ visible < next_seq
  BY DEF IInv, CounterInv
<1>3. \A id \in Logs : \A v \in LogVersions(id) : v[2] < next_seq
  BY <1>2, RestoredLogged DEF LogVersions
<1>4. ASSUME NEW t \in DOMAIN ss, NEW v \in ss[t] PROVE v[2] < next_seq
  <2>1. ss[t] \subseteq Key \X (0..MaxSeq)
    BY <1>1 DEF BoundInv
  <2>2. v[2] \in Nat /\ v[2] <= visible
    BY <1>2, <2>1
  <2> QED
    BY <1>1, <1>2, <2>2
<1>5. \A v \in OnDisk : v[2] < next_seq
  BY <1>1, <1>3, <1>4, DiskTypes
<1>6. ASSUME NEW id \in DOMAIN entries, NEW v \in entries[id] PROVE v[2] < next_seq
  <2>1. v \in LogVersions(id) \/ v \in Pending(id)
    BY DEF IInv, MemoryInv
  <2>2. CASE v \in LogVersions(id)
    BY <1>3, <2>2, TypesHold
  <2>3. CASE v \in Pending(id)
    <3>1. step = "commit" /\ v \in cur.ops
      BY <2>3 DEF Pending
    <3>2. v[2] = next_seq - 1
      BY <3>1, CommitIs
    <3> QED
      BY <1>1, <3>2
  <2> QED
    BY <2>1, <2>2, <2>3
<1>7. ASSUME NEW id \in Logs PROVE LargestSeq(wal_files[id]) < next_seq
  <2>1. Logged(wal_files[id]) \subseteq Key \X (0..MaxSeq)
    BY <1>1 DEF BoundInv
  <2>2. \/ LargestSeq(wal_files[id]) = 0
        \/ \E v \in Logged(wal_files[id]) : v[2] = LargestSeq(wal_files[id])
    BY <1>1, <2>1, LargestSeqIs
  <2> QED
    BY <1>1, <1>2, <2>2
<1> QED
  BY <1>5, <1>6, <1>7 DEF SeqFresh, Logs

\* A number that a commit was given, recorded or not, in a log or in a table,
\* is not given out again after any number of crashes.
THEOREM NumbersAreFresh == Spec => []SeqFresh
<1>1. IInv => SeqFresh
  BY FreshInv
<1> QED
  BY <1>1, Invariant, PTL

\* No order of commits, freezes, flushes and crashes makes a log that is
\* rejected at a record in front of which, or at which, nothing is torn.
THEOREM RefusedOnlyTorn == Spec => []OpenFailsOnlyTorn
<1>1. ASSUME IInv PROVE OpenFailsOnlyTorn
  <2> SUFFICES ASSUME NEW id \in DOMAIN wal_files, NEW i \in DOMAIN wal_files[id],
                      Rejected(wal_files[id], i)
               PROVE  \E j \in 1..i : wal_files[id][j] = Torn
    BY DEF OpenFailsOnlyTorn
  <2>1. WellFormed(wal_files[id])
    BY <1>1 DEF IInv, LogsInv, Logs
  <2>2. wal_files[id][i] = Torn
    BY <2>1, RejectedTorn
  <2>3. i \in 1..i
    BY <2>1, LogTypes
  <2> QED
    BY <2>2, <2>3
<1> QED
  BY <1>1, Invariant, PTL

-----------------------------------------------------------------------------
(* While no commit was refused, nothing is behind a torn record.           *)

Whole(log) == \A i \in DOMAIN log : log[i] # Torn

TornLast(log) == \A i \in DOMAIN log : log[i] = Torn => i = Len(log)

\* A torn record is the last of its log, and a process that restored the logs
\* found none.
TornInv ==
    /\ refused \in Nat
    /\ refused = 0 =>
        /\ ~unflushed
        /\ phase # "misled"
        /\ \A id \in Logs : TornLast(wal_files[id])
        /\ phase \in {"restored", "loaded", "up"} => \A id \in Logs : Whole(wal_files[id])

\* A whole log, with one more record or with none.
LEMMA WholeMore ==
  ASSUME NEW log, WellFormed(log), Whole(log), NEW r \in Records
  PROVE  /\ TornLast(log) /\ TornLast(log \o <<r>>)
         /\ r # Torn => Whole(log \o <<r>>)
<1> DEFINE new == log \o <<r>>
<1>1. log \in Seq(Records)
  BY LogTypes
<1>2. /\ Len(new) = Len(log) + 1 /\ DOMAIN new = 1..(Len(log) + 1)
      /\ DOMAIN log = 1..Len(log) /\ Len(log) \in Nat
      /\ \A i \in 1..Len(log) : new[i] = log[i]
      /\ new[Len(log) + 1] = r
  BY <1>1, OneMore
<1> HIDE DEF new
<1>3. \A i \in DOMAIN new : new[i] = Torn => i = Len(log) + 1
  BY <1>2 DEF Whole
<1> QED
  BY <1>2, <1>3 DEF Whole, TornLast, new

\* What an append makes of whole logs.
LEMMA TornAppended ==
  ASSUME IInv, mem_table \in Logs, ~unflushed, \A id \in Logs : Whole(wal_files[id]),
         NEW r \in Records
  PROVE  /\ DOMAIN Appended(r) = Logs
         /\ \A id \in Logs : TornLast(Appended(r)[id])
         /\ r # Torn => \A id \in Logs : Whole(Appended(r)[id])
<1> DEFINE log == wal_files[mem_table]
<1>1. WellFormed(log) /\ log \in Seq(Records)
  BY LogTypes DEF IInv, LogsInv
<1>2. log \o <<>> \o <<r>> = log \o <<r>>
  BY <1>1, ConcatEmptySeq
<1>3. Appended(r) = [wal_files EXCEPT ![mem_table] = log \o <<r>>]
  BY <1>2 DEF Appended
<1>4. /\ TornLast(log \o <<r>>)
      /\ r # Torn => Whole(log \o <<r>>)
  BY <1>1, WholeMore
<1>5. \A id \in Logs : TornLast(wal_files[id])
  BY DEF Whole, TornLast
<1> DEFINE new == log \o <<r>>
<1> HIDE DEF log, new
<1>6. Appended(r) = [id \in Logs |-> IF id = mem_table THEN new ELSE wal_files[id]]
  BY <1>3 DEF IInv, Typed, Logs, new
<1> QED
  BY <1>4, <1>5, <1>6 DEF new

\* A step that appends a record of a commit.
LEMMA TornAppendStep ==
  ASSUME IInv, TornInv, phase = "up", phase' = phase, refused' = refused,
         unflushed' = FALSE, NEW r \in Records, r # Torn, wal_files' = Appended(r)
  PROVE  TornInv'
<1> SUFFICES ASSUME refused = 0
             PROVE  /\ \A id \in Logs' : TornLast(wal_files'[id])
                    /\ \A id \in Logs' : Whole(wal_files'[id])
  BY DEF TornInv
<1>1. ~unflushed /\ \A id \in Logs : Whole(wal_files[id])
  BY DEF TornInv
<1>2. mem_table \in Logs
  BY TypesHold
<1> QED
  BY <1>1, <1>2, TornAppended DEF Logs

\* A step after which the logs are some of those before, and new, empty ones.
LEMMA TornKept ==
  ASSUME TornInv, refused' = refused, unflushed' => unflushed, phase' # "misled",
         phase' \in {"restored", "loaded", "up"} => phase \in {"restored", "loaded", "up"},
         \A id \in Logs' : \/ id \in Logs /\ wal_files'[id] = wal_files[id]
                           \/ wal_files'[id] = <<>>
  PROVE  TornInv'
<1>1. Whole(<<>>) /\ TornLast(<<>>)
  BY DEF Whole, TornLast
<1> SUFFICES ASSUME refused = 0
             PROVE  /\ \A id \in Logs' : TornLast(wal_files'[id])
                    /\ phase' \in {"restored", "loaded", "up"} =>
                        \A id \in Logs' : Whole(wal_files'[id])
  BY DEF TornInv
<1> QED
  BY <1>1 DEF TornInv

LEMMA TornStep ==
  ASSUME IInv, TornInv, [Next]_vars
  PROVE  TornInv'
<1> USE DEF diskVars, stateVars, counterVars, taskVars, boundVars
<1>1. CASE RestoreFails \/ OpenAgain
  BY <1>1, TornKept DEF RestoreFails, OpenAgain, Logs
<1>2. CASE RestoreMisled
  <2>1. refused' = refused /\ \E id \in Logs : Garbled(wal_files[id])
    BY <1>2 DEF RestoreMisled, Logs
  <2>2. ASSUME NEW id \in Logs, TornLast(wal_files[id]) PROVE ~Garbled(wal_files[id])
    <3>1. DOMAIN wal_files[id] = 1..Len(wal_files[id]) /\ Len(wal_files[id]) \in Nat
      BY LogTypes DEF IInv, LogsInv
    <3> QED
      BY <2>2, <3>1 DEF Garbled, TornLast
  <2>3. refused # 0
    BY <2>1, <2>2 DEF TornInv
  <2> QED
    BY <2>1, <2>3 DEF TornInv
<1>3. CASE Restore
  <2>1. /\ wal_files' = wal_files /\ refused' = refused /\ unflushed' = unflushed
        /\ phase' = "restored" /\ \A id \in Logs : Readable(wal_files[id])
    BY <1>3 DEF Restore, Logs
  <2>2. \A id \in Logs : Whole(wal_files[id])
    BY <2>1 DEF Readable, Rejected, Whole
  <2> QED
    BY <2>1, <2>2 DEF TornInv, Logs
<1>4. CASE Load
  BY <1>4, TornKept DEF Load, Logs
<1>5. CASE Start
  <2>1. /\ phase = "loaded" /\ phase' = "up" /\ refused' = refused /\ unflushed' = unflushed
        /\ wal_files' = wal_files \/ wal_files' = With(wal_files, wal_id, <<>>)
    BY <1>5 DEF Start
  <2> QED
    BY <2>1, TornKept DEF Logs, With
<1>6. CASE \E keys \in (SUBSET Key) \ {{}} : Begin(keys)
  <2>1. /\ phase = "up" /\ phase' = phase /\ refused' = refused /\ unflushed' = FALSE
        /\ wal_files' = Appended(TxBegin(tx_id))
    BY <1>6 DEF Begin
  <2>2. TxBegin(tx_id) \in Records /\ TxBegin(tx_id) # Torn
    BY RecordTypes DEF IInv, Typed, TxBegin, Torn, Record
  <2> QED
    BY <2>1, <2>2, TornAppendStep
<1>7. CASE AppendBatch
  <2>1. /\ phase = "up" /\ phase' = phase /\ refused' = refused /\ unflushed' = FALSE
        /\ wal_files' = Appended(Batch(cur.tx, cur.ops))
    BY <1>7 DEF AppendBatch
  <2>2. Batch(cur.tx, cur.ops) \in Records /\ Batch(cur.tx, cur.ops) # Torn
    BY RecordTypes DEF IInv, Typed, Batch, Torn, Record
  <2> QED
    BY <2>1, <2>2, TornAppendStep
<1>8. CASE RefuseBatch
  BY <1>8 DEF RefuseBatch, TornInv
<1>9. CASE Put
  BY <1>9, TornKept DEF Put, Logs
<1>10. CASE AppendCommit
  <2>1. /\ phase = "up" /\ phase' = phase /\ refused' = refused /\ unflushed' = FALSE
        /\ wal_files' = Appended(TxCommit(cur.tx))
    BY <1>10 DEF AppendCommit
  <2>2. TxCommit(cur.tx) \in Records /\ TxCommit(cur.tx) # Torn
    BY RecordTypes DEF IInv, Typed, TxCommit, Torn, Record
  <2> QED
    BY <2>1, <2>2, TornAppendStep
<1>11. CASE Publish
  BY <1>11, TornKept DEF Publish, Logs
<1>12. CASE NewWal
  <2>1. /\ phase = "up" /\ phase' = phase /\ refused' = refused /\ unflushed' = unflushed
        /\ wal_files' = With(wal_files, wal_id, <<>>)
    BY <1>12 DEF NewWal
  <2> QED
    BY <2>1, TornKept DEF Logs, With
<1>13. CASE Swap
  BY <1>13, TornKept DEF Swap, Logs
<1>14. CASE CreateTmp
  BY <1>14, TornKept DEF CreateTmp, Logs
<1>15. CASE Finish
  BY <1>15, TornKept DEF Finish, Logs
<1>16. CASE Retire
  BY <1>16, TornKept DEF Retire, Logs
<1>17. CASE RemoveWal
  <2>1. /\ phase = "up" /\ phase' = phase /\ refused' = refused /\ unflushed' = unflushed
        /\ wal_files' = Dropped(wal_files, victim)
    BY <1>17 DEF RemoveWal
  <2> QED
    BY <2>1, TornKept DEF Logs, Dropped
<1>18. CASE Crash
  <2>1. /\ phase' = "down" /\ refused' = refused /\ unflushed' = FALSE
        /\ wal_files' = wal_files \/ (Appending /\ wal_files' = Appended(Torn))
    BY <1>18 DEF Crash, ForgetMemory
  <2>2. CASE wal_files' = wal_files
    BY <2>1, <2>2, TornKept DEF Logs
  <2>3. CASE Appending /\ wal_files' = Appended(Torn)
    <3>1. ASSUME refused = 0 PROVE \A id \in Logs' : TornLast(wal_files'[id])
      <4>1. phase = "up" /\ ~unflushed /\ \A id \in Logs : Whole(wal_files[id])
        BY <2>3, <3>1 DEF TornInv, Appending
      <4>2. mem_table \in Logs /\ Torn \in Records
        BY <4>1, TypesHold, RecordTypes
      <4> QED
        BY <2>3, <4>1, <4>2, TornAppended DEF Logs
    <3> QED
      BY <2>1, <3>1 DEF TornInv
  <2> QED
    BY <2>1, <2>2, <2>3
<1>19. CASE UNCHANGED vars
  BY <1>19, TornKept DEF vars, Logs, TornInv
<1> QED
  BY <1>1, <1>2, <1>3, <1>4, <1>5, <1>6, <1>7, <1>8, <1>9, <1>10, <1>11, <1>12, <1>13,
     <1>14, <1>15, <1>16, <1>17, <1>18, <1>19 DEF Next

\* Of a log without a record behind a torn one a reader gets all that committed.
LEMMA RestoredIsRead ==
  ASSUME NEW log, WellFormed(log), TornLast(log)
  PROVE  Restored(log) \subseteq ReadBefore(log)
<1>1. DOMAIN log = 1..Len(log) /\ Len(log) \in Nat
  BY LogTypes
<1>2. ASSUME NEW i \in DOMAIN log, i < Len(log) \/ log[i] # Torn PROVE i \in Legible(log)
  <2>1. ASSUME NEW j \in 1..i PROVE ~Rejected(log, j)
    <3>1. j \in DOMAIN log
      BY <1>1
    <3>2. j = Len(log) => log[j] # Torn
      BY <1>1, <1>2
    <3> QED
      BY <3>1, <3>2, RejectedTorn DEF TornLast
  <2> QED
    BY <2>1 DEF Legible
<1> SUFFICES ASSUME NEW b \in DOMAIN log, log[b].cmd = "Batch",
                    NEW c \in (b + 1)..Len(log), log[c] = TxCommit(log[b].tx),
                    NEW v \in log[b].ops
             PROVE  v \in ReadBefore(log)
  BY DEF Restored
<1>3. c \in DOMAIN log /\ b < c /\ b < Len(log) /\ log[c] # Torn
  BY <1>1 DEF TxCommit, Torn, Record
<1>4. b \in Legible(log) /\ c \in Legible(log)
  BY <1>2, <1>3
<1> QED
  BY <1>3, <1>4 DEF ReadBefore

\* Whatever crashes cut off, every acknowledged version, or a newer one of its
\* key, can be read from a table or from a log up to the first record that is
\* rejected, unless some commit was refused.
THEOREM AcknowledgedReadable == Spec => []AckedReadableUnrefused
<1>1. Init => TornInv
  BY DEF Init, TornInv, Logs, Empty
<1>2. IInv /\ TornInv /\ [Next]_vars => TornInv'
  BY TornStep
<1>3. ASSUME IInv, TornInv PROVE AckedReadableUnrefused
  <2> SUFFICES ASSUME refused = 0, NEW k \in Key, acked[k] > 0
               PROVE  \E v \in Readables : v[1] = k /\ v[2] >= acked[k]
    BY DEF AckedReadableUnrefused, AckedReadable
  <2>1. acked[k] \in Nat /\ acked[k] <= Held[k]
    BY <1>3 DEF IInv, Typed, AckInv
  <2>2. OnDisk \subseteq Key \X (0..MaxSeq) /\ MaxSeq \in Nat
    BY <1>3, DiskTypes, RecoveryAssumption DEF IInv
  <2>3. /\ Held[k] \in 0..MaxSeq
        /\ Held[k] = 0 \/ \E v \in OnDisk : v[1] = k /\ v[2] = Held[k]
    BY <2>2, HeldIs, HeldInIs
  <2>4. PICK v \in OnDisk : v[1] = k /\ v[2] = Held[k]
    BY <2>1, <2>3
  <2>5. v \in Readables
    <3>1. CASE \E id \in Logs : v \in LogVersions(id)
      <4>1. PICK id \in Logs : v \in Restored(wal_files[id])
        BY <3>1 DEF LogVersions
      <4>2. WellFormed(wal_files[id]) /\ TornLast(wal_files[id])
        BY <1>3 DEF IInv, LogsInv, TornInv
      <4> QED
        BY <4>1, <4>2, RestoredIsRead DEF Readables, Logs
    <3>2. CASE \E t \in DOMAIN ss : v \in ss[t]
      BY <3>2 DEF Readables
    <3> QED
      BY <1>3, <2>4, <3>1, <3>2, DiskTypes DEF IInv
  <2>6. v[2] >= acked[k]
    BY <2>1, <2>3, <2>4
  <2> QED
    BY <2>4, <2>5, <2>6
<1> QED
  BY <1>1, <1>2, <1>3, Invariant, PTL DEF Spec

-----------------------------------------------------------------------------
(* The files are one durable map.                                          *)

\* When a commit is published the files have its versions, and none newer.
LEMMA HeldPublish ==
  ASSUME IInv, phase = "up", step = "publish", NEW k \in Key,
         <<k, next_seq - 1>> \in cur.ops
  PROVE  Held[k] = next_seq - 1
<1> DEFINE n == next_seq - 1
<1>1. /\ mem_table \in Logs /\ MaxSeq \in Nat /\ n \in 0..MaxSeq
      /\ visible \in Nat /\ visible < n /\ \A v \in cur.ops : v[2] = n
  BY CommitIs
<1>2. LogsInv /\ BoundInv
  BY DEF IInv
<1>3. OnDisk \subseteq Key \X (0..MaxSeq)
      /\ \A v : v \in OnDisk <=> \/ \E id \in Logs : v \in LogVersions(id)
                                 \/ \E t \in DOMAIN ss : v \in ss[t]
  BY <1>2, DiskTypes
<1>4. n \in Nat
  BY <1>1
<1>5. <<k, n>> \in OnDisk
  BY <1>1, <1>3 DEF IInv, CommitInv
<1> HIDE DEF n
<1>6. ASSUME NEW v \in OnDisk PROVE v[2] <= n
  <2>1. v[2] <= visible \/ v \in cur.ops
    BY <1>3 DEF IInv, CounterInv
  <2>2. v[2] \in Nat
    BY <1>3
  <2> QED
    BY <1>1, <1>4, <2>1, <2>2
<1>7. /\ HeldIn(OnDisk, k) \in 0..MaxSeq
      /\ \A v \in OnDisk : v[1] = k => v[2] <= HeldIn(OnDisk, k)
      /\ \/ HeldIn(OnDisk, k) = 0
         \/ \E v \in OnDisk : v[1] = k /\ v[2] = HeldIn(OnDisk, k)
  BY <1>1, <1>3, HeldInIs
<1>8. n <= HeldIn(OnDisk, k)
  BY <1>5, <1>7
<1>9. HeldIn(OnDisk, k) <= n
  BY <1>4, <1>6, <1>7
<1>10. HeldIn(OnDisk, k) = n
  BY <1>4, <1>7, <1>8, <1>9
<1> QED
  BY <1>10, HeldIs DEF n

\* The TxCommit is where a commit enters the map.
LEMMA CommitPoint ==
  ASSUME IInv, AppendCommit
  PROVE  \E keys \in (SUBSET Key) \ {{}} : D!Commit(keys)
<1> DEFINE n == next_seq - 1
<1>1. phase = "up" /\ step = "commit" /\ acked' = acked
  BY DEF AppendCommit
<1>2. /\ MaxSeq \in Nat /\ n \in 0..MaxSeq /\ n \in Nat
      /\ visible \in Nat /\ visible < n
  BY <1>1, CommitIs
<1>3. PICK keys \in (SUBSET Key) \ {{}} : cur.ops = keys \X {n}
  BY <1>1, CommitIs
<1>4. PICK seq : seq = n
  OBVIOUS
<1>5. \A k \in Key : <<k, n>> \in cur.ops <=> k \in keys
  BY <1>3
<1>6. \A k \in Key : Held'[k] = IF k \in keys THEN seq ELSE Held[k]
  BY <1>4, <1>5, HeldCommit
<1> HIDE DEF n
<1>7. Held' = [k \in Key |-> IF k \in keys THEN seq ELSE Held[k]]
  <2>1. Held' = [k \in Key |-> Held'[k]]
    BY DEF Held
  <2> QED
    BY <1>6, <2>1
<1>8. ASSUME NEW k \in Key PROVE Held[k] < seq
  <2>1. OnDisk \subseteq Key \X (0..MaxSeq)
    BY DiskTypes DEF IInv
  <2>2. \/ HeldIn(OnDisk, k) = 0
        \/ \E v \in OnDisk : v[1] = k /\ v[2] = HeldIn(OnDisk, k)
    BY <1>2, <2>1, HeldInIs
  <2>3. HeldIn(OnDisk, k) = 0 \/ HeldIn(OnDisk, k) <= visible
    BY <1>1, <2>2, CommitNewest
  <2>4. HeldIn(OnDisk, k) \in Nat
    BY <1>2, <2>1, HeldInIs
  <2>5. HeldIn(OnDisk, k) < n
    BY <1>2, <2>3, <2>4
  <2> QED
    BY <1>4, <2>5, HeldIs
<1>9. seq \in {Held'[k] : k \in keys} \cap (0..MaxSeq)
  <2>1. PICK k \in keys : TRUE
    OBVIOUS
  <2>2. Held'[k] = seq
    BY <1>6, <2>1
  <2> QED
    BY <1>2, <1>4, <2>2
<1> QED
  BY <1>1, <1>7, <1>8, <1>9 DEF D!Commit, D!Update

\* And the publication where it is acknowledged.
LEMMA AckPoint ==
  ASSUME IInv, Publish
  PROVE  \E keys \in (SUBSET Key) \ {{}} : D!Ack(keys)
<1> DEFINE n == next_seq - 1
<1>1. /\ phase = "up" /\ step = "publish"
      /\ acked' = [k \in Key |-> IF <<k, (CHOOSE v \in cur.ops : TRUE)[2]>> \in cur.ops
                                 THEN (CHOOSE v \in cur.ops : TRUE)[2] ELSE acked[k]]
  BY DEF Publish
<1>2. /\ n \in Nat /\ visible \in Nat /\ visible < n
      /\ cur.ops # {} /\ \A v \in cur.ops : v[2] = n
  BY <1>1, CommitIs
<1>3. PICK keys \in (SUBSET Key) \ {{}} : cur.ops = keys \X {n}
  BY <1>1, CommitIs
<1>4. (CHOOSE v \in cur.ops : TRUE)[2] = n
  <2>1. (CHOOSE v \in cur.ops : TRUE) \in cur.ops
    BY <1>2
  <2> QED
    BY <1>2, <2>1
<1>5. \A k \in keys : Held[k] = n
  <2> TAKE k \in keys
  <2>1. k \in Key /\ <<k, n>> \in cur.ops
    BY <1>3
  <2> QED
    BY <1>1, <2>1, HeldPublish
<1> HIDE DEF n
<1>6. \A k \in Key : <<k, n>> \in cur.ops <=> k \in keys
  BY <1>3
<1>7. acked' = [k \in Key |-> IF k \in keys THEN n ELSE acked[k]]
  BY <1>1, <1>4, <1>6
<1>8. acked' = [k \in Key |-> IF k \in keys THEN Held[k] ELSE acked[k]]
  BY <1>5, <1>7
<1>9. ASSUME NEW k \in keys PROVE acked'[k] > acked[k]
  <2>1. acked[k] <= visible /\ acked[k] \in Nat
    BY <1>1 DEF IInv, AckInv, Typed
  <2>2. acked'[k] = n
    BY <1>7
  <2> QED
    BY <1>2, <2>1, <2>2
<1>10. Held' = Held
  BY PublishStep
<1> QED
  BY <1>5, <1>8, <1>9, <1>10 DEF D!Ack

\* Only the publication acknowledges.
LEMMA AckOnly ==
  ASSUME [Next]_vars, ~Publish
  PROVE  acked' = acked
<1>1. CASE UNCHANGED vars
  BY <1>1 DEF vars
<1>2. CASE RestoreFails \/ RestoreMisled \/ OpenAgain \/ Restore \/ Load \/ Start
  BY <1>2 DEF RestoreFails, RestoreMisled, OpenAgain, Restore, Load, Start
<1>3. CASE \E keys \in (SUBSET Key) \ {{}} : Begin(keys)
  BY <1>3 DEF Begin
<1>4. CASE AppendBatch \/ RefuseBatch \/ Put \/ AppendCommit
  BY <1>4 DEF AppendBatch, RefuseBatch, Put, AppendCommit
<1>5. CASE NewWal \/ Swap
  BY <1>5 DEF NewWal, Swap
<1>6. CASE CreateTmp \/ Finish \/ Retire \/ RemoveWal
  BY <1>6 DEF CreateTmp, Finish, Retire, RemoveWal
<1>7. CASE Crash
  BY <1>7 DEF Crash
<1> QED
  BY <1>1, <1>2, <1>3, <1>4, <1>5, <1>6, <1>7 DEF Next

\* A directory without files holds the empty map.
LEMMA EmptyMap ==
  ASSUME Init
  PROVE  D!Init
<1>1. OnDisk = {}
  BY DEF Init, Empty, OnDisk
<1>2. ASSUME NEW k \in Key PROVE Held[k] = 0
  <2>1. OnDisk \subseteq Key \X (0..0)
    BY <1>1
  <2>2. HeldIn(OnDisk, k) \in 0..0
    BY <2>1, HeldInIs
  <2> QED
    BY <2>2, HeldIs
<1>3. Held = [k \in Key |-> 0]
  <2>1. Held = [k \in Key |-> Held[k]]
    BY DEF Held
  <2> QED
    BY <1>2, <2>1
<1> QED
  BY <1>3 DEF Init, D!Init

\* Through any sequence of commits, refusals, freezes, flushes, crashes and
\* restarts the files hold one map: a commit enters it as a whole with its
\* TxCommit, and nothing that was acknowledged leaves it.
THEOREM Durable == Spec => ImplementsDurableMap
<1>1. Init => D!Init
  BY EmptyMap
<1>2. IInv /\ [Next]_vars => [D!Next]_<<Held, acked>>
  <2> SUFFICES ASSUME IInv, [Next]_vars PROVE [D!Next]_<<Held, acked>>
    OBVIOUS
  <2>1. CASE AppendCommit
    BY <2>1, CommitPoint DEF D!Next
  <2>2. CASE Publish
    BY <2>2, AckPoint DEF D!Next
  <2>3. CASE ~AppendCommit /\ ~Publish
    BY <2>3, InvStep, AckOnly
  <2> QED
    BY <2>1, <2>2, <2>3
<1> QED
  BY <1>1, <1>2, Invariant, PTL DEF Spec, ImplementsDurableMap, D!Spec

=============================================================================
