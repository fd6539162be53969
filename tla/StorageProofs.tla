--------------------------- MODULE StorageProofs ---------------------------
(***************************************************************************)
(* Theorems about Storage, for any keys, writers and flushers, any         *)
(* Capacity, MaxFrozen and bounds, and any choice of what may fail unless  *)
(* a theorem says otherwise.                                               *)
(*                                                                         *)
(* That a lookup finds the newest version is not inductive.  It rests on   *)
(* an order: numbers of memtables grow with the numbers of the batches in  *)
(* them (VersionInv), the places are searched in that order (IdInv), and   *)
(* what left the memory is in a table of its own, in the same order again  *)
(* (TableInv).  A freeze and a flush are several steps, so the task in     *)
(* them is in the invariant (TaskInv), and the two mutexes and the commit  *)
(* lock, which is only seen as NoneExclusive here, make it the only one    *)
(* (ControlInv).  A crash finds what the logs hold instead (LogInv).       *)
(***************************************************************************)
EXTENDS Storage, ListLemmas

\* The steps of flush_oldest with the flush lock held.
Flushing == {"l0", "retire", "retain", "remove"}

\* Who holds a mutex or the read guard is where that is needed.
StateLockInv == \A p \in Proc : at[p] \in {"check", "swap", "retain"} <=> state_lock = p

FlushLockInv == \A p \in Proc : at[p] \in Flushing <=> flush_lock = p

BatchingInv == \A w \in Writer : at[w] = "put" <=> w \in batching

\* At most one task is between set_batch and the end of its freeze.
ExclusiveInv ==
    \A p, q \in Proc : at[p] \in Exclusive /\ at[q] \in Exclusive => p = q

ControlInv == StateLockInv /\ FlushLockInv /\ BatchingInv /\ ExclusiveInv

\* Writers do not flush, flushers do not write, and the loop only flushes.
RoleInv ==
    /\ \A p \in Proc : at[p] \in {"put", "batched", "throttle"} => p \in Writer
    /\ \A p \in Proc : at[p] \in Flushing \cup {"drain"} => p \notin Writer
    /\ at[Loop] \in Flushing \cup {"drain", "flag", "failed", "wait", "exited"}

\* The memtables that left the memory for level 0.
Retired == {i \in Ids : i # mem_table /\ \A n \in DOMAIN frozen : frozen[n] # i}

\* Ids grow: from the retired memtables over the frozen ones, oldest last, to
\* the active one.
IdInv ==
    /\ mem_table < wal_id
    /\ \A i \in Ids : i <= mem_table
    /\ \A n \in DOMAIN frozen : frozen[n] < mem_table
    /\ \A n, m \in DOMAIN frozen : n < m => frozen[n] > frozen[m]
    /\ \A i \in Retired : \A n \in DOMAIN frozen : i < frozen[n]

\* What a task that freezes or flushes has in its hands.
TaskInv ==
    /\ \A p \in Proc : at[p] = "swap" => mem_table < new_id[p] /\ new_id[p] < wal_id
    /\ \A p \in Proc : at[p] \in {"l0", "retire", "retain"} =>
         frozen # <<>> /\ victim[p] = Oldest
    /\ \A p \in Proc : at[p] = "remove" =>
         victim[p] \in Retired /\ \A i \in Retired : i <= victim[p]

\* Sequence numbers grow with the ids, and the batch being written is above
\* everything in the older memtables.
VersionInv ==
    /\ \A i \in Ids : \A v \in entries[i] : v[2] <= clock
    /\ \A i, j \in Ids : i < j =>
         \A u \in entries[i], v \in entries[j] : u[2] < v[2]
    /\ \A w \in Writer : at[w] = "put" =>
         /\ batch[w] \subseteq Key \X {clock}
         /\ \A i \in Ids : i # mem_table => \A v \in entries[i] : v[2] < clock

\* The memtables whose table is written: the retired ones, and the one that
\* is about to be retired.
Written == Retired \cup {victim[p] : p \in {q \in Proc : at[q] \in {"retire", "retain"}}}

\* Level 0 is exactly what was written of these, newest first.
TableInv ==
    /\ \A n \in DOMAIN tables : \E i \in Written : tables[n] = Compacted(i)
    /\ \A i \in Written : Compacted(i) # {} =>
         \E n \in DOMAIN tables : tables[n] = Compacted(i)
    /\ NewestTableFirst

\* A memtable has a log, which holds no more than the memtable.
LogInv ==
    /\ DOMAIN log = Ids \cup {new_id[p] : p \in {q \in Proc : at[q] = "swap"}}
    /\ \A i \in Ids : log[i] \subseteq entries[i]
    /\ \A p \in Proc : at[p] = "swap" => log[new_id[p]] = {}

\* When no removal fails, the logs on disk are those of the memtables in
\* memory, the one to be swapped in and the one to be removed.
FilesInv ==
    "remove" \notin Faults =>
        /\ \A i \in DOMAIN log \ Retired : i \in wal_files
        /\ \A i \in Retired : i \in wal_files =>
             \E p \in Proc : at[p] = "remove" /\ victim[p] = i

\* The files of tables are those that are listed, with the one in front that a
\* flush of the oldest memtable named and then failed.
NamedInv ==
    \/ ss_files = tables
    \/ /\ frozen # <<>>
       /\ Compacted(Oldest) # {}
       /\ ss_files = <<Compacted(Oldest)>> \o tables
       /\ \A p \in Proc : at[p] \notin {"retire", "retain"}

IInv ==
    /\ TypeOK /\ ControlInv /\ RoleInv
    /\ IdInv /\ TaskInv /\ VersionInv /\ TableInv
    /\ LogInv /\ FilesInv /\ NamedInv

-----------------------------------------------------------------------------
(* Types.                                                                  *)

Place == {"idle", "put", "batched", "freeze", "check", "swap",
          "throttle", "drain", "l0", "retire", "retain", "remove",
          "flag", "failed", "wait", "exited", "shutdown", "join"}

\* The initial values have their types.
LEMMA TypeInit == Init => TypeOK
<1> SUFFICES ASSUME Init PROVE TypeOK
  OBVIOUS
<1> USE StorageAssumption DEF StorageAssumption, Init, Ids
<1>1. /\ mem_table \in Ids /\ Ids \subseteq Nat
      /\ entries \in [Ids -> SUBSET Version]
  OBVIOUS
<1>2. /\ frozen \in Seq(Ids) /\ tables \in Seq(SUBSET Version)
      /\ ss_files \in Seq(SUBSET Version)
  OBVIOUS
<1>3. /\ wal_files \subseteq DOMAIN log /\ DOMAIN log \subseteq Nat
      /\ log \in [DOMAIN log -> SUBSET Version]
  OBVIOUS
<1>4. at \in [Proc -> Place]
  BY DEF Place
<1>5. /\ batch \in [Writer -> SUBSET Version] /\ closing \subseteq Flusher
      /\ new_id \in [Proc -> Nat] /\ victim \in [Proc -> Nat]
      /\ wal_id \in Nat /\ clock \in Nat
  OBVIOUS
<1> QED
  BY <1>1, <1>2, <1>3, <1>4, <1>5 DEF TypeOK, Place

\* A task goes from place to place.
LEMMA TypeGoto ==
  ASSUME at \in [Proc -> Place], NEW p \in Proc, NEW x \in Place, Goto(p, x)
  PROVE  at' \in [Proc -> Place]
  BY DEF Goto

\* What writers do to memtables and logs.
LEMMA TypeWrite ==
  ASSUME TypeOK, NEW w \in Writer,
         \/ clock < MaxSeq /\ \E keys \in (SUBSET Key) \ {{}} : Start(w, keys)
         \/ \E v \in batch[w] : Put(w, v)
         \/ TxCommit(w) \/ AppendFails(w)
  PROVE  TypeOK'
<1> USE DEF TypeOK, Ids, Proc,
            stateVars, diskVars, lockVars, notifyVars, taskVars
<1>0. at \in [Proc -> Place] /\ {"put", "batched", "idle"} \subseteq Place
  BY DEF Place
<1>1. ASSUME NEW keys \in SUBSET Key, Start(w, keys) PROVE TypeOK'
  <2>1. at' \in [Proc -> Place]
    BY <1>0, <1>1, TypeGoto DEF Start
  <2>2. clock' \in Nat /\ keys \X {clock'} \in SUBSET Version
    BY <1>1 DEF Start, Version
  <2>3. batch' \in [Writer -> SUBSET Version]
    BY <1>1, <2>2 DEF Start
  <2> QED
    BY <1>1, <2>1, <2>2, <2>3 DEF Start, Place
<1>2. ASSUME NEW v \in batch[w], Put(w, v) PROVE TypeOK'
  <2>1. DOMAIN entries' = DOMAIN entries
    BY <1>2 DEF Put
  <2>2. v \in Version /\ entries[mem_table] \cup {v} \subseteq Version
    OBVIOUS
  <2>3. entries' \in [Ids -> SUBSET Version]
    BY <1>2, <2>2 DEF Put
  <2> QED
    BY <1>2, <2>1, <2>3 DEF Put
<1>3. CASE TxCommit(w) \/ AppendFails(w)
  <2>1. UNCHANGED log \/ log' = [log EXCEPT ![mem_table] = @ \cup batch[w]]
    BY <1>3 DEF TxCommit, AppendFails
  <2>2. mem_table \in DOMAIN log => log[mem_table] \cup batch[w] \in SUBSET Version
    OBVIOUS
  <2>3. DOMAIN log' = DOMAIN log /\ log' \in [DOMAIN log -> SUBSET Version]
    BY <2>1, <2>2
  <2>4. at' \in [Proc -> Place]
    BY <1>0, <1>3, TypeGoto DEF TxCommit, AppendFails
  <2> QED
    BY <1>3, <2>3, <2>4 DEF TxCommit, AppendFails, Place
<1> QED
  BY <1>1, <1>2, <1>3

\* What a freeze does.
LEMMA TypeFreeze == ASSUME TypeOK, NEW p \in Proc, Freeze(p) PROVE TypeOK'
<1> USE DEF TypeOK, Ids, stateVars, diskVars, lockVars, notifyVars, taskVars
<1>0. at' \in [Proc -> Place]
  <2>1. at \in [Proc -> Place]
    BY DEF Place
  <2>2. \E x \in Place : Goto(p, x)
    BY DEF Freeze, FreezeLock, NotDue, NewWal, NewWalFails, Swap,
           AfterFreeze, AfterFlush, Place
  <2> QED
    BY <2>1, <2>2, TypeGoto
<1>1. CASE FreezeLock(p) \/ NotDue(p) \/ NewWalFails(p)
  BY <1>0, <1>1 DEF FreezeLock, NotDue, NewWalFails, Place
<1>2. CASE NewWal(p)
  <2>1. DOMAIN log' = DOMAIN log \cup {wal_id}
        /\ log' \in [DOMAIN log \cup {wal_id} -> SUBSET Version]
    BY <1>2 DEF NewWal
  <2>2. new_id' \in [Proc -> Nat]
    BY <1>2 DEF NewWal
  <2>3. wal_files' = wal_files \cup {wal_id} /\ wal_id' \in Nat
    BY <1>2 DEF NewWal
  <2>4. wal_files' \subseteq DOMAIN log' /\ DOMAIN log' \subseteq Nat
    BY <2>1, <2>3
  <2>5. log' \in [DOMAIN log' -> SUBSET Version]
    BY <2>1
  <2>6. UNCHANGED <<stateVars, ss_files, lockVars, notifyVars, batch, victim, closing,
                    clock>>
    BY <1>2 DEF NewWal
  <2> QED
    BY <1>0, <2>2, <2>3, <2>4, <2>5, <2>6 DEF Place
<1>3. CASE Swap(p)
  <2>1. DOMAIN entries' = DOMAIN entries \cup {new_id[p]}
        /\ entries' \in [DOMAIN entries \cup {new_id[p]} -> SUBSET Version]
    BY <1>3 DEF Swap
  <2>2. frozen' \in Seq(DOMAIN entries)
    BY <1>3, InFront DEF Swap
  <2>3. frozen' \in Seq(DOMAIN entries')
    BY <2>1, <2>2, SeqMonotonic
  <2>4. new_id' \in [Proc -> Nat]
    BY <1>3 DEF Swap
  <2> QED
    BY <1>0, <1>3, <2>1, <2>3, <2>4 DEF Swap, Place
<1> QED
  BY <1>1, <1>2, <1>3 DEF Freeze

\* The oldest frozen memtable is one.
LEMMA OldestFrozen ==
  ASSUME TypeOK, frozen # <<>>
  PROVE  /\ Len(frozen) \in 1..Len(frozen) /\ DOMAIN frozen = 1..Len(frozen)
         /\ Oldest = frozen[Len(frozen)] /\ Oldest \in Ids
  BY EmptySeq, LenProperties DEF TypeOK, Oldest

\* It is the one that Retire takes away, and the last in the list.
LEMMA RetireOldest ==
  ASSUME TypeOK, IdInv, TaskInv, NEW p \in Proc, Retire(p)
  PROVE  /\ frozen' \in Seq(Ids) /\ Len(frozen') = Len(frozen) - 1
         /\ DOMAIN frozen = 1..Len(frozen) /\ DOMAIN frozen' = 1..(Len(frozen) - 1)
         /\ \A n \in DOMAIN frozen' : frozen'[n] = frozen[n]
         /\ Len(frozen) \in 1..Len(frozen) /\ victim[p] = frozen[Len(frozen)]
<1>1. frozen # <<>> /\ victim[p] = Oldest /\ frozen' = Without(frozen, victim[p])
  BY DEF Retire, TaskInv
<1>2. /\ Len(frozen) \in 1..Len(frozen) /\ DOMAIN frozen = 1..Len(frozen)
      /\ Oldest = frozen[Len(frozen)] /\ Oldest \in Ids /\ frozen \in Seq(Ids)
  BY <1>1, OldestFrozen DEF TypeOK
<1>3. \A n \in 1..(Len(frozen) - 1) : frozen[n] \in Nat /\ frozen[n] # victim[p]
  <2>1. /\ \A n \in 1..Len(frozen) : frozen[n] \in Nat
        /\ \A n, m \in 1..Len(frozen) : n < m => frozen[n] > frozen[m]
    BY <1>2 DEF IdInv, TypeOK
  <2> QED
    BY <1>1, <1>2, <2>1
<1>4. /\ Without(frozen, victim[p]) \in Seq(Ids)
      /\ Len(Without(frozen, victim[p])) = Len(frozen) - 1
      /\ \A n \in 1..(Len(frozen) - 1) : Without(frozen, victim[p])[n] = frozen[n]
  BY <1>1, <1>2, <1>3, WithoutLast
<1> QED
  BY <1>1, <1>2, <1>4, LenProperties

\* What a flush does.
LEMMA TypeFlush ==
  ASSUME TypeOK, IdInv, TaskInv, NEW p \in Proc, FlushOldest(p)
  PROVE  TypeOK'
<1> USE DEF TypeOK, Ids, stateVars, diskVars, lockVars, notifyVars, taskVars
<1>0. at' \in [Proc -> Place]
  <2>1. at \in [Proc -> Place]
    BY DEF Place
  <2>2. \E x \in Place : Goto(p, x)
    BY DEF FlushOldest, FlushPick, FlushNothing, L0, L0Fails, RetireLock, Retire,
           RemoveWal, RemoveWalFails, AfterFlush, Place
  <2> QED
    BY <2>1, <2>2, TypeGoto
<1>1. CASE FlushPick(p)
  <2>1. victim' \in [Proc -> Nat]
    BY <1>1, OldestFrozen DEF FlushPick
  <2> QED
    BY <1>0, <1>1, <2>1 DEF FlushPick, Place
<1>2. CASE FlushNothing(p) \/ RetireLock(p) \/ RemoveWal(p) \/ RemoveWalFails(p)
  BY <1>0, <1>2 DEF FlushNothing, RetireLock, RemoveWal, RemoveWalFails, Place
<1>3. CASE L0(p) \/ L0Fails(p)
  <2> DEFINE table == Compacted(victim[p])
  <2>1. victim[p] \in Ids /\ at[p] = "l0"
    BY <1>3, OldestFrozen DEF L0, L0Fails, TaskInv
  <2>2. /\ table \in SUBSET Version /\ tables \in Seq(SUBSET Version)
        /\ ss_files \in Seq(SUBSET Version)
    BY <2>1 DEF Compacted, Newest
  <2>3. /\ UNCHANGED tables \/ tables' = <<table>> \o tables
        /\ UNCHANGED ss_files \/ ss_files' = <<table>> \o ss_files
    BY <1>3 DEF L0, L0Fails, Named
  <2>4. tables' \in Seq(SUBSET Version) /\ ss_files' \in Seq(SUBSET Version)
    <3> HIDE DEF table, TypeOK
    <3>1. <<table>> \o tables \in Seq(SUBSET Version)
      BY <2>2, InFront
    <3>2. <<table>> \o ss_files \in Seq(SUBSET Version)
      BY <2>2, InFront
    <3> QED
      BY <2>2, <2>3, <3>1, <3>2
  <2>5. UNCHANGED <<mem_table, frozen, entries, wal_files, log, wal_id, state_lock,
                    batching, notifyVars, taskVars>>
    BY <1>3 DEF L0, L0Fails
  <2>6. flush_lock' \in Proc \cup {Nobody}
    BY <1>3 DEF L0, L0Fails
  <2> QED
    BY <1>0, <2>4, <2>5, <2>6 DEF Place
<1>4. CASE Retire(p)
  BY <1>0, <1>4, RetireOldest DEF Retire, Place
<1> QED
  BY <1>1, <1>2, <1>3, <1>4 DEF FlushOldest

\* The types are kept, given what a flush has in its hands.
LEMMA TypeStep == TypeOK /\ IdInv /\ TaskInv /\ [Next]_vars => TypeOK'
<1> SUFFICES ASSUME TypeOK, IdInv, TaskInv, [Next]_vars PROVE TypeOK'
  OBVIOUS
<1> USE DEF stateVars, diskVars, lockVars, notifyVars, taskVars
<1>1. at \in [Proc -> Place]
  BY DEF TypeOK, Place
<1>2. ASSUME NEW w \in Writer, FreezeIfFull(w) \/ Proceed(w) \/ Poke(w)
      PROVE TypeOK'
  <2>1. at' \in [Proc -> Place]
    BY <1>1, <1>2, TypeGoto DEF FreezeIfFull, Proceed, Poke, Proc, Place, Goto
  <2> QED
    BY <1>2, <2>1 DEF FreezeIfFull, Proceed, Poke, TypeOK, Ids, Place
<1>3. ASSUME NEW f \in Flusher, CallFlush(f) \/ Shutdown(f) \/ Join(f)
      PROVE TypeOK'
  <2>1. at' \in [Proc -> Place]
    BY <1>1, <1>3, TypeGoto DEF CallFlush, Shutdown, Join, Proc, Place, Goto
  <2> QED
    BY <1>3, <2>1 DEF CallFlush, Shutdown, BeginShutdown, Join, TypeOK, Ids, Place
<1>4. CASE LoopFlag \/ LoopWake \/ DropHandle
  <2>1. at' \in [Proc -> Place]
    BY <1>1, <1>4, TypeGoto DEF LoopFlag, LoopWake, DropHandle, Proc, Place, Goto
  <2> QED
    BY <1>4, <2>1 DEF LoopFlag, LoopWake, DropHandle, BeginShutdown, TypeOK, Ids,
                      Place
<1>5. CASE UNCHANGED vars
  BY <1>5 DEF vars, TypeOK, Ids
<1> QED
  BY <1>2, <1>3, <1>4, <1>5, TypeWrite, TypeFreeze, TypeFlush DEF Next

-----------------------------------------------------------------------------
(* Control: mutexes, the read guard, and who may be where.                 *)

\* At first nobody holds anything, and the loop is where it flushes.
LEMMA ControlInit == Init => ControlInv /\ RoleInv
  BY StorageAssumption
  DEF StorageAssumption, Init, Proc, ControlInv, StateLockInv, FlushLockInv,
      BatchingInv, ExclusiveInv, RoleInv, Flushing, Exclusive

\* Nobody leaves his role.
LEMMA RoleStep == TypeOK /\ RoleInv /\ [Next]_vars => RoleInv'
<1> SUFFICES ASSUME at \in [Proc -> Place], RoleInv, [Next]_vars PROVE RoleInv'
  BY DEF TypeOK, Place
<1> USE StorageAssumption DEF StorageAssumption, RoleInv, Proc, Flushing, Goto
<1>1. ASSUME NEW w \in Writer,
             \/ \E keys \in (SUBSET Key) \ {{}} : Start(w, keys)
             \/ \E v \in batch[w] : Put(w, v)
             \/ TxCommit(w) \/ AppendFails(w)
             \/ FreezeIfFull(w) \/ Proceed(w) \/ Poke(w)
      PROVE RoleInv'
  BY <1>1 DEF Start, Put, TxCommit, AppendFails, FreezeIfFull, Proceed, Poke
<1>2. ASSUME NEW f \in Flusher, CallFlush(f) \/ Shutdown(f) \/ Join(f)
      PROVE RoleInv'
  BY <1>2 DEF CallFlush, Shutdown, Join
<1>3. ASSUME NEW p \in Proc, Freeze(p) PROVE RoleInv'
  <2>1. CASE FreezeLock(p) \/ NewWal(p)
    BY <2>1 DEF FreezeLock, NewWal
  <2>2. CASE NotDue(p) \/ Swap(p)
    BY <2>2 DEF NotDue, Swap, AfterFreeze
  <2>3. CASE NewWalFails(p)
    BY <2>3 DEF NewWalFails, AfterFlush
  <2> QED
    BY <1>3, <2>1, <2>2, <2>3 DEF Freeze
<1>4. ASSUME NEW p \in Proc, FlushOldest(p) PROVE RoleInv'
  <2>1. CASE FlushPick(p) \/ L0(p) \/ RetireLock(p) \/ Retire(p) \/ RemoveWal(p)
    BY <2>1 DEF FlushPick, L0, RetireLock, Retire, RemoveWal
  <2>2. CASE FlushNothing(p) \/ L0Fails(p) \/ RemoveWalFails(p)
    BY <2>2 DEF FlushNothing, L0Fails, RemoveWalFails, AfterFlush
  <2> QED
    BY <1>4, <2>1, <2>2 DEF FlushOldest
<1>5. CASE LoopFlag \/ LoopWake \/ DropHandle
  BY <1>5 DEF LoopFlag, LoopWake, DropHandle
<1>6. CASE UNCHANGED vars
  BY <1>6 DEF vars
<1> QED
  BY <1>1, <1>2, <1>3, <1>4, <1>5, <1>6 DEF Next

\* The state lock is given back with every way out of a freeze and a flush.
LEMMA StateLockStep ==
  TypeOK /\ StateLockInv /\ RoleInv /\ [Next]_vars => StateLockInv'
<1> SUFFICES ASSUME at \in [Proc -> Place], StateLockInv, RoleInv, [Next]_vars
             PROVE StateLockInv'
  BY DEF TypeOK, Place
<1> USE StorageAssumption
    DEF StorageAssumption, StateLockInv, RoleInv, Proc, Flushing, Goto, lockVars
<1>1. ASSUME NEW w \in Writer,
             \/ \E keys \in (SUBSET Key) \ {{}} : Start(w, keys)
             \/ \E v \in batch[w] : Put(w, v)
             \/ TxCommit(w) \/ AppendFails(w)
             \/ FreezeIfFull(w) \/ Proceed(w) \/ Poke(w)
      PROVE StateLockInv'
  BY <1>1 DEF Start, Put, TxCommit, AppendFails, FreezeIfFull, Proceed, Poke
<1>2. ASSUME NEW f \in Flusher, CallFlush(f) \/ Shutdown(f) \/ Join(f)
      PROVE StateLockInv'
  BY <1>2 DEF CallFlush, Shutdown, Join
<1>3. ASSUME NEW p \in Proc, Freeze(p) PROVE StateLockInv'
  <2>1. CASE FreezeLock(p) \/ NewWal(p)
    BY <2>1 DEF FreezeLock, NewWal
  <2>2. CASE NotDue(p) \/ Swap(p)
    BY <2>2 DEF NotDue, Swap, AfterFreeze
  <2>3. CASE NewWalFails(p)
    BY <2>3 DEF NewWalFails, AfterFlush
  <2> QED
    BY <1>3, <2>1, <2>2, <2>3 DEF Freeze
<1>4. ASSUME NEW p \in Proc, FlushOldest(p) PROVE StateLockInv'
  <2>1. CASE FlushPick(p) \/ L0(p) \/ RetireLock(p) \/ Retire(p) \/ RemoveWal(p)
    BY <2>1 DEF FlushPick, L0, RetireLock, Retire, RemoveWal
  <2>2. CASE FlushNothing(p) \/ L0Fails(p) \/ RemoveWalFails(p)
    BY <2>2 DEF FlushNothing, L0Fails, RemoveWalFails, AfterFlush
  <2> QED
    BY <1>4, <2>1, <2>2 DEF FlushOldest
<1>5. CASE LoopFlag \/ LoopWake \/ DropHandle
  BY <1>5 DEF LoopFlag, LoopWake, DropHandle
<1>6. CASE UNCHANGED vars
  BY <1>6 DEF vars
<1> QED
  BY <1>1, <1>2, <1>3, <1>4, <1>5, <1>6 DEF Next

\* And the flush lock.
LEMMA FlushLockStep ==
  TypeOK /\ FlushLockInv /\ RoleInv /\ [Next]_vars => FlushLockInv'
<1> SUFFICES ASSUME at \in [Proc -> Place], FlushLockInv, RoleInv, [Next]_vars
             PROVE FlushLockInv'
  BY DEF TypeOK, Place
<1> USE StorageAssumption
    DEF StorageAssumption, FlushLockInv, RoleInv, Proc, Flushing, Goto, lockVars
<1>1. ASSUME NEW w \in Writer,
             \/ \E keys \in (SUBSET Key) \ {{}} : Start(w, keys)
             \/ \E v \in batch[w] : Put(w, v)
             \/ TxCommit(w) \/ AppendFails(w)
             \/ FreezeIfFull(w) \/ Proceed(w) \/ Poke(w)
      PROVE FlushLockInv'
  BY <1>1 DEF Start, Put, TxCommit, AppendFails, FreezeIfFull, Proceed, Poke
<1>2. ASSUME NEW f \in Flusher, CallFlush(f) \/ Shutdown(f) \/ Join(f)
      PROVE FlushLockInv'
  BY <1>2 DEF CallFlush, Shutdown, Join
<1>3. ASSUME NEW p \in Proc, Freeze(p) PROVE FlushLockInv'
  <2>1. CASE FreezeLock(p) \/ NewWal(p)
    BY <2>1 DEF FreezeLock, NewWal
  <2>2. CASE NotDue(p) \/ Swap(p)
    BY <2>2 DEF NotDue, Swap, AfterFreeze
  <2>3. CASE NewWalFails(p)
    BY <2>3 DEF NewWalFails, AfterFlush
  <2> QED
    BY <1>3, <2>1, <2>2, <2>3 DEF Freeze
<1>4. ASSUME NEW p \in Proc, FlushOldest(p) PROVE FlushLockInv'
  <2>1. CASE FlushPick(p) \/ L0(p) \/ RetireLock(p) \/ Retire(p) \/ RemoveWal(p)
    BY <2>1 DEF FlushPick, L0, RetireLock, Retire, RemoveWal
  <2>2. CASE FlushNothing(p) \/ L0Fails(p) \/ RemoveWalFails(p)
    BY <2>2 DEF FlushNothing, L0Fails, RemoveWalFails, AfterFlush
  <2> QED
    BY <1>4, <2>1, <2>2 DEF FlushOldest
<1>5. CASE LoopFlag \/ LoopWake \/ DropHandle
  BY <1>5 DEF LoopFlag, LoopWake, DropHandle
<1>6. CASE UNCHANGED vars
  BY <1>6 DEF vars
<1> QED
  BY <1>1, <1>2, <1>3, <1>4, <1>5, <1>6 DEF Next

\* The read guard is held while entries are put.
LEMMA BatchingStep ==
  TypeOK /\ BatchingInv /\ RoleInv /\ [Next]_vars => BatchingInv'
<1> SUFFICES ASSUME at \in [Proc -> Place], BatchingInv, RoleInv, [Next]_vars
             PROVE BatchingInv'
  BY DEF TypeOK, Place
<1> USE StorageAssumption
    DEF StorageAssumption, BatchingInv, RoleInv, Proc, Flushing, Goto, lockVars
<1>1. ASSUME NEW w \in Writer,
             \/ \E keys \in (SUBSET Key) \ {{}} : Start(w, keys)
             \/ \E v \in batch[w] : Put(w, v)
             \/ TxCommit(w) \/ AppendFails(w)
             \/ FreezeIfFull(w) \/ Proceed(w) \/ Poke(w)
      PROVE BatchingInv'
  BY <1>1 DEF Start, Put, TxCommit, AppendFails, FreezeIfFull, Proceed, Poke
<1>2. ASSUME NEW f \in Flusher, CallFlush(f) \/ Shutdown(f) \/ Join(f)
      PROVE BatchingInv'
  BY <1>2 DEF CallFlush, Shutdown, Join
<1>3. ASSUME NEW p \in Proc, Freeze(p) PROVE BatchingInv'
  <2>1. CASE FreezeLock(p) \/ NewWal(p)
    BY <2>1 DEF FreezeLock, NewWal
  <2>2. CASE NotDue(p) \/ Swap(p)
    BY <2>2 DEF NotDue, Swap, AfterFreeze
  <2>3. CASE NewWalFails(p)
    BY <2>3 DEF NewWalFails, AfterFlush
  <2> QED
    BY <1>3, <2>1, <2>2, <2>3 DEF Freeze
<1>4. ASSUME NEW p \in Proc, FlushOldest(p) PROVE BatchingInv'
  <2>1. CASE FlushPick(p) \/ L0(p) \/ RetireLock(p) \/ Retire(p) \/ RemoveWal(p)
    BY <2>1 DEF FlushPick, L0, RetireLock, Retire, RemoveWal
  <2>2. CASE FlushNothing(p) \/ L0Fails(p) \/ RemoveWalFails(p)
    BY <2>2 DEF FlushNothing, L0Fails, RemoveWalFails, AfterFlush
  <2> QED
    BY <1>4, <2>1, <2>2 DEF FlushOldest
<1>5. CASE LoopFlag \/ LoopWake \/ DropHandle
  BY <1>5 DEF LoopFlag, LoopWake, DropHandle
<1>6. CASE UNCHANGED vars
  BY <1>6 DEF vars
<1> QED
  BY <1>1, <1>2, <1>3, <1>4, <1>5, <1>6 DEF Next

\* Only Start and CallFlush enter, and only when nobody is there.
LEMMA ExclusiveStep ==
  TypeOK /\ ExclusiveInv /\ RoleInv /\ [Next]_vars => ExclusiveInv'
<1> SUFFICES ASSUME at \in [Proc -> Place], ExclusiveInv, RoleInv, [Next]_vars
             PROVE ExclusiveInv'
  BY DEF TypeOK, Place
<1> USE StorageAssumption
    DEF StorageAssumption, ExclusiveInv, Exclusive, RoleInv, Proc, Flushing, Goto
<1>1. ASSUME NEW w \in Writer, NEW keys \in SUBSET Key, Start(w, keys)
      PROVE ExclusiveInv'
  BY <1>1 DEF Start, NoneExclusive
<1>2. ASSUME NEW w \in Writer,
             \/ \E v \in batch[w] : Put(w, v)
             \/ TxCommit(w) \/ AppendFails(w)
             \/ FreezeIfFull(w) \/ Proceed(w) \/ Poke(w)
      PROVE ExclusiveInv'
  BY <1>2 DEF Put, TxCommit, AppendFails, FreezeIfFull, Proceed, Poke
<1>3. ASSUME NEW f \in Flusher, CallFlush(f) PROVE ExclusiveInv'
  BY <1>3 DEF CallFlush, NoneExclusive
<1>4. ASSUME NEW f \in Flusher, Shutdown(f) \/ Join(f) PROVE ExclusiveInv'
  BY <1>4 DEF Shutdown, Join
<1>5. ASSUME NEW p \in Proc, Freeze(p) PROVE ExclusiveInv'
  <2>1. CASE FreezeLock(p) \/ NewWal(p)
    BY <2>1 DEF FreezeLock, NewWal
  <2>2. CASE NotDue(p) \/ Swap(p)
    BY <2>2 DEF NotDue, Swap, AfterFreeze
  <2>3. CASE NewWalFails(p)
    BY <2>3 DEF NewWalFails, AfterFlush
  <2> QED
    BY <1>5, <2>1, <2>2, <2>3 DEF Freeze
<1>6. ASSUME NEW p \in Proc, FlushOldest(p) PROVE ExclusiveInv'
  <2>1. CASE FlushPick(p) \/ L0(p) \/ RetireLock(p) \/ Retire(p) \/ RemoveWal(p)
    BY <2>1 DEF FlushPick, L0, RetireLock, Retire, RemoveWal
  <2>2. CASE FlushNothing(p) \/ L0Fails(p) \/ RemoveWalFails(p)
    BY <2>2 DEF FlushNothing, L0Fails, RemoveWalFails, AfterFlush
  <2> QED
    BY <1>6, <2>1, <2>2 DEF FlushOldest
<1>7. CASE LoopFlag \/ LoopWake \/ DropHandle
  BY <1>7 DEF LoopFlag, LoopWake, DropHandle
<1>8. CASE UNCHANGED vars
  BY <1>8 DEF vars
<1> QED
  BY <1>1, <1>2, <1>3, <1>4, <1>5, <1>6, <1>7, <1>8 DEF Next

\* The four parts together.
LEMMA ControlStep == TypeOK /\ ControlInv /\ RoleInv /\ [Next]_vars => ControlInv'
  BY StateLockStep, FlushLockStep, BatchingStep, ExclusiveStep DEF ControlInv

-----------------------------------------------------------------------------
(* Ids.  The memtables, the log numbers and what the tasks have in hand    *)
(* change in few actions; the rest is Quiet.                               *)

Quiet ==
    /\ UNCHANGED <<mem_table, frozen, tables, entries, wal_files, log, wal_id,
                   ss_files>>
    /\ UNCHANGED <<batch, new_id, victim, clock>>
    /\ \A p \in Proc, x \in Flushing \cup {"put", "swap"} : at'[p] = x <=> at[p] = x

\* What is not one of the actions named here is quiet.
LEMMA QuietStep ==
  ASSUME TypeOK, RoleInv, [Next]_vars
  PROVE  \/ \E w \in Writer :
              \/ clock < MaxSeq /\ \E keys \in (SUBSET Key) \ {{}} : Start(w, keys)
              \/ \E v \in batch[w] : Put(w, v)
              \/ TxCommit(w) \/ AppendFails(w)
         \/ \E p \in Proc :
              \/ NewWal(p) \/ NewWalFails(p) \/ Swap(p)
              \/ FlushPick(p) \/ L0(p) \/ L0Fails(p) \/ RetireLock(p) \/ Retire(p)
              \/ RemoveWal(p) \/ RemoveWalFails(p)
         \/ Quiet
<1> USE DEF stateVars, diskVars, lockVars, notifyVars, taskVars, Goto, Flushing, Proc
<1>0. at \in [Proc -> Place]
  BY DEF TypeOK, Place
<1>1. ASSUME NEW w \in Writer, FreezeIfFull(w) \/ Proceed(w) \/ Poke(w) PROVE Quiet
  BY <1>0, <1>1 DEF FreezeIfFull, Proceed, Poke, Quiet
<1>2. ASSUME NEW f \in Flusher, CallFlush(f) \/ Shutdown(f) \/ Join(f) PROVE Quiet
  BY <1>0, <1>2 DEF CallFlush, Shutdown, Join, Quiet
<1>3. ASSUME NEW p \in Proc, FreezeLock(p) \/ NotDue(p) \/ FlushNothing(p)
      PROVE Quiet
  BY <1>0, <1>3 DEF FreezeLock, NotDue, FlushNothing, AfterFreeze, AfterFlush, Quiet
<1>4. CASE LoopFlag \/ LoopWake \/ DropHandle
  BY <1>0, <1>4 DEF LoopFlag, LoopWake, DropHandle, Quiet
<1>5. CASE UNCHANGED vars
  BY <1>5 DEF vars, Quiet
<1> QED
  BY <1>1, <1>2, <1>3, <1>4, <1>5 DEF Next, Freeze, FlushOldest

\* A freeze retires nothing: the new memtable is above all others.
LEMMA SwapIds ==
  ASSUME TypeOK, IdInv, TaskInv, NEW p \in Proc, Swap(p)
  PROVE  /\ mem_table' = new_id[p] /\ mem_table < new_id[p] /\ new_id[p] \notin Ids
         /\ Ids' = Ids \cup {new_id[p]}
         /\ entries'[new_id[p]] = {} /\ \A i \in Ids : entries'[i] = entries[i]
         /\ DOMAIN frozen = 1..Len(frozen) /\ DOMAIN frozen' = 1..Len(frozen')
         /\ Len(frozen') = Len(frozen) + 1 /\ Len(frozen) \in Nat
         /\ frozen'[1] = mem_table
         /\ \A n \in 2..Len(frozen') : frozen'[n] = frozen[n - 1]
         /\ \A n \in 1..Len(frozen) : frozen'[n + 1] = frozen[n]
         /\ Retired' = Retired
<1>1. /\ mem_table' = new_id[p] /\ frozen' = <<mem_table>> \o frozen
      /\ entries' = [i \in Ids \cup {new_id[p]} |->
                       IF i = new_id[p] THEN {} ELSE entries[i]]
      /\ mem_table < new_id[p] /\ new_id[p] \in Nat
    BY DEF Swap, TaskInv, TypeOK, Ids
<1>2. new_id[p] \notin Ids
  BY <1>1 DEF IdInv, TypeOK, Ids
<1>3. /\ Ids' = Ids \cup {new_id[p]}
      /\ entries'[new_id[p]] = {} /\ \A i \in Ids : entries'[i] = entries[i]
  BY <1>1, <1>2 DEF Ids
<1>4. /\ frozen \in Seq(Ids) /\ mem_table \in Ids /\ Len(frozen) \in Nat
      /\ DOMAIN frozen = 1..Len(frozen)
  BY LenProperties DEF TypeOK
<1>5. /\ frozen' \in Seq(Ids) /\ Len(frozen') = Len(frozen) + 1
      /\ frozen'[1] = mem_table
      /\ \A n \in 1..Len(frozen) : frozen'[n + 1] = frozen[n]
      /\ \A n \in 2..(Len(frozen) + 1) : frozen'[n] = frozen[n - 1]
  BY <1>1, <1>4, InFront
<1>6. DOMAIN frozen' = 1..Len(frozen')
  BY <1>5, LenProperties
<1>7. Retired' = Retired
  <2>1. ASSUME NEW i \in Ids
        PROVE  (\A n \in DOMAIN frozen' : frozen'[n] # i)
                 <=> i # mem_table /\ \A n \in DOMAIN frozen : frozen[n] # i
    BY <1>4, <1>5, <1>6
  <2>2. \A i \in Retired' : i \in Ids
    BY <1>1, <1>3 DEF Retired
  <2> QED
    BY <1>1, <1>2, <1>3, <2>1, <2>2 DEF Retired
<1> QED
  BY <1>1, <1>2, <1>3, <1>4, <1>5, <1>6, <1>7

\* The memtable that leaves the list is the newest retired one.
LEMMA RetireIds ==
  ASSUME TypeOK, IdInv, TaskInv, NEW p \in Proc, Retire(p)
  PROVE  /\ Retired' = Retired \cup {victim[p]}
         /\ victim[p] \in Ids \ Retired /\ victim[p] < mem_table
         /\ \A n \in DOMAIN frozen' : victim[p] < frozen'[n]
         /\ \A i \in Retired : i < victim[p]
<1>1. /\ frozen' \in Seq(Ids) /\ Len(frozen') = Len(frozen) - 1
      /\ DOMAIN frozen = 1..Len(frozen) /\ DOMAIN frozen' = 1..(Len(frozen) - 1)
      /\ \A n \in DOMAIN frozen' : frozen'[n] = frozen[n]
      /\ Len(frozen) \in 1..Len(frozen) /\ victim[p] = frozen[Len(frozen)]
  BY RetireOldest
<1>2. UNCHANGED <<mem_table, entries>>
  BY DEF Retire
<1>3. /\ frozen \in Seq(Ids) /\ Ids \subseteq Nat /\ Len(frozen) \in Nat
      /\ mem_table \in Nat
  BY LenProperties DEF TypeOK
<1>4. \A n \in DOMAIN frozen : frozen[n] \in Ids /\ frozen[n] < mem_table
  BY <1>1, <1>3 DEF IdInv
<1>5. \A n \in DOMAIN frozen' : victim[p] < frozen'[n]
  BY <1>1, <1>3, <1>4 DEF IdInv
<1>6. Retired' = Retired \cup {victim[p]}
  <2>1. ASSUME NEW i \in Ids
        PROVE  (\A n \in DOMAIN frozen' : frozen'[n] # i)
                 <=> i = victim[p] \/ \A n \in DOMAIN frozen : frozen[n] # i
    BY <1>1, <1>3, <1>5
  <2>2. Retired' = {i \in Ids : i # mem_table /\ \A n \in DOMAIN frozen' : frozen'[n] # i}
    BY <1>2 DEF Retired, Ids
  <2>3. victim[p] \in Ids /\ victim[p] # mem_table
    BY <1>1, <1>3, <1>4
  <2> QED
    BY <2>1, <2>2, <2>3 DEF Retired
<1> QED
  BY <1>1, <1>4, <1>5, <1>6 DEF IdInv, Retired

\* At first there is one memtable, and nobody has another in his hands.
LEMMA IdInit == Init => IdInv /\ TaskInv
<1> SUFFICES ASSUME Init PROVE IdInv /\ TaskInv
  OBVIOUS
<1> USE StorageAssumption DEF StorageAssumption, Init, Ids, Retired
<1>1. DOMAIN entries = {1} /\ DOMAIN frozen = {} /\ mem_table = 1 /\ wal_id = 2
  OBVIOUS
<1>2. \A p \in Proc : at[p] \in {"drain", "idle"}
  OBVIOUS
<1> QED
  BY <1>1, <1>2 DEF IdInv, TaskInv

\* Ids go on growing from the oldest retired memtable to the active one.
LEMMA IdStep == TypeOK /\ RoleInv /\ IdInv /\ TaskInv /\ [Next]_vars => IdInv'
<1> SUFFICES ASSUME TypeOK, RoleInv, IdInv, TaskInv, [Next]_vars PROVE IdInv'
  OBVIOUS
<1> USE DEF stateVars, diskVars, lockVars, notifyVars, taskVars
<1>1. CASE /\ UNCHANGED <<mem_table, frozen>>
           /\ Ids' = Ids
           /\ wal_id' = wal_id \/ wal_id' = wal_id + 1
  BY <1>1 DEF IdInv, Retired, TypeOK
<1>2. ASSUME NEW w \in Writer,
             \/ \E keys \in (SUBSET Key) \ {{}} : Start(w, keys)
             \/ \E v \in batch[w] : Put(w, v)
             \/ TxCommit(w) \/ AppendFails(w)
      PROVE IdInv'
  BY <1>1, <1>2 DEF Start, Put, TxCommit, AppendFails, Ids
<1>3. ASSUME NEW p \in Proc,
             \/ NewWal(p) \/ NewWalFails(p)
             \/ FlushPick(p) \/ L0(p) \/ L0Fails(p) \/ RetireLock(p)
             \/ RemoveWal(p) \/ RemoveWalFails(p)
      PROVE IdInv'
  BY <1>1, <1>3 DEF NewWal, NewWalFails, FlushPick, L0, L0Fails, RetireLock, RemoveWal,
                    RemoveWalFails, Ids
<1>4. CASE Quiet
  BY <1>1, <1>4 DEF Quiet, Ids
<1>5. ASSUME NEW p \in Proc, Swap(p) PROVE IdInv'
  <2>1. /\ mem_table' = new_id[p] /\ mem_table < new_id[p]
        /\ Ids' = Ids \cup {new_id[p]} /\ Retired' = Retired
        /\ DOMAIN frozen = 1..Len(frozen) /\ DOMAIN frozen' = 1..Len(frozen')
        /\ Len(frozen') = Len(frozen) + 1 /\ Len(frozen) \in Nat
        /\ frozen'[1] = mem_table
        /\ \A n \in 2..Len(frozen') : frozen'[n] = frozen[n - 1]
    BY <1>5, SwapIds
  <2>2. new_id[p] < wal_id /\ wal_id' = wal_id
    BY <1>5 DEF Swap, TaskInv
  <2>3. mem_table \in Nat /\ new_id[p] \in Nat /\ wal_id \in Nat /\ Ids \subseteq Nat
    BY DEF TypeOK
  <2>4. /\ mem_table < wal_id /\ \A i \in Ids : i <= mem_table
        /\ \A n \in DOMAIN frozen : frozen[n] \in Nat /\ frozen[n] < mem_table
        /\ \A n, m \in DOMAIN frozen : n < m => frozen[n] > frozen[m]
        /\ \A i \in Retired : i < mem_table
        /\ \A i \in Retired : \A n \in DOMAIN frozen : i < frozen[n]
    BY <2>1, <2>3 DEF IdInv, Retired, TypeOK
  <2>5. \A n \in DOMAIN frozen' : n = 1 \/ n - 1 \in DOMAIN frozen
    BY <2>1
  <2>6. \A n \in DOMAIN frozen' : frozen'[n] < mem_table'
    BY <2>1, <2>3, <2>4, <2>5
  <2>7. \A n, m \in DOMAIN frozen' : n < m => frozen'[n] > frozen'[m]
    BY <2>1, <2>3, <2>4, <2>5
  <2>8. \A i \in Retired' : \A n \in DOMAIN frozen' : i < frozen'[n]
    BY <2>1, <2>3, <2>4, <2>5
  <2>9. mem_table' < wal_id' /\ \A i \in Ids' : i <= mem_table'
    BY <2>1, <2>2, <2>3, <2>4
  <2> QED
    BY <2>6, <2>7, <2>8, <2>9 DEF IdInv
<1>6. ASSUME NEW p \in Proc, Retire(p) PROVE IdInv'
  <2>1. /\ DOMAIN frozen' \subseteq DOMAIN frozen
        /\ \A n \in DOMAIN frozen' : frozen'[n] = frozen[n]
    BY <1>6, RetireOldest DEF TypeOK
  <2>2. UNCHANGED <<mem_table, wal_id, Ids>>
    BY <1>6 DEF Retire, Ids
  <2>3. \A i \in Retired' : \A n \in DOMAIN frozen' : i < frozen'[n]
    BY <1>6, <2>1, RetireIds DEF IdInv
  <2> QED
    BY <2>1, <2>2, <2>3 DEF IdInv
<1> QED
  BY <1>2, <1>3, <1>4, <1>5, <1>6, QuietStep

\* Two tasks that are between the places of the flush lock are the same task.
LEMMA OneFlusher ==
  ASSUME FlushLockInv, NEW p \in Proc, NEW q \in Proc,
         at[p] \in Flushing, at[q] \in Flushing
  PROVE  p = q
  BY DEF FlushLockInv

\* And so are two tasks that are between the places of the state lock.
LEMMA OneFreezer ==
  ASSUME StateLockInv, NEW p \in Proc, NEW q \in Proc,
         at[p] \in {"check", "swap", "retain"}, at[q] \in {"check", "swap", "retain"}
  PROVE  p = q
  BY DEF StateLockInv

\* A task has in its hands what it took, until it is done with it.
LEMMA TaskStep ==
  TypeOK /\ ControlInv /\ RoleInv /\ IdInv /\ TaskInv /\ [Next]_vars => TaskInv'
<1> SUFFICES ASSUME TypeOK, StateLockInv, FlushLockInv, RoleInv, IdInv, TaskInv,
                    [Next]_vars
             PROVE TaskInv'
  BY DEF ControlInv
<1> USE DEF stateVars, diskVars, lockVars, notifyVars, taskVars, Goto
<1>0. at \in [Proc -> Place] /\ Writer \subseteq Proc
  BY DEF TypeOK, Place, Proc
<1>1. ASSUME NEW w \in Writer,
             \/ \E keys \in (SUBSET Key) \ {{}} : Start(w, keys)
             \/ \E v \in batch[w] : Put(w, v)
             \/ TxCommit(w) \/ AppendFails(w)
      PROVE TaskInv'
  <2>1. /\ UNCHANGED <<mem_table, frozen, Ids, wal_id, new_id, victim>>
        /\ \A p \in Proc, x \in Flushing \cup {"swap"} : at'[p] = x => at[p] = x
    BY <1>0, <1>1 DEF Start, Put, TxCommit, AppendFails, Ids, Flushing, TypeOK
  <2> QED
    BY <2>1 DEF TaskInv, Retired, Oldest, Flushing
<1>2. CASE Quiet
  <2>1. UNCHANGED <<mem_table, frozen, Ids, wal_id, new_id, victim>>
    BY <1>2 DEF Quiet, Ids
  <2>2. \A p \in Proc, x \in Flushing \cup {"swap"} : at'[p] = x => at[p] = x
    BY <1>2 DEF Quiet
  <2> QED
    BY <2>1, <2>2 DEF TaskInv, Retired, Oldest, Flushing
<1>3. ASSUME NEW p \in Proc, NewWal(p) \/ NewWalFails(p) PROVE TaskInv'
  <2>1. UNCHANGED <<mem_table, frozen, Ids, victim, Retired, Oldest>>
    BY <1>3 DEF NewWal, NewWalFails, Ids, Retired, Oldest
  <2>2. wal_id \in Nat /\ wal_id' = wal_id + 1 /\ mem_table < wal_id
        /\ mem_table \in Nat /\ new_id \in [Proc -> Nat]
    BY <1>3 DEF NewWal, NewWalFails, TypeOK, IdInv
  <2>3. \A q \in Proc : at'[q] = "swap" =>
          \/ at[q] = "swap" /\ new_id'[q] = new_id[q]
          \/ new_id'[q] = wal_id
    BY <1>0, <1>3, <2>2 DEF NewWal, NewWalFails, AfterFlush
  <2>4. \A q \in Proc, x \in Flushing : at'[q] = x => at[q] = x
    BY <1>0, <1>3 DEF NewWal, NewWalFails, AfterFlush, Flushing
  <2>5. \A q \in Proc : at'[q] = "swap" =>
          mem_table' < new_id'[q] /\ new_id'[q] < wal_id'
    BY <2>1, <2>2, <2>3 DEF TaskInv
  <2> QED
    BY <2>1, <2>4, <2>5 DEF TaskInv, Flushing
<1>4. ASSUME NEW p \in Proc, Swap(p) PROVE TaskInv'
  <2>1. /\ Len(frozen') = Len(frozen) + 1 /\ Len(frozen) \in Nat
        /\ \A n \in 1..Len(frozen) : frozen'[n + 1] = frozen[n]
        /\ Retired' = Retired
    BY <1>4, SwapIds
  <2>2. frozen # <<>> => Oldest' = Oldest
    BY <2>1, OldestFrozen DEF Oldest
  <2>3. frozen' # <<>>
    BY <2>1
  <2>4. \A q \in Proc : at'[q] # "swap"
    BY <1>0, <1>4, OneFreezer DEF Swap, AfterFreeze
  <2>5. /\ \A q \in Proc, x \in Flushing : at'[q] = x => at[q] = x
        /\ UNCHANGED victim
    BY <1>0, <1>4 DEF Swap, AfterFreeze, Flushing
  <2> QED
    BY <2>1, <2>2, <2>3, <2>4, <2>5 DEF TaskInv, Flushing
<1>5. ASSUME NEW p \in Proc, FlushPick(p) PROVE TaskInv'
  <2>1. /\ UNCHANGED <<mem_table, frozen, Ids, wal_id, new_id, Retired, Oldest>>
        /\ frozen # <<>> /\ victim' = [victim EXCEPT ![p] = Oldest]
        /\ at' = [at EXCEPT ![p] = "l0"]
    BY <1>5 DEF FlushPick, Ids, Retired, Oldest
  <2>2. \A q \in Proc : q # p => at'[q] = at[q] /\ victim'[q] = victim[q]
    BY <1>0, <2>1 DEF TypeOK
  <2>3. at'[p] = "l0" /\ victim'[p] = Oldest
    BY <1>0, <2>1 DEF TypeOK
  <2> QED
    BY <2>1, <2>2, <2>3 DEF TaskInv
<1>6. ASSUME NEW p \in Proc,
             \/ L0(p) \/ L0Fails(p) \/ RetireLock(p) \/ RemoveWal(p) \/ RemoveWalFails(p)
      PROVE TaskInv'
  <2>1. UNCHANGED <<mem_table, frozen, Ids, wal_id, new_id, victim, Retired, Oldest>>
    BY <1>6 DEF L0, L0Fails, RetireLock, RemoveWal, RemoveWalFails, Ids, Retired, Oldest
  <2>2. /\ \A q \in Proc, x \in {"swap", "remove"} : at'[q] = x => at[q] = x
        /\ \A q \in Proc : at'[q] \in {"l0", "retire", "retain"}
                             => at[q] \in {"l0", "retire", "retain"}
    BY <1>0, <1>6 DEF L0, L0Fails, RetireLock, RemoveWal, RemoveWalFails, AfterFlush
  <2> QED
    BY <2>1, <2>2 DEF TaskInv
<1>7. ASSUME NEW p \in Proc, Retire(p) PROVE TaskInv'
  <2>1. /\ Retired' = Retired \cup {victim[p]}
        /\ \A i \in Retired : i < victim[p]
        /\ victim[p] \in Nat
    BY <1>7, RetireIds DEF TypeOK
  <2>2. UNCHANGED <<mem_table, wal_id, new_id, victim>>
    BY <1>7 DEF Retire
  <2>3. at[p] = "retain" /\ at' = [at EXCEPT ![p] = "remove"]
    BY <1>7 DEF Retire
  <2>4. \A q \in Proc : q # p => at'[q] \notin Flushing
    BY <1>0, <2>3, OneFlusher DEF Flushing
  <2>5. \A i \in Retired' : i <= victim[p]
    <3>1. \A i \in Retired : i \in Nat
      BY DEF Retired, TypeOK
    <3> QED
      BY <2>1, <3>1
  <2>6. \A q \in Proc : at'[q] = "swap" => at[q] = "swap"
    BY <1>0, <2>3
  <2>7. at'[p] = "remove"
    BY <1>0, <2>3
  <2> QED
    BY <2>1, <2>2, <2>4, <2>5, <2>6, <2>7 DEF TaskInv, Flushing
<1> QED
  BY <1>1, <1>2, <1>3, <1>4, <1>5, <1>6, <1>7, QuietStep

-----------------------------------------------------------------------------
(* Versions.                                                               *)

\* At first there is no version.
LEMMA VersionInit == Init => VersionInv
<1> SUFFICES ASSUME Init PROVE VersionInv
  OBVIOUS
<1>1. Ids = {1} /\ entries[1] = {} /\ mem_table = 1
  BY DEF Init, Ids
<1>2. \A w \in Writer : at[w] # "put"
  BY DEF Init, Proc
<1> QED
  BY <1>1, <1>2 DEF VersionInv

\* A batch goes whole into one memtable, the newest, and above what is there.
LEMMA VersionStep ==
  TypeOK /\ ControlInv /\ RoleInv /\ IdInv /\ TaskInv /\ VersionInv /\ [Next]_vars
    => VersionInv'
<1> SUFFICES ASSUME TypeOK, BatchingInv, ExclusiveInv, RoleInv, IdInv, TaskInv,
                    VersionInv, [Next]_vars
             PROVE VersionInv'
  BY DEF ControlInv
<1> USE DEF stateVars, diskVars, lockVars, notifyVars, taskVars, Goto
<1>0. /\ at \in [Proc -> Place] /\ Writer \subseteq Proc /\ Proc \cap Writer = Writer
      /\ Ids \subseteq Nat /\ mem_table \in Ids /\ clock \in Nat
      /\ entries \in [Ids -> SUBSET Version] /\ batch \in [Writer -> SUBSET Version]
  BY DEF TypeOK, Place, Proc, Ids
<1>1. ASSUME NEW w \in Writer, NEW keys \in SUBSET Key, Start(w, keys)
      PROVE VersionInv'
  <2>1. /\ UNCHANGED <<mem_table, entries, Ids>> /\ clock' = clock + 1
        /\ batch' = [batch EXCEPT ![w] = keys \X {clock'}]
        /\ at' = [at EXCEPT ![w] = "put"]
    BY <1>1 DEF Start, Ids
  <2>2. \A i \in Ids : \A v \in entries[i] : v[2] \in Nat /\ v[2] < clock'
    BY <1>0, <2>1 DEF VersionInv, Version
  <2>3. \A u \in Writer : at'[u] = "put" => u = w
    BY <1>0, <1>1, <2>1 DEF Start, NoneExclusive, Exclusive
  <2>4. batch'[w] \subseteq Key \X {clock'}
    BY <1>0, <2>1
  <2> QED
    BY <1>0, <2>1, <2>2, <2>3, <2>4 DEF VersionInv
<1>2. ASSUME NEW w \in Writer, NEW v \in batch[w], Put(w, v) PROVE VersionInv'
  <2>1. /\ UNCHANGED <<mem_table, clock, batch, at>> /\ at[w] = "put"
        /\ entries' = [entries EXCEPT ![mem_table] = @ \cup {v}]
    BY <1>2 DEF Put
  <2>2. /\ Ids' = Ids /\ entries'[mem_table] = entries[mem_table] \cup {v}
        /\ \A i \in Ids : i # mem_table => entries'[i] = entries[i]
    BY <1>0, <2>1 DEF Ids
  <2>3. /\ v[2] = clock
        /\ \A i \in Ids : i # mem_table => \A u \in entries[i] : u[2] < v[2]
    BY <2>1 DEF VersionInv
  <2>4. \A i \in Ids : i <= mem_table
    BY DEF IdInv
  <2>5. \A i \in Ids : \A u \in entries'[i] : u[2] <= clock
    BY <1>0, <2>2, <2>3 DEF VersionInv
  <2>6. \A i, j \in Ids : i < j => \A x \in entries'[i], y \in entries'[j] : x[2] < y[2]
    BY <1>0, <2>2, <2>3, <2>4 DEF VersionInv
  <2> QED
    BY <2>1, <2>2, <2>5, <2>6 DEF VersionInv
<1>3. CASE /\ UNCHANGED <<mem_table, entries, clock, batch, Ids>>
           /\ \A w \in Writer : at'[w] = "put" => at[w] = "put"
  BY <1>3 DEF VersionInv
<1>4. ASSUME NEW w \in Writer, TxCommit(w) \/ AppendFails(w) PROVE VersionInv'
  BY <1>0, <1>3, <1>4 DEF TxCommit, AppendFails, Ids
<1>5. CASE Quiet
  BY <1>0, <1>3, <1>5 DEF Quiet, Ids
<1>6. ASSUME NEW p \in Proc,
             \/ NewWal(p) \/ NewWalFails(p)
             \/ FlushPick(p) \/ L0(p) \/ L0Fails(p) \/ RetireLock(p) \/ Retire(p)
             \/ RemoveWal(p) \/ RemoveWalFails(p)
      PROVE VersionInv'
  BY <1>0, <1>3, <1>6 DEF NewWal, NewWalFails, FlushPick, L0, L0Fails, RetireLock,
                          Retire, RemoveWal, RemoveWalFails, AfterFlush, Ids
<1>7. ASSUME NEW p \in Proc, Swap(p) PROVE VersionInv'
  <2>1. /\ mem_table' = new_id[p] /\ mem_table < new_id[p] /\ new_id[p] \notin Ids
        /\ Ids' = Ids \cup {new_id[p]}
        /\ entries'[new_id[p]] = {} /\ \A i \in Ids : entries'[i] = entries[i]
    BY <1>7, SwapIds
  <2>2. clock' = clock /\ at' = [at EXCEPT ![p] = AfterFreeze(p)] /\ batching = {}
    BY <1>7 DEF Swap
  <2>3. \A w \in Writer : at'[w] # "put"
    BY <1>0, <2>2 DEF AfterFreeze, BatchingInv
  <2> QED
    BY <2>1, <2>2, <2>3 DEF VersionInv
<1> QED
  BY <1>1, <1>2, <1>4, <1>5, <1>6, <1>7, QuietStep

-----------------------------------------------------------------------------
(* Tables.                                                                 *)

\* At first there is no table.
LEMMA TableInit == Init => TableInv
<1> SUFFICES ASSUME Init PROVE TableInv
  OBVIOUS
<1>1. Ids = {1} /\ mem_table = 1 /\ DOMAIN tables = {}
  BY DEF Init, Ids
<1>2. \A p \in Proc : at[p] \notin {"retire", "retain"}
  BY DEF Init
<1>3. Written = {}
  BY <1>1, <1>2 DEF Written, Retired
<1> QED
  BY <1>1, <1>3 DEF TableInv, NewestTableFirst

\* What is written is not written to any more, and is older than the rest.
LEMMA WrittenOld ==
  ASSUME TypeOK, IdInv, TaskInv
  PROVE  /\ Written \subseteq Ids
         /\ \A i \in Written : i < mem_table
<1> USE DEF TypeOK
<1>1. \A i \in Retired : i \in Ids /\ i < mem_table
  BY DEF Retired, IdInv
<1>2. \A p \in Proc : at[p] \in {"retire", "retain"} =>
        victim[p] \in Ids /\ victim[p] < mem_table
  BY OldestFrozen DEF TaskInv, IdInv
<1> QED
  BY <1>1, <1>2 DEF Written

\* A table holds versions of its memtable only.
LEMMA CompactedVersions == \A i : Compacted(i) \subseteq entries[i]
  BY DEF Compacted, Newest

\* The table goes in front of those of older memtables.
LEMMA TableL0 ==
  ASSUME TypeOK, FlushLockInv, IdInv, TaskInv, VersionInv, TableInv,
         NEW p \in Proc, L0(p)
  PROVE  TableInv'
<1> DEFINE v == victim[p]
           table == Compacted(v)
<1>1. /\ at[p] = "l0" /\ at' = [at EXCEPT ![p] = "retire"]
      /\ UNCHANGED <<mem_table, frozen, entries, victim>>
      /\ tables' = IF table = {} THEN tables ELSE <<table>> \o tables
  BY DEF L0, Goto, taskVars
<1>2. at \in [Proc -> Place] /\ tables \in Seq(SUBSET Version)
  BY DEF TypeOK, Place
<1>3. Retired' = Retired /\ Ids' = Ids /\ \A i : Compacted(i)' = Compacted(i)
  BY <1>1 DEF Retired, Ids, Compacted
<1>4. \A q \in Proc : q # p => at[q] \notin {"retire", "retain"}
  BY <1>1, OneFlusher DEF Flushing
<1>5. Written = Retired /\ Written' = Retired \cup {v}
  <2>1. Written = Retired
    BY <1>1, <1>4 DEF Written
  <2>2. {q \in Proc : at'[q] \in {"retire", "retain"}} = {p}
    BY <1>1, <1>2, <1>4
  <2> QED
    BY <1>1, <1>3, <2>1, <2>2 DEF Written
<1>6. v \in Ids /\ \A i \in Retired : i \in Ids /\ i < v
  BY <1>1, OldestFrozen DEF TaskInv, IdInv, Retired
<1>7. table \in SUBSET Version
  BY <1>6, CompactedVersions DEF TypeOK
<1>8. CASE table = {}
  BY <1>1, <1>3, <1>5, <1>8 DEF TableInv, NewestTableFirst
<1>9. CASE table # {}
  <2>1. /\ Len(tables) \in Nat /\ DOMAIN tables = 1..Len(tables)
        /\ DOMAIN tables' = 1..(Len(tables) + 1)
        /\ tables'[1] = table
        /\ \A n \in 1..Len(tables) : tables'[n + 1] = tables[n]
        /\ \A n \in 2..(Len(tables) + 1) : tables'[n] = tables[n - 1]
    <3> HIDE DEF table
    <3>1. tables' = <<table>> \o tables
      BY <1>1, <1>9
    <3>2. tables' \in Seq(SUBSET Version) /\ Len(tables') = Len(tables) + 1
      BY <1>2, <1>7, <3>1, InFront
    <3> QED
      BY <1>2, <1>7, <3>1, <3>2, InFront, LenProperties
  <2>2. \A n \in DOMAIN tables' : n = 1 \/ n - 1 \in DOMAIN tables
    BY <2>1
  <2>3. \A n \in DOMAIN tables' : \E i \in Written' : tables'[n] = Compacted(i)'
    BY <1>3, <1>5, <2>1, <2>2 DEF TableInv
  <2>4. \A i \in Written' : Compacted(i)' # {} =>
          \E n \in DOMAIN tables' : tables'[n] = Compacted(i)'
    <3>1. ASSUME NEW i \in Retired, Compacted(i) # {}
          PROVE  \E n \in DOMAIN tables' : tables'[n] = Compacted(i)
      <4>1. PICK n \in DOMAIN tables : tables[n] = Compacted(i)
        BY <1>5, <3>1 DEF TableInv
      <4>2. n + 1 \in DOMAIN tables' /\ tables'[n + 1] = Compacted(i)
        BY <2>1, <4>1
      <4> QED
        BY <4>2
    <3>2. 1 \in DOMAIN tables' /\ tables'[1] = Compacted(v)
      BY <2>1
    <3> QED
      BY <1>3, <1>5, <3>1, <3>2
  <2>5. ASSUME NEW n \in DOMAIN tables, NEW x \in table, NEW y \in tables[n]
        PROVE  x[2] > y[2]
    <3>1. PICK i \in Retired : tables[n] = Compacted(i)
      BY <1>5 DEF TableInv
    <3>2. x \in entries[v] /\ y \in entries[i]
      BY <3>1, CompactedVersions
    <3>3. y[2] < x[2] /\ x[2] \in Nat /\ y[2] \in Nat
      BY <1>6, <3>1, <3>2 DEF VersionInv, TypeOK, Version
    <3> QED
      BY <3>3
  <2>6. NewestTableFirst'
    <3> SUFFICES ASSUME NEW n \in DOMAIN tables', NEW m \in DOMAIN tables', n < m,
                        NEW x \in tables'[n], NEW y \in tables'[m], x[1] = y[1]
                 PROVE  x[2] > y[2]
      BY DEF NewestTableFirst
    <3>1. CASE n = 1
      BY <2>1, <2>2, <2>5, <3>1
    <3>2. CASE n # 1
      BY <2>1, <2>2, <3>2 DEF TableInv, NewestTableFirst
    <3> QED
      BY <3>1, <3>2
  <2> QED
    BY <2>3, <2>4, <2>6 DEF TableInv
<1> QED
  BY <1>8, <1>9

\* A memtable is written once, when all older ones are, and stays as it is.
LEMMA TableStep ==
  TypeOK /\ ControlInv /\ RoleInv /\ IdInv /\ TaskInv /\ VersionInv /\ TableInv
    /\ [Next]_vars => TableInv'
<1> SUFFICES ASSUME TypeOK, FlushLockInv, RoleInv, IdInv, TaskInv,
                    VersionInv, TableInv, [Next]_vars
             PROVE TableInv'
  BY DEF ControlInv
<1> USE DEF stateVars, diskVars, lockVars, notifyVars, taskVars, Goto
<1>0. /\ at \in [Proc -> Place] /\ Writer \subseteq Proc
      /\ victim \in [Proc -> Nat] /\ mem_table \in Nat /\ Ids \subseteq Nat
      /\ entries \in [Ids -> SUBSET Version]
  BY DEF TypeOK, Place, Proc, Ids
<1>1. CASE /\ UNCHANGED tables
           /\ Written' = Written
           /\ \A i \in Written : entries'[i] = entries[i]
  <2>1. \A i \in Written : Compacted(i)' = Compacted(i)
    BY <1>1 DEF Compacted, Newest
  <2> QED
    BY <1>1, <2>1 DEF TableInv, NewestTableFirst
<1>2. CASE /\ UNCHANGED <<tables, victim, Retired>>
           /\ \A p \in Proc : at'[p] \in {"retire", "retain"}
                                <=> at[p] \in {"retire", "retain"}
           /\ \A i \in Written : entries'[i] = entries[i]
  <2>1. Written' = Written
    BY <1>2 DEF Written
  <2> QED
    BY <1>1, <1>2, <2>1
<1>3. ASSUME NEW w \in Writer,
             \/ \E keys \in (SUBSET Key) \ {{}} : Start(w, keys)
             \/ TxCommit(w) \/ AppendFails(w)
      PROVE TableInv'
  BY <1>0, <1>2, <1>3 DEF Start, TxCommit, AppendFails, Retired, Ids
<1>4. ASSUME NEW w \in Writer, NEW v \in batch[w], Put(w, v) PROVE TableInv'
  <2>1. /\ Ids' = Ids
        /\ \A i \in Ids : i # mem_table => entries'[i] = entries[i]
    BY <1>0, <1>4 DEF Put, Ids
  <2>2. \A i \in Written : entries'[i] = entries[i]
    <3>1. \A i \in Written : i \in Nat /\ i < mem_table
      BY <1>0, WrittenOld
    <3>2. \A i \in Written : i \in Ids /\ i # mem_table
      BY <1>0, <3>1, WrittenOld
    <3> QED
      BY <2>1, <3>2
  <2>3. UNCHANGED <<tables, victim, at, Retired>>
    BY <1>4, <2>1 DEF Put, Retired
  <2> QED
    BY <1>2, <2>2, <2>3
<1>5. CASE Quiet
  <2>1. UNCHANGED <<tables, entries, victim, Retired>>
    BY <1>5 DEF Quiet, Retired, Ids
  <2>2. \A p \in Proc : /\ at'[p] = "retire" <=> at[p] = "retire"
                        /\ at'[p] = "retain" <=> at[p] = "retain"
    BY <1>5 DEF Quiet, Flushing
  <2> QED
    BY <1>2, <2>1, <2>2
<1>6. ASSUME NEW p \in Proc,
             \/ NewWal(p) \/ NewWalFails(p)
             \/ L0Fails(p) \/ RetireLock(p) \/ RemoveWal(p) \/ RemoveWalFails(p)
      PROVE TableInv'
  BY <1>0, <1>2, <1>6 DEF NewWal, NewWalFails, L0Fails, RetireLock, RemoveWal,
                          RemoveWalFails, AfterFlush, Retired, Ids
<1>7. ASSUME NEW p \in Proc, Swap(p) PROVE TableInv'
  <2>1. /\ \A i \in Ids : entries'[i] = entries[i]
        /\ Retired' = Retired
    BY <1>7, SwapIds
  <2>2. UNCHANGED <<tables, victim>>
    BY <1>7 DEF Swap
  <2>3. \A q \in Proc : at'[q] \in {"retire", "retain"} <=> at[q] \in {"retire", "retain"}
    BY <1>0, <1>7 DEF Swap, AfterFreeze
  <2> QED
    BY <1>2, <2>1, <2>2, <2>3, WrittenOld
<1>8. ASSUME NEW p \in Proc, FlushPick(p) PROVE TableInv'
  <2>1. /\ UNCHANGED <<tables, entries, Retired>>
        /\ \A q \in Proc : q # p => at'[q] = at[q] /\ victim'[q] = victim[q]
        /\ at[p] = "drain" /\ at'[p] = "l0"
    BY <1>0, <1>8 DEF FlushPick, Retired, Ids
  <2>2. Written' = Written
    BY <2>1 DEF Written
  <2> QED
    BY <1>1, <2>1, <2>2
<1>9. ASSUME NEW p \in Proc, L0(p) PROVE TableInv'
  BY <1>9, TableL0
<1>10. ASSUME NEW p \in Proc, Retire(p) PROVE TableInv'
  <2>1. Retired' = Retired \cup {victim[p]}
    BY <1>10, RetireIds
  <2>2. UNCHANGED <<tables, entries, victim>>
    BY <1>10 DEF Retire
  <2>3. at[p] = "retain" /\ at' = [at EXCEPT ![p] = "remove"]
    BY <1>10 DEF Retire
  <2>4. \A q \in Proc : q # p => at[q] \notin {"retire", "retain"}
    BY <2>3, OneFlusher DEF Flushing
  <2>5. \A q \in Proc : at'[q] \notin {"retire", "retain"}
    BY <1>0, <2>3, <2>4
  <2>6. Written' = Written
    BY <2>1, <2>2, <2>3, <2>4, <2>5 DEF Written
  <2> QED
    BY <1>1, <2>2, <2>6
<1> QED
  BY <1>3, <1>4, <1>5, <1>6, <1>7, <1>8, <1>9, <1>10, QuietStep

-----------------------------------------------------------------------------
(* Logs.                                                                   *)

\* At first there is the log of the first memtable.
LEMMA LogInit == Init => LogInv /\ FilesInv
<1> SUFFICES ASSUME Init PROVE LogInv /\ FilesInv
  OBVIOUS
<1>1. Ids = {1} /\ DOMAIN log = {1} /\ log[1] = {} /\ wal_files = {1} /\ mem_table = 1
  BY DEF Init, Ids
<1>2. \A p \in Proc : at[p] # "swap"
  BY DEF Init
<1>3. Retired = {}
  BY <1>1 DEF Retired
<1> QED
  BY <1>1, <1>2, <1>3 DEF LogInv, FilesInv

\* What a log has, its memtable had before; a log is made for every memtable.
LEMMA LogStep ==
  TypeOK /\ ControlInv /\ RoleInv /\ IdInv /\ TaskInv /\ LogInv /\ [Next]_vars
    => LogInv'
<1> SUFFICES ASSUME TypeOK, StateLockInv, RoleInv, IdInv, TaskInv, LogInv, [Next]_vars
             PROVE LogInv'
  BY DEF ControlInv
<1> USE DEF stateVars, diskVars, lockVars, notifyVars, taskVars, Goto
<1>0. /\ at \in [Proc -> Place] /\ Writer \subseteq Proc
      /\ new_id \in [Proc -> Nat] /\ mem_table \in Ids /\ Ids \subseteq Nat
      /\ entries \in [Ids -> SUBSET Version] /\ wal_id \in Nat
      /\ log \in [DOMAIN log -> SUBSET Version]
  BY DEF TypeOK, Place, Proc, Ids
<1>1. mem_table \in DOMAIN log /\ \A p \in Proc : at[p] = "swap" => mem_table # new_id[p]
  BY <1>0 DEF LogInv, TaskInv
<1>2. CASE /\ UNCHANGED <<log, Ids, new_id>>
           /\ \A i \in Ids : entries[i] \subseteq entries'[i]
           /\ \A p \in Proc : at'[p] = "swap" <=> at[p] = "swap"
  BY <1>2 DEF LogInv
<1>3. ASSUME NEW w \in Writer, NEW keys \in SUBSET Key, Start(w, keys) PROVE LogInv'
  BY <1>0, <1>2, <1>3 DEF Start, Ids
<1>4. ASSUME NEW w \in Writer, NEW v \in batch[w], Put(w, v) PROVE LogInv'
  <2>1. Ids' = Ids /\ \A i \in Ids : entries[i] \subseteq entries'[i]
    BY <1>0, <1>4 DEF Put, Ids
  <2> QED
    BY <1>2, <1>4, <2>1 DEF Put
<1>5. ASSUME NEW w \in Writer, TxCommit(w) \/ AppendFails(w) PROVE LogInv'
  <2>1. /\ UNCHANGED <<entries, Ids, new_id>>
        /\ \A p \in Proc : at'[p] = "swap" <=> at[p] = "swap"
    BY <1>0, <1>5 DEF TxCommit, AppendFails, Ids
  <2>2. CASE UNCHANGED log
    BY <1>2, <2>1, <2>2
  <2>3. CASE /\ log' = [log EXCEPT ![mem_table] = @ \cup batch[w]]
             /\ batch[w] \subseteq entries[mem_table]
    <3>1. /\ DOMAIN log' = DOMAIN log
          /\ log'[mem_table] = log[mem_table] \cup batch[w]
          /\ \A i \in DOMAIN log : i # mem_table => log'[i] = log[i]
      BY <1>0, <1>1, <2>3
    <3>2. \A i \in Ids : log'[i] \subseteq entries[i]
      BY <1>0, <2>3, <3>1 DEF LogInv
    <3>3. \A p \in Proc : at[p] = "swap" => log'[new_id[p]] = {}
      BY <1>1, <3>1 DEF LogInv
    <3> QED
      BY <2>1, <3>1, <3>2, <3>3 DEF LogInv
  <2> QED
    BY <1>5, <2>2, <2>3 DEF TxCommit, AppendFails
<1>6. ASSUME NEW p \in Proc, NewWal(p) PROVE LogInv'
  <2>1. /\ UNCHANGED <<entries, Ids>>
        /\ log' = [i \in DOMAIN log \cup {wal_id} |-> IF i = wal_id THEN {} ELSE log[i]]
        /\ new_id'[p] = wal_id /\ at'[p] = "swap" /\ at[p] = "check"
        /\ \A q \in Proc : q # p => at'[q] = at[q]
    BY <1>0, <1>6 DEF NewWal, Ids
  <2>2. \A q \in Proc : at[q] # "swap" /\ (at'[q] = "swap" <=> q = p)
    BY <2>1, OneFreezer
  <2>3. DOMAIN log = Ids
    BY <2>2 DEF LogInv
  <2>4. wal_id \notin Ids
    BY <1>0 DEF IdInv
  <2> QED
    BY <2>1, <2>2, <2>3, <2>4 DEF LogInv
<1>7. ASSUME NEW p \in Proc, Swap(p) PROVE LogInv'
  <2>1. /\ Ids' = Ids \cup {new_id[p]} /\ new_id[p] \notin Ids
        /\ entries'[new_id[p]] = {} /\ \A i \in Ids : entries'[i] = entries[i]
    BY <1>7, SwapIds
  <2>2. /\ at[p] = "swap" /\ log' = log
        /\ at' = [at EXCEPT ![p] = AfterFreeze(p)]
    BY <1>7 DEF Swap
  <2>3. \A q \in Proc : q # p => at[q] # "swap"
    BY <2>2, OneFreezer
  <2>4. \A q \in Proc : at'[q] # "swap"
    BY <1>0, <2>2, <2>3 DEF AfterFreeze
  <2>5. DOMAIN log = Ids \cup {new_id[p]} /\ log[new_id[p]] = {}
    BY <2>2, <2>3 DEF LogInv
  <2> QED
    BY <2>1, <2>2, <2>4, <2>5 DEF LogInv
<1>8. ASSUME NEW p \in Proc,
             \/ NewWalFails(p)
             \/ FlushPick(p) \/ L0(p) \/ L0Fails(p) \/ RetireLock(p) \/ Retire(p)
             \/ RemoveWal(p) \/ RemoveWalFails(p)
      PROVE LogInv'
  BY <1>0, <1>2, <1>8 DEF NewWalFails, FlushPick, L0, L0Fails, RetireLock, Retire,
                          RemoveWal, RemoveWalFails, AfterFlush, Ids
<1>9. CASE Quiet
  BY <1>0, <1>2, <1>9 DEF Quiet, Ids
<1> QED
  BY <1>3, <1>4, <1>5, <1>6, <1>7, <1>8, <1>9, QuietStep

\* A log is removed when its memtable is in a table, and not later.
LEMMA FilesStep ==
  TypeOK /\ ControlInv /\ RoleInv /\ IdInv /\ TaskInv /\ LogInv /\ FilesInv
    /\ [Next]_vars => FilesInv'
<1> SUFFICES ASSUME TypeOK, FlushLockInv, RoleInv, IdInv, TaskInv, LogInv, FilesInv,
                    [Next]_vars, "remove" \notin Faults
             PROVE FilesInv'
  BY DEF ControlInv, FilesInv
<1> USE DEF stateVars, diskVars, lockVars, notifyVars, taskVars, Goto
<1>0. at \in [Proc -> Place] /\ Writer \subseteq Proc /\ victim \in [Proc -> Nat]
  BY DEF TypeOK, Place, Proc
<1>1. CASE /\ UNCHANGED <<wal_files, Retired>>
           /\ DOMAIN log' = DOMAIN log
           /\ \A p \in Proc : at[p] = "remove" => at'[p] = "remove" /\ victim'[p] = victim[p]
  BY <1>1 DEF FilesInv
<1>2. ASSUME NEW w \in Writer,
             \/ \E keys \in (SUBSET Key) \ {{}} : Start(w, keys)
             \/ \E v \in batch[w] : Put(w, v)
             \/ TxCommit(w) \/ AppendFails(w)
      PROVE FilesInv'
  <2>1. UNCHANGED <<wal_files, mem_table, frozen, Ids, victim>> /\ DOMAIN log' = DOMAIN log
    BY <1>2 DEF Start, Put, TxCommit, AppendFails, Ids, TypeOK
  <2>2. \A p \in Proc : at[p] = "remove" => at'[p] = "remove"
    BY <1>0, <1>2 DEF Start, Put, TxCommit, AppendFails
  <2> QED
    BY <1>1, <2>1, <2>2 DEF Retired
<1>3. CASE Quiet
  <2>1. UNCHANGED <<wal_files, Retired, log, victim>>
    BY <1>3 DEF Quiet, Retired, Ids
  <2>2. \A p \in Proc : at[p] = "remove" => at'[p] = "remove"
    BY <1>3 DEF Quiet, Flushing
  <2> QED
    BY <1>1, <2>1, <2>2
<1>4. ASSUME NEW p \in Proc, NewWal(p) PROVE FilesInv'
  <2>1. /\ UNCHANGED <<Retired, victim>> /\ wal_files' = wal_files \cup {wal_id}
        /\ DOMAIN log' = DOMAIN log \cup {wal_id}
        /\ \A q \in Proc : at[q] = "remove" => at'[q] = "remove"
    BY <1>0, <1>4 DEF NewWal, Retired, Ids
  <2>2. wal_id \notin Retired
    BY DEF Retired, IdInv, TypeOK
  <2> QED
    BY <2>1, <2>2 DEF FilesInv
<1>5. ASSUME NEW p \in Proc,
             NewWalFails(p) \/ L0(p) \/ L0Fails(p) \/ RetireLock(p)
      PROVE FilesInv'
  BY <1>0, <1>1, <1>5 DEF NewWalFails, L0, L0Fails, RetireLock, AfterFlush, Retired, Ids
<1>6. ASSUME NEW p \in Proc, Swap(p) PROVE FilesInv'
  <2>1. Retired' = Retired
    BY <1>6, SwapIds
  <2> QED
    BY <1>0, <1>1, <1>6, <2>1 DEF Swap, AfterFreeze
<1>7. ASSUME NEW p \in Proc, FlushPick(p) PROVE FilesInv'
  <2>1. UNCHANGED <<wal_files, log, Retired>>
    BY <1>7 DEF FlushPick, Retired, Ids
  <2> QED
    BY <1>0, <1>1, <1>7, <2>1 DEF FlushPick
<1>8. ASSUME NEW p \in Proc, Retire(p) PROVE FilesInv'
  <2>1. Retired' = Retired \cup {victim[p]}
    BY <1>8, RetireIds
  <2>2. /\ UNCHANGED <<wal_files, log, victim>>
        /\ at[p] = "retain" /\ at' = [at EXCEPT ![p] = "remove"]
    BY <1>8 DEF Retire
  <2>3. at'[p] = "remove" /\ \A q \in Proc : at[q] # "remove"
    BY <1>0, <2>2, OneFlusher DEF Flushing
  <2> QED
    BY <2>1, <2>2, <2>3 DEF FilesInv
<1>9. ASSUME NEW p \in Proc, RemoveWal(p) PROVE FilesInv'
  <2>1. /\ wal_files' = wal_files \ {victim[p]} /\ UNCHANGED <<log, Retired, victim>>
        /\ at[p] = "remove"
    BY <1>9 DEF RemoveWal, Retired, Ids
  <2>2. victim[p] \in Retired
    BY <2>1 DEF TaskInv
  <2>3. \A q \in Proc : at[q] = "remove" => q = p
    BY <2>1, OneFlusher DEF Flushing
  <2> QED
    BY <2>1, <2>2, <2>3 DEF FilesInv
<1>10. ASSUME NEW p \in Proc, RemoveWalFails(p) PROVE FilesInv'
  BY <1>10 DEF RemoveWalFails
<1> QED
  BY <1>2, <1>3, <1>4, <1>5, <1>6, <1>7, <1>8, <1>9, <1>10, QuietStep

-----------------------------------------------------------------------------
(* Table files.                                                            *)

\* At first there is none.
LEMMA NamedInit == Init => NamedInv
  BY DEF Init, NamedInv

\* The oldest memtable stays the oldest, as it is, while others are frozen.
LEMMA OldestStays ==
  ASSUME TypeOK, IdInv, TaskInv, frozen # <<>>,
         \/ \E w \in Writer : \E v \in batch[w] : Put(w, v)
         \/ \E p \in Proc : Swap(p)
  PROVE  frozen' # <<>> /\ Oldest' = Oldest /\ Compacted(Oldest)' = Compacted(Oldest)
<1>1. /\ Len(frozen) \in 1..Len(frozen) /\ DOMAIN frozen = 1..Len(frozen)
      /\ Oldest = frozen[Len(frozen)] /\ Oldest \in Ids
  BY OldestFrozen
<1>2. Oldest # mem_table
  <2>1. Oldest < mem_table /\ mem_table \in Nat
    BY <1>1 DEF IdInv, TypeOK
  <2> QED
    BY <2>1
<1>3. ASSUME NEW w \in Writer, NEW v \in batch[w], Put(w, v)
      PROVE  frozen' = frozen /\ entries'[Oldest] = entries[Oldest]
  BY <1>1, <1>2, <1>3 DEF Put, TypeOK, Ids
<1>4. ASSUME NEW p \in Proc, Swap(p)
      PROVE  /\ frozen' # <<>> /\ Oldest' = Oldest
             /\ entries'[Oldest] = entries[Oldest]
  <2>1. /\ DOMAIN frozen' = 1..Len(frozen') /\ Len(frozen') = Len(frozen) + 1
        /\ frozen'[Len(frozen) + 1] = frozen[Len(frozen)]
        /\ \A i \in Ids : entries'[i] = entries[i]
    BY <1>1, <1>4, SwapIds
  <2>2. frozen' # <<>>
    BY <1>1, <2>1
  <2> QED
    BY <1>1, <2>1, <2>2 DEF Oldest
<1>5. frozen' # <<>> /\ Oldest' = Oldest /\ entries'[Oldest] = entries[Oldest]
  BY <1>3, <1>4 DEF Oldest
<1> QED
  BY <1>5 DEF Compacted

\* A flush that fails after the rename leaves its file in front; the next one
\* writes the same table again.
LEMMA NamedL0 ==
  ASSUME TypeOK, FlushLockInv, IdInv, TaskInv, TableInv', NamedInv,
         NEW p \in Proc, L0(p) \/ L0Fails(p)
  PROVE  NamedInv'
<1> DEFINE table == Compacted(Oldest)
<1>1. /\ at[p] = "l0" /\ victim[p] = Oldest /\ frozen # <<>>
      /\ UNCHANGED <<frozen, entries>> /\ table' = table
  BY DEF L0, L0Fails, TaskInv, stateVars, Oldest, Compacted
<1>2. tables \in Seq(SUBSET Version) /\ table \in SUBSET Version
  BY <1>1, OldestFrozen DEF TypeOK, Compacted, Newest
<1>3. /\ (<<table>> \o tables)[1] = table /\ <<table>> \o tables # <<>>
      /\ Len(<<table>> \o tables) = Len(tables) + 1
      /\ \A n \in 1..Len(tables) : (<<table>> \o tables)[n + 1] = tables[n]
  <2> HIDE DEF table
  <2> QED
    BY <1>2, InFront
<1>4. ss_files = tables \/ (ss_files = <<table>> \o tables /\ table # {})
  BY DEF NamedInv
<1>5. CASE L0(p)
  <2>1. CASE table = {}
    BY <1>1, <1>4, <1>5, <2>1 DEF L0, NamedInv
  <2>2. CASE table # {}
    <3>1. tables' = <<table>> \o tables /\ ss_files' = Named(table)
      BY <1>1, <1>5, <2>2 DEF L0
    <3>2. ~(tables # <<>> /\ tables[1] = table)
      <4> SUFFICES ASSUME tables # <<>>, tables[1] = table PROVE FALSE
        OBVIOUS
      <4>1. Len(tables) \in Nat /\ Len(tables) >= 1
        BY <1>2, EmptySeq, LenProperties
      <4>2. tables' \in Seq(SUBSET Version)
        <5> HIDE DEF table
        <5> QED
          BY <1>2, <3>1, InFront
      <4>3. DOMAIN tables' = 1..(Len(tables) + 1)
        BY <1>3, <3>1, <4>2, LenProperties
      <4>4. tables'[1] = table /\ tables'[2] = table
        BY <1>3, <3>1, <4>1
      <4>5. PICK u \in table : u[2] \in Nat
        BY <1>2, <2>2 DEF Version
      <4>6. u[2] > u[2]
        BY <4>1, <4>3, <4>4 DEF TableInv, NewestTableFirst
      <4> QED
        BY <4>5, <4>6
    <3>3. ss_files' = <<table>> \o tables
      BY <1>3, <1>4, <3>1, <3>2 DEF Named
    <3> QED
      BY <3>1, <3>3 DEF NamedInv
  <2> QED
    BY <2>1, <2>2
<1>6. CASE L0Fails(p)
  <2>1. UNCHANGED tables /\ at' = [at EXCEPT ![p] = AfterFlush(p)]
    BY <1>6 DEF L0Fails, stateVars, Goto
  <2>2. \A q \in Proc : at[q] \notin {"retire", "retain"}
    BY <1>1, OneFlusher DEF Flushing
  <2>3. \A q \in Proc : at'[q] \notin {"retire", "retain"}
    BY <2>1, <2>2 DEF AfterFlush, TypeOK
  <2>4. ss_files' = ss_files \/ (table # {} /\ ss_files' = Named(table))
    BY <1>1, <1>6 DEF L0Fails
  <2>5. \/ ss_files' = tables
        \/ ss_files' = <<table>> \o tables /\ table # {}
    BY <1>3, <1>4, <2>4 DEF Named
  <2> QED
    BY <1>1, <2>1, <2>3, <2>5 DEF NamedInv
<1> QED
  BY <1>5, <1>6

\* Nobody retires a memtable while its table is not listed.
LEMMA NamedStep ==
  TypeOK /\ ControlInv /\ RoleInv /\ IdInv /\ TaskInv /\ VersionInv /\ TableInv
    /\ NamedInv /\ [Next]_vars => NamedInv'
<1> SUFFICES ASSUME TypeOK, ControlInv, FlushLockInv, RoleInv, IdInv, TaskInv,
                    VersionInv, TableInv, NamedInv, [Next]_vars
             PROVE NamedInv'
  BY DEF ControlInv
<1> USE DEF stateVars, diskVars, lockVars, notifyVars, taskVars, Goto
<1>0. at \in [Proc -> Place] /\ Writer \subseteq Proc
  BY DEF TypeOK, Place, Proc
<1>1. CASE /\ UNCHANGED <<tables, ss_files, frozen, entries>>
           /\ \A p \in Proc : at'[p] \in {"retire", "retain"}
                                => at[p] \in {"retire", "retain"}
  BY <1>1 DEF NamedInv, Oldest, Compacted
<1>2. CASE /\ UNCHANGED <<tables, ss_files>>
           /\ \/ \E w \in Writer : \E v \in batch[w] : Put(w, v)
              \/ \E p \in Proc : Swap(p)
           /\ \A p \in Proc : at'[p] \in {"retire", "retain"}
                                => at[p] \in {"retire", "retain"}
  BY <1>2, OldestStays DEF NamedInv
<1>3. ASSUME NEW w \in Writer,
             \/ \E keys \in (SUBSET Key) \ {{}} : Start(w, keys)
             \/ TxCommit(w) \/ AppendFails(w)
      PROVE NamedInv'
  BY <1>0, <1>1, <1>3 DEF Start, TxCommit, AppendFails
<1>4. ASSUME NEW w \in Writer, NEW v \in batch[w], Put(w, v) PROVE NamedInv'
  BY <1>2, <1>4 DEF Put
<1>5. CASE Quiet
  BY <1>1, <1>5 DEF Quiet, Flushing
<1>6. ASSUME NEW p \in Proc,
             \/ NewWal(p) \/ NewWalFails(p) \/ FlushPick(p)
             \/ RetireLock(p) \/ RemoveWal(p) \/ RemoveWalFails(p)
      PROVE NamedInv'
  BY <1>0, <1>1, <1>6 DEF NewWal, NewWalFails, FlushPick, RetireLock, RemoveWal,
                          RemoveWalFails, AfterFlush
<1>7. ASSUME NEW p \in Proc, Swap(p) PROVE NamedInv'
  BY <1>0, <1>2, <1>7 DEF Swap, AfterFreeze
<1>8. ASSUME NEW p \in Proc, L0(p) \/ L0Fails(p) PROVE NamedInv'
  BY <1>8, NamedL0, TableStep
<1>9. ASSUME NEW p \in Proc, Retire(p) PROVE NamedInv'
  BY <1>0, <1>9 DEF Retire, NamedInv
<1> QED
  BY <1>3, <1>4, <1>5, <1>6, <1>7, <1>8, <1>9, QuietStep

-----------------------------------------------------------------------------

\* Together these are inductive.
LEMMA InductiveInit == Init => IInv
  BY TypeInit, ControlInit, IdInit, VersionInit, TableInit, LogInit, NamedInit DEF IInv

\* Every step keeps the invariant.
LEMMA InductiveStep == IInv /\ [Next]_vars => IInv'
  BY TypeStep, RoleStep, ControlStep, IdStep, TaskStep, VersionStep, TableStep,
     LogStep, FilesStep, NamedStep DEF IInv

\* So it always holds.
LEMMA Inductive == Spec => []IInv
  BY InductiveInit, InductiveStep, PTL DEF Spec

\* Every variable of the storage keeps its type: ids, locks and places of tasks
\* are what the code takes them for.
THEOREM TypeCorrect == Spec => []TypeOK
<1>1. IInv => TypeOK
  BY DEF IInv
<1> QED
  BY <1>1, Inductive, PTL

\* No memtable is flushed twice, and none overtakes an older one on the way to
\* level 0, whoever flushes and whatever fails.
THEOREM TablesInOrder == Spec => []NewestTableFirst
<1>1. IInv => NewestTableFirst
  BY DEF IInv, TableInv
<1> QED
  BY <1>1, Inductive, PTL

-----------------------------------------------------------------------------
(* Lookups.                                                                *)

\* Versions of a key that are numbered up to c have a newest one.
LEMMA HasNewest ==
  ASSUME NEW S, S \subseteq Version, NEW c \in Nat, \A v \in S : v[2] <= c,
         NEW k, Has(S, k)
  PROVE  \E v \in S : v \in Newest(S, k)
<1> DEFINE T == {v[2] : v \in {u \in S : u[1] = k}}
<1>1. T \subseteq 0..c /\ T # {}
  BY DEF Version, Has
<1>2. PICK m \in T : \A n \in T : n <= m
  BY <1>1, Greatest
<1>3. PICK v \in S : v[1] = k /\ v[2] = m
  BY <1>2
<1> QED
  BY <1>2, <1>3 DEF Newest

\* Among versions the newest one of a key is determined by its number.
LEMMA SameNewest ==
  ASSUME NEW E, E \subseteq Version, NEW S, S \subseteq E, NEW k,
         NEW best \in S, best \in Newest(E, k)
  PROVE  Newest(S, k) = Newest(E, k)
<1>1. \A v \in E : v = <<v[1], v[2]>> /\ v[2] \in Nat
  BY DEF Version
<1>2. best[1] = k /\ \A u \in E : u[1] = k => u[2] <= best[2]
  BY DEF Newest
<1>3. Newest(E, k) = {best}
  BY <1>1, <1>2 DEF Newest
<1>4. Newest(S, k) = {best}
  BY <1>1, <1>2 DEF Newest
<1> QED
  BY <1>3, <1>4

\* A search ends at the first place that has the key.
LEMMA SearchHit ==
  ASSUME NEW P, DOMAIN P \subseteq Nat, NEW k, NEW n \in DOMAIN P, Has(P[n], k)
  PROVE  \E m \in DOMAIN P :
           m <= n /\ Has(P[m], k) /\ Search(P, k) = Newest(P[m], k)
<1> DEFINE hits == {i \in DOMAIN P : Has(P[i], k)}
           first == {j \in hits : \A h \in hits : j <= h}
<1>1. PICK m \in hits : \A h \in hits : m <= h
  <2>1. hits \subseteq Nat /\ hits # {}
    OBVIOUS
  <2> QED
    BY <2>1, Least
<1>2. first = {m}
  BY <1>1
<1>3. Search(P, k) = UNION {Newest(P[i], k) : i \in first}
  BY DEF Search
<1>4. Search(P, k) = Newest(P[m], k)
  BY <1>2, <1>3
<1> QED
  BY <1>1, <1>4

\* A search finds nothing where no place has the key.
LEMMA SearchMiss ==
  ASSUME NEW P, NEW k, \A n \in DOMAIN P : ~Has(P[n], k)
  PROVE  Search(P, k) = {}
  BY DEF Search

\* A search finds the newest version of all places if a place that has it comes
\* before every place whose versions of the key are older.
LEMMA SearchFinds ==
  ASSUME NEW P, DOMAIN P \subseteq Nat, NEW k,
         NEW E, E \subseteq Version, NEW c \in Nat, \A v \in E : v[2] <= c,
         \A n \in DOMAIN P : P[n] \subseteq E,
         \A best \in Newest(E, k) : \E n \in DOMAIN P :
           /\ best \in P[n]
           /\ \A m \in DOMAIN P : m < n =>
                \A x \in P[m] : x[1] = k => x[2] > best[2] \/ best \in P[m]
  PROVE  Search(P, k) = Newest(E, k)
<1>1. CASE ~Has(E, k)
  <2>1. Newest(E, k) = {}
    BY <1>1 DEF Newest, Has
  <2>2. \A n \in DOMAIN P : ~Has(P[n], k)
    BY <1>1 DEF Has
  <2> QED
    BY <2>1, <2>2, SearchMiss
<1>2. CASE Has(E, k)
  <2>1. PICK best \in E : best \in Newest(E, k)
    BY <1>2, HasNewest
  <2>2. PICK n \in DOMAIN P :
          /\ best \in P[n]
          /\ \A m \in DOMAIN P : m < n =>
               \A x \in P[m] : x[1] = k => x[2] > best[2] \/ best \in P[m]
    BY <2>1
  <2>3. best[1] = k /\ \A u \in E : u[1] = k => u[2] <= best[2]
    BY <2>1 DEF Newest
  <2>4. Has(P[n], k)
    BY <2>2, <2>3 DEF Has
  <2>5. PICK m \in DOMAIN P :
          m <= n /\ Has(P[m], k) /\ Search(P, k) = Newest(P[m], k)
    BY <2>4, SearchHit
  <2>6. PICK x \in P[m] : x[1] = k
    BY <2>5 DEF Has
  <2>7. x[2] \in Nat /\ best[2] \in Nat /\ x[2] <= best[2]
    BY <2>3, <2>6 DEF Version
  <2>8. best \in P[m]
    <3>1. CASE m = n
      BY <2>2, <3>1
    <3>2. CASE m < n
      BY <2>2, <2>6, <2>7, <3>2
    <3> QED
      BY <2>5, <3>1, <3>2
  <2>9. Newest(P[m], k) = Newest(E, k)
    BY <2>1, <2>8, SameNewest
  <2> QED
    BY <2>5, <2>9
<1> QED
  BY <1>1, <1>2

\* Two lists, one behind the other.
LEMMA Behind ==
  ASSUME NEW S, NEW s \in Seq(S), NEW t \in Seq(S)
  PROVE  /\ s \o t \in Seq(S) /\ Len(s \o t) = Len(s) + Len(t)
         /\ \A n \in 1..Len(s) : (s \o t)[n] = s[n]
         /\ \A n \in 1..Len(t) : (s \o t)[Len(s) + n] = t[n]
<1>1. Len(s) \in Nat /\ Len(t) \in Nat
  BY LenProperties
<1>2. /\ s \o t \in Seq(S) /\ Len(s \o t) = Len(s) + Len(t)
      /\ \A i \in 1..(Len(s) + Len(t)) :
           (s \o t)[i] = IF i <= Len(s) THEN s[i] ELSE t[i - Len(s)]
  BY ConcatProperties
<1>3. ASSUME NEW n \in 1..Len(t) PROVE (s \o t)[Len(s) + n] = t[n]
  <2>1. Len(s) + n \in 1..(Len(s) + Len(t)) /\ ~(Len(s) + n <= Len(s))
        /\ (Len(s) + n) - Len(s) = n
    BY <1>1
  <2> QED
    BY <1>2, <2>1
<1>4. ASSUME NEW n \in 1..Len(s) PROVE (s \o t)[n] = s[n]
  <2>1. n \in 1..(Len(s) + Len(t)) /\ n <= Len(s)
    BY <1>1
  <2> QED
    BY <1>2, <2>1
<1> QED
  BY <1>2, <1>3, <1>4

\* Three lists in a row.
LEMMA InARow ==
  ASSUME NEW S, NEW r \in Seq(S), NEW s \in Seq(S), NEW t \in Seq(S)
  PROVE  /\ r \o s \o t \in Seq(S) /\ Len(r \o s \o t) = Len(r) + Len(s) + Len(t)
         /\ \A n \in 1..Len(r) : (r \o s \o t)[n] = r[n]
         /\ \A n \in 1..Len(s) : (r \o s \o t)[Len(r) + n] = s[n]
         /\ \A n \in 1..Len(t) : (r \o s \o t)[Len(r) + Len(s) + n] = t[n]
<1>1. Len(r) \in Nat /\ Len(s) \in Nat /\ Len(t) \in Nat
  BY LenProperties
<1>2. PICK f \in Seq(S) :
        /\ f = r \o s /\ Len(f) = Len(r) + Len(s)
        /\ \A n \in 1..Len(r) : f[n] = r[n]
        /\ \A n \in 1..Len(s) : f[Len(r) + n] = s[n]
  <2>1. r \o s \in Seq(S) /\ Len(r \o s) = Len(r) + Len(s)
    BY Behind
  <2>2. \A n \in 1..Len(r) : (r \o s)[n] = r[n]
    BY Behind
  <2>3. \A n \in 1..Len(s) : (r \o s)[Len(r) + n] = s[n]
    BY Behind
  <2> QED
    BY <2>1, <2>2, <2>3, Zenon
<1>3. /\ f \o t \in Seq(S) /\ Len(f \o t) = Len(f) + Len(t)
      /\ \A n \in 1..Len(f) : (f \o t)[n] = f[n]
      /\ \A n \in 1..Len(t) : (f \o t)[Len(f) + n] = t[n]
  BY Behind
<1>4. /\ \A n \in 1..Len(r) : n \in 1..(Len(r) + Len(s))
      /\ \A n \in 1..Len(s) : Len(r) + n \in 1..(Len(r) + Len(s))
  BY <1>1
<1>5. /\ \A n \in 1..Len(r) : (f \o t)[n] = r[n]
      /\ \A n \in 1..Len(s) : (f \o t)[Len(r) + n] = s[n]
  BY <1>2, <1>3, <1>4
<1> QED
  BY <1>2, <1>3, <1>5

\* The active memtable, the frozen ones, the tables.
LEMMA PlacesAre ==
  ASSUME TypeOK
  PROVE  /\ Len(frozen) \in Nat /\ Len(tables) \in Nat
         /\ DOMAIN frozen = 1..Len(frozen) /\ DOMAIN tables = 1..Len(tables)
         /\ DOMAIN Places = 1..(1 + Len(frozen) + Len(tables))
         /\ Places[1] = entries[mem_table]
         /\ \A n \in 1..Len(frozen) : Places[1 + n] = entries[frozen[n]]
         /\ \A n \in 1..Len(tables) : Places[1 + Len(frozen) + n] = tables[n]
<1> DEFINE first == <<entries[mem_table]>>
           middle == [i \in DOMAIN frozen |-> entries[frozen[i]]]
<1>1. /\ frozen \in Seq(Ids) /\ tables \in Seq(SUBSET Version)
      /\ entries \in [Ids -> SUBSET Version] /\ mem_table \in Ids
  BY DEF TypeOK
<1>2. /\ Len(frozen) \in Nat /\ Len(tables) \in Nat
      /\ DOMAIN frozen = 1..Len(frozen) /\ DOMAIN tables = 1..Len(tables)
  BY <1>1, LenProperties
<1>3. \A n \in 1..Len(frozen) : entries[frozen[n]] \in SUBSET Version
  BY <1>1
<1>4. middle \in Seq(SUBSET Version) /\ Len(middle) = Len(frozen)
  BY <1>2, <1>3
<1>5. first \in Seq(SUBSET Version) /\ Len(first) = 1 /\ first[1] = entries[mem_table]
  BY <1>1
<1>6. \A n \in 1..Len(frozen) : middle[n] = entries[frozen[n]]
  BY <1>2
<1>7. Places = first \o middle \o tables
  BY DEF Places
<1> HIDE DEF first, middle
<1>8. PICK r \in Seq(SUBSET Version), s \in Seq(SUBSET Version), t \in Seq(SUBSET Version) :
        r = first /\ s = middle /\ t = tables
  BY <1>1, <1>4, <1>5
<1>9. /\ Places \in Seq(SUBSET Version) /\ Len(Places) = 1 + Len(frozen) + Len(tables)
      /\ Places[1] = entries[mem_table]
      /\ \A n \in 1..Len(frozen) : Places[1 + n] = entries[frozen[n]]
      /\ \A n \in 1..Len(tables) : Places[1 + Len(frozen) + n] = tables[n]
  <2>1. /\ r \o s \o t \in Seq(SUBSET Version)
        /\ Len(r \o s \o t) = Len(r) + Len(s) + Len(t)
    BY InARow
  <2>2. \A n \in 1..Len(r) : (r \o s \o t)[n] = r[n]
    BY InARow
  <2>3. \A n \in 1..Len(s) : (r \o s \o t)[Len(r) + n] = s[n]
    BY InARow
  <2>4. \A n \in 1..Len(t) : (r \o s \o t)[Len(r) + Len(s) + n] = t[n]
    BY InARow
  <2>5. Places = r \o s \o t
    BY <1>7, <1>8
  <2>6. Len(r) = 1 /\ r[1] = entries[mem_table] /\ Len(s) = Len(frozen)
        /\ Len(t) = Len(tables)
    BY <1>4, <1>5, <1>8
  <2>7. \A n \in 1..Len(frozen) : s[n] = entries[frozen[n]]
    BY <1>6, <1>8
  <2> HIDE DEF Places
  <2> QED
    BY <1>8, <2>1, <2>2, <2>3, <2>4, <2>5, <2>6, <2>7
<1>10. DOMAIN Places = 1..(1 + Len(frozen) + Len(tables))
  BY <1>9, LenProperties
<1> QED
  BY <1>2, <1>9, <1>10

\* A place is either newer than all places behind it, or the memtable whose
\* table is written and which is still in the list.
LEMMA PlacesOrdered ==
  ASSUME TypeOK, IdInv, TaskInv, VersionInv, TableInv,
         NEW m \in DOMAIN Places, NEW n \in DOMAIN Places, m < n,
         NEW x \in Places[m], NEW y \in Places[n], x[1] = y[1]
  PROVE  x[2] > y[2] \/ y \in Places[m]
<1> DEFINE L == Len(frozen)
<1>1. /\ L \in Nat /\ Len(tables) \in Nat
      /\ DOMAIN frozen = 1..L /\ DOMAIN tables = 1..Len(tables)
      /\ DOMAIN Places = 1..(1 + L + Len(tables))
      /\ Places[1] = entries[mem_table]
      /\ \A j \in 1..L : Places[1 + j] = entries[frozen[j]]
      /\ \A j \in 1..Len(tables) : Places[1 + L + j] = tables[j]
  BY PlacesAre
<1>2. /\ \A j \in 1..L : frozen[j] \in Ids /\ frozen[j] < mem_table
      /\ mem_table \in Ids /\ Ids \subseteq Nat
      /\ \A i \in Ids : \A v \in entries[i] : v[2] \in Nat
  BY <1>1 DEF IdInv, TypeOK, Version
<1>3. ASSUME NEW i \in Ids, NEW j \in Ids, i < j, x \in entries[j], y \in entries[i]
      PROVE  x[2] > y[2]
  BY <1>2, <1>3 DEF VersionInv
<1>4. CASE n <= 1 + L
  <2>1. PICK j \in 1..L : n = 1 + j
    <3>1. n - 1 \in 1..L /\ n = 1 + (n - 1)
      BY <1>1, <1>4
    <3> QED
      BY <3>1
  <2>2. CASE m = 1
    BY <1>1, <1>2, <1>3, <2>1, <2>2
  <2>3. CASE m # 1
    <3>1. PICK h \in 1..L : m = 1 + h /\ h < j
      <4>1. m - 1 \in 1..L /\ m = 1 + (m - 1) /\ m - 1 < j
        BY <1>1, <2>1, <2>3
      <4> QED
        BY <4>1
    <3>2. frozen[j] < frozen[h]
      BY <1>1, <1>2, <3>1 DEF IdInv
    <3> QED
      BY <1>1, <1>2, <1>3, <2>1, <3>1, <3>2
  <2> QED
    BY <2>2, <2>3
<1>5. CASE n > 1 + L
  <2>1. PICK j \in 1..Len(tables) : n = 1 + L + j /\ Places[n] = tables[j]
    <3>1. n - (1 + L) \in 1..Len(tables)
      BY <1>1, <1>5
    <3> QED
      BY <1>1, <3>1
  <2>2. PICK i \in Written : tables[j] = Compacted(i)
    BY <1>1, <2>1 DEF TableInv
  <2>3. y \in entries[i] /\ i \in Ids /\ i < mem_table
    BY <2>1, <2>2, CompactedVersions, WrittenOld
  <2>4. CASE m = 1
    BY <1>1, <1>2, <1>3, <2>3, <2>4
  <2>5. CASE m # 1 /\ m <= 1 + L
    <3>1. PICK h \in 1..L : m = 1 + h
      <4>1. m - 1 \in 1..L /\ m = 1 + (m - 1)
        BY <1>1, <2>5
      <4> QED
        BY <4>1
    <3>2. i = frozen[h] \/ i < frozen[h]
      <4>1. CASE i \in Retired
        BY <1>1, <4>1 DEF IdInv
      <4>2. CASE i \notin Retired
        <5>1. i = Oldest /\ frozen # <<>>
          BY <2>2, <4>2 DEF Written, TaskInv
        <5>2. L \in 1..L /\ i = frozen[L]
          BY <5>1, OldestFrozen
        <5> HIDE DEF L
        <5>3. L \in Nat
          BY <1>1
        <5>5. h = L \/ h < L
          BY <5>3
        <5>4. h < L => frozen[h] > frozen[L]
          BY <1>1, <5>2 DEF IdInv
        <5> QED
          BY <1>1, <1>2, <5>2, <5>4, <5>5
      <4> QED
        BY <4>1, <4>2
    <3> QED
      BY <1>1, <1>2, <1>3, <2>3, <3>1, <3>2
  <2>6. CASE m > 1 + L
    <3>1. m - (1 + L) \in 1..Len(tables) /\ m - (1 + L) < j
      BY <1>1, <2>1, <2>6
    <3>2. Places[m] = tables[m - (1 + L)]
      BY <1>1, <3>1
    <3> QED
      BY <1>1, <2>1, <3>1, <3>2 DEF TableInv, NewestTableFirst
  <2> QED
    BY <1>1, <2>4, <2>5, <2>6
<1> QED
  BY <1>1, <1>4, <1>5

\* Every memtable is a place, or its table is.
LEMMA PlacesComplete ==
  ASSUME TypeOK, IdInv, TaskInv, TableInv,
         NEW k \in Key, NEW i \in Ids, NEW v \in Newest(entries[i], k)
  PROVE  \E n \in DOMAIN Places : v \in Places[n]
<1>1. v \in entries[i]
  BY DEF Newest
<1>2. CASE i = mem_table
  BY <1>1, <1>2, PlacesAre
<1>3. ASSUME NEW n \in DOMAIN frozen, frozen[n] = i
      PROVE  \E h \in DOMAIN Places : v \in Places[h]
  <2>1. 1 + n \in DOMAIN Places /\ Places[1 + n] = entries[i]
    BY <1>3, PlacesAre
  <2> QED
    BY <1>1, <2>1
<1>4. CASE i \in Retired
  <2>1. v \in Compacted(i) /\ i \in Written
    BY <1>4 DEF Compacted, Written
  <2>2. PICK n \in DOMAIN tables : tables[n] = Compacted(i)
    BY <2>1 DEF TableInv
  <2>3. /\ 1 + Len(frozen) + n \in DOMAIN Places
        /\ Places[1 + Len(frozen) + n] = tables[n]
    BY <2>2, PlacesAre
  <2> QED
    BY <2>1, <2>2, <2>3
<1> QED
  BY <1>2, <1>3, <1>4 DEF Retired

\* No place has a version that no memtable had.
LEMMA PlacesSound ==
  ASSUME TypeOK, IdInv, TaskInv, TableInv, NEW n \in DOMAIN Places
  PROVE  \E i \in Ids : Places[n] \subseteq entries[i]
<1> DEFINE L == Len(frozen)
<1>1. /\ L \in Nat /\ Len(tables) \in Nat
      /\ DOMAIN frozen = 1..L /\ DOMAIN tables = 1..Len(tables)
      /\ DOMAIN Places = 1..(1 + L + Len(tables))
      /\ Places[1] = entries[mem_table]
      /\ \A j \in 1..L : Places[1 + j] = entries[frozen[j]]
      /\ \A j \in 1..Len(tables) : Places[1 + L + j] = tables[j]
  BY PlacesAre
<1>2. mem_table \in Ids /\ \A j \in 1..L : frozen[j] \in Ids
  BY <1>1 DEF TypeOK
<1>3. CASE n = 1
  BY <1>1, <1>2, <1>3
<1>4. CASE n # 1 /\ n <= 1 + L
  <2>1. n - 1 \in 1..L /\ n = 1 + (n - 1)
    BY <1>1, <1>4
  <2> QED
    BY <1>1, <1>2, <2>1
<1>5. CASE n > 1 + L
  <2>1. n - (1 + L) \in 1..Len(tables) /\ n = 1 + L + (n - (1 + L))
    BY <1>1, <1>5
  <2>2. Places[n] = tables[n - (1 + L)]
    BY <1>1, <2>1
  <2>3. PICK i \in Written : tables[n - (1 + L)] = Compacted(i)
    BY <1>1, <2>1 DEF TableInv
  <2> QED
    BY <2>2, <2>3, CompactedVersions, WrittenOld
<1> QED
  BY <1>1, <1>3, <1>4, <1>5

\* A lookup finds the newest version ever put, whatever is being frozen, flushed
\* or retired, by whom, and whatever failed.
LEMMA Lookup == IInv => LookupIsNewest
<1> SUFFICES ASSUME IInv, NEW k \in Key
             PROVE  Search(Places, k) = Newest(UNION {entries[i] : i \in Ids}, k)
  BY DEF LookupIsNewest
<1> USE DEF IInv
<1> DEFINE E == UNION {entries[i] : i \in Ids}
<1>1. E \subseteq Version /\ clock \in Nat /\ \A v \in E : v[2] <= clock
  BY DEF TypeOK, VersionInv
<1>2. DOMAIN Places \subseteq Nat /\ \A n \in DOMAIN Places : Places[n] \subseteq E
  BY PlacesAre, PlacesSound
<1>3. ASSUME NEW best \in Newest(E, k)
      PROVE  \E n \in DOMAIN Places :
               /\ best \in Places[n]
               /\ \A m \in DOMAIN Places : m < n =>
                    \A x \in Places[m] : x[1] = k => x[2] > best[2] \/ best \in Places[m]
  <2>1. PICK i \in Ids : best \in Newest(entries[i], k)
    BY DEF Newest
  <2>2. PICK n \in DOMAIN Places : best \in Places[n]
    BY <2>1, PlacesComplete
  <2>3. best[1] = k
    BY DEF Newest
  <2> QED
    BY <2>2, <2>3, PlacesOrdered
<1> HIDE DEF E
<1> QED
  BY <1>1, <1>2, <1>3, SearchFinds DEF E

\* A lookup finds the newest version ever put, whatever is being frozen, flushed
\* or retired, by whom, and whatever failed.
THEOREM LookupCorrect == Spec => []LookupIsNewest
  BY Lookup, Inductive, PTL

-----------------------------------------------------------------------------
(* Crashes.                                                                *)

\* What the newest log with the key holds of it.
LEMMA RecoveredFromLog ==
  ASSUME IInv, NEW k, NEW i \in wal_files, Has(log[i], k)
  PROVE  \E m \in wal_files : \E u \in log[m] :
           i <= m /\ u \in Recovered(k) /\ u \in Newest(log[m], k)
<1> USE DEF IInv
<1> DEFINE holds == {j \in wal_files : Has(log[j], k)}
           last == {j \in holds : \A h \in holds : j >= h}
<1>1. \A j \in holds : j \in Ids /\ log[j] \subseteq entries[j]
  BY DEF LogInv, TypeOK, Has
<1>2. mem_table \in Nat /\ holds \subseteq 0..mem_table /\ holds # {}
  BY <1>1 DEF IdInv, TypeOK
<1>3. PICK m \in holds : \A h \in holds : h <= m
  <2> HIDE DEF holds
  <2> QED
    BY <1>2, Greatest
<1>4. last = {m}
  BY <1>2, <1>3
<1>5. Recovered(k) = UNION {Newest(log[j], k) : j \in last}
  BY <1>2 DEF Recovered
<1>6. Recovered(k) = Newest(log[m], k)
  BY <1>4, <1>5
<1>7. /\ log[m] \subseteq Version /\ clock \in Nat
      /\ \A u \in log[m] : u[2] <= clock
  BY <1>1 DEF TypeOK, VersionInv
<1>8. PICK u \in log[m] : u \in Newest(log[m], k)
  BY <1>7, HasNewest
<1> QED
  BY <1>3, <1>6, <1>8

\* The table files, listed or not, are of memtables that are not written to any
\* more, newest first, and every retired memtable has one.
LEMMA FilesOrdered ==
  ASSUME IInv
  PROVE  /\ \A n \in DOMAIN ss_files : \E i \in Ids : ss_files[n] = Compacted(i)
         /\ \A i \in Retired : Compacted(i) # {} =>
              \E n \in DOMAIN ss_files : ss_files[n] = Compacted(i)
         /\ \A n, m \in DOMAIN ss_files : n < m =>
              \A u \in ss_files[n], v \in ss_files[m] : u[1] = v[1] => u[2] > v[2]
<1> USE DEF IInv
<1>1. CASE ss_files = tables
  BY <1>1, WrittenOld DEF TableInv, NewestTableFirst, Written
<1>2. CASE /\ frozen # <<>>
           /\ ss_files = <<Compacted(Oldest)>> \o tables
           /\ \A p \in Proc : at[p] \notin {"retire", "retain"}
  <2> DEFINE table == Compacted(Oldest)
  <2>1. Written = Retired
    BY <1>2 DEF Written
  <2>2. Oldest \in Ids /\ \A i \in Retired : i \in Ids /\ i < Oldest
    BY <1>2, OldestFrozen DEF IdInv, Retired
  <2>3. tables \in Seq(SUBSET Version) /\ table \in SUBSET Version
    BY <2>2, CompactedVersions DEF TypeOK
  <2>4. /\ Len(tables) \in Nat /\ DOMAIN tables = 1..Len(tables)
        /\ DOMAIN ss_files = 1..(Len(tables) + 1)
        /\ ss_files[1] = table
        /\ \A n \in 1..Len(tables) : ss_files[n + 1] = tables[n]
        /\ \A n \in 2..(Len(tables) + 1) : ss_files[n] = tables[n - 1]
    <3> HIDE DEF table, IInv
    <3>1. ss_files \in Seq(SUBSET Version) /\ Len(ss_files) = Len(tables) + 1
      BY <1>2, <2>3, InFront DEF table
    <3> QED
      BY <1>2, <2>3, <3>1, InFront, LenProperties DEF table
  <2>5. \A n \in DOMAIN ss_files : n = 1 \/ n - 1 \in DOMAIN tables
    BY <2>4
  <2>6. \A n \in DOMAIN ss_files : \E i \in Ids : ss_files[n] = Compacted(i)
    BY <2>1, <2>2, <2>4, <2>5 DEF TableInv
  <2>7. ASSUME NEW i \in Retired, Compacted(i) # {}
        PROVE  \E n \in DOMAIN ss_files : ss_files[n] = Compacted(i)
    <3>1. PICK n \in DOMAIN tables : tables[n] = Compacted(i)
      BY <2>1, <2>7 DEF TableInv
    <3>2. n + 1 \in DOMAIN ss_files /\ ss_files[n + 1] = Compacted(i)
      BY <2>4, <3>1
    <3> QED
      BY <3>2
  <2>8. ASSUME NEW n \in DOMAIN tables, NEW x \in table, NEW y \in tables[n]
        PROVE  x[2] > y[2]
    <3>1. PICK i \in Retired : tables[n] = Compacted(i)
      BY <2>1 DEF TableInv
    <3>2. x \in entries[Oldest] /\ y \in entries[i]
      BY <3>1, CompactedVersions
    <3>3. y[2] < x[2] /\ x[2] \in Nat /\ y[2] \in Nat
      BY <2>2, <3>1, <3>2 DEF VersionInv, TypeOK, Version
    <3> QED
      BY <3>3
  <2>9. ASSUME NEW n \in DOMAIN ss_files, NEW m \in DOMAIN ss_files, n < m,
               NEW x \in ss_files[n], NEW y \in ss_files[m], x[1] = y[1]
        PROVE  x[2] > y[2]
    <3>1. CASE n = 1
      BY <2>4, <2>5, <2>8, <2>9, <3>1
    <3>2. CASE n # 1
      BY <2>4, <2>5, <2>9, <3>2 DEF TableInv, NewestTableFirst
    <3> QED
      BY <3>1, <3>2
  <2> QED
    BY <2>6, <2>7, <2>9
<1> QED
  BY <1>1, <1>2 DEF NamedInv

\* A memtable whose log is gone has its table, and no newer log than its own
\* was there to hide it.
LEMMA RecoveredFromTable ==
  ASSUME IInv, NEW j \in Retired, NEW v \in entries[j],
         \A i \in wal_files : ~Has(log[i], v[1])
  PROVE  \E u \in Recovered(v[1]) : u[2] >= v[2]
<1> USE DEF IInv
<1> DEFINE k == v[1]
<1>1. /\ j \in Ids /\ k \in Key /\ v[2] \in Nat /\ Has(entries[j], k)
      /\ entries[j] \subseteq Version /\ clock \in Nat
      /\ \A u \in entries[j] : u[2] <= clock
  BY DEF Retired, TypeOK, VersionInv, Version, Has
<1>2. PICK best \in entries[j] : best \in Newest(entries[j], k)
  BY <1>1, HasNewest
<1>3. best \in Compacted(j) /\ best[1] = k /\ best[2] >= v[2]
      /\ best[2] \in Nat
  BY <1>1, <1>2 DEF Newest, Compacted, Version
<1>4. PICK n \in DOMAIN ss_files : ss_files[n] = Compacted(j)
  BY <1>1, <1>3, FilesOrdered
<1>5. Has(ss_files[n], k) /\ DOMAIN ss_files \subseteq Nat
  BY <1>3, <1>4, LenProperties DEF Has, TypeOK
<1>6. PICK m \in DOMAIN ss_files :
        /\ m <= n /\ Has(ss_files[m], k)
        /\ Search(ss_files, k) = Newest(ss_files[m], k)
  BY <1>5, SearchHit
<1>7. PICK i \in Ids : ss_files[m] = Compacted(i)
  BY FilesOrdered
<1>8. /\ ss_files[m] \subseteq Version /\ clock \in Nat
      /\ \A u \in ss_files[m] : u[2] <= clock
  BY <1>7, CompactedVersions DEF TypeOK, VersionInv
<1>9. PICK u \in ss_files[m] : u \in Newest(ss_files[m], k)
  BY <1>6, <1>8, HasNewest
<1>10. u[1] = k /\ u[2] \in Nat
  BY <1>8, <1>9 DEF Newest, Version
<1>11. u[2] >= best[2]
  <2>1. CASE m = n
    BY <1>3, <1>4, <1>9, <2>1 DEF Newest
  <2>2. CASE m < n
    BY <1>3, <1>4, <1>10, <2>2, FilesOrdered
  <2> QED
    BY <1>5, <1>6, <2>1, <2>2
<1>12. Recovered(k) = Search(ss_files, k)
  BY DEF Recovered
<1>13. u[2] >= v[2]
  BY <1>1, <1>3, <1>10, <1>11
<1> QED
  BY <1>6, <1>9, <1>12, <1>13

\* If removals succeed, the memtables whose logs are gone are the oldest ones.
LEMMA OldestLogsGo ==
  ASSUME IInv, "remove" \notin Faults,
         NEW i \in Ids \cap wal_files, NEW j \in Ids \ wal_files
  PROVE  j \in Retired /\ j < i
<1> USE DEF IInv
<1>1. j \in Retired
  BY DEF FilesInv, LogInv
<1>2. i \in Nat /\ j \in Nat /\ i # j
  BY DEF TypeOK
<1>3. CASE i \in Retired
  BY <1>1, <1>2, <1>3 DEF FilesInv, TaskInv
<1>4. CASE i = mem_table
  BY <1>1, <1>2, <1>4 DEF IdInv, Retired
<1>5. CASE i # mem_table /\ i \notin Retired
  <2>1. PICK n \in DOMAIN frozen : frozen[n] = i
    BY <1>5 DEF Retired
  <2> QED
    BY <1>1, <2>1 DEF IdInv
<1> QED
  BY <1>1, <1>3, <1>4, <1>5

\* What a crash leaves of a key is at least as new as what was committed.
LEMMA Crash == IInv /\ "remove" \notin Faults => CrashSafe
<1> SUFFICES ASSUME IInv, "remove" \notin Faults,
                    NEW j \in DOMAIN log, NEW v \in log[j]
             PROVE  \E u \in Recovered(v[1]) : u[2] >= v[2]
  BY DEF CrashSafe
<1>1. /\ j \in Ids /\ v \in entries[j] /\ v[2] \in Nat /\ Has(log[j], v[1])
      /\ wal_files \subseteq DOMAIN log /\ j \in Nat
  BY DEF IInv, LogInv, TypeOK, Version, Has
<1>2. ASSUME NEW i \in wal_files, Has(log[i], v[1])
      PROVE  i \in Ids /\ log[i] \subseteq entries[i] /\ i \in Nat
  BY <1>1, <1>2 DEF IInv, LogInv, TypeOK, Has
<1>3. ASSUME NEW i \in wal_files, Has(log[i], v[1]), j <= i
      PROVE  \E u \in Recovered(v[1]) : u[2] >= v[2]
  <2>1. PICK m \in wal_files : \E u \in log[m] :
          i <= m /\ u \in Recovered(v[1]) /\ u \in Newest(log[m], v[1])
    BY <1>3, RecoveredFromLog
  <2>2. PICK u \in log[m] :
          i <= m /\ u \in Recovered(v[1]) /\ u \in Newest(log[m], v[1])
    BY <2>1
  <2>3. m \in Ids /\ m \in Nat /\ u \in entries[m] /\ u[1] = v[1] /\ u[2] \in Nat
    BY <1>2, <2>2 DEF Newest, Has, IInv, TypeOK, Version
  <2>4. i \in Nat
    BY <1>2, <1>3
  <2>5. CASE m = j
    BY <2>2, <2>5 DEF Newest
  <2>6. CASE j < m
    BY <1>1, <2>2, <2>3, <2>6 DEF IInv, VersionInv
  <2> QED
    BY <1>1, <1>3, <2>2, <2>3, <2>4, <2>5, <2>6
<1>4. CASE \A i \in wal_files : ~Has(log[i], v[1])
  <2>1. j \in Retired
    BY <1>1, <1>4 DEF IInv, FilesInv
  <2> QED
    BY <1>1, <1>4, <2>1, RecoveredFromTable
<1>5. ASSUME NEW i \in wal_files, Has(log[i], v[1])
      PROVE  \E h \in wal_files : Has(log[h], v[1]) /\ j <= h
  <2>1. CASE j \in wal_files
    BY <1>1, <2>1
  <2>2. CASE j \notin wal_files
    <3>1. j < i
      BY <1>1, <1>2, <1>5, <2>2, OldestLogsGo
    <3> QED
      BY <1>1, <1>2, <1>5, <3>1
  <2> QED
    BY <2>1, <2>2
<1> QED
  BY <1>3, <1>4, <1>5

\* At no point does a crash lose a committed batch or bring back an older
\* version, if Wal::remove never fails: tasks may stop anywhere, appends, new
\* logs and tables may fail.  (When a removal fails, a log survives its memtable
\* and hides newer tables: see the run storage_stale_log.)
THEOREM CrashesLoseNothing == "remove" \notin Faults /\ Spec => []CrashSafe
<1>1. "remove" \notin Faults => (IInv => CrashSafe)
  BY Crash
<1>2. CASE "remove" \notin Faults
  BY <1>1, <1>2, Inductive, PTL
<1>3. CASE "remove" \in Faults
  BY <1>3
<1> QED
  BY <1>2, <1>3

-----------------------------------------------------------------------------
(* Backpressure.  What bounds the number of frozen memtables is that the   *)
(* writer that fills one has to wait before it writes again: the frozen    *)
(* memtables, the active one when something is in it, and the writers that *)
(* may still write into it are never more than MaxFrozen plus one for each *)
(* writer, and one more.                                                   *)

\* The writers that have not put anything since they were last let through.
Ready ==
    {w \in Writer :
        \/ at[w] = "idle"
        \/ at[w] = "put" /\ batch[w] \cap entries[mem_table] = {}}

Pending == IF entries[mem_table] = {} THEN 0 ELSE 1

BackInv ==
    /\ \A w \in Writer : at[w] = "put" => batch[w] # {}
    /\ \A p \in Proc : at[p] = "swap" => entries[mem_table] # {}
    /\ Len(frozen) + Pending + Cardinality(Ready)
         <= MaxFrozen + Cardinality(Writer) + 1

\* At first nobody has anything to freeze.
LEMMA BackInit == IsFiniteSet(Writer) /\ Init => BackInv
<1> SUFFICES ASSUME IsFiniteSet(Writer), Init PROVE BackInv
  OBVIOUS
<1>1. /\ \A p \in Proc : at[p] \in {"drain", "idle"}
      /\ frozen = <<>> /\ entries[mem_table] = {}
  BY DEF Init
<1>2. Cardinality(Writer) \in Nat /\ Cardinality(Ready) <= Cardinality(Writer)
      /\ Cardinality(Ready) \in Nat
  BY FS_Subset, FS_CardinalityType DEF Ready
<1>3. Len(frozen) = 0 /\ Pending = 0 /\ MaxFrozen \in Nat
  BY <1>1, EmptySeq, StorageAssumption DEF Pending, StorageAssumption
<1> QED
  BY <1>1, <1>2, <1>3 DEF BackInv, Proc

\* Whoever swaps has seen something in the memtable, and no batch is empty.
LEMMA DueStep ==
  ASSUME IInv, BackInv, [Next]_vars
  PROVE  /\ \A w \in Writer : at'[w] = "put" => batch'[w] # {}
         /\ \A p \in Proc : at'[p] = "swap" => entries'[mem_table'] # {}
<1> USE DEF IInv, stateVars, diskVars, lockVars, notifyVars, taskVars, Goto
<1> DEFINE Goal == /\ \A w \in Writer : at'[w] = "put" => batch'[w] # {}
                   /\ \A p \in Proc : at'[p] = "swap" => entries'[mem_table'] # {}
<1>0. /\ at \in [Proc -> Place] /\ Writer \subseteq Proc /\ batch \in [Writer -> SUBSET Version]
      /\ entries \in [Ids -> SUBSET Version] /\ mem_table \in Ids
      /\ \A w \in Writer : at[w] = "put" => batch[w] # {}
      /\ \A p \in Proc : at[p] = "swap" => entries[mem_table] # {}
  BY DEF TypeOK, Place, Proc, BackInv
<1>1. CASE /\ UNCHANGED <<mem_table, entries, batch>>
           /\ \A p \in Proc, x \in {"put", "swap"} : at'[p] = x => at[p] = x
  BY <1>0, <1>1
<1>2. ASSUME NEW w \in Writer, NEW keys \in (SUBSET Key) \ {{}}, Start(w, keys) PROVE Goal
  <2>1. /\ UNCHANGED <<mem_table, entries>>
        /\ batch' = [batch EXCEPT ![w] = keys \X {clock'}]
        /\ \A p \in Proc : at'[p] = "swap" => at[p] = "swap"
        /\ \A u \in Writer : u # w => at'[u] = at[u]
    BY <1>0, <1>2 DEF Start
  <2>2. PICK k \in keys : TRUE
    OBVIOUS
  <2>3. <<k, clock'>> \in keys \X {clock'}
    OBVIOUS
  <2> QED
    BY <1>0, <2>1, <2>3
<1>3. ASSUME NEW w \in Writer, NEW v \in batch[w], Put(w, v) PROVE Goal
  <2>1. UNCHANGED <<at, batch, mem_table>> /\ entries'[mem_table] # {}
    BY <1>0, <1>3 DEF Put, Ids
  <2> QED
    BY <1>0, <2>1
<1>4. ASSUME NEW w \in Writer, TxCommit(w) \/ AppendFails(w) PROVE Goal
  BY <1>0, <1>1, <1>4 DEF TxCommit, AppendFails
<1>5. ASSUME NEW p \in Proc, NewWal(p) PROVE Goal
  <2>1. entries[mem_table] # {}
    <3>1. CASE entries[mem_table] = {}
      <4>1. Cardinality(entries[mem_table]) = 0 /\ ~(0 >= Capacity)
        BY <3>1, FS_EmptySet, StorageAssumption DEF StorageAssumption
      <4> QED
        BY <1>5, <3>1, <4>1 DEF NewWal, StillDue, Full
    <3> QED
      BY <3>1
  <2>2. UNCHANGED <<mem_table, entries, batch>> /\ \A q \in Proc : at'[q] = "put" => at[q] = "put"
    BY <1>0, <1>5 DEF NewWal
  <2> QED
    BY <1>0, <2>1, <2>2
<1>6. ASSUME NEW p \in Proc, Swap(p) PROVE Goal
  <2>1. UNCHANGED batch /\ \A q \in Proc : at'[q] = "put" => at[q] = "put"
    BY <1>0, <1>6 DEF Swap, AfterFreeze
  <2>2. \A q \in Proc : at'[q] # "swap"
    BY <1>0, <1>6, OneFreezer DEF Swap, AfterFreeze, ControlInv
  <2> QED
    BY <1>0, <2>1, <2>2
<1>7. ASSUME NEW p \in Proc,
             \/ NewWalFails(p) \/ FlushPick(p) \/ L0(p) \/ L0Fails(p) \/ RetireLock(p)
             \/ Retire(p) \/ RemoveWal(p) \/ RemoveWalFails(p)
      PROVE Goal
  BY <1>0, <1>1, <1>7 DEF NewWalFails, FlushPick, L0, L0Fails, RetireLock, Retire,
                          RemoveWal, RemoveWalFails, AfterFlush
<1>8. CASE Quiet
  BY <1>1, <1>8 DEF Quiet
<1> QED
  BY <1>2, <1>3, <1>4, <1>5, <1>6, <1>7, <1>8, QuietStep

\* A frozen memtable was pending, and what is put is put by a ready writer.
LEMMA BackStep ==
  ASSUME IsFiniteSet(Writer), "append" \notin Faults, "new_wal" \notin Faults,
         IInv, BackInv, [Next]_vars
  PROVE  BackInv'
<1> USE DEF IInv, stateVars, diskVars, lockVars, notifyVars, taskVars, Goto
<1> DEFINE Bound == MaxFrozen + Cardinality(Writer) + 1
           Count == Len(frozen) + Pending + Cardinality(Ready)
<1>0. /\ at \in [Proc -> Place] /\ Writer \subseteq Proc /\ Flusher \cap Writer = {}
      /\ Loop \notin Writer
      /\ entries \in [Ids -> SUBSET Version] /\ mem_table \in Ids
      /\ Len(frozen) \in Nat /\ MaxFrozen \in Nat
  BY StorageAssumption, LenProperties DEF TypeOK, Place, Proc, StorageAssumption
<1>1. /\ Cardinality(Writer) \in Nat /\ Pending \in {0, 1}
      /\ IsFiniteSet(Ready) /\ Cardinality(Ready) \in Nat
      /\ IsFiniteSet(Ready') /\ Cardinality(Ready') \in Nat
      /\ Cardinality(Ready') <= Cardinality(Writer)
  <2>1. Ready \in SUBSET Writer /\ Ready' \in SUBSET Writer
    BY DEF Ready
  <2> QED
    BY <2>1, FS_Subset, FS_CardinalityType DEF Pending
<1>2. Ready' \subseteq Ready => Cardinality(Ready') <= Cardinality(Ready)
  BY <1>1, FS_Subset
<1>3. Count <= Bound
  BY DEF BackInv
<1>4. CASE /\ UNCHANGED <<mem_table, entries>>
           /\ Len(frozen') \in Nat /\ Len(frozen') <= Len(frozen)
           /\ \A w \in Writer : at'[w] = "idle" => at[w] = "idle"
           /\ \A w \in Writer : at'[w] = "put" => at[w] = "put" /\ batch'[w] = batch[w]
  <2>1. Ready' \subseteq Ready
    BY <1>4 DEF Ready
  <2>2. Pending' = Pending
    BY <1>4 DEF Pending
  <2> QED
    BY <1>0, <1>1, <1>2, <1>3, <1>4, <2>1, <2>2, DueStep DEF BackInv
<1>5. ASSUME NEW w \in Writer, NEW keys \in (SUBSET Key) \ {{}}, Start(w, keys)
      PROVE  BackInv'
  <2>1. /\ UNCHANGED <<mem_table, entries, frozen>> /\ at[w] = "idle"
        /\ \A u \in Writer : u # w => at'[u] = at[u] /\ batch'[u] = batch[u]
    BY <1>0, <1>5 DEF Start, TypeOK
  <2>2. Ready' \subseteq Ready /\ Pending' = Pending
    BY <2>1 DEF Ready, Pending
  <2> QED
    BY <1>0, <1>1, <1>2, <1>3, <2>1, <2>2, DueStep DEF BackInv
<1>6. ASSUME NEW w \in Writer, NEW v \in batch[w], Put(w, v)
      PROVE  BackInv'
  <2>1. /\ UNCHANGED <<at, batch, mem_table, frozen>> /\ at[w] = "put"
        /\ entries'[mem_table] = entries[mem_table] \cup {v}
    BY <1>0, <1>6 DEF Put, Ids
  <2>2. Ready' \subseteq Ready \ {w} /\ Pending' = 1
    BY <2>1 DEF Ready, Pending
  <2>3. CASE entries[mem_table] # {}
    <3>1. Pending = 1 /\ Ready' \subseteq Ready
      BY <2>2, <2>3 DEF Pending
    <3> QED
      BY <1>0, <1>1, <1>2, <1>3, <2>1, <2>2, <3>1, DueStep DEF BackInv
  <2>4. CASE entries[mem_table] = {}
    <3>1. w \in Ready /\ Pending = 0
      BY <2>1, <2>4 DEF Ready, Pending
    <3>2. IsFiniteSet(Ready \ {w}) /\ Cardinality(Ready \ {w}) = Cardinality(Ready) - 1
      BY <1>1, <3>1, FS_RemoveElement
    <3>3. Cardinality(Ready') <= Cardinality(Ready) - 1
      BY <2>2, <3>2, FS_Subset
    <3>4. Len(frozen) + 0 + Cardinality(Ready) <= Bound
      BY <1>3, <3>1
    <3>5. Len(frozen) + 1 + Cardinality(Ready') <= Bound
      <4> HIDE DEF Bound
      <4>1. Bound \in Nat
        BY <1>0, <1>1 DEF Bound
      <4> QED
        BY <1>0, <1>1, <3>3, <3>4, <4>1
    <3>6. Len(frozen') + Pending' + Cardinality(Ready') <= Bound
      BY <2>1, <2>2, <3>5
    <3> QED
      BY <3>6, DueStep DEF BackInv
  <2> QED
    BY <2>3, <2>4
<1>7. ASSUME NEW w \in Writer, Proceed(w) PROVE BackInv'
  <2>1. UNCHANGED <<mem_table, entries, frozen>> /\ Len(frozen) <= MaxFrozen
    BY <1>7 DEF Proceed
  <2>2. Pending' \in {0, 1}
    BY DEF Pending
  <2> QED
    BY <1>0, <1>1, <2>1, <2>2, DueStep DEF BackInv
<1>8. ASSUME NEW w \in Writer, TxCommit(w) \/ AppendFails(w) \/ FreezeIfFull(w) \/ Poke(w)
      PROVE  BackInv'
  BY <1>0, <1>4, <1>8 DEF TxCommit, AppendFails, FreezeIfFull, Poke
<1>9. ASSUME NEW f \in Flusher, CallFlush(f) \/ Shutdown(f) \/ Join(f) PROVE BackInv'
  BY <1>0, <1>4, <1>9 DEF CallFlush, Shutdown, Join
<1>10. ASSUME NEW p \in Proc, FreezeLock(p) \/ NotDue(p) \/ NewWal(p) \/ NewWalFails(p)
       PROVE  BackInv'
  BY <1>0, <1>4, <1>10 DEF FreezeLock, NotDue, NewWal, NewWalFails, AfterFreeze
<1>11. ASSUME NEW p \in Proc, Swap(p) PROVE BackInv'
  <2>1. /\ mem_table' = new_id[p] /\ entries'[new_id[p]] = {}
        /\ Len(frozen') = Len(frozen) + 1
    BY <1>11, SwapIds
  <2>2. Pending = 1 /\ Pending' = 0
    BY <1>11, <2>1 DEF Pending, BackInv, Swap
  <2>3. \A u \in Writer : at[u] # "put"
    BY <1>11 DEF Swap, ControlInv, BatchingInv
  <2>4. \A u \in Writer : at'[u] = at[u] \/ at'[u] \in {"throttle", "drain"}
    BY <1>0, <1>11 DEF Swap, AfterFreeze
  <2>5. Ready' \subseteq Ready
    BY <2>3, <2>4 DEF Ready
  <2> QED
    BY <1>0, <1>1, <1>2, <1>3, <2>1, <2>2, <2>5, DueStep DEF BackInv
<1>12. ASSUME NEW p \in Proc, Retire(p) PROVE BackInv'
  <2>1. Len(frozen') = Len(frozen) - 1 /\ Len(frozen) \in 1..Len(frozen)
    BY <1>12, RetireOldest
  <2>2. Len(frozen') \in Nat /\ Len(frozen') <= Len(frozen)
    BY <1>0, <2>1
  <2>3. UNCHANGED <<mem_table, entries, batch>> /\ at' = [at EXCEPT ![p] = "remove"]
    BY <1>12 DEF Retire
  <2>4. \A w \in Writer : at'[w] = at[w] \/ at'[w] = "remove"
    BY <1>0, <2>3
  <2> QED
    BY <1>4, <2>2, <2>3, <2>4
<1>13. ASSUME NEW p \in Proc,
              \/ FlushPick(p) \/ FlushNothing(p) \/ L0(p) \/ L0Fails(p)
              \/ RetireLock(p) \/ RemoveWal(p) \/ RemoveWalFails(p)
       PROVE  BackInv'
  <2>1. p \notin Writer
    BY <1>13 DEF FlushPick, FlushNothing, L0, L0Fails, RetireLock, RemoveWal,
                 RemoveWalFails, RoleInv, Flushing
  <2> QED
    BY <1>0, <1>4, <1>13, <2>1 DEF FlushPick, FlushNothing, L0, L0Fails, RetireLock,
                                  RemoveWal, RemoveWalFails
<1>14. CASE LoopFlag \/ LoopWake \/ DropHandle
  BY <1>0, <1>4, <1>14 DEF LoopFlag, LoopWake, DropHandle
<1>15. CASE UNCHANGED vars
  BY <1>0, <1>4, <1>15 DEF vars
<1> QED
  BY <1>5, <1>6, <1>7, <1>8, <1>9, <1>10, <1>11, <1>12, <1>13, <1>14, <1>15
  DEF Next, Freeze, FlushOldest

\* At most MAX_FROZEN memtables, one for each writer and one more are frozen at
\* any time, however slow or failing the flushes are, if there are finitely many
\* writers and no append and no new log fails.  (A writer whose append or new
\* log failed left its batch behind in the memtable and did not wait.)
THEOREM MemoryBounded ==
  IsFiniteSet(Writer) /\ "append" \notin Faults /\ "new_wal" \notin Faults /\ Spec
    => []BackpressureBound
<1> DEFINE Assumed == IsFiniteSet(Writer) /\ "append" \notin Faults /\ "new_wal" \notin Faults
<1>1. CASE Assumed
  <2>1. Init => BackInv
    BY <1>1, BackInit
  <2>2. IInv /\ BackInv /\ [Next]_vars => BackInv'
    BY <1>1, BackStep
  <2>3. IInv /\ BackInv => BackpressureBound
    <3> SUFFICES ASSUME IInv, BackInv PROVE BackpressureBound
      OBVIOUS
    <3>1. Len(frozen) \in Nat /\ Pending \in {0, 1} /\ MaxFrozen \in Nat
      BY StorageAssumption, LenProperties DEF IInv, TypeOK, Pending, StorageAssumption
    <3>2. Cardinality(Writer) \in Nat /\ Cardinality(Ready) \in Nat
      BY <1>1, FS_Subset, FS_CardinalityType DEF Ready
    <3> QED
      BY <3>1, <3>2 DEF BackInv, BackpressureBound
  <2> QED
    BY <2>1, <2>2, <2>3, Inductive, PTL DEF Spec
<1>2. CASE ~Assumed
  BY <1>2
<1> QED
  BY <1>1, <1>2

=============================================================================
