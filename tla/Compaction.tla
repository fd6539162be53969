------------------------------ MODULE Compaction ------------------------------
(***************************************************************************)
(* Tables are written with SSTableWriter, one entry at a time, and then    *)
(* some of them are merged by compact (sstable/src/scan.rs): a MergeScan   *)
(* over their TableScans, a CompactionScan over that, and a writer.        *)
(*                                                                         *)
(* write_l0 gives the writer the newest version of each key; the writer    *)
(* itself takes any entries in order, and so does this module.  Nothing in *)
(* the engine calls compact yet.                                           *)
(***************************************************************************)
EXTENDS SSTable

CONSTANTS Given,        \* the entries [key, value] that may be added
          MaxSeq,       \* bound: the sequence numbers of the entries
          MaxEntries,   \* bound: entries given to one writer
          MaxTables     \* bound: tables written before the compaction

ASSUME CompactionAssumption ==
    /\ MaxSeq \in Nat /\ MaxEntries \in Nat /\ MaxTables \in Nat
    /\ Given \subseteq [key : Key \X (0..MaxSeq), value : Nat \cup {Delete}]
    /\ \A d, e \in Given : d.key = e.key => d = e
    /\ None \notin [key : Key \X Nat, value : Nat \cup {Delete}]

VARIABLES
    phase,
    writer,     \* the SSTableWriter in use
    tables,     \* the finished tables: their file, and their meta in memory
    given,      \* history: [table -> the entries its writer was given]
    scans,      \* [input -> its TableScan]
    heap,       \* {<<key, input>>}
    pending,    \* [input -> the value that belongs to its key in the heap]
    curr        \* CompactionScan.curr

mergeVars == <<scans, heap, pending, curr>>
vars == <<phase, writer, tables, given, mergeVars>>

Init ==
    /\ phase = "idle"
    /\ writer = Create
    /\ tables = <<>>
    /\ given = <<>>
    /\ scans = <<>> /\ heap = {} /\ pending = <<>> /\ curr = None

-----------------------------------------------------------------------------
(* Writing a table                                                         *)

Begin ==
    /\ phase = "idle"
    /\ Len(tables) < MaxTables
    /\ phase' = "add"
    /\ writer' = Create
    /\ given' = Append(given, {})
    /\ UNCHANGED <<tables, mergeVars>>

\* Gives the writer an entry; an error ends whatever it is writing.
Give(version, value, next) ==
    LET w == Add(writer, Entry(version, value)) IN
    /\ writer' = w
    /\ given' = [given EXCEPT ![Len(given)] =
                   @ \cup {[key |-> version, value |-> value]}]
    /\ phase' = IF w.error = None THEN next ELSE "failed"

\* The iterator of a memtable ascends.
AddNext ==
    \E e \in Given :
        /\ phase = "add"
        /\ writer.entries < MaxEntries
        /\ writer.entries > 0 => Less(writer.last_key, e.key)
        /\ Give(e.key, e.value, "add")
        /\ UNCHANGED <<tables, mergeVars>>

\* The temporary file gets its name only now.
FinishTable ==
    /\ phase = "add"
    /\ writer.entries > 0
    /\ tables' = Append(tables, Finish(writer))
    /\ writer' = Create
    /\ phase' = "idle"
    /\ UNCHANGED <<given, mergeVars>>

-----------------------------------------------------------------------------
(* compact                                                                 *)

\* What advance finds in the table of an input.
Advance(i, scan) ==
    LET file == tables[i].file IN
    IF AtEnd(scan)
    THEN [ok |-> TRUE, scan |-> scan, value |-> None, heap |-> {}]
    ELSE LET entry == ScanEntry(file, scan) IN
         [ok |-> ~Corrupt(file, scan),
          scan |-> ScanNext(file, scan),
          value |-> Decode(entry.length),
          heap |-> {<<entry.key, i>>}]

\* MergeScan::new opens the inputs and advances each once.
Compact ==
    \E inputs \in SUBSET DOMAIN tables :
        LET first == [i \in inputs |-> Advance(i, OpenScan(tables[i].file))] IN
        /\ phase = "idle"
        /\ phase' = IF \A i \in inputs : first[i].ok THEN "merge" ELSE "failed"
        /\ scans' = [i \in inputs |-> first[i].scan]
        /\ pending' = [i \in inputs |-> first[i].value]
        /\ heap' = UNION {first[i].heap : i \in inputs}
        /\ curr' = None
        /\ writer' = Create
        /\ given' = Append(given, {})
        /\ UNCHANGED tables

\* Broken: the oldest version of a key comes first.
TopOldest ==
    CHOOSE h \in heap :
        \A g \in heap : \/ h[1][1] < g[1][1]
                        \/ h[1][1] = g[1][1] /\ h[1][2] < g[1][2]
                        \/ h[1] = g[1] /\ h[2] <= g[2]

\* The heap gives the least key, of equal ones that of the first input.
Top ==
    CHOOSE h \in heap :
        \A g \in heap : Less(h[1], g[1]) \/ (h[1] = g[1] /\ h[2] <= g[2])

\* MergeScan::next, and what becomes of curr.
Pop ==
    LET i == Top[2]
        next == Advance(i, scans[i])
    IN  /\ phase = "merge" /\ heap # {}
        /\ heap' = (heap \ {Top}) \cup next.heap
        /\ scans' = [scans EXCEPT ![i] = next.scan]
        /\ pending' = [pending EXCEPT ![i] = next.value]

Popped == [key |-> Top[1], value |-> pending[Top[2]]]

\* What is popped belongs to the key of curr, or curr is complete and has a value.
Same == curr # None /\ curr.key[1] = Popped.key[1]
Due == curr # None /\ ~Same /\ curr.value # Delete

PopOk == LET i == Top[2] IN Advance(i, scans[i]).ok

\* Another version of the key of curr is an older one.
Supersede ==
    /\ Pop
    /\ Same
    /\ phase' = IF PopOk THEN "merge" ELSE "failed"
    /\ UNCHANGED <<writer, tables, given, curr>>

\* CompactionScan::new, or a key after one that was deleted.
Replace ==
    /\ Pop
    /\ ~Same /\ ~Due
    /\ curr' = Popped
    /\ phase' = IF PopOk THEN "merge" ELSE "failed"
    /\ UNCHANGED <<writer, tables, given>>

\* A key after one that has a value: that one goes to the writer.
Emit ==
    /\ Pop
    /\ Due
    /\ curr' = Popped
    /\ IF PopOk
       THEN Give(curr.key, curr.value, "merge")
       ELSE phase' = "failed" /\ UNCHANGED <<writer, given>>
    /\ UNCHANGED tables

\* The last key is given to the writer even if it was deleted.
EmitLast ==
    /\ phase = "merge" /\ heap = {} /\ curr # None
    /\ curr' = None
    /\ Give(curr.key, curr.value, "merge")
    /\ UNCHANGED <<tables, scans, heap, pending>>

\* Without an entry, that is without an input, there is no table.
FinishCompaction ==
    /\ phase = "merge" /\ heap = {} /\ curr = None
    /\ tables' = IF writer.entries = 0 THEN tables ELSE Append(tables, Finish(writer))
    /\ phase' = "compacted"
    /\ UNCHANGED <<writer, given, mergeVars>>

-----------------------------------------------------------------------------

Next ==
    \/ Begin \/ AddNext \/ FinishTable
    \/ Compact \/ Supersede \/ Replace \/ Emit \/ EmitLast \/ FinishCompaction

Spec == Init /\ [][Next]_vars

-----------------------------------------------------------------------------
(* Properties.  The operators marked "Broken" are faults of the kind the   *)
(* properties are there to catch; no action uses them.                     *)

\* Every variable holds a value of its type.
TypeOK ==
    /\ phase \in {"idle", "add", "merge", "compacted", "failed"}
    /\ writer.block.size >= BlockHeader
    /\ phase # "failed" => writer.block.size <= BlockSize
    /\ writer.error \in {None, "order", "block length"}
    /\ \A n \in DOMAIN tables : tables[n].meta.file_size \in Nat
    /\ given \in Seq(SUBSET [key : Key \X Nat, value : Nat \cup {Delete}])
    /\ DOMAIN scans \subseteq DOMAIN tables /\ DOMAIN pending = DOMAIN scans
    /\ heap \subseteq (Key \X Nat) \X DOMAIN scans
    /\ curr \in {None} \cup [key : Key \X Nat, value : Nat \cup {Delete}]

\* An empty string comes back as a deletion, every other value as it was given.
AsRead(value) == IF value = 0 THEN Delete ELSE value

\* What a reader at a sequence number finds in a set of entries.
Newest(entries, key, snapshot) ==
    LET old == {e \in entries : e.key[1] = key /\ e.key[2] <= snapshot}
        seq == Largest({e.key[2] : e \in old})
    IN  IF old = {} THEN Absent
        ELSE AsRead((CHOOSE e \in old : e.key[2] = seq).value)

JustFinished == phase \in {"idle", "compacted"} /\ Len(tables) = Len(given) /\ tables # <<>>

LastTable == tables[Len(tables)]
LastGiven == given[Len(given)]

\* SSTable::get answers for every key and every snapshot as if it looked through
\* all that the table was written from: neither the key range, nor the bloom
\* filter, nor the choice of one block loses a version, not even where the
\* versions of a key lie in two blocks.
GetExact ==
    JustFinished =>
        \A key \in Key, snapshot \in 0..MaxSeq :
            Get(LastTable.file, LastTable.meta, key, snapshot)
                = Newest(LastGiven, key, snapshot)

\* Opening the file finds what finish kept in memory: the writer counts offsets
\* the way the reader needs them.  The largest number, from which a restarted
\* database numbers its commits, is that of the entries.
ReopenExact ==
    JustFinished =>
        /\ ReadMeta(LastTable.file) = LastTable.meta
        /\ LastTable.meta.footer.largest_seq = Largest({e.key[2] : e \in LastGiven})

\* What a reader of everything finds; a deletion is as good as nothing.
Value(entries, key) ==
    LET found == Newest(entries, key, MaxSeq) IN
    IF found = Absent THEN Delete ELSE found

\* compact neither loses nor revives a key: what its inputs hold for the key is
\* in the output, once, if it is a value, and hidden or absent if it is not.
MergeExact ==
    phase = "compacted" =>
        \A key \in Key :
            /\ Value(LastGiven, key) = Value(UNION {given[i] : i \in DOMAIN scans}, key)
            /\ Cardinality({e \in LastGiven : e.key[1] = key}) <= 1

\* The entry added last, while it is in the buffer.
LastEntry(block) == block.at[Largest(DOMAIN block.at)].entry

\* Reading tables never fails, and writing one fails only over an entry that is
\* nearly as long as a block may be.
FailsOnlyOversize ==
    phase = "failed" =>
        /\ writer.error = "block length"
        /\ EntrySize(LastEntry(writer.block)) > MaxBlock - BlockSize

=============================================================================
