------------------------------- MODULE SSTable --------------------------------
(***************************************************************************)
(* The file format of a table (crate sstable): what SSTableWriter writes,  *)
(* and what SSTableMeta, SSTable::get and TableScan read back.             *)
(*                                                                         *)
(* Operators only; Compaction.tla holds the state.  A file maps the        *)
(* positions at which something begins to what begins there, so an offset  *)
(* that the writer counted wrongly leads nowhere.  A value is Delete or a  *)
(* string, and a string is its length.  Checksums are left out: nothing    *)
(* here damages a file.                                                    *)
(***************************************************************************)
EXTENDS Naturals, Sequences, FiniteSets

CONSTANTS Key,          \* user keys, numbered in their order
          Delete,       \* Value::Delete
          Absent,       \* Lookup::Absent
          None,         \* Option::None
          KeySize,      \* bytes of a key, with its length and sequence number
          BlockSize,    \* BLOCK_SIZE
          BlockHeader,  \* BLOCK_HEADER
          MaxBlock,     \* u16::MAX: the length of a block
          Hash,         \* [Key -> hash64 of it]
          WordBits,     \* a hash has so many bits,
          Rotation,     \* and is rotated to the left by so many for the step
          Probes,       \* bits set for a key
          BitsPerKey, MinBits

ASSUME SSTableAssumption ==
    /\ Key \subseteq Nat /\ Delete \notin Nat /\ Absent \notin Nat \cup {Delete}
    /\ None \notin {"order", "block length"}
    /\ {KeySize, BlockSize, BlockHeader, MaxBlock, Probes, MinBits} \subseteq Nat \ {0}
    /\ BitsPerKey \in Nat /\ WordBits \in Nat
    /\ BlockSize > BlockHeader /\ MaxBlock >= BlockSize
    /\ Rotation \in 0..WordBits
    /\ Hash \in [Key -> 0..(2^WordBits - 1)]

Smallest(S) == CHOOSE n \in S : \A m \in S : n <= m
Largest(S) == CHOOSE n \in S : \A m \in S : n >= m

\* Keys ascend, the versions of a key descend.
Less(u, v) == u[1] < v[1] \/ (u[1] = v[1] /\ u[2] > v[2])

-----------------------------------------------------------------------------
(* Entries.  An entry is a version <<key, seq>> and the length field that  *)
(* stands for its value.                                                   *)

Encode(value) == IF value = Delete THEN 0 ELSE value
Decode(length) == IF length = 0 THEN Delete ELSE length

ValueSize(length) == 2 + length
EntrySize(e) == KeySize + ValueSize(e.length)

Entry(version, value) == [key |-> version, length |-> Encode(value)]

-----------------------------------------------------------------------------
(* The bloom filter                                                        *)

Bits(n) ==
    LET bits == IF n * BitsPerKey > MinBits THEN n * BitsPerKey ELSE MinBits
    IN  8 * ((bits + 7) \div 8)

Rotate(h) == ((h * 2^Rotation) % 2^WordBits) + h \div 2^(WordBits - Rotation)

\* The positions of a hash: additions wrap.
Positions(h, nbits) ==
    {((h + p * Rotate(h)) % 2^WordBits) % nbits : p \in 0..(Probes - 1)}

Bloom(hashes) ==
    LET nbits == Bits(Len(hashes)) IN
    [nbits |-> nbits,
     set |-> UNION {Positions(hashes[n], nbits) : n \in DOMAIN hashes}]

MayContain(bloom, key) == Positions(Hash[key], bloom.nbits) \subseteq bloom.set

\* A length, the bits, and the number of probes.
BloomSize(bloom) == 4 + bloom.nbits \div 8 + 1

-----------------------------------------------------------------------------
(* Files, and the buffers that are written to them.  What begins at a      *)
(* position is a record of one field, its kind.                            *)

\* Bytes of which nothing is known yet.
Blank(size) == [size |-> size, at |-> [pos \in {} |-> pos]]

Put(at, pos, what) ==
    [p \in DOMAIN at \cup {pos} |-> IF p = pos THEN what ELSE at[p]]

Write(file, what, size) ==
    [size |-> file.size + size, at |-> Put(file.at, file.size, what)]

\* A whole buffer is written behind what the file holds.
WriteAll(file, buffer) ==
    [size |-> file.size + buffer.size,
     at |-> [p \in DOMAIN file.at \cup {file.size + b : b \in DOMAIN buffer.at} |->
                IF p \in DOMAIN file.at THEN file.at[p]
                                        ELSE buffer.at[p - file.size]]]

Garbage == [key |-> <<0, 0>>, length |-> 0, offset |-> 0, len |-> 0]

Read(file, pos, kind) ==
    IF pos \in DOMAIN file.at /\ kind \in DOMAIN file.at[pos]
    THEN file.at[pos][kind]
    ELSE Garbage

IndexedKeySize == KeySize + 8 + 2
FooterSize == 8 + 8 + 8 + 4 + 4 + 8 + 8 + 4

-----------------------------------------------------------------------------
(* SSTableWriter                                                           *)

\* reset_block: space for the header.
EmptyBlock == Blank(BlockHeader)

Create ==
    [file |-> Blank(0), block |-> EmptyBlock, offset |-> 0,
     index |-> <<>>, index_bytes |-> Blank(0), hashes |-> <<>>, entries |-> 0,
     first_key |-> None, last_key |-> None, smallest_seq |-> 0, largest_seq |-> 0,
     error |-> None]

\* The block with its header filled in, and what the index has of it.
Headed(block) ==
    [block EXCEPT !.at = Put(@, 0, [header |-> [len |-> block.size - BlockHeader]])]

IndexedKey(w) == [key |-> w.last_key, offset |-> w.offset, len |-> w.block.size]

\* Broken: the block stays in the buffer.
FlushBlockAndKeep(w) ==
    IF w.block.size <= BlockHeader THEN w
    ELSE IF w.block.size > MaxBlock THEN [w EXCEPT !.error = "block length"]
    ELSE [w EXCEPT
            !.file = WriteAll(@, Headed(w.block)),
            !.index_bytes = Write(@, [index |-> IndexedKey(w)], IndexedKeySize),
            !.index = Append(@, IndexedKey(w)),
            !.offset = @ + w.block.size]

\* A block whose length does not fit the length field is an error; the memtable
\* it is from is never flushed.  (A key or value that is too long for its own
\* length field is an error of encode in the same call of add; the block it would
\* be in is too long as well, and so both are one error here.)
FlushBlock(w) ==
    IF w.block.size <= BlockHeader THEN w
    ELSE IF w.block.size > MaxBlock THEN [w EXCEPT !.error = "block length"]
    ELSE [w EXCEPT
            !.file = WriteAll(@, Headed(w.block)),
            !.index_bytes = Write(@, [index |-> IndexedKey(w)], IndexedKeySize),
            !.index = Append(@, IndexedKey(w)),
            !.offset = @ + w.block.size,
            !.block = EmptyBlock]

OutOfOrder(w, e) == w.entries > 0 /\ Less(e.key, w.last_key)

\* The entry goes into the block; a block is written once it is longer than
\* BLOCK_SIZE, so it is longer by what does not fit of its last entry.
Added(w, e) ==
    LET first == w.entries = 0
        seq == e.key[2]
    IN  [w EXCEPT
           !.block = Write(@, [entry |-> e], EntrySize(e)),
           !.hashes = IF first \/ w.last_key[1] # e.key[1]
                      THEN Append(@, Hash[e.key[1]]) ELSE @,
           !.entries = @ + 1,
           !.first_key = IF first THEN e.key ELSE @,
           !.last_key = e.key,
           !.smallest_seq = IF first THEN seq ELSE Smallest({@, seq}),
           !.largest_seq = IF first THEN seq ELSE Largest({@, seq})]

Add(w, e) ==
    IF OutOfOrder(w, e) THEN [w EXCEPT !.error = "order"]
    ELSE IF Added(w, e).block.size > BlockSize THEN FlushBlock(Added(w, e))
    ELSE Added(w, e)

PutBloom(file, bloom) == Write(file, [bloom |-> bloom], BloomSize(bloom))

\* Broken: the bloom filter is not counted.
IndexOffsetNoBloom(w) == w.offset

\* Where the index begins: behind the blocks and the bloom filter.
IndexOffset(w) == w.offset + BloomSize(Bloom(w.hashes))

Footer(w) ==
    [entries |-> w.entries, bloom_off |-> w.offset,
     index_off |-> IndexOffset(w), index_len |-> Len(w.index) * IndexedKeySize,
     index_count |-> Len(w.index),
     smallest_seq |-> w.smallest_seq, largest_seq |-> w.largest_seq]

\* The last block, the filter, the index and the footer; what finish returns.
\* A writer without an entry leaves no file.
Finish(last) ==
    LET w == FlushBlock(last)
        bloom == Bloom(w.hashes)
    IN  [file |-> Write(WriteAll(PutBloom(w.file, bloom), w.index_bytes),
                        [footer |-> Footer(w)], FooterSize),
         meta |-> [file_size |-> IndexOffset(w) + Footer(w).index_len + FooterSize,
                   first_key |-> w.first_key, last_key |-> w.last_key,
                   bloom |-> bloom, index |-> w.index, footer |-> Footer(w)]]

-----------------------------------------------------------------------------
(* SSTableMeta::read and SSTable::get                                      *)

ReadFooter(file) == Read(file, file.size - FooterSize, "footer")

\* index_len bytes of the index, whatever index_count says.
ReadIndex(file, footer) ==
    [n \in 1..(footer.index_len \div IndexedKeySize) |->
        Read(file, footer.index_off + (n - 1) * IndexedKeySize, "index")]

ReadBloom(file, footer) == Read(file, footer.bloom_off, "bloom")

\* Behind the header of the first block.
ReadFirstKey(file) == Read(file, BlockHeader, "entry").key

ReadMeta(file) ==
    LET footer == ReadFooter(file)
        index == ReadIndex(file, footer)
    IN  [file_size |-> file.size,
         first_key |-> ReadFirstKey(file),
         last_key |-> index[Len(index)].key,
         bloom |-> ReadBloom(file, footer),
         index |-> index,
         footer |-> footer]

\* Broken: a block that ends with the very version is passed over.
PassedOrEqual(index, target) ==
    Cardinality({n \in DOMAIN index : ~Less(target, index[n].key)})

\* partition_point: how many blocks end before the target.
Passed(index, target) ==
    Cardinality({n \in DOMAIN index : Less(index[n].key, target)})

\* What begins within a block, and the entries that a Cursor yields of it.
ReadBlock(file, handle) ==
    {pos \in DOMAIN file.at : /\ handle.offset <= pos
                              /\ pos < handle.offset + handle.len}

Entries(file, handle) ==
    {pos \in ReadBlock(file, handle) : pos >= handle.offset + BlockHeader}

\* The first entry of one block, the one that cannot end before the target, that
\* is not before the target itself.
Get(file, meta, key, snapshot) ==
    LET target == <<key, snapshot>>
        block == Passed(meta.index, target) + 1
        hits == {pos \in Entries(file, meta.index[block]) :
                    ~Less(Read(file, pos, "entry").key, target)}
        entry == Read(file, Smallest(hits), "entry")
    IN  IF \/ key < meta.first_key[1] \/ key > meta.last_key[1]
           \/ ~MayContain(meta.bloom, key)
           \/ block > Len(meta.index)
           \/ hits = {}
           \/ entry.key[1] # key
        THEN Absent
        ELSE Decode(entry.length)

-----------------------------------------------------------------------------
(* TableScan                                                               *)

\* Broken: the scan runs to the end of the file.
OpenScanWholeFile(file) == [pos |-> 0, block_remaining |-> 0, remaining |-> file.size]

\* The blocks end where the bloom filter begins.
OpenScan(file) ==
    [pos |-> 0, block_remaining |-> 0, remaining |-> ReadFooter(file).bloom_off]

\* check_block, when the last block is used up.
CheckBlock(file, scan) ==
    IF scan.block_remaining > 0
    THEN scan
    ELSE [pos |-> scan.pos + BlockHeader,
          block_remaining |-> Read(file, scan.pos, "header").len,
          remaining |-> scan.remaining - BlockHeader]

AtEnd(scan) == scan.remaining = 0

ScanEntry(file, scan) == Read(file, CheckBlock(file, scan).pos, "entry")

\* The errors of next: a truncated header, an empty block, an entry that crosses
\* the end of its block or of the blocks.
Corrupt(file, scan) ==
    LET in == CheckBlock(file, scan)
        used == EntrySize(ScanEntry(file, scan))
    IN  \/ scan.block_remaining = 0 /\ scan.remaining < BlockHeader
        \/ in.block_remaining < used
        \/ in.remaining < used

ScanNext(file, scan) ==
    LET in == CheckBlock(file, scan)
        used == EntrySize(ScanEntry(file, scan))
    IN  [pos |-> in.pos + used,
         block_remaining |-> in.block_remaining - used,
         remaining |-> in.remaining - used]

=============================================================================
