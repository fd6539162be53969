---------------------------- MODULE SSTableProofs ----------------------------
(***************************************************************************)
(* What SSTable.tla computes, for every block size and every entry: a      *)
(* writer that is given entries in order has them all in its file and its  *)
(* buffer, in order and without a gap (WriterInv); a table that it has     *)
(* finished can be opened again, answers every lookup as the entries would *)
(* and yields them all to a scan.                                          *)
(*                                                                         *)
(* Nothing is shown by induction on the entries.  The invariant says of    *)
(* every position what begins there and where the next thing begins.       *)
(***************************************************************************)
EXTENDS SSTable, ListLemmas

-----------------------------------------------------------------------------
(* What is written where.                                                  *)

\* What a writer can be given, and what it makes of it.
Facts == [key : Key \X Nat, value : Nat \cup {Delete}]

Stored == [key : Key \X Nat, length : Nat]

Handles == [key : Key \X Nat, offset : Nat, len : Nat]

\* The entries for what was given.
Kept(given) == {Entry(g.key, g.value) : g \in given}

\* Nothing begins behind the end.
IsFile(file) ==
    /\ file = [size |-> file.size, at |-> file.at]
    /\ file.size \in Nat
    /\ DOMAIN file.at \subseteq 0..(file.size - 1)

\* The size of what begins at a position, when that is an entry.
SizeAt(file, p) == EntrySize(file.at[p].entry)

\* From one position to another there are entries, one behind the other and in
\* order.
Run(file, from, to) ==
    /\ from < to => from \in DOMAIN file.at
    /\ \A p \in DOMAIN file.at : from <= p /\ p < to =>
        /\ file.at[p].entry \in Stored
        /\ file.at[p] = [entry |-> file.at[p].entry]
        /\ p + SizeAt(file, p) <= to
        /\ p + SizeAt(file, p) < to => p + SizeAt(file, p) \in DOMAIN file.at
        /\ \A q \in DOMAIN file.at : q < to /\ p < q =>
            /\ p + SizeAt(file, p) <= q
            /\ Less(file.at[p].entry.key, file.at[q].entry.key)

\* A block with its header; the index names its last entry.
Block(file, h) ==
    /\ BlockHeader < h.len
    /\ h.offset \in DOMAIN file.at
    /\ file.at[h.offset] = [header |-> [len |-> h.len - BlockHeader]]
    /\ \A p \in DOMAIN file.at : ~(h.offset < p /\ p < h.offset + BlockHeader)
    /\ Run(file, h.offset + BlockHeader, h.offset + h.len)
    /\ \E p \in Entries(file, h) : file.at[p].entry.key = h.key
    /\ \A p \in Entries(file, h) : ~Less(h.key, file.at[p].entry.key)

\* The blocks of the index lie side by side, up to the end, and their entries
\* are in order.
Blocks(file, index, end) ==
    /\ index \in Seq(Handles)
    /\ end \in Nat
    /\ \A n \in DOMAIN index :
        /\ Block(file, index[n])
        /\ index[n].offset + index[n].len =
             IF n = Len(index) THEN end ELSE index[n + 1].offset
    /\ IF index = <<>> THEN end = 0 ELSE index[1].offset = 0
    /\ \A p \in DOMAIN file.at : p < end =>
        \E n \in DOMAIN index :
            index[n].offset <= p /\ p < index[n].offset + index[n].len
    /\ \A n, m \in DOMAIN index : n < m =>
        /\ index[n].offset + index[n].len <= index[m].offset
        /\ \A p \in Entries(file, index[n]), q \in Entries(file, index[m]) :
            Less(file.at[p].entry.key, file.at[q].entry.key)

\* Where entries begin in the blocks, and these entries.
Places(file, index) == UNION {Entries(file, index[n]) : n \in DOMAIN index}

Written(file, index) == {file.at[p].entry : p \in Places(file, index)}

-----------------------------------------------------------------------------
(* The invariant of a writer.                                              *)

\* The handles as they will be read.
IndexBytes(w) ==
    /\ IsFile(w.index_bytes)
    /\ w.index_bytes.size = Len(w.index) * IndexedKeySize
    /\ \A n \in DOMAIN w.index :
        /\ (n - 1) * IndexedKeySize \in DOMAIN w.index_bytes.at
        /\ w.index_bytes.at[(n - 1) * IndexedKeySize] = [index |-> w.index[n]]

Buffered(w) == {w.block.at[p].entry : p \in DOMAIN w.block.at}

BufferInv(w) ==
    /\ IsFile(w.block)
    /\ BlockHeader <= w.block.size
    /\ \A p \in DOMAIN w.block.at : BlockHeader <= p
    /\ Run(w.block, BlockHeader, w.block.size)
    /\ BlockHeader < w.block.size =>
         \E e \in Buffered(w) : e.key = w.last_key

\* The least and the greatest key, and the greatest number.
Ends(least, greatest, seq, given) ==
    /\ \E g \in given : g.key = least
    /\ \E g \in given : g.key = greatest
    /\ \E g \in given : g.key[2] = seq
    /\ \A g \in given : ~Less(g.key, least) /\ ~Less(greatest, g.key) /\ g.key[2] <= seq

\* The fields of a writer without an error.
IsWriter(w) ==
    /\ DOMAIN w = {"file", "block", "offset", "index", "index_bytes", "hashes", "entries",
                   "first_key", "last_key", "smallest_seq", "largest_seq", "error"}
    /\ w.error = None

FileInv(w) ==
    /\ IsFile(w.file) /\ w.file.size = w.offset
    /\ Blocks(w.file, w.index, w.offset)
    /\ IndexBytes(w)

HashInv(w, given) ==
    /\ w.hashes \in Seq({Hash[k] : k \in Key})
    /\ \A g \in given : \E n \in DOMAIN w.hashes : w.hashes[n] = Hash[g.key[1]]

\* What was given is in the file or in the buffer.
KeptInv(w, given) ==
    /\ Kept(given) = Written(w.file, w.index) \cup Buffered(w)
    /\ \A d \in Written(w.file, w.index), e \in Buffered(w) : Less(d.key, e.key)

CountInv(w, given) ==
    /\ w.entries \in Nat
    /\ w.entries = 0 <=> given = {}
    /\ w.entries > 0 => Ends(w.first_key, w.last_key, w.largest_seq, given)

WriterInv(w, given) ==
    /\ IsWriter(w)
    /\ FileInv(w) /\ BufferInv(w)
    /\ given \subseteq Facts
    /\ KeptInv(w, given) /\ CountInv(w, given) /\ HashInv(w, given)

-----------------------------------------------------------------------------
(* Versions and sizes.                                                     *)

\* Less is a strict total order.
LEMMA Order ==
  /\ \A u \in Nat \X Nat : ~Less(u, u)
  /\ \A u, v \in Nat \X Nat : Less(u, v) \/ u = v \/ Less(v, u)
  /\ \A u, v, w \in Nat \X Nat : Less(u, v) /\ Less(v, w) => Less(u, w)
  BY DEF Less

\* The versions are among those that it orders.
LEMMA Versions == Key \X Nat \subseteq Nat \X Nat
  BY SSTableAssumption DEF SSTableAssumption

\* The sizes are positive.
LEMMA Sizes ==
  /\ KeySize \in Nat /\ KeySize > 0
  /\ BlockHeader \in Nat /\ BlockHeader > 0
  /\ BlockSize \in Nat /\ BlockSize > BlockHeader
  /\ MaxBlock \in Nat /\ MaxBlock >= BlockSize
  /\ IndexedKeySize \in Nat /\ IndexedKeySize > 0
  /\ FooterSize \in Nat /\ FooterSize > 0
<1>1. /\ {KeySize, BlockSize, BlockHeader, MaxBlock, Probes, MinBits} \subseteq Nat \ {0}
      /\ BlockSize > BlockHeader /\ MaxBlock >= BlockSize
  BY SSTableAssumption, Zenon DEF SSTableAssumption
<1> QED
  BY <1>1 DEF IndexedKeySize, FooterSize

\* An entry has a size, and its length says what its value is.
LEMMA EntryIs ==
  ASSUME NEW g \in Facts
  PROVE  /\ Entry(g.key, g.value) \in Stored
         /\ Entry(g.key, g.value).key = g.key
         /\ Entry(g.key, g.value).length = Encode(g.value)
  BY DEF Facts, Stored, Entry, Encode

LEMMA EntryHasSize ==
  ASSUME NEW e \in Stored
  PROVE  EntrySize(e) \in Nat /\ EntrySize(e) > 0
  BY Sizes DEF Stored, EntrySize, ValueSize

\* What is decoded stays the same when it is written and read once more.
LEMMA Decoded ==
  ASSUME NEW l \in Nat
  PROVE  /\ Decode(l) \in Nat \cup {Delete}
         /\ Decode(Encode(Decode(l))) = Decode(l)
  BY SSTableAssumption DEF SSTableAssumption, Decode, Encode

-----------------------------------------------------------------------------
(* Writing.                                                                *)

\* What a single write does to a file.
LEMMA WriteIs ==
  ASSUME NEW file, IsFile(file), NEW what, NEW size \in Nat, size > 0
  PROVE  /\ IsFile(Write(file, what, size))
         /\ Write(file, what, size).size = file.size + size
         /\ DOMAIN Write(file, what, size).at = DOMAIN file.at \cup {file.size}
         /\ file.size \notin DOMAIN file.at
         /\ Write(file, what, size).at[file.size] = what
         /\ \A p \in DOMAIN file.at : Write(file, what, size).at[p] = file.at[p]
  BY DEF IsFile, Write, Put

\* What writing a buffer does to it.
LEMMA WriteAllIs ==
  ASSUME NEW file, IsFile(file), NEW buffer, IsFile(buffer)
  PROVE  /\ IsFile(WriteAll(file, buffer))
         /\ WriteAll(file, buffer).size = file.size + buffer.size
         /\ DOMAIN WriteAll(file, buffer).at =
              DOMAIN file.at \cup {file.size + b : b \in DOMAIN buffer.at}
         /\ \A p \in DOMAIN file.at : WriteAll(file, buffer).at[p] = file.at[p]
         /\ \A b \in DOMAIN buffer.at :
              /\ file.size + b \notin DOMAIN file.at
              /\ WriteAll(file, buffer).at[file.size + b] = buffer.at[b]
<1> DEFINE all == WriteAll(file, buffer)
           D == DOMAIN file.at \cup {file.size + b : b \in DOMAIN buffer.at}
<1>1. /\ all.size = file.size + buffer.size
      /\ all = [size |-> all.size, at |-> all.at]
      /\ DOMAIN all.at = D
      /\ \A p \in D : all.at[p] = IF p \in DOMAIN file.at THEN file.at[p]
                                  ELSE buffer.at[p - file.size]
  BY DEF WriteAll
<1>2. /\ file.size \in Nat /\ DOMAIN file.at \subseteq 0..(file.size - 1)
      /\ buffer.size \in Nat /\ DOMAIN buffer.at \subseteq 0..(buffer.size - 1)
  BY DEF IsFile
<1>3. D \subseteq 0..(all.size - 1)
  BY <1>1, <1>2
<1>4. ASSUME NEW b \in DOMAIN buffer.at
      PROVE  /\ file.size + b \notin DOMAIN file.at
             /\ all.at[file.size + b] = buffer.at[b]
  <2>1. b \in Nat /\ file.size + b \in D /\ (file.size + b) - file.size = b
    BY <1>2
  <2>2. file.size + b \notin DOMAIN file.at
    BY <1>2, <2>1
  <2> QED
    BY <1>1, <2>1, <2>2
<1> QED
  BY <1>1, <1>2, <1>3, <1>4 DEF IsFile

\* An empty buffer.
LEMMA BlankIs ==
  ASSUME NEW size \in Nat
  PROVE  IsFile(Blank(size)) /\ Blank(size).size = size /\ DOMAIN Blank(size).at = {}
  BY DEF IsFile, Blank

-----------------------------------------------------------------------------
(* Entries stay where they are when more is written behind them, and stay in
   order when a buffer becomes a part of a file.                           *)

\* A run does not depend on what is elsewhere.
LEMMA RunSame ==
  ASSUME NEW file, NEW more, NEW from \in Nat, NEW to \in Nat,
         DOMAIN file.at \subseteq Nat, DOMAIN more.at \subseteq Nat,
         \A p \in Nat : from <= p /\ p < to =>
            /\ p \in DOMAIN file.at <=> p \in DOMAIN more.at
            /\ p \in DOMAIN file.at => more.at[p] = file.at[p],
         Run(file, from, to)
  PROVE  Run(more, from, to)
<1>1. from < to => from \in DOMAIN more.at
  BY DEF Run
<1>2. ASSUME NEW p \in DOMAIN more.at, from <= p, p < to
      PROVE  /\ more.at[p].entry \in Stored
             /\ more.at[p] = [entry |-> more.at[p].entry]
             /\ p + SizeAt(more, p) <= to
             /\ p + SizeAt(more, p) < to => p + SizeAt(more, p) \in DOMAIN more.at
             /\ \A q \in DOMAIN more.at : q < to /\ p < q =>
                 /\ p + SizeAt(more, p) <= q
                 /\ Less(more.at[p].entry.key, more.at[q].entry.key)
  <2>1. p \in Nat /\ p \in DOMAIN file.at /\ more.at[p] = file.at[p]
    BY <1>2
  <2>2. /\ file.at[p].entry \in Stored
        /\ file.at[p] = [entry |-> file.at[p].entry]
        /\ p + SizeAt(file, p) <= to
        /\ p + SizeAt(file, p) < to => p + SizeAt(file, p) \in DOMAIN file.at
        /\ \A q \in DOMAIN file.at : q < to /\ p < q =>
            /\ p + SizeAt(file, p) <= q
            /\ Less(file.at[p].entry.key, file.at[q].entry.key)
    BY <1>2, <2>1 DEF Run
  <2>3. SizeAt(more, p) = SizeAt(file, p) /\ SizeAt(file, p) \in Nat
    BY <2>1, <2>2, EntryHasSize DEF SizeAt
  <2>4. p + SizeAt(file, p) < to => p + SizeAt(file, p) \in DOMAIN more.at
    BY <2>1, <2>2, <2>3, <1>2
  <2>5. ASSUME NEW q \in DOMAIN more.at, q < to, p < q
        PROVE  q \in DOMAIN file.at /\ more.at[q] = file.at[q]
    BY <2>1, <2>5, <1>2
  <2> QED
    BY <2>1, <2>2, <2>3, <2>4, <2>5
<1> QED
  BY <1>1, <1>2 DEF Run

\* A run of a buffer is one of the file it is written to.
LEMMA RunWritten ==
  ASSUME NEW file, IsFile(file), NEW buffer, IsFile(buffer),
         NEW from \in Nat, NEW to \in Nat, Run(buffer, from, to)
  PROVE  Run(WriteAll(file, buffer), file.size + from, file.size + to)
<1> DEFINE all == WriteAll(file, buffer)
<1>1. /\ file.size \in Nat
      /\ DOMAIN file.at \subseteq 0..(file.size - 1)
      /\ DOMAIN buffer.at \subseteq 0..(buffer.size - 1) /\ buffer.size \in Nat
      /\ DOMAIN all.at = DOMAIN file.at \cup {file.size + b : b \in DOMAIN buffer.at}
      /\ \A b \in DOMAIN buffer.at : all.at[file.size + b] = buffer.at[b]
  BY WriteAllIs DEF IsFile
<1> HIDE DEF all
<1>2. ASSUME NEW p \in DOMAIN all.at, file.size + from <= p
      PROVE  \E b \in DOMAIN buffer.at : p = file.size + b /\ from <= b
  BY <1>1, <1>2
<1>3. from < to => file.size + from \in DOMAIN all.at
  BY <1>1 DEF Run
<1>4. ASSUME NEW p \in DOMAIN all.at, file.size + from <= p, p < file.size + to
      PROVE  /\ all.at[p].entry \in Stored
             /\ all.at[p] = [entry |-> all.at[p].entry]
             /\ p + SizeAt(all, p) <= file.size + to
             /\ p + SizeAt(all, p) < file.size + to => p + SizeAt(all, p) \in DOMAIN all.at
             /\ \A q \in DOMAIN all.at : q < file.size + to /\ p < q =>
                 /\ p + SizeAt(all, p) <= q
                 /\ Less(all.at[p].entry.key, all.at[q].entry.key)
  <2>1. PICK b \in DOMAIN buffer.at : p = file.size + b /\ from <= b
    BY <1>2, <1>4
  <2>2. b \in Nat /\ b < to /\ all.at[p] = buffer.at[b]
    BY <1>1, <1>4, <2>1
  <2>3. /\ buffer.at[b].entry \in Stored
        /\ buffer.at[b] = [entry |-> buffer.at[b].entry]
        /\ b + SizeAt(buffer, b) <= to
        /\ b + SizeAt(buffer, b) < to => b + SizeAt(buffer, b) \in DOMAIN buffer.at
        /\ \A c \in DOMAIN buffer.at : c < to /\ b < c =>
            /\ b + SizeAt(buffer, b) <= c
            /\ Less(buffer.at[b].entry.key, buffer.at[c].entry.key)
    BY <2>1, <2>2 DEF Run
  <2>4. SizeAt(all, p) = SizeAt(buffer, b) /\ SizeAt(buffer, b) \in Nat
    BY <2>2, <2>3, EntryHasSize DEF SizeAt
  <2>5. p + SizeAt(all, p) = file.size + (b + SizeAt(buffer, b))
    BY <2>1, <2>2, <2>4, <1>1
  <2>6. p + SizeAt(all, p) < file.size + to => p + SizeAt(all, p) \in DOMAIN all.at
    <3>1. p + SizeAt(all, p) < file.size + to => b + SizeAt(buffer, b) < to
      BY <2>2, <2>4, <2>5, <1>1
    <3> QED
      BY <3>1, <2>3, <2>5, <1>1
  <2>7. ASSUME NEW q \in DOMAIN all.at, q < file.size + to, p < q
        PROVE  /\ p + SizeAt(all, p) <= q
               /\ Less(all.at[p].entry.key, all.at[q].entry.key)
    <3>1. q \in Nat /\ file.size + from <= q
      BY <2>1, <2>2, <2>7, <1>1, <1>4
    <3>2. PICK c \in DOMAIN buffer.at : q = file.size + c /\ from <= c
      BY <1>2, <3>1
    <3>3. c \in Nat /\ c < to /\ b < c /\ all.at[q] = buffer.at[c]
      BY <1>1, <2>1, <2>2, <2>7, <3>2
    <3> QED
      BY <3>2, <3>3, <2>2, <2>3, <2>4, <2>5, <1>1
  <2> QED
    BY <2>2, <2>3, <2>4, <2>5, <2>6, <2>7, <1>1
<1>5. Run(all, file.size + from, file.size + to)
  BY <1>1, <1>3, <1>4 DEF Run
<1> QED
  BY <1>5 DEF all

\* Every block ends before the end, and is longer than its header.
LEMMA BlockEnds ==
  ASSUME NEW file, NEW index, NEW end, Blocks(file, index, end), NEW n \in DOMAIN index
  PROVE  /\ index[n] \in Handles
         /\ index[n].offset \in Nat /\ index[n].len \in Nat
         /\ BlockHeader < index[n].len
         /\ index[n].offset + index[n].len <= end
<1>1. /\ index \in Seq(Handles) /\ end \in Nat
      /\ \A m \in DOMAIN index :
          /\ Block(file, index[m])
          /\ index[m].offset + index[m].len =
               IF m = Len(index) THEN end ELSE index[m + 1].offset
      /\ \A l, m \in DOMAIN index : l < m =>
           index[l].offset + index[l].len <= index[m].offset
  BY DEF Blocks
<1>2. \A m \in DOMAIN index :
        /\ index[m] \in Handles
        /\ index[m].offset \in Nat /\ index[m].len \in Nat
  <2>1. \A m \in DOMAIN index : index[m] \in Handles
    BY <1>1
  <2> QED
    BY <2>1 DEF Handles
<1>3. Len(index) \in DOMAIN index /\ n <= Len(index) /\ n \in Nat
  BY <1>1
<1>4. BlockHeader < index[n].len
  BY <1>1 DEF Block
<1>5. index[n].offset + index[n].len <= end
  <2>1. CASE n = Len(index)
    BY <2>1, <1>1, <1>2
  <2>2. CASE n < Len(index)
    <3>1. index[n].offset + index[n].len <= index[Len(index)].offset
      BY <2>2, <1>1, <1>3
    <3>2. index[Len(index)].offset + index[Len(index)].len = end
      BY <1>1, <1>3
    <3> QED
      BY <3>1, <3>2, <1>1, <1>2, <1>3
  <2> QED
    BY <2>1, <2>2, <1>3
<1> QED
  BY <1>2, <1>4, <1>5

\* The entries of a block, one by one.
LEMMA EntriesAre ==
  ASSUME NEW file, DOMAIN file.at \subseteq Nat, NEW h \in Handles, NEW p
  PROVE  p \in Entries(file, h) <=>
           /\ p \in DOMAIN file.at
           /\ h.offset + BlockHeader <= p
           /\ p < h.offset + h.len
<1>1. h.offset \in Nat /\ BlockHeader \in Nat
  BY Sizes DEF Handles
<1> QED
  BY <1>1 DEF Entries, ReadBlock

\* Two files have the same blocks when they are the same up to the end.
LEMMA BlocksSame ==
  ASSUME NEW file, NEW more, NEW index, NEW end, Blocks(file, index, end),
         DOMAIN file.at \subseteq Nat, DOMAIN more.at \subseteq Nat,
         \A p \in Nat : p < end =>
            /\ p \in DOMAIN file.at <=> p \in DOMAIN more.at
            /\ p \in DOMAIN file.at => more.at[p] = file.at[p]
  PROVE  /\ Blocks(more, index, end)
         /\ \A n \in DOMAIN index : Entries(more, index[n]) = Entries(file, index[n])
         /\ Written(more, index) = Written(file, index)
<1>1. \A n \in DOMAIN index :
        /\ index[n] \in Handles
        /\ index[n].offset \in Nat /\ index[n].len \in Nat
        /\ BlockHeader < index[n].len
        /\ index[n].offset + index[n].len <= end
  BY BlockEnds
<1>2. end \in Nat /\ BlockHeader \in Nat /\ BlockHeader > 0
  BY Sizes DEF Blocks
<1>3. ASSUME NEW n \in DOMAIN index
      PROVE  /\ Entries(more, index[n]) = Entries(file, index[n])
             /\ \A p \in Entries(file, index[n]) :
                  p \in DOMAIN file.at /\ p \in Nat /\ more.at[p] = file.at[p]
  <2>1. \A p : p \in Entries(file, index[n]) =>
          p \in Nat /\ p < end /\ p \in DOMAIN file.at
    BY <1>1, <1>2, EntriesAre
  <2>2. \A p : p \in Entries(more, index[n]) =>
          p \in Nat /\ p < end /\ p \in DOMAIN more.at
    BY <1>1, <1>2, EntriesAre
  <2>3. \A p : p \in Entries(more, index[n]) <=> p \in Entries(file, index[n])
    BY <2>1, <2>2, <1>1, EntriesAre
  <2> QED
    BY <2>1, <2>3
<1>4. ASSUME NEW n \in DOMAIN index PROVE Block(more, index[n])
  <2> DEFINE h == index[n]
  <2>1. Block(file, h)
    BY DEF Blocks
  <2>2. Run(more, h.offset + BlockHeader, h.offset + h.len)
    <3>1. Run(file, h.offset + BlockHeader, h.offset + h.len)
      BY <2>1 DEF Block
    <3>2. h.offset + BlockHeader \in Nat /\ h.offset + h.len \in Nat /\ h.offset + h.len <= end
      BY <1>1, <1>2
    <3>3. \A p \in Nat : h.offset + BlockHeader <= p /\ p < h.offset + h.len =>
            /\ p \in DOMAIN file.at <=> p \in DOMAIN more.at
            /\ p \in DOMAIN file.at => more.at[p] = file.at[p]
      BY <3>2, <1>2
    <3> QED
      BY <3>1, <3>2, <3>3, RunSame
  <2>3. h.offset < end /\ h.offset + BlockHeader <= end
    BY <1>1, <1>2
  <2>4. h.offset \in DOMAIN more.at /\ more.at[h.offset] = [header |-> [len |-> h.len - BlockHeader]]
    BY <2>1, <2>3, <1>1 DEF Block
  <2>5. \A p \in DOMAIN more.at : ~(h.offset < p /\ p < h.offset + BlockHeader)
    <3> SUFFICES ASSUME NEW p \in DOMAIN more.at, h.offset < p, p < h.offset + BlockHeader
                 PROVE  FALSE
      OBVIOUS
    <3>1. p \in Nat /\ p < end
      BY <2>3, <1>1, <1>2
    <3> QED
      BY <3>1, <2>1 DEF Block
  <2>6. (\E p \in Entries(more, h) : more.at[p].entry.key = h.key)
        /\ \A p \in Entries(more, h) : ~Less(h.key, more.at[p].entry.key)
    BY <2>1, <1>3 DEF Block
  <2> QED
    BY <2>1, <2>2, <2>4, <2>5, <2>6 DEF Block
<1>5. \A p \in DOMAIN more.at : p < end =>
        \E n \in DOMAIN index :
            index[n].offset <= p /\ p < index[n].offset + index[n].len
  BY DEF Blocks
<1>6. \A n, m \in DOMAIN index : n < m =>
        /\ index[n].offset + index[n].len <= index[m].offset
        /\ \A p \in Entries(more, index[n]), q \in Entries(more, index[m]) :
            Less(more.at[p].entry.key, more.at[q].entry.key)
  BY <1>3 DEF Blocks
<1>7. Blocks(more, index, end)
  BY <1>4, <1>5, <1>6 DEF Blocks
<1>8. Written(more, index) = Written(file, index)
  BY <1>3 DEF Written, Places
<1> QED
  BY <1>3, <1>7, <1>8

-----------------------------------------------------------------------------
(* add.                                                                    *)

\* The larger of two numbers.
LEMMA LargestOfTwo ==
  ASSUME NEW a \in Nat, NEW b \in Nat
  PROVE  /\ Largest({a, b}) \in {a, b}
         /\ a <= Largest({a, b}) /\ b <= Largest({a, b})
<1>1. \E n \in {a, b} : \A m \in {a, b} : n >= m
  <2>1. CASE a <= b
    BY <2>1
  <2>2. CASE ~(a <= b)
    BY <2>2
  <2> QED
    BY <2>1, <2>2
<1> QED
  BY <1>1 DEF Largest

\* A new writer has nothing.
LEMMA CreateInv ==
  /\ WriterInv(Create, {}) /\ Create.block.size = BlockHeader
  /\ Create.entries = 0 /\ Create.error = None
<1>1. /\ IsFile(Blank(0)) /\ Blank(0).size = 0 /\ DOMAIN Blank(0).at = {}
      /\ IsFile(EmptyBlock) /\ EmptyBlock.size = BlockHeader
      /\ DOMAIN EmptyBlock.at = {} /\ BlockHeader \in Nat
  BY Sizes, BlankIs DEF EmptyBlock
<1> DEFINE w == Create
<1>2. /\ IsWriter(w)
      /\ w.file = Blank(0) /\ w.block = EmptyBlock /\ w.offset = 0 /\ w.index = <<>>
      /\ w.index_bytes = Blank(0) /\ w.hashes = <<>> /\ w.entries = 0 /\ w.error = None
  BY DEF Create, IsWriter
<1> HIDE DEF w
<1>3. /\ \A S : <<>> \in Seq(S)
      /\ Len(<<>>) = 0 /\ DOMAIN <<>> = {}
  BY EmptySeq
<1>4. Blocks(w.file, w.index, w.offset)
  BY <1>1, <1>2, <1>3 DEF Blocks
<1>5. IndexBytes(w)
  <2>1. 0 * IndexedKeySize = 0
    BY Sizes
  <2> QED
    BY <2>1, <1>1, <1>2, <1>3 DEF IndexBytes
<1>6. BufferInv(w)
  BY <1>1, <1>2 DEF BufferInv, Run
<1>7. Written(w.file, w.index) = {} /\ Buffered(w) = {} /\ Kept({}) = {}
  BY <1>1, <1>2, <1>3 DEF Written, Places, Buffered, Kept
<1>8. FileInv(w)
  BY <1>1, <1>2, <1>4, <1>5 DEF FileInv
<1>9. KeptInv(w, {})
  BY <1>7 DEF KeptInv
<1>10. CountInv(w, {})
  BY <1>2 DEF CountInv
<1>11. HashInv(w, {})
  BY <1>2, <1>3 DEF HashInv
<1>12. WriterInv(w, {})
  BY <1>2, <1>6, <1>8, <1>9, <1>10, <1>11 DEF WriterInv
<1> QED
  BY <1>1, <1>2, <1>12 DEF w

\* An entry behind all that was given goes to the end of the buffer.
LEMMA AddedInv ==
  ASSUME NEW w, NEW given, WriterInv(w, given),
         NEW g \in Facts, w.entries > 0 => Less(w.last_key, g.key)
  PROVE  LET e == Entry(g.key, g.value) IN
         /\ WriterInv(Added(w, e), given \cup {g})
         /\ Added(w, e).block.size = w.block.size + EntrySize(e)
         /\ Added(w, e).block.at[Largest(DOMAIN Added(w, e).block.at)].entry = e
         /\ Added(w, e).entries > 0
<1> DEFINE e == Entry(g.key, g.value)
           v == Added(w, e)
           s == w.block.size
<1>1. /\ e \in Stored /\ e.key = g.key /\ g.key \in Key \X Nat
      /\ g.key[1] \in Key /\ g.key[2] \in Nat /\ g.key \in Nat \X Nat
      /\ EntrySize(e) \in Nat /\ EntrySize(e) > 0
  BY EntryIs, EntryHasSize, Versions DEF Facts
<1>2. /\ IsWriter(w)
      /\ IsFile(w.file) /\ w.file.size = w.offset
      /\ Blocks(w.file, w.index, w.offset)
      /\ IndexBytes(w)
      /\ BufferInv(w)
      /\ given \subseteq Facts
      /\ Kept(given) = Written(w.file, w.index) \cup Buffered(w)
      /\ \A d \in Written(w.file, w.index), b \in Buffered(w) : Less(d.key, b.key)
      /\ w.entries \in Nat
      /\ w.entries = 0 <=> given = {}
      /\ w.entries > 0 => Ends(w.first_key, w.last_key, w.largest_seq, given)
      /\ w.hashes \in Seq({Hash[k] : k \in Key})
      /\ \A f \in given : \E n \in DOMAIN w.hashes : w.hashes[n] = Hash[f.key[1]]
  BY DEF WriterInv, FileInv, KeptInv, CountInv, HashInv
<1> HIDE DEF e
<1>3. /\ IsWriter(v)
      /\ v.file = w.file /\ v.offset = w.offset
      /\ v.index = w.index /\ v.index_bytes = w.index_bytes
      /\ v.block = Write(w.block, [entry |-> e], EntrySize(e))
      /\ v.hashes = (IF w.entries = 0 \/ w.last_key[1] # e.key[1]
                     THEN Append(w.hashes, Hash[e.key[1]]) ELSE w.hashes)
      /\ v.entries = w.entries + 1
      /\ v.first_key = (IF w.entries = 0 THEN e.key ELSE w.first_key)
      /\ v.last_key = e.key
      /\ v.largest_seq = (IF w.entries = 0 THEN e.key[2] ELSE Largest({w.largest_seq, e.key[2]}))
  BY <1>2 DEF Added, IsWriter
<1> HIDE DEF v
\* The last key is the greatest.
<1>4. \A f \in given : f.key \in Nat \X Nat /\ f.key[2] \in Nat /\ Less(f.key, g.key)
  <2> SUFFICES ASSUME NEW f \in given
               PROVE  f.key \in Nat \X Nat /\ f.key[2] \in Nat /\ Less(f.key, g.key)
    OBVIOUS
  <2>1. w.entries > 0 /\ Ends(w.first_key, w.last_key, w.largest_seq, given)
    BY <1>2
  <2>2. ~Less(w.last_key, f.key) /\ Less(w.last_key, g.key)
        /\ \E l \in given : l.key = w.last_key
    BY <2>1 DEF Ends
  <2>3. \A l \in given : l.key \in Nat \X Nat /\ l.key[2] \in Nat
    BY <1>2, Versions DEF Facts
  <2> QED
    BY <2>2, <2>3, <1>1, Order
<1>5. \A b \in Buffered(w) : b.key \in Nat \X Nat /\ Less(b.key, e.key)
  <2> SUFFICES ASSUME NEW b \in Buffered(w)
               PROVE  b.key \in Nat \X Nat /\ Less(b.key, e.key)
    OBVIOUS
  <2>1. PICK f \in given : b = Entry(f.key, f.value)
    BY <1>2 DEF Kept
  <2>2. b.key = f.key
    BY <2>1, <1>2, EntryIs
  <2> QED
    BY <2>2, <1>4, <1>1
\* The buffer.
<1>6. /\ IsFile(w.block) /\ BlockHeader <= s
      /\ \A p \in DOMAIN w.block.at : BlockHeader <= p
      /\ Run(w.block, BlockHeader, s)
  BY <1>2 DEF BufferInv
<1>7. /\ s \in Nat /\ BlockHeader \in Nat
      /\ DOMAIN w.block.at \subseteq 0..(s - 1)
  BY <1>6, Sizes DEF IsFile
<1>8. /\ IsFile(v.block)
      /\ v.block.size = s + EntrySize(e)
      /\ DOMAIN v.block.at = DOMAIN w.block.at \cup {s}
      /\ s \notin DOMAIN w.block.at
      /\ v.block.at[s] = [entry |-> e]
      /\ \A p \in DOMAIN w.block.at : v.block.at[p] = w.block.at[p]
  BY <1>1, <1>3, <1>6, WriteIs
<1>9. Run(v.block, BlockHeader, v.block.size)
  <2>1. BlockHeader \in DOMAIN v.block.at
    BY <1>6, <1>7, <1>8 DEF Run
  <2>2. ASSUME NEW p \in DOMAIN v.block.at
        PROVE  /\ v.block.at[p].entry \in Stored
               /\ v.block.at[p] = [entry |-> v.block.at[p].entry]
               /\ p + SizeAt(v.block, p) <= v.block.size
               /\ p + SizeAt(v.block, p) < v.block.size
                    => p + SizeAt(v.block, p) \in DOMAIN v.block.at
               /\ \A q \in DOMAIN v.block.at : q < v.block.size /\ p < q =>
                   /\ p + SizeAt(v.block, p) <= q
                   /\ Less(v.block.at[p].entry.key, v.block.at[q].entry.key)
    <3>1. CASE p = s
      <4>1. SizeAt(v.block, p) = EntrySize(e) /\ v.block.at[p].entry = e
        BY <3>1, <1>8 DEF SizeAt
      <4>2. \A q \in DOMAIN v.block.at : ~(p < q)
        BY <3>1, <1>7, <1>8
      <4> QED
        BY <3>1, <4>1, <4>2, <1>1, <1>7, <1>8
    <3>2. CASE p \in DOMAIN w.block.at
      <4>1. p \in Nat /\ p < s /\ BlockHeader <= p /\ v.block.at[p] = w.block.at[p]
        BY <3>2, <1>6, <1>7, <1>8
      <4>2. /\ w.block.at[p].entry \in Stored
            /\ w.block.at[p] = [entry |-> w.block.at[p].entry]
            /\ p + SizeAt(w.block, p) <= s
            /\ p + SizeAt(w.block, p) < s => p + SizeAt(w.block, p) \in DOMAIN w.block.at
            /\ \A q \in DOMAIN w.block.at : q < s /\ p < q =>
                /\ p + SizeAt(w.block, p) <= q
                /\ Less(w.block.at[p].entry.key, w.block.at[q].entry.key)
        BY <3>2, <4>1, <1>6 DEF Run
      <4>3. SizeAt(v.block, p) = SizeAt(w.block, p) /\ SizeAt(w.block, p) \in Nat
        BY <4>1, <4>2, EntryHasSize DEF SizeAt
      <4>4. p + SizeAt(v.block, p) \in DOMAIN v.block.at
        BY <4>1, <4>2, <4>3, <1>7, <1>8
      <4>5. Less(w.block.at[p].entry.key, e.key)
        BY <3>2, <1>5 DEF Buffered
      <4>6. ASSUME NEW q \in DOMAIN v.block.at, p < q
            PROVE  /\ p + SizeAt(v.block, p) <= q
                   /\ Less(v.block.at[p].entry.key, v.block.at[q].entry.key)
        <5>1. CASE q = s
          BY <5>1, <4>1, <4>2, <4>3, <4>5, <1>8
        <5>2. CASE q \in DOMAIN w.block.at
          BY <5>2, <4>1, <4>2, <4>3, <4>6, <1>7, <1>8
        <5> QED
          BY <5>1, <5>2, <1>8
      <4> QED
        BY <4>1, <4>2, <4>3, <4>4, <4>6, <1>1, <1>7, <1>8
    <3> QED
      BY <3>1, <3>2, <1>8
  <2> QED
    BY <2>1, <2>2 DEF Run
<1>10. Buffered(v) = Buffered(w) \cup {e}
  BY <1>8 DEF Buffered
<1>11. BufferInv(v)
  BY <1>1, <1>3, <1>6, <1>7, <1>8, <1>9, <1>10 DEF BufferInv
\* What was given.
<1>12. given \cup {g} \subseteq Facts
       /\ Kept(given \cup {g}) = Written(v.file, v.index) \cup Buffered(v)
  BY <1>2, <1>3, <1>10 DEF Kept, e
<1>13. \A d \in Written(v.file, v.index), b \in Buffered(v) : Less(d.key, b.key)
  <2> SUFFICES ASSUME NEW d \in Written(w.file, w.index), NEW b \in Buffered(w) \cup {e}
               PROVE  Less(d.key, b.key)
    BY <1>3, <1>10
  <2>1. PICK f \in given : d = Entry(f.key, f.value)
    BY <1>2 DEF Kept
  <2>2. d.key = f.key
    BY <2>1, <1>2, EntryIs
  <2>3. Less(d.key, e.key)
    BY <2>2, <1>1, <1>4
  <2> QED
    BY <2>3, <1>2
<1>14. Ends(v.first_key, v.last_key, v.largest_seq, given \cup {g})
  <2>1. CASE w.entries = 0
    <3>1. given = {} /\ v.first_key = g.key /\ v.last_key = g.key /\ v.largest_seq = g.key[2]
      BY <2>1, <1>1, <1>2, <1>3
    <3> QED
      BY <3>1, <1>1, Order DEF Ends
  <2>2. CASE w.entries > 0
    <3>1. /\ \E f \in given : f.key = w.first_key
          /\ \E f \in given : f.key[2] = w.largest_seq
          /\ \A f \in given : ~Less(f.key, w.first_key) /\ f.key[2] <= w.largest_seq
      BY <2>2, <1>2 DEF Ends
    <3>2. w.first_key \in Nat \X Nat /\ Less(w.first_key, g.key) /\ w.largest_seq \in Nat
      BY <3>1, <1>4
    <3>3. /\ v.first_key = w.first_key /\ v.last_key = g.key
          /\ v.largest_seq = Largest({w.largest_seq, g.key[2]})
      BY <2>2, <1>1, <1>2, <1>3
    <3>4. /\ v.largest_seq \in {w.largest_seq, g.key[2]}
          /\ w.largest_seq <= v.largest_seq /\ g.key[2] <= v.largest_seq
      BY <3>2, <3>3, <1>1, LargestOfTwo
    <3>5. \A f \in given \cup {g} : ~Less(f.key, v.first_key) /\ ~Less(v.last_key, f.key)
      BY <3>1, <3>2, <3>3, <1>1, <1>4, Order
    <3>6. \A f \in given \cup {g} : f.key[2] <= v.largest_seq
      BY <3>1, <3>2, <3>4, <1>1, <1>4
    <3> QED
      BY <3>1, <3>3, <3>4, <3>5, <3>6 DEF Ends
  <2> QED
    BY <2>1, <2>2, <1>2
<1>15. /\ v.hashes \in Seq({Hash[k] : k \in Key})
       /\ \A f \in given \cup {g} : \E n \in DOMAIN v.hashes : v.hashes[n] = Hash[f.key[1]]
  <2>1. Hash[e.key[1]] \in {Hash[k] : k \in Key}
    BY <1>1
  <2>2. CASE w.entries = 0 \/ w.last_key[1] # e.key[1]
    <3>1. v.hashes = Append(w.hashes, Hash[e.key[1]])
      BY <2>2, <1>3
    <3>2. /\ v.hashes \in Seq({Hash[k] : k \in Key})
          /\ Len(v.hashes) = Len(w.hashes) + 1 /\ Len(w.hashes) \in Nat
          /\ DOMAIN v.hashes = 1..(Len(w.hashes) + 1) /\ DOMAIN w.hashes = 1..Len(w.hashes)
          /\ \A n \in DOMAIN w.hashes : v.hashes[n] = w.hashes[n]
          /\ v.hashes[Len(w.hashes) + 1] = Hash[e.key[1]]
      BY <3>1, <2>1, <1>2
    <3>3. ASSUME NEW f \in given PROVE \E n \in DOMAIN v.hashes : v.hashes[n] = Hash[f.key[1]]
      <4>1. PICK n \in DOMAIN w.hashes : w.hashes[n] = Hash[f.key[1]]
        BY <1>2
      <4>2. n \in DOMAIN v.hashes /\ v.hashes[n] = Hash[f.key[1]]
        BY <4>1, <3>2
      <4> QED
        BY <4>2
    <3>4. \E n \in DOMAIN v.hashes : v.hashes[n] = Hash[g.key[1]]
      <4>1. Len(w.hashes) + 1 \in DOMAIN v.hashes
        BY <3>2
      <4> QED
        BY <4>1, <3>2, <1>1
    <3> QED
      BY <3>2, <3>3, <3>4
  <2>3. CASE w.entries # 0 /\ w.last_key[1] = e.key[1]
    <3>1. v.hashes = w.hashes
      BY <2>3, <1>3
    <3>2. \E f \in given : f.key = w.last_key
      BY <2>3, <1>2 DEF Ends
    <3>3. \E n \in DOMAIN w.hashes : w.hashes[n] = Hash[g.key[1]]
      BY <3>2, <2>3, <1>1, <1>2
    <3> QED
      BY <3>1, <3>3, <1>2
  <2> QED
    BY <2>2, <2>3
<1>16. IndexBytes(v)
  BY <1>2, <1>3 DEF IndexBytes
<1>17. v.entries \in Nat /\ v.entries > 0
  BY <1>2, <1>3
<1>18. WriterInv(v, given \cup {g})
  <2>1. FileInv(v)
    BY <1>2, <1>3, <1>16 DEF FileInv
  <2>2. KeptInv(v, given \cup {g})
    BY <1>12, <1>13 DEF KeptInv
  <2>3. CountInv(v, given \cup {g})
    BY <1>14, <1>17 DEF CountInv
  <2>4. HashInv(v, given \cup {g})
    BY <1>15 DEF HashInv
  <2> QED
    BY <2>1, <2>2, <2>3, <2>4, <1>3, <1>11, <1>12 DEF WriterInv
<1>19. v.block.at[Largest(DOMAIN v.block.at)].entry = e
  <2>1. s \in DOMAIN v.block.at /\ \A p \in DOMAIN v.block.at : p \in Nat /\ s >= p
    BY <1>7, <1>8
  <2>2. \A n \in DOMAIN v.block.at : (\A p \in DOMAIN v.block.at : n >= p) => n = s
    BY <2>1, <1>7
  <2>3. Largest(DOMAIN v.block.at) = s
    BY <2>1, <2>2 DEF Largest
  <2> QED
    BY <2>3, <1>8
<1> QED
  BY <1>8, <1>17, <1>18, <1>19 DEF v, e

-----------------------------------------------------------------------------
(* flush_block.                                                            *)

\* The buffer with its header.
LEMMA HeadedIs ==
  ASSUME NEW w, BufferInv(w)
  PROVE  LET b == Headed(w.block) IN
         /\ IsFile(b) /\ b.size = w.block.size
         /\ DOMAIN b.at = DOMAIN w.block.at \cup {0}
         /\ 0 \notin DOMAIN w.block.at
         /\ b.at[0] = [header |-> [len |-> w.block.size - BlockHeader]]
         /\ \A p \in DOMAIN w.block.at : b.at[p] = w.block.at[p]
         /\ Run(b, BlockHeader, b.size)
<1> DEFINE b == Headed(w.block)
<1>1. /\ IsFile(w.block) /\ BlockHeader <= w.block.size
      /\ \A p \in DOMAIN w.block.at : BlockHeader <= p
      /\ Run(w.block, BlockHeader, w.block.size)
      /\ BlockHeader \in Nat /\ BlockHeader > 0
  BY Sizes DEF BufferInv
<1>2. /\ w.block = [size |-> w.block.size, at |-> w.block.at]
      /\ w.block.size \in Nat
      /\ DOMAIN w.block.at \subseteq 0..(w.block.size - 1)
  BY <1>1 DEF IsFile
<1>3. /\ b.size = w.block.size
      /\ b.at = Put(w.block.at, 0, [header |-> [len |-> w.block.size - BlockHeader]])
      /\ b = [size |-> b.size, at |-> b.at]
  BY <1>2 DEF Headed
<1> HIDE DEF b
<1>4. 0 \notin DOMAIN w.block.at
  BY <1>1, <1>2
<1>5. /\ DOMAIN b.at = DOMAIN w.block.at \cup {0}
      /\ b.at[0] = [header |-> [len |-> w.block.size - BlockHeader]]
      /\ \A p \in DOMAIN w.block.at : b.at[p] = w.block.at[p]
  BY <1>3, <1>4 DEF Put
<1>6. IsFile(b)
  BY <1>1, <1>2, <1>3, <1>5 DEF IsFile
<1>7. Run(b, BlockHeader, b.size)
  <2>1. \A p \in Nat : BlockHeader <= p /\ p < b.size =>
          /\ p \in DOMAIN w.block.at <=> p \in DOMAIN b.at
          /\ p \in DOMAIN w.block.at => b.at[p] = w.block.at[p]
    BY <1>1, <1>5
  <2>2. b.size \in Nat /\ DOMAIN w.block.at \subseteq Nat /\ DOMAIN b.at \subseteq Nat
    BY <1>2, <1>3, <1>5
  <2>3. Run(w.block, BlockHeader, b.size)
    BY <1>1, <1>3
  <2> QED
    BY <2>1, <2>2, <2>3, <1>1, RunSame
<1> QED
  BY <1>3, <1>4, <1>5, <1>6, <1>7 DEF b

\* A buffer that is written is the next block of the file.
LEMMA BlockWritten ==
  ASSUME NEW w, NEW given, WriterInv(w, given), BlockHeader < w.block.size
  PROVE  LET all == WriteAll(w.file, Headed(w.block))
             handles == Append(w.index, IndexedKey(w)) IN
         /\ IsFile(all) /\ all.size = w.offset + w.block.size
         /\ Blocks(all, handles, w.offset + w.block.size)
         /\ Written(all, handles) = Written(w.file, w.index) \cup Buffered(w)
         /\ IndexedKey(w) \in Handles
<1> DEFINE b == Headed(w.block)
           all == WriteAll(w.file, b)
           h == IndexedKey(w)
           handles == Append(w.index, h)
           s == w.block.size
           end == w.offset + s
<1>1. /\ IsFile(w.file) /\ w.file.size = w.offset
      /\ Blocks(w.file, w.index, w.offset)
      /\ BufferInv(w)
      /\ given \subseteq Facts
      /\ KeptInv(w, given) /\ CountInv(w, given)
  BY DEF WriterInv, FileInv
<1>2. /\ w.offset \in Nat /\ DOMAIN w.file.at \subseteq 0..(w.offset - 1)
      /\ s \in Nat /\ DOMAIN w.block.at \subseteq 0..(s - 1)
      /\ \A p \in DOMAIN w.block.at : BlockHeader <= p
      /\ BlockHeader \in Nat /\ BlockHeader > 0
      /\ Run(w.block, BlockHeader, s)
      /\ \E e \in Buffered(w) : e.key = w.last_key
  BY <1>1, Sizes DEF IsFile, BufferInv
<1>3. /\ IsFile(b) /\ b.size = s
      /\ DOMAIN b.at = DOMAIN w.block.at \cup {0}
      /\ 0 \notin DOMAIN w.block.at
      /\ b.at[0] = [header |-> [len |-> s - BlockHeader]]
      /\ \A p \in DOMAIN w.block.at : b.at[p] = w.block.at[p]
      /\ Run(b, BlockHeader, s)
  BY <1>1, HeadedIs
<1> HIDE DEF b
<1>4. /\ IsFile(all) /\ all.size = end
      /\ DOMAIN all.at = DOMAIN w.file.at \cup {w.offset + p : p \in DOMAIN b.at}
      /\ \A p \in DOMAIN w.file.at : all.at[p] = w.file.at[p]
      /\ \A p \in DOMAIN b.at : all.at[w.offset + p] = b.at[p]
      /\ end \in Nat
  BY <1>1, <1>2, <1>3, WriteAllIs
<1>5. Run(all, w.offset + BlockHeader, end)
  BY <1>1, <1>2, <1>3, RunWritten
<1> HIDE DEF all
\* What the last key is.
<1>6. /\ \E g \in given : g.key = w.last_key
      /\ \A g \in given : ~Less(w.last_key, g.key)
      /\ w.last_key \in Key \X Nat
      /\ \A e \in Kept(given) : ~Less(w.last_key, e.key)
  <2>1. PICK e \in Buffered(w) : e.key = w.last_key
    BY <1>2
  <2>2. PICK g \in given : e = Entry(g.key, g.value)
    BY <2>1, <1>1 DEF KeptInv, Kept
  <2>3. Ends(w.first_key, w.last_key, w.largest_seq, given)
    BY <2>2, <1>1 DEF CountInv
  <2>4. /\ \E f \in given : f.key = w.last_key
        /\ \A f \in given : ~Less(w.last_key, f.key)
    BY <2>3 DEF Ends
  <2>5. \A f \in given : f.key \in Key \X Nat /\ Entry(f.key, f.value).key = f.key
    BY <1>1, EntryIs DEF Facts
  <2> QED
    BY <2>4, <2>5 DEF Kept
<1>7. /\ h \in Handles
      /\ h.key = w.last_key /\ h.offset = w.offset /\ h.len = s
  BY <1>2, <1>6 DEF IndexedKey, Handles
<1> HIDE DEF h
\* The new block.
<1>8. /\ \A p : p \in Entries(all, h) <=> \E c \in DOMAIN w.block.at : p = w.offset + c
      /\ \A c \in DOMAIN w.block.at : all.at[w.offset + c] = w.block.at[c]
  <2>1. \A c \in DOMAIN w.block.at :
          /\ c \in Nat /\ BlockHeader <= c /\ c < s
          /\ w.offset + c \in DOMAIN all.at
          /\ all.at[w.offset + c] = w.block.at[c]
    BY <1>2, <1>3, <1>4
  <2>2. DOMAIN all.at \subseteq Nat
    BY <1>4 DEF IsFile
  <2>3. ASSUME NEW p, p \in Entries(all, h)
        PROVE  \E c \in DOMAIN w.block.at : p = w.offset + c
    <3>1. p \in DOMAIN all.at /\ w.offset + BlockHeader <= p
      BY <2>2, <2>3, <1>7, EntriesAre
    <3>2. p \notin DOMAIN w.file.at
      BY <3>1, <1>2
    <3>3. PICK c \in DOMAIN b.at : p = w.offset + c
      BY <3>1, <3>2, <1>4
    <3>4. c # 0
      BY <3>1, <3>3, <1>2
    <3> QED
      BY <3>3, <3>4, <1>3
  <2>4. ASSUME NEW c \in DOMAIN w.block.at PROVE w.offset + c \in Entries(all, h)
    <3>1. w.offset + BlockHeader <= w.offset + c /\ w.offset + c < w.offset + s
      BY <2>1, <1>2
    <3> QED
      BY <3>1, <2>1, <2>2, <1>7, EntriesAre
  <2> QED
    BY <2>1, <2>3, <2>4
<1>9. {all.at[p].entry : p \in Entries(all, h)} = Buffered(w)
  BY <1>8 DEF Buffered
<1>10. Block(all, h)
  <2>1. h.offset \in DOMAIN all.at /\ all.at[h.offset] = [header |-> [len |-> h.len - BlockHeader]]
    <3>1. w.offset + 0 = w.offset /\ 0 \in DOMAIN b.at
      BY <1>2, <1>3
    <3> QED
      BY <3>1, <1>3, <1>4, <1>7
  <2>2. ASSUME NEW p \in DOMAIN all.at, h.offset < p, p < h.offset + BlockHeader
        PROVE  FALSE
    <3>1. p \notin DOMAIN w.file.at
      BY <2>2, <1>2, <1>7
    <3>2. PICK c \in DOMAIN b.at : p = w.offset + c
      BY <3>1, <1>4
    <3> QED
      BY <3>2, <2>2, <1>2, <1>3, <1>7
  <2>3. \E p \in Entries(all, h) : all.at[p].entry.key = h.key
    BY <1>2, <1>7, <1>9
  <2>4. \A p \in Entries(all, h) : ~Less(h.key, all.at[p].entry.key)
    BY <1>1, <1>6, <1>7, <1>9 DEF KeptInv
  <2> QED
    BY <2>1, <2>2, <2>3, <2>4, <1>2, <1>5, <1>7 DEF Block
\* The old ones.
<1>11. /\ Blocks(all, w.index, w.offset)
       /\ Written(all, w.index) = Written(w.file, w.index)
  <2>1. \A p \in Nat : p < w.offset =>
          /\ p \in DOMAIN w.file.at <=> p \in DOMAIN all.at
          /\ p \in DOMAIN w.file.at => all.at[p] = w.file.at[p]
    <3>1. \A p \in DOMAIN b.at : p \in Nat
      BY <1>2, <1>3
    <3> QED
      BY <3>1, <1>2, <1>4
  <2>2. DOMAIN w.file.at \subseteq Nat /\ DOMAIN all.at \subseteq Nat
    BY <1>2, <1>4 DEF IsFile
  <2> QED
    BY <2>1, <2>2, <1>1, BlocksSame
<1>12. /\ w.index \in Seq(Handles) /\ handles \in Seq(Handles)
       /\ Len(w.index) \in Nat /\ Len(handles) = Len(w.index) + 1
       /\ DOMAIN w.index = 1..Len(w.index) /\ DOMAIN handles = 1..(Len(w.index) + 1)
       /\ \A n \in DOMAIN w.index : handles[n] = w.index[n]
       /\ handles[Len(w.index) + 1] = h
  BY <1>7, <1>11 DEF Blocks
<1> HIDE DEF handles
<1>13. \A n \in DOMAIN w.index :
         /\ w.index[n].offset \in Nat /\ w.index[n].len \in Nat
         /\ w.index[n].offset + w.index[n].len <= w.offset
  BY <1>11, BlockEnds
<1>14. Blocks(all, handles, end)
  <2>1. ASSUME NEW n \in DOMAIN handles
        PROVE  /\ Block(all, handles[n])
               /\ handles[n].offset + handles[n].len =
                    IF n = Len(handles) THEN end ELSE handles[n + 1].offset
    <3>1. CASE n = Len(w.index) + 1
      BY <3>1, <1>7, <1>10, <1>12
    <3>2. CASE n = Len(w.index) /\ n > 0
      <4>1. n \in DOMAIN w.index /\ handles[n] = w.index[n] /\ handles[n + 1] = h
        BY <3>2, <1>12
      <4>2. Block(all, w.index[n]) /\ w.index[n].offset + w.index[n].len = w.offset
        BY <4>1, <3>2, <1>11 DEF Blocks
      <4> QED
        BY <4>1, <4>2, <3>2, <1>7, <1>12
    <3>3. CASE n < Len(w.index)
      <4>1. n \in DOMAIN w.index /\ n + 1 \in DOMAIN w.index /\ n # Len(w.index)
        BY <3>3, <1>12
      <4>2. handles[n] = w.index[n] /\ handles[n + 1] = w.index[n + 1] /\ n # Len(handles)
        BY <4>1, <3>3, <1>12
      <4>3. Block(all, w.index[n])
            /\ w.index[n].offset + w.index[n].len = w.index[n + 1].offset
        BY <4>1, <1>11 DEF Blocks
      <4> QED
        BY <4>2, <4>3
    <3> QED
      BY <3>1, <3>2, <3>3, <1>12
  <2>2. handles # <<>> /\ handles[1].offset = 0
    <3>1. CASE w.index = <<>>
      <4>1. w.offset = 0 /\ handles[1] = h
        BY <3>1, <1>11, <1>12, EmptySeq DEF Blocks
      <4> QED
        BY <4>1, <1>7, <1>12, EmptySeq
    <3>2. CASE w.index # <<>>
      <4>1. 1 \in DOMAIN w.index /\ w.index[1].offset = 0
        BY <3>2, <1>11, <1>12 DEF Blocks
      <4> QED
        BY <4>1, <1>12, EmptySeq
    <3> QED
      BY <3>1, <3>2
  <2>3. ASSUME NEW p \in DOMAIN all.at, p < end
        PROVE  \E n \in DOMAIN handles :
                 handles[n].offset <= p /\ p < handles[n].offset + handles[n].len
    <3>1. CASE p < w.offset
      BY <3>1, <1>11, <1>12 DEF Blocks
    <3>2. CASE ~(p < w.offset)
      <4>1. p \in Nat
        BY <1>4 DEF IsFile
      <4>2. Len(w.index) + 1 \in DOMAIN handles
        BY <1>12
      <4> QED
        BY <4>1, <4>2, <3>2, <2>3, <1>2, <1>7, <1>12
    <3> QED
      BY <3>1, <3>2
  <2>4. ASSUME NEW n \in DOMAIN handles, NEW m \in DOMAIN handles, n < m
        PROVE  /\ handles[n].offset + handles[n].len <= handles[m].offset
               /\ \A p \in Entries(all, handles[n]), q \in Entries(all, handles[m]) :
                   Less(all.at[p].entry.key, all.at[q].entry.key)
    <3>1. n \in DOMAIN w.index /\ handles[n] = w.index[n]
      BY <2>4, <1>12
    <3>2. CASE m \in DOMAIN w.index
      BY <3>1, <3>2, <2>4, <1>11, <1>12 DEF Blocks
    <3>3. CASE m = Len(w.index) + 1
      <4>1. handles[m] = h
        BY <3>3, <1>12
      <4>2. w.index[n].offset + w.index[n].len <= h.offset
        BY <3>1, <1>7, <1>13
      <4>3. \A p \in Entries(all, w.index[n]) : all.at[p].entry \in Written(w.file, w.index)
        BY <3>1, <1>11 DEF Written, Places
      <4>4. \A q \in Entries(all, h) : all.at[q].entry \in Buffered(w)
        BY <1>9
      <4> QED
        BY <4>1, <4>2, <4>3, <4>4, <3>1, <1>1 DEF KeptInv
    <3> QED
      BY <3>2, <3>3, <1>12
  <2> QED
    BY <2>1, <2>2, <2>3, <2>4, <1>4, <1>12 DEF Blocks
<1>15. Written(all, handles) = Written(w.file, w.index) \cup Buffered(w)
  <2>1. Places(all, handles) = Places(all, w.index) \cup Entries(all, h)
    <3>1. DOMAIN handles = DOMAIN w.index \cup {Len(w.index) + 1}
      BY <1>12
    <3> QED
      BY <3>1, <1>12 DEF Places
  <2>2. Written(all, handles) = Written(all, w.index) \cup {all.at[p].entry : p \in Entries(all, h)}
    BY <2>1 DEF Written
  <2> QED
    BY <2>2, <1>9, <1>11
<1> QED
  BY <1>4, <1>7, <1>14, <1>15 DEF all, b, h, handles

\* The handles in the index follow one another.
LEMMA Multiples ==
  ASSUME NEW K \in Nat, K > 0, NEW n \in Nat
  PROVE  /\ n * K \in Nat
         /\ (n + 1) * K = n * K + K
         /\ (n * K) \div K = n
         /\ \A m \in Nat : n < m => n * K + K <= m * K
<1>1. /\ n * K \in Nat
      /\ (n + 1) * K = n * K + K
      /\ (n * K) \div K = n
  OBVIOUS
<1>2. ASSUME NEW m \in Nat, n < m PROVE n * K + K <= m * K
  <2>1. PICK d \in Nat : m = n + 1 + d
    <3>1. m - n - 1 \in Nat /\ m = n + 1 + (m - n - 1)
      BY <1>2
    <3> QED
      BY <3>1
  <2>2. (n + 1 + d) * K = (n * K + K) + d * K
    OBVIOUS
  <2>3. d * K \in Nat /\ n * K \in Nat
    OBVIOUS
  <2> QED
    BY <2>1, <2>2, <2>3
<1> QED
  BY <1>1, <1>2

\* Flushing moves the buffer to the file, if it is no longer than a block may be.
LEMMA FlushInv ==
  ASSUME NEW w, NEW given, WriterInv(w, given), w.block.size <= MaxBlock
  PROVE  LET v == FlushBlock(w) IN
         /\ WriterInv(v, given)
         /\ v.block.size = BlockHeader /\ Buffered(v) = {}
         /\ v.entries = w.entries
<1> DEFINE v == FlushBlock(w)
           all == WriteAll(w.file, Headed(w.block))
           h == IndexedKey(w)
           handles == Append(w.index, h)
<1>1. /\ IsWriter(w)
      /\ IsFile(w.file) /\ w.file.size = w.offset
      /\ Blocks(w.file, w.index, w.offset)
      /\ IndexBytes(w) /\ BufferInv(w)
      /\ given \subseteq Facts
      /\ KeptInv(w, given) /\ CountInv(w, given) /\ HashInv(w, given)
  BY DEF WriterInv, FileInv
<1>2. /\ BlockHeader \in Nat /\ MaxBlock \in Nat /\ w.block.size \in Nat
      /\ BlockHeader <= w.block.size
  BY <1>1, Sizes DEF BufferInv, IsFile
<1>3. CASE w.block.size <= BlockHeader
  <2>1. v = w /\ w.block.size = BlockHeader
    BY <1>2, <1>3 DEF FlushBlock
  <2>2. DOMAIN w.block.at = {}
    <3>1. DOMAIN w.block.at \subseteq 0..(w.block.size - 1)
          /\ \A p \in DOMAIN w.block.at : BlockHeader <= p
      BY <1>1 DEF BufferInv, IsFile
    <3> QED
      BY <3>1, <2>1, <1>2
  <2>3. Buffered(w) = {}
    BY <2>2 DEF Buffered
  <2> QED
    BY <2>1, <2>3
<1>4. CASE w.block.size > BlockHeader
  <2>1. ~(w.block.size <= BlockHeader) /\ ~(w.block.size > MaxBlock)
    BY <1>2, <1>4
  <2>2. /\ IsWriter(v)
        /\ v.file = all /\ v.index = handles
        /\ v.index_bytes = Write(w.index_bytes, [index |-> h], IndexedKeySize)
        /\ v.offset = w.offset + w.block.size
        /\ v.block = EmptyBlock
        /\ v.hashes = w.hashes /\ v.entries = w.entries
        /\ v.first_key = w.first_key /\ v.last_key = w.last_key
        /\ v.largest_seq = w.largest_seq
    BY <2>1, <1>1 DEF FlushBlock, IsWriter
  <2>3. /\ IsFile(all) /\ all.size = w.offset + w.block.size
        /\ Blocks(all, handles, w.offset + w.block.size)
        /\ Written(all, handles) = Written(w.file, w.index) \cup Buffered(w)
        /\ h \in Handles
    BY <1>2, <1>4, BlockWritten
  <2> HIDE DEF v, all, h
  <2>4. /\ IsFile(EmptyBlock) /\ EmptyBlock.size = BlockHeader
        /\ DOMAIN EmptyBlock.at = {}
    BY <1>2, BlankIs DEF EmptyBlock
  <2>5. Buffered(v) = {} /\ v.block.size = BlockHeader
    BY <2>2, <2>4 DEF Buffered
  <2>6. BufferInv(v)
    BY <2>2, <2>4, <1>2 DEF BufferInv, Run
  <2>7. IndexBytes(v)
    <3> DEFINE K == IndexedKeySize
               n == Len(w.index)
    <3>1. /\ IsFile(w.index_bytes) /\ w.index_bytes.size = n * K
          /\ \A i \in DOMAIN w.index :
              /\ (i - 1) * K \in DOMAIN w.index_bytes.at
              /\ w.index_bytes.at[(i - 1) * K] = [index |-> w.index[i]]
      BY <1>1 DEF IndexBytes
    <3>2. /\ n \in Nat /\ w.index \in Seq(Handles)
          /\ handles \in Seq(Handles) /\ Len(handles) = n + 1
          /\ DOMAIN w.index = 1..n /\ DOMAIN handles = 1..(n + 1)
          /\ \A i \in DOMAIN w.index : handles[i] = w.index[i]
          /\ handles[n + 1] = h
      BY <2>3, <1>1 DEF Blocks
    <3>3. K \in Nat /\ K > 0
      BY Sizes
    <3> HIDE DEF K, handles
    <3>4. n * K \in Nat /\ (n + 1) * K = n * K + K
      BY <3>2, <3>3, Multiples
    <3>5. /\ IsFile(v.index_bytes)
          /\ v.index_bytes.size = n * K + K
          /\ DOMAIN v.index_bytes.at = DOMAIN w.index_bytes.at \cup {n * K}
          /\ v.index_bytes.at[n * K] = [index |-> h]
          /\ \A p \in DOMAIN w.index_bytes.at : v.index_bytes.at[p] = w.index_bytes.at[p]
      BY <2>2, <3>1, <3>3, WriteIs DEF K
    <3>6. ASSUME NEW i \in DOMAIN handles
          PROVE  /\ (i - 1) * K \in DOMAIN v.index_bytes.at
                 /\ v.index_bytes.at[(i - 1) * K] = [index |-> handles[i]]
      <4>1. CASE i \in DOMAIN w.index
        BY <4>1, <3>1, <3>2, <3>5
      <4>2. CASE i = n + 1
        <5>1. i - 1 = n
          BY <4>2, <3>2
        <5> QED
          BY <5>1, <4>2, <3>2, <3>5
      <4> QED
        BY <4>1, <4>2, <3>2
    <3> QED
      BY <3>2, <3>4, <3>5, <3>6, <2>2 DEF IndexBytes, K
  <2>8. FileInv(v)
    BY <2>2, <2>3, <2>7 DEF FileInv
  <2>9. KeptInv(v, given)
    BY <2>2, <2>3, <2>5, <1>1 DEF KeptInv
  <2>10. CountInv(v, given) /\ HashInv(v, given)
    BY <2>2, <1>1 DEF CountInv, HashInv
  <2> QED
    BY <2>2, <2>5, <2>6, <2>8, <2>9, <2>10, <1>1 DEF WriterInv, v
<1> QED
  BY <1>2, <1>3, <1>4

\* An entry is added, and the buffer is flushed as soon as it is longer than it
\* should be, unless the entry is so long that this makes no block.
LEMMA AddInv ==
  ASSUME NEW w, NEW given, WriterInv(w, given), w.block.size <= BlockSize,
         NEW g \in Facts, w.entries > 0 => Less(w.last_key, g.key)
  PROVE  LET v == Add(w, Entry(g.key, g.value)) IN
         \/ /\ v.error = None
            /\ WriterInv(v, given \cup {g})
            /\ v.block.size <= BlockSize
            /\ v.entries > 0
         \/ /\ v.error = "block length"
            /\ v.block.size \in Nat /\ v.block.size >= BlockHeader
            /\ EntrySize(v.block.at[Largest(DOMAIN v.block.at)].entry) > MaxBlock - BlockSize
<1> DEFINE e == Entry(g.key, g.value)
           v == Added(w, e)
<1>1. /\ WriterInv(v, given \cup {g})
      /\ v.block.size = w.block.size + EntrySize(e)
      /\ v.block.at[Largest(DOMAIN v.block.at)].entry = e
      /\ v.entries > 0
  BY AddedInv
<1>2. /\ e.key = g.key /\ g.key \in Nat \X Nat /\ EntrySize(e) \in Nat
  BY EntryIs, EntryHasSize, Versions DEF Facts
<1>3. ~OutOfOrder(w, e)
  <2> SUFFICES ASSUME w.entries > 0, Less(g.key, w.last_key), Less(w.last_key, g.key) PROVE FALSE
    BY <1>2 DEF OutOfOrder
  <2>1. w.last_key \in Nat \X Nat
    <3>1. Ends(w.first_key, w.last_key, w.largest_seq, given) /\ given \subseteq Facts
      BY DEF WriterInv, CountInv
    <3>2. \A f \in given : f.key \in Nat \X Nat
      BY <3>1, Versions DEF Facts
    <3> QED
      BY <3>1, <3>2 DEF Ends
  <2> QED
    BY <2>1, <1>2, Order
<1> HIDE DEF v, e
<1>4. /\ v.error = None
      /\ w.block.size \in Nat /\ v.block.size \in Nat /\ BlockHeader <= v.block.size
      /\ DOMAIN v = {"file", "block", "offset", "index", "index_bytes", "hashes", "entries",
                     "first_key", "last_key", "smallest_seq", "largest_seq", "error"}
      /\ BlockHeader \in Nat /\ BlockSize \in Nat /\ MaxBlock \in Nat
      /\ BlockHeader < BlockSize
  BY <1>1, Sizes DEF WriterInv, IsWriter, BufferInv, IsFile
<1> DEFINE u == Add(w, e)
<1> SUFFICES \/ /\ u.error = None
                /\ WriterInv(u, given \cup {g})
                /\ u.block.size <= BlockSize
                /\ u.entries > 0
             \/ /\ u.error = "block length"
                /\ u.block.size \in Nat /\ u.block.size >= BlockHeader
                /\ EntrySize(u.block.at[Largest(DOMAIN u.block.at)].entry)
                     > MaxBlock - BlockSize
  BY DEF e
<1>5. CASE ~(v.block.size > BlockSize)
  <2>1. u = v
    BY <1>3, <1>5 DEF Add, v
  <2>2. v.block.size <= BlockSize
    BY <1>4, <1>5
  <2> QED
    BY <2>1, <2>2, <1>1, <1>4, Zenon
<1>6. CASE v.block.size > BlockSize /\ v.block.size <= MaxBlock
  <2>1. u = FlushBlock(v)
    BY <1>3, <1>6 DEF Add, v
  <2> HIDE DEF u
  <2>2. WriterInv(u, given \cup {g}) /\ u.block.size = BlockHeader /\ u.entries = v.entries
    BY <2>1, <1>1, <1>6, FlushInv
  <2>3. u.error = None
    BY <2>2 DEF WriterInv, IsWriter
  <2>4. u.block.size <= BlockSize /\ u.entries > 0
    BY <2>2, <1>1, <1>4
  <2> QED
    BY <2>2, <2>3, <2>4, Zenon
<1>7. CASE v.block.size > BlockSize /\ v.block.size > MaxBlock
  <2>1. u = FlushBlock(v)
    BY <1>3, <1>7 DEF Add, v
  <2> HIDE DEF u
  <2>2. ~(v.block.size <= BlockHeader)
    BY <1>4, <1>7
  <2>3. u = [v EXCEPT !.error = "block length"]
    BY <2>1, <2>2, <1>7 DEF FlushBlock
  <2>4. u.error = "block length" /\ u.block = v.block
    BY <2>3, <1>4
  <2>5. EntrySize(e) > MaxBlock - BlockSize
    BY <1>1, <1>2, <1>4, <1>7
  <2> QED
    BY <2>4, <2>5, <1>1, <1>4
<1>8. \/ ~(v.block.size > BlockSize)
      \/ v.block.size > BlockSize /\ v.block.size <= MaxBlock
      \/ v.block.size > BlockSize /\ v.block.size > MaxBlock
  BY <1>4
<1> QED
  BY <1>5, <1>6, <1>7, <1>8, Zenon

-----------------------------------------------------------------------------
(* finish, and reading the file again.                                     *)

\* The entries of a file are in order, and the first one is behind the header of
\* the first block.
LEMMA PlacesAre ==
  ASSUME NEW file, IsFile(file), NEW index, NEW end, Blocks(file, index, end)
  PROVE  /\ \A p \in Places(file, index) :
              /\ p \in DOMAIN file.at /\ p \in Nat /\ BlockHeader <= p
              /\ file.at[p].entry \in Stored
              /\ file.at[p] = [entry |-> file.at[p].entry]
              /\ Read(file, p, "entry") = file.at[p].entry
              /\ SizeAt(file, p) \in Nat /\ SizeAt(file, p) > 0
              /\ p + SizeAt(file, p) <= end
         /\ \A p, q \in Places(file, index) : p < q =>
              /\ p + SizeAt(file, p) <= q
              /\ Less(file.at[p].entry.key, file.at[q].entry.key)
         /\ index # <<>> => BlockHeader \in Places(file, index)
<1>1. /\ \A n \in DOMAIN index :
           /\ index[n] \in Handles
           /\ index[n].offset \in Nat /\ index[n].len \in Nat
           /\ BlockHeader < index[n].len
           /\ index[n].offset + index[n].len <= end
           /\ Run(file, index[n].offset + BlockHeader, index[n].offset + index[n].len)
      /\ end \in Nat /\ BlockHeader \in Nat
      /\ DOMAIN file.at \subseteq Nat
      /\ index \in Seq(Handles)
  <2>1. \A n \in DOMAIN index : Block(file, index[n])
    BY DEF Blocks
  <2>2. \A n \in DOMAIN index :
          Run(file, index[n].offset + BlockHeader, index[n].offset + index[n].len)
    BY <2>1 DEF Block
  <2>3. /\ end \in Nat /\ BlockHeader \in Nat
        /\ DOMAIN file.at \subseteq Nat
        /\ index \in Seq(Handles)
    BY Sizes DEF Blocks, IsFile
  <2> QED
    BY <2>2, <2>3, BlockEnds
<1>2. ASSUME NEW n \in DOMAIN index, NEW p \in Entries(file, index[n])
      PROVE  /\ p \in DOMAIN file.at /\ p \in Nat
             /\ index[n].offset + BlockHeader <= p /\ p < index[n].offset + index[n].len
             /\ file.at[p].entry \in Stored
             /\ file.at[p] = [entry |-> file.at[p].entry]
             /\ SizeAt(file, p) \in Nat /\ SizeAt(file, p) > 0
             /\ p + SizeAt(file, p) <= index[n].offset + index[n].len
             /\ \A q \in Entries(file, index[n]) : p < q =>
                 /\ p + SizeAt(file, p) <= q
                 /\ Less(file.at[p].entry.key, file.at[q].entry.key)
  <2>1. \A q \in Entries(file, index[n]) :
          /\ q \in DOMAIN file.at /\ q \in Nat
          /\ index[n].offset + BlockHeader <= q /\ q < index[n].offset + index[n].len
    BY <1>1, EntriesAre
  <2>2. /\ file.at[p].entry \in Stored
        /\ file.at[p] = [entry |-> file.at[p].entry]
        /\ p + SizeAt(file, p) <= index[n].offset + index[n].len
        /\ \A q \in DOMAIN file.at : q < index[n].offset + index[n].len /\ p < q =>
            /\ p + SizeAt(file, p) <= q
            /\ Less(file.at[p].entry.key, file.at[q].entry.key)
    BY <2>1, <1>1 DEF Run
  <2>3. SizeAt(file, p) \in Nat /\ SizeAt(file, p) > 0
    BY <2>2, EntryHasSize DEF SizeAt
  <2> QED
    BY <2>1, <2>2, <2>3
<1>3. ASSUME NEW p \in Places(file, index)
      PROVE  /\ p \in DOMAIN file.at /\ p \in Nat /\ BlockHeader <= p
             /\ file.at[p].entry \in Stored
             /\ file.at[p] = [entry |-> file.at[p].entry]
             /\ Read(file, p, "entry") = file.at[p].entry
             /\ SizeAt(file, p) \in Nat /\ SizeAt(file, p) > 0
             /\ p + SizeAt(file, p) <= end
  <2>1. PICK n \in DOMAIN index : p \in Entries(file, index[n])
    BY DEF Places
  <2>2. /\ p \in DOMAIN file.at /\ p \in Nat
        /\ index[n].offset + BlockHeader <= p
        /\ file.at[p].entry \in Stored
        /\ file.at[p] = [entry |-> file.at[p].entry]
        /\ SizeAt(file, p) \in Nat /\ SizeAt(file, p) > 0
        /\ p + SizeAt(file, p) <= index[n].offset + index[n].len
    BY <2>1, <1>2
  <2>3. BlockHeader <= p /\ p + SizeAt(file, p) <= end
    BY <2>2, <1>1
  <2>4. Read(file, p, "entry") = file.at[p].entry
    BY <2>2 DEF Read
  <2> QED
    BY <2>2, <2>3, <2>4
<1>4. ASSUME NEW p \in Places(file, index), NEW q \in Places(file, index), p < q
      PROVE  /\ p + SizeAt(file, p) <= q
             /\ Less(file.at[p].entry.key, file.at[q].entry.key)
  <2>1. PICK n \in DOMAIN index : p \in Entries(file, index[n])
    BY DEF Places
  <2>2. PICK m \in DOMAIN index : q \in Entries(file, index[m])
    BY DEF Places
  <2>3. /\ p \in Nat /\ q \in Nat /\ SizeAt(file, p) \in Nat
        /\ index[n].offset <= p /\ p + SizeAt(file, p) <= index[n].offset + index[n].len
        /\ index[m].offset <= q /\ q < index[m].offset + index[m].len
    <3>1. /\ p \in Nat /\ SizeAt(file, p) \in Nat
          /\ index[n].offset + BlockHeader <= p
          /\ p + SizeAt(file, p) <= index[n].offset + index[n].len
      BY <2>1, <1>2
    <3>2. /\ q \in Nat
          /\ index[m].offset + BlockHeader <= q /\ q < index[m].offset + index[m].len
      BY <2>2, <1>2
    <3>3. index[n].offset \in Nat /\ index[m].offset \in Nat /\ BlockHeader \in Nat
      BY <1>1
    <3>4. index[n].offset <= p
      BY <3>1, <3>3
    <3>5. index[m].offset <= q
      BY <3>2, <3>3
    <3> QED
      BY <3>1, <3>2, <3>4, <3>5
  <2>4. \A i, j \in DOMAIN index : i < j =>
          /\ index[i].offset + index[i].len <= index[j].offset
          /\ \A x \in Entries(file, index[i]), y \in Entries(file, index[j]) :
              Less(file.at[x].entry.key, file.at[y].entry.key)
    BY DEF Blocks
  <2>5. n \in Nat /\ m \in Nat
    BY <1>1
  <2>6. CASE n = m
    BY <2>1, <2>2, <2>6, <1>2, <1>4
  <2>7. CASE n < m
    <3>1. index[n].offset + index[n].len <= index[m].offset
      BY <2>4, <2>7
    <3>2. Less(file.at[p].entry.key, file.at[q].entry.key)
      BY <2>1, <2>2, <2>4, <2>7
    <3>3. index[n].offset \in Nat /\ index[n].len \in Nat /\ index[m].offset \in Nat
      BY <1>1
    <3>4. p + SizeAt(file, p) <= q
      BY <3>1, <3>3, <2>3
    <3> QED
      BY <3>2, <3>4
  <2>8. CASE m < n
    <3>1. index[m].offset + index[m].len <= index[n].offset
      BY <2>4, <2>8
    <3>2. /\ index[n].offset \in Nat /\ index[m].offset \in Nat
          /\ index[n].len \in Nat /\ index[m].len \in Nat
      BY <1>1
    <3>3. index[m].offset + index[m].len <= p
      BY <3>1, <3>2, <2>3
    <3>4. q < p
      BY <3>2, <3>3, <2>3
    <3>5. FALSE
      BY <3>4, <2>3, <1>4
    <3> QED
      BY <3>5
  <2> QED
    BY <2>5, <2>6, <2>7, <2>8
<1>5. ASSUME index # <<>> PROVE BlockHeader \in Places(file, index)
  <2>1. 1 \in DOMAIN index /\ index[1].offset = 0
    BY <1>1, <1>5 DEF Blocks
  <2>2. BlockHeader \in DOMAIN file.at
    BY <2>1, <1>1 DEF Run
  <2>3. BlockHeader \in Entries(file, index[1])
    <3>1. /\ index[1] \in Handles /\ index[1].len \in Nat
          /\ BlockHeader < index[1].len /\ BlockHeader \in Nat
      BY <2>1, <1>1
    <3>2. /\ index[1].offset + BlockHeader <= BlockHeader
          /\ BlockHeader < index[1].offset + index[1].len
      BY <2>1, <3>1
    <3> QED
      BY <2>2, <3>1, <3>2, <1>1, EntriesAre
  <2> QED
    BY <2>1, <2>3 DEF Places
<1> QED
  BY <1>3, <1>4, <1>5

\* The invariant of a finished table.
TableInv(t, given) ==
    /\ given # {} /\ given \subseteq Facts
    /\ IsFile(t.file)
    /\ t.meta.file_size = t.file.size
    /\ ReadMeta(t.file) = t.meta
    /\ Blocks(t.file, t.meta.index, t.meta.footer.bloom_off) /\ t.meta.index # <<>>
    /\ Written(t.file, t.meta.index) = Kept(given)
    /\ Ends(t.meta.first_key, t.meta.last_key, t.meta.footer.largest_seq, given)
    /\ \A g \in given : MayContain(t.meta.bloom, g.key[1])

\* What was given has its place, and what has a place was given.
LEMMA GivenHasPlace ==
  ASSUME NEW file, NEW index, NEW given, given \subseteq Facts,
         Written(file, index) = Kept(given)
  PROVE  /\ \A g \in given : \E p \in Places(file, index) :
              file.at[p].entry = Entry(g.key, g.value) /\ file.at[p].entry.key = g.key
         /\ \A p \in Places(file, index) : \E g \in given :
              file.at[p].entry = Entry(g.key, g.value) /\ file.at[p].entry.key = g.key
<1>1. \A g \in given : Entry(g.key, g.value).key = g.key
  BY EntryIs
<1>2. ASSUME NEW g \in given
      PROVE  \E p \in Places(file, index) : file.at[p].entry = Entry(g.key, g.value)
  <2>1. Entry(g.key, g.value) \in Written(file, index)
    BY DEF Kept
  <2> QED
    BY <2>1 DEF Written
<1>3. ASSUME NEW p \in Places(file, index)
      PROVE  \E g \in given : file.at[p].entry = Entry(g.key, g.value)
  <2>1. file.at[p].entry \in Kept(given)
    BY DEF Written
  <2> QED
    BY <2>1 DEF Kept
<1> QED
  BY <1>1, <1>2, <1>3

\* The first and the last key of a file are those that the writer kept.
LEMMA EndsOfFile ==
  ASSUME NEW file, IsFile(file), NEW index, NEW end, Blocks(file, index, end),
         NEW given, given # {}, given \subseteq Facts, Written(file, index) = Kept(given),
         NEW least, NEW greatest, NEW seq, Ends(least, greatest, seq, given)
  PROVE  /\ index # <<>>
         /\ ReadFirstKey(file) = least
         /\ index[Len(index)].key = greatest
<1>1. /\ \A p \in Places(file, index) :
           /\ p \in Nat /\ BlockHeader <= p
           /\ Read(file, p, "entry") = file.at[p].entry
      /\ \A p, q \in Places(file, index) : p < q =>
           Less(file.at[p].entry.key, file.at[q].entry.key)
      /\ index # <<>> => BlockHeader \in Places(file, index)
  BY PlacesAre
<1>2. /\ \A g \in given : \E p \in Places(file, index) : file.at[p].entry.key = g.key
      /\ \A p \in Places(file, index) : \E g \in given : file.at[p].entry.key = g.key
  BY GivenHasPlace
<1>3. index # <<>>
  <2>1. Places(file, index) # {}
    BY <1>2
  <2> QED
    BY <2>1, EmptySeq DEF Places
<1>4. \A g \in given : g.key \in Nat \X Nat
  BY Versions DEF Facts
<1>5. ReadFirstKey(file) = least
  <2>1. PICK p \in Places(file, index) : file.at[p].entry.key = least
    BY <1>2 DEF Ends
  <2>2. BlockHeader \in Places(file, index) /\ BlockHeader \in Nat
    BY <1>1, <1>3, Sizes
  <2>3. ~Less(file.at[BlockHeader].entry.key, least)
    BY <2>2, <1>2 DEF Ends
  <2>4. p = BlockHeader
    <3>2. p \in Nat /\ BlockHeader <= p
      BY <1>1
    <3> SUFFICES ASSUME BlockHeader < p PROVE FALSE
      BY <2>2, <3>2
    <3>1. Less(file.at[BlockHeader].entry.key, file.at[p].entry.key)
      BY <2>2, <1>1
    <3> QED
      BY <3>1, <2>1, <2>3
  <2> DEFINE e == Read(file, BlockHeader, "entry")
  <2>5. ReadFirstKey(file) = e.key
    BY DEF ReadFirstKey
  <2>6. e = file.at[BlockHeader].entry
    BY <2>2, <1>1
  <2> HIDE DEF e
  <2> QED
    BY <2>1, <2>4, <2>5, <2>6
<1>6. index[Len(index)].key = greatest
  <2> DEFINE l == Len(index)
  <2>1. index \in Seq(Handles) /\ l \in DOMAIN index /\ \A n \in DOMAIN index : n \in Nat /\ n <= l
    BY <1>3, EmptySeq DEF Blocks
  <2>2. Block(file, index[l])
    BY <2>1 DEF Blocks
  <2>3. PICK q \in Entries(file, index[l]) : file.at[q].entry.key = index[l].key
    BY <2>2 DEF Block
  <2>4. q \in Places(file, index)
    BY <2>1, <2>3 DEF Places
  <2>5. PICK h \in given : h.key = index[l].key
    BY <2>3, <2>4, <1>2
  <2>6. PICK g \in given : g.key = greatest
    BY DEF Ends
  <2>7. PICK p \in Places(file, index) : file.at[p].entry.key = greatest
    BY <2>6, <1>2
  <2>8. PICK n \in DOMAIN index : p \in Entries(file, index[n])
    BY <2>7 DEF Places
  <2>9. ~Less(greatest, index[l].key)
    BY <2>5 DEF Ends
  <2>10. n = l
    <3> SUFFICES ASSUME n < l PROVE FALSE
      BY <2>1
    <3>1. Less(file.at[p].entry.key, file.at[q].entry.key)
      BY <2>1, <2>3, <2>8 DEF Blocks
    <3> QED
      BY <3>1, <2>3, <2>7, <2>9
  <2>11. ~Less(index[l].key, greatest)
    BY <2>2, <2>7, <2>8, <2>10 DEF Block
  <2> QED
    BY <2>5, <2>6, <2>9, <2>11, <1>4, Order
<1> QED
  BY <1>3, <1>5, <1>6

\* A filter has a size, and no key that was put in is missed.
LEMMA BloomIs ==
  ASSUME NEW w, NEW given, WriterInv(w, given)
  PROVE  /\ BloomSize(Bloom(w.hashes)) \in Nat /\ BloomSize(Bloom(w.hashes)) > 0
         /\ \A g \in given : MayContain(Bloom(w.hashes), g.key[1])
<1>1. /\ w.hashes \in Seq({Hash[k] : k \in Key})
      /\ \A g \in given : \E n \in DOMAIN w.hashes : w.hashes[n] = Hash[g.key[1]]
  BY DEF WriterInv, HashInv
<1> DEFINE nbits == Bits(Len(w.hashes))
           set == UNION {Positions(w.hashes[n], nbits) : n \in DOMAIN w.hashes}
<1>2. Bloom(w.hashes).nbits = nbits /\ Bloom(w.hashes).set = set
  BY DEF Bloom
<1>3. nbits \in Nat
  <2> DEFINE n == Len(w.hashes) * BitsPerKey
             bits == IF n > MinBits THEN n ELSE MinBits
  <2>1. MinBits \in Nat /\ BitsPerKey \in Nat
    BY SSTableAssumption, Zenon DEF SSTableAssumption
  <2>2. n \in Nat
    BY <2>1, <1>1
  <2> HIDE DEF n
  <2>3. bits \in Nat
    BY <2>1, <2>2
  <2> HIDE DEF bits
  <2>4. 8 * ((bits + 7) \div 8) \in Nat
    BY <2>3
  <2> QED
    BY <2>4 DEF Bits, bits, n
<1> HIDE DEF nbits
<1>4. BloomSize(Bloom(w.hashes)) \in Nat /\ BloomSize(Bloom(w.hashes)) > 0
  BY <1>2, <1>3 DEF BloomSize
<1>5. ASSUME NEW g \in given PROVE MayContain(Bloom(w.hashes), g.key[1])
  <2>1. PICK n \in DOMAIN w.hashes : w.hashes[n] = Hash[g.key[1]]
    BY <1>1
  <2>2. Positions(w.hashes[n], nbits) \subseteq set
    OBVIOUS
  <2> QED
    BY <2>1, <2>2, <1>2 DEF MayContain
<1> QED
  BY <1>4, <1>5

\* Where finish puts the filter, the index and the footer.
LEMMA FinishIs ==
  ASSUME NEW v, NEW given, WriterInv(v, given)
  PROVE  LET bloom == Bloom(v.hashes)
             file == Write(WriteAll(PutBloom(v.file, bloom), v.index_bytes),
                           [footer |-> Footer(v)], FooterSize)
         IN  /\ IsFile(file)
             /\ file.size = IndexOffset(v) + Len(v.index) * IndexedKeySize + FooterSize
             /\ ReadFooter(file) = Footer(v)
             /\ ReadIndex(file, Footer(v)) = v.index
             /\ ReadBloom(file, Footer(v)) = bloom
             /\ \A p \in Nat : p < v.offset =>
                 /\ p \in DOMAIN v.file.at <=> p \in DOMAIN file.at
                 /\ p \in DOMAIN v.file.at => file.at[p] = v.file.at[p]
<1> DEFINE bloom == Bloom(v.hashes)
           K == IndexedKeySize
           n == Len(v.index)
           footer == Footer(v)
           f1 == Write(v.file, [bloom |-> bloom], BloomSize(bloom))
           f2 == WriteAll(f1, v.index_bytes)
           f3 == Write(f2, [footer |-> footer], FooterSize)
<1>1. /\ IsFile(v.file) /\ v.file.size = v.offset /\ v.offset \in Nat
      /\ v.index \in Seq(Handles)
      /\ IsFile(v.index_bytes) /\ v.index_bytes.size = n * K
      /\ \A i \in DOMAIN v.index :
          /\ (i - 1) * K \in DOMAIN v.index_bytes.at
          /\ v.index_bytes.at[(i - 1) * K] = [index |-> v.index[i]]
  BY DEF WriterInv, FileInv, IndexBytes, Blocks
<1>2. /\ BloomSize(bloom) \in Nat /\ BloomSize(bloom) > 0
      /\ K \in Nat /\ K > 0 /\ FooterSize \in Nat /\ FooterSize > 0
  BY BloomIs, Sizes
<1>3. n \in Nat /\ DOMAIN v.index = 1..n
  BY <1>1
<1>4. n * K \in Nat /\ (n * K) \div K = n
  BY <1>2, <1>3, Multiples
<1>5. /\ footer.bloom_off = v.offset /\ footer.index_off = IndexOffset(v)
      /\ footer.index_len = n * K
      /\ IndexOffset(v) = v.offset + BloomSize(bloom)
  BY DEF Footer, IndexOffset
<1> HIDE DEF bloom, K, n, footer, f1, f2, f3
<1>6. /\ IsFile(f1) /\ f1.size = v.offset + BloomSize(bloom)
      /\ DOMAIN f1.at = DOMAIN v.file.at \cup {v.offset}
      /\ f1.at[v.offset] = [bloom |-> bloom]
      /\ \A p \in DOMAIN v.file.at : f1.at[p] = v.file.at[p]
  BY <1>1, <1>2, WriteIs DEF f1
<1>7. /\ IsFile(f2) /\ f2.size = f1.size + n * K
      /\ DOMAIN f2.at = DOMAIN f1.at \cup {f1.size + b : b \in DOMAIN v.index_bytes.at}
      /\ \A p \in DOMAIN f1.at : f2.at[p] = f1.at[p]
      /\ \A b \in DOMAIN v.index_bytes.at : f2.at[f1.size + b] = v.index_bytes.at[b]
  BY <1>1, <1>6, WriteAllIs DEF f2
<1>8. /\ IsFile(f3) /\ f3.size = f2.size + FooterSize
      /\ DOMAIN f3.at = DOMAIN f2.at \cup {f2.size}
      /\ f3.at[f2.size] = [footer |-> footer]
      /\ \A p \in DOMAIN f2.at : f3.at[p] = f2.at[p]
  BY <1>2, <1>7, WriteIs DEF f3
<1>9. f1.size \in Nat /\ f2.size \in Nat /\ f3.size \in Nat
  BY <1>6, <1>7, <1>8 DEF IsFile
<1>10. ReadFooter(f3) = footer
  <2>1. f3.size - FooterSize = f2.size /\ f2.size \in DOMAIN f3.at
    BY <1>2, <1>8, <1>9
  <2>2. Read(f3, f2.size, "footer") = footer
    BY <2>1, <1>8 DEF Read
  <2> QED
    BY <2>1, <2>2 DEF ReadFooter
<1>11. ReadBloom(f3, footer) = bloom
  <2>1. v.offset \in DOMAIN f3.at /\ f3.at[v.offset] = [bloom |-> bloom]
    BY <1>6, <1>7, <1>8
  <2>2. Read(f3, v.offset, "bloom") = bloom
    BY <2>1 DEF Read
  <2> QED
    BY <2>2, <1>5 DEF ReadBloom
<1>12. ReadIndex(f3, footer) = v.index
  <2>1. footer.index_len \div K = n /\ footer.index_off = f1.size
    BY <1>4, <1>5, <1>6
  <2>2. ReadIndex(f3, footer) = [i \in 1..n |-> Read(f3, f1.size + (i - 1) * K, "index")]
    BY <2>1 DEF ReadIndex, K
  <2>3. ASSUME NEW i \in 1..n PROVE Read(f3, f1.size + (i - 1) * K, "index") = v.index[i]
    <3>1. /\ f1.size + (i - 1) * K \in DOMAIN f3.at
          /\ f3.at[f1.size + (i - 1) * K] = [index |-> v.index[i]]
      BY <1>1, <1>3, <1>7, <1>8
    <3> QED
      BY <3>1 DEF Read
  <2>4. v.index = [i \in 1..n |-> v.index[i]]
    BY <1>1, <1>3
  <2> QED
    BY <2>2, <2>3, <2>4
<1>13. ASSUME NEW p \in Nat, p < v.offset
       PROVE  /\ p \in DOMAIN v.file.at <=> p \in DOMAIN f3.at
              /\ p \in DOMAIN v.file.at => f3.at[p] = v.file.at[p]
  <2>1. \A b \in DOMAIN v.index_bytes.at : b \in Nat
    BY <1>1 DEF IsFile
  <2>2. p \in DOMAIN f1.at <=> p \in DOMAIN v.file.at
    BY <1>1, <1>6, <1>13
  <2>3. p < f1.size /\ p < f2.size
    BY <1>1, <1>2, <1>4, <1>6, <1>7, <1>13
  <2>4. p \in DOMAIN f2.at <=> p \in DOMAIN f1.at
    BY <2>1, <2>3, <1>7, <1>9
  <2>5. p \in DOMAIN f3.at <=> p \in DOMAIN f2.at
    BY <2>3, <1>8, <1>9
  <2> QED
    BY <2>2, <2>4, <2>5, <1>6, <1>7, <1>8
<1>14. f3.size = IndexOffset(v) + n * K + FooterSize
  BY <1>5, <1>6, <1>7, <1>8
<1> QED
  BY <1>8, <1>10, <1>11, <1>12, <1>13, <1>14 DEF f3, f2, f1, footer, bloom, K, n, PutBloom

\* finish makes a table of all that was given.
LEMMA FinishInv ==
  ASSUME NEW w, NEW given, WriterInv(w, given), w.entries > 0, w.block.size <= MaxBlock
  PROVE  TableInv(Finish(w), given)
<1> DEFINE v == FlushBlock(w)
           bloom == Bloom(v.hashes)
           file == Write(WriteAll(PutBloom(v.file, bloom), v.index_bytes),
                         [footer |-> Footer(v)], FooterSize)
           t == Finish(w)
           meta == [file_size |-> IndexOffset(v) + Footer(v).index_len + FooterSize,
                    first_key |-> v.first_key, last_key |-> v.last_key,
                    bloom |-> bloom, index |-> v.index, footer |-> Footer(v)]
<1>1. WriterInv(v, given) /\ Buffered(v) = {} /\ v.entries = w.entries
  BY FlushInv
<1>2. t.file = file /\ t.meta = meta
  BY DEF Finish
<1> HIDE DEF v, t
<1>3. /\ IsFile(v.file) /\ v.file.size = v.offset
      /\ Blocks(v.file, v.index, v.offset)
      /\ Kept(given) = Written(v.file, v.index)
      /\ given \subseteq Facts /\ given # {}
      /\ Ends(v.first_key, v.last_key, v.largest_seq, given)
  BY <1>1 DEF WriterInv, FileInv, KeptInv, CountInv
<1>4. /\ IsFile(file)
      /\ file.size = IndexOffset(v) + Len(v.index) * IndexedKeySize + FooterSize
      /\ ReadFooter(file) = Footer(v)
      /\ ReadIndex(file, Footer(v)) = v.index
      /\ ReadBloom(file, Footer(v)) = bloom
      /\ \A p \in Nat : p < v.offset =>
          /\ p \in DOMAIN v.file.at <=> p \in DOMAIN file.at
          /\ p \in DOMAIN v.file.at => file.at[p] = v.file.at[p]
  BY <1>1, FinishIs
<1>5. \A g \in given : MayContain(bloom, g.key[1])
  BY <1>1, BloomIs
<1> HIDE DEF file, bloom
<1>6. /\ Footer(v).bloom_off = v.offset /\ Footer(v).largest_seq = v.largest_seq
      /\ Footer(v).index_len = Len(v.index) * IndexedKeySize
  BY DEF Footer
<1>7. /\ meta.file_size = file.size
      /\ meta.first_key = v.first_key /\ meta.last_key = v.last_key
      /\ meta.bloom = bloom /\ meta.index = v.index /\ meta.footer = Footer(v)
  BY <1>4, <1>6
<1>8. Blocks(file, v.index, v.offset) /\ Written(file, v.index) = Written(v.file, v.index)
  <2>1. DOMAIN v.file.at \subseteq Nat /\ DOMAIN file.at \subseteq Nat
    BY <1>3, <1>4 DEF IsFile
  <2>2. \A p \in Nat : p < v.offset =>
          /\ p \in DOMAIN v.file.at <=> p \in DOMAIN file.at
          /\ p \in DOMAIN v.file.at => file.at[p] = v.file.at[p]
    BY <1>4
  <2>3. Blocks(v.file, v.index, v.offset)
    BY <1>3
  <2> QED
    BY <2>1, <2>2, <2>3, BlocksSame
<1>9. /\ v.index # <<>>
      /\ ReadFirstKey(file) = v.first_key
      /\ v.index[Len(v.index)].key = v.last_key
  BY <1>3, <1>4, <1>8, EndsOfFile
<1>10. ReadMeta(file) = meta
  <2>1. ReadMeta(file) =
          [file_size |-> file.size,
           first_key |-> v.first_key, last_key |-> v.last_key,
           bloom |-> bloom, index |-> v.index, footer |-> Footer(v)]
    BY <1>4, <1>9 DEF ReadMeta
  <2> QED
    BY <2>1, <1>4, <1>6
<1> HIDE DEF meta
<1>11. TableInv(t, given)
  BY <1>2, <1>3, <1>4, <1>5, <1>6, <1>7, <1>8, <1>9, <1>10 DEF TableInv
<1> QED
  BY <1>11 DEF t

-----------------------------------------------------------------------------
(* get.                                                                    *)

\* A set that has all that is less than any of its members is a prefix.
LEMMA Prefix ==
  ASSUME NEW c \in Nat, NEW S, S \subseteq 1..c, \A n \in S : \A m \in 1..n : m \in S
  PROVE  Cardinality(S) \in 0..c /\ S = 1..Cardinality(S)
<1>1. CASE S = {}
  <2>1. Cardinality(S) = 0
    BY <1>1, FS_EmptySet
  <2> QED
    BY <2>1, <1>1
<1>2. CASE S # {}
  <2>1. S \subseteq 0..c
    OBVIOUS
  <2>2. PICK m \in S : \A n \in S : n <= m
    BY <2>1, <1>2, Greatest
  <2>3. m \in 1..c /\ S = 1..m
    <3>1. m \in 1..c /\ \A n \in S : n \in 1..c
      OBVIOUS
    <3>2. \A n \in 1..m : n \in S
      OBVIOUS
    <3>3. \A n \in S : n \in 1..m
      BY <3>1, <2>2
    <3> QED
      BY <3>1, <3>2, <3>3
  <2>4. Cardinality(1..m) = m
    BY <2>3, FS_Interval
  <2> QED
    BY <2>3, <2>4
<1> QED
  BY <1>1, <1>2

\* The last keys of the blocks are in order, and each is that of an entry.
LEMMA LastKeys ==
  ASSUME NEW file, IsFile(file), NEW index, NEW end, Blocks(file, index, end)
  PROVE  /\ \A n \in DOMAIN index :
              /\ index[n].key \in Nat \X Nat
              /\ \E p \in Entries(file, index[n]) : file.at[p].entry.key = index[n].key
              /\ \A p \in Entries(file, index[n]) :
                  /\ p \in Places(file, index)
                  /\ file.at[p].entry.key \in Nat \X Nat
                  /\ ~Less(index[n].key, file.at[p].entry.key)
         /\ \A n, m \in DOMAIN index : n < m => Less(index[n].key, index[m].key)
<1>1. ASSUME NEW n \in DOMAIN index
      PROVE  /\ index[n].key \in Nat \X Nat
             /\ \E p \in Entries(file, index[n]) : file.at[p].entry.key = index[n].key
             /\ \A p \in Entries(file, index[n]) :
                 /\ p \in Places(file, index)
                 /\ file.at[p].entry.key \in Nat \X Nat
                 /\ ~Less(index[n].key, file.at[p].entry.key)
  <2>1. index[n] \in Handles
    BY BlockEnds
  <2>2. index[n].key \in Nat \X Nat
    BY <2>1, Versions DEF Handles
  <2>3. Block(file, index[n])
    BY DEF Blocks
  <2>4. \A p \in Entries(file, index[n]) : p \in Places(file, index)
    BY DEF Places
  <2>5. \A p \in Places(file, index) : file.at[p].entry \in Stored
    BY PlacesAre
  <2>6. \A p \in Places(file, index) : file.at[p].entry.key \in Nat \X Nat
    BY <2>5, Versions DEF Stored
  <2> QED
    BY <2>2, <2>3, <2>4, <2>6 DEF Block
<1>2. ASSUME NEW n \in DOMAIN index, NEW m \in DOMAIN index, n < m
      PROVE  Less(index[n].key, index[m].key)
  <2>1. PICK p \in Entries(file, index[n]) : file.at[p].entry.key = index[n].key
    BY <1>1
  <2>2. PICK q \in Entries(file, index[m]) : file.at[q].entry.key = index[m].key
    BY <1>1
  <2>3. Less(file.at[p].entry.key, file.at[q].entry.key)
    BY <1>2 DEF Blocks
  <2> QED
    BY <2>1, <2>2, <2>3
<1> QED
  BY <1>1, <1>2

\* The block that is chosen has the first entry that is not before the target, if
\* there is one.
LEMMA HitsAre ==
  ASSUME NEW file, IsFile(file), NEW index, NEW end, Blocks(file, index, end),
         NEW target \in Nat \X Nat
  PROVE  LET block == Passed(index, target) + 1
             hits == {pos \in Entries(file, index[block]) :
                        ~Less(Read(file, pos, "entry").key, target)}
             first == Smallest(hits)
         IN  /\ block \in Nat
             /\ \A p \in Places(file, index) :
                  ~Less(file.at[p].entry.key, target) => block <= Len(index)
             /\ block <= Len(index) =>
                  /\ hits # {}
                  /\ first \in Places(file, index)
                  /\ ~Less(file.at[first].entry.key, target)
                  /\ \A p \in Places(file, index) :
                       ~Less(file.at[p].entry.key, target) => first <= p
<1> DEFINE S == {n \in DOMAIN index : Less(index[n].key, target)}
           block == Passed(index, target) + 1
           hits == {pos \in Entries(file, index[block]) :
                      ~Less(Read(file, pos, "entry").key, target)}
           first == Smallest(hits)
<1>1. /\ \A n \in DOMAIN index :
           /\ index[n].key \in Nat \X Nat
           /\ \E p \in Entries(file, index[n]) : file.at[p].entry.key = index[n].key
           /\ \A p \in Entries(file, index[n]) :
               /\ p \in Places(file, index)
               /\ file.at[p].entry.key \in Nat \X Nat
               /\ ~Less(index[n].key, file.at[p].entry.key)
      /\ \A n, m \in DOMAIN index : n < m => Less(index[n].key, index[m].key)
  BY LastKeys
<1>2. Len(index) \in Nat /\ DOMAIN index = 1..Len(index)
  BY DEF Blocks
<1>3. /\ \A p \in Places(file, index) :
           p \in Nat /\ Read(file, p, "entry") = file.at[p].entry
      /\ \A p, q \in Places(file, index) : p < q =>
           Less(file.at[p].entry.key, file.at[q].entry.key)
  BY PlacesAre
<1>4. Passed(index, target) \in 0..Len(index) /\ S = 1..Passed(index, target)
  <2>1. S \subseteq 1..Len(index)
    BY <1>2
  <2>2. ASSUME NEW n \in S, NEW m \in 1..n PROVE m \in S
    <3>1. n \in DOMAIN index /\ m \in DOMAIN index /\ n \in Nat /\ m \in Nat
      BY <2>1, <1>2
    <3>2. CASE m = n
      BY <3>2
    <3>3. CASE m < n
      <4>1. Less(index[m].key, index[n].key) /\ Less(index[n].key, target)
        BY <3>1, <3>3, <1>1
      <4>2. index[m].key \in Nat \X Nat /\ index[n].key \in Nat \X Nat
        BY <3>1, <1>1
      <4>3. Less(index[m].key, target)
        BY <4>1, <4>2, Order
      <4> QED
        BY <3>1, <4>3
    <3> QED
      BY <3>1, <3>2, <3>3
  <2>3. Passed(index, target) = Cardinality(S)
    BY DEF Passed
  <2> QED
    BY <2>1, <2>2, <2>3, <1>2, Prefix
<1>5. block \in Nat /\ block >= 1
  BY <1>2, <1>4
\* What is not before the target is not before the block.
<1>6. ASSUME NEW p \in Places(file, index), ~Less(file.at[p].entry.key, target)
      PROVE  \E n \in DOMAIN index : p \in Entries(file, index[n]) /\ block <= n
  <2>1. PICK n \in DOMAIN index : p \in Entries(file, index[n])
    BY DEF Places
  <2>2. n \notin S
    <3> SUFFICES ASSUME Less(index[n].key, target) PROVE FALSE
      OBVIOUS
    <3>1. /\ ~Less(index[n].key, file.at[p].entry.key)
          /\ index[n].key \in Nat \X Nat /\ file.at[p].entry.key \in Nat \X Nat
      BY <2>1, <1>1
    <3> QED
      BY <3>1, <1>6, Order
  <2> QED
    BY <2>1, <2>2, <1>2, <1>4
<1>7. \A p \in Places(file, index) :
        ~Less(file.at[p].entry.key, target) => block <= Len(index)
  BY <1>2, <1>5, <1>6
<1>8. ASSUME block <= Len(index)
      PROVE  /\ hits # {}
             /\ first \in Places(file, index)
             /\ ~Less(file.at[first].entry.key, target)
             /\ \A p \in Places(file, index) :
                  ~Less(file.at[p].entry.key, target) => first <= p
  <2>1. block \in DOMAIN index /\ block \notin S
    BY <1>2, <1>4, <1>5, <1>8
  <2> HIDE DEF block
  <2>2. ~Less(index[block].key, target)
    BY <2>1
  <2>3. PICK l \in Entries(file, index[block]) : file.at[l].entry.key = index[block].key
    BY <2>1, <1>1
  <2>4. \A p \in Entries(file, index[block]) :
          p \in Places(file, index) /\ p \in Nat /\ Read(file, p, "entry") = file.at[p].entry
    BY <2>1, <1>1, <1>3
  <2>5. l \in hits
    BY <2>2, <2>3, <2>4
  <2>6. hits \subseteq Nat
    BY <2>4
  <2>7. PICK m \in hits : \A n \in hits : m <= n
    BY <2>5, <2>6, Least
  <2>8. first \in hits /\ \A n \in hits : first <= n
    BY <2>7 DEF Smallest
  <2> HIDE DEF first
  <2>9. /\ first \in Entries(file, index[block]) /\ first \in Places(file, index)
        /\ ~Less(file.at[first].entry.key, target)
    BY <2>4, <2>8
  <2>10. ASSUME NEW p \in Places(file, index), ~Less(file.at[p].entry.key, target)
         PROVE  first <= p
    <3>1. PICK n \in DOMAIN index : p \in Entries(file, index[n]) /\ block <= n
      BY <1>6, <2>10 DEF block
    <3>2. p \in Nat /\ first \in Nat /\ n \in Nat /\ block \in Nat
      BY <2>1, <2>9, <1>2, <1>3
    <3>3. CASE n = block
      <4>1. p \in hits
        BY <3>1, <3>3, <2>4, <2>10
      <4> QED
        BY <4>1, <2>8
    <3>4. CASE block < n
      <4>1. Less(file.at[first].entry.key, file.at[p].entry.key)
        BY <3>1, <3>4, <2>1, <2>9 DEF Blocks
      <4>2. /\ file.at[first].entry.key \in Nat \X Nat
            /\ file.at[p].entry.key \in Nat \X Nat
        BY <3>1, <2>1, <2>9, <1>1
      <4>3. ~Less(file.at[p].entry.key, file.at[first].entry.key)
        BY <4>1, <4>2, Order
      <4>4. ~(p < first)
        BY <4>3, <2>9, <1>3
      <4> QED
        BY <4>4, <3>2
    <3> QED
      BY <3>1, <3>2, <3>3, <3>4
  <2> QED
    BY <2>5, <2>9, <2>10
<1> QED
  BY <1>5, <1>7, <1>8

\* SSTable::get finds the newest version that the snapshot sees.
LEMMA GetIs ==
  ASSUME NEW t, NEW given, TableInv(t, given), NEW key \in Key, NEW snapshot \in Nat
  PROVE  LET old == {g \in given : g.key[1] = key /\ g.key[2] <= snapshot}
             found == Get(t.file, t.meta, key, snapshot)
         IN  /\ old = {} => found = Absent
             /\ \A g \in old : (\A f \in old : f.key[2] <= g.key[2]) =>
                   found = Decode(Encode(g.value))
<1> DEFINE old == {g \in given : g.key[1] = key /\ g.key[2] <= snapshot}
           file == t.file
           meta == t.meta
           index == meta.index
           found == Get(file, meta, key, snapshot)
           target == <<key, snapshot>>
           block == Passed(index, target) + 1
           hits == {pos \in Entries(file, index[block]) :
                      ~Less(Read(file, pos, "entry").key, target)}
           first == Smallest(hits)
           entry == Read(file, first, "entry")
           none == \/ key < meta.first_key[1] \/ key > meta.last_key[1]
                   \/ ~MayContain(meta.bloom, key)
                   \/ block > Len(index)
                   \/ hits = {}
                   \/ entry.key[1] # key
<1>1. /\ given # {} /\ given \subseteq Facts
      /\ IsFile(file) /\ Blocks(file, index, meta.footer.bloom_off)
      /\ Written(file, index) = Kept(given)
      /\ Ends(meta.first_key, meta.last_key, meta.footer.largest_seq, given)
      /\ \A g \in given : MayContain(meta.bloom, g.key[1])
  BY DEF TableInv
<1>2. found = IF none THEN Absent ELSE Decode(entry.length)
  BY DEF Get
<1>3. target \in Nat \X Nat /\ key \in Nat /\ target[1] = key /\ target[2] = snapshot
  <2>1. Key \subseteq Nat
    BY SSTableAssumption, Zenon DEF SSTableAssumption
  <2> QED
    BY <2>1
<1>4. /\ block \in Nat
      /\ \A p \in Places(file, index) :
           ~Less(file.at[p].entry.key, target) => block <= Len(index)
      /\ block <= Len(index) =>
           /\ hits # {}
           /\ first \in Places(file, index)
           /\ ~Less(file.at[first].entry.key, target)
           /\ \A p \in Places(file, index) :
                ~Less(file.at[p].entry.key, target) => first <= p
  BY <1>1, <1>3, HitsAre
<1>5. /\ \A p \in Places(file, index) :
           p \in Nat /\ Read(file, p, "entry") = file.at[p].entry
      /\ \A p, q \in Places(file, index) : p < q =>
           Less(file.at[p].entry.key, file.at[q].entry.key)
  BY <1>1, PlacesAre
<1>6. /\ \A g \in given : \E p \in Places(file, index) :
           file.at[p].entry = Entry(g.key, g.value) /\ file.at[p].entry.key = g.key
      /\ \A p \in Places(file, index) : \E g \in given :
           file.at[p].entry = Entry(g.key, g.value) /\ file.at[p].entry.key = g.key
  BY <1>1, GivenHasPlace
<1>7. \A g \in given : g.key \in Nat \X Nat /\ g.key[1] \in Nat /\ g.key[2] \in Nat
  BY <1>1, Versions DEF Facts
<1>8. Len(index) \in Nat
  BY <1>1 DEF Blocks
<1> HIDE DEF found, target, block, hits, first, entry, none
<1>9. ASSUME old = {} PROVE found = Absent
  <2> SUFFICES ASSUME ~none PROVE FALSE
    BY <1>2
  <2>1. block <= Len(index) /\ entry.key[1] = key
    BY <1>4, <1>8 DEF none
  <2>2. first \in Places(file, index) /\ ~Less(file.at[first].entry.key, target)
    BY <2>1, <1>4
  <2>3. entry = file.at[first].entry
    BY <2>2, <1>5 DEF entry
  <2>4. PICK g \in given : entry.key = g.key
    BY <2>2, <2>3, <1>6
  <2>5. g.key[1] = key /\ ~Less(g.key, target)
    BY <2>1, <2>2, <2>3, <2>4
  <2>6. g.key[2] <= snapshot
    BY <2>5, <1>3, <1>7 DEF Less
  <2> QED
    BY <2>5, <2>6, <1>9
<1>10. ASSUME NEW g \in old, \A f \in old : f.key[2] <= g.key[2]
       PROVE  found = Decode(Encode(g.value))
  <2>1. g \in given /\ g.key[1] = key /\ g.key[2] <= snapshot /\ ~Less(g.key, target)
    BY <1>3, <1>7 DEF Less
  <2>2. PICK p \in Places(file, index) :
          file.at[p].entry = Entry(g.key, g.value) /\ file.at[p].entry.key = g.key
    BY <2>1, <1>6
  <2>3. block <= Len(index)
    BY <2>1, <2>2, <1>4
  <2>4. /\ hits # {}
        /\ first \in Places(file, index)
        /\ ~Less(file.at[first].entry.key, target)
        /\ first <= p
    BY <2>1, <2>2, <2>3, <1>4
  <2>5. entry = file.at[first].entry
    BY <2>4, <1>5 DEF entry
  <2>6. PICK f \in given : file.at[first].entry.key = f.key
    BY <2>4, <1>6
  <2>7. first = p
    <3> SUFFICES ASSUME first < p PROVE FALSE
      <4>1. first \in Nat /\ p \in Nat
        BY <2>4, <1>5
      <4> QED
        BY <4>1, <2>4
    <3>1. Less(f.key, g.key) /\ ~Less(f.key, target)
      BY <2>2, <2>4, <2>6, <1>5
    <3>2. f.key[1] = key /\ f.key[2] <= snapshot /\ ~(f.key[2] <= g.key[2])
      BY <3>1, <2>1, <1>3, <1>7 DEF Less
    <3> QED
      BY <3>2, <1>10
  <2>8. entry.key[1] = key /\ entry.length = Encode(g.value)
    <3>1. entry = Entry(g.key, g.value)
      BY <2>2, <2>5, <2>7
    <3> QED
      BY <3>1, <2>1, <1>1, EntryIs
  <2>9. MayContain(meta.bloom, key)
    BY <2>1, <1>1
  <2>10. ~(key < meta.first_key[1]) /\ ~(key > meta.last_key[1])
    <3>1. ~Less(g.key, meta.first_key) /\ ~Less(meta.last_key, g.key)
      BY <2>1, <1>1 DEF Ends
    <3>2. meta.last_key[1] \in Nat
      BY <1>1, <1>7 DEF Ends
    <3> QED
      BY <3>1, <3>2, <2>1, <1>3 DEF Less
  <2>11. ~none
    BY <2>3, <2>4, <2>8, <2>9, <2>10, <1>4, <1>8 DEF none
  <2> QED
    BY <2>8, <2>11, <1>2
<1> QED
  BY <1>9, <1>10 DEF found

-----------------------------------------------------------------------------
(* TableScan.                                                              *)

\* A scan stands at an entry of a block, with what is left of the block, or
\* between two blocks, or at the end.
ScanInv(t, s) ==
    /\ s.pos \in Nat /\ s.block_remaining \in Nat /\ s.remaining \in Nat
    /\ s.pos + s.remaining = t.meta.footer.bloom_off
    /\ s.block_remaining = 0 =>
        \/ s.pos = t.meta.footer.bloom_off
        \/ \E n \in DOMAIN t.meta.index : s.pos = t.meta.index[n].offset
    /\ s.block_remaining > 0 =>
        \E n \in DOMAIN t.meta.index :
            /\ s.pos \in Entries(t.file, t.meta.index[n])
            /\ s.pos + s.block_remaining = t.meta.index[n].offset + t.meta.index[n].len

\* The entries from a position on, and those that a scan has yet to yield.
From(t, pos) ==
    {t.file.at[p].entry : p \in {q \in Places(t.file, t.meta.index) : q >= pos}}

Rest(t, s) == From(t, s.pos)

\* A scan begins with all that the table was written from.
LEMMA OpenScanIs ==
  ASSUME NEW t, NEW given, TableInv(t, given)
  PROVE  ScanInv(t, OpenScan(t.file)) /\ Rest(t, OpenScan(t.file)) = Kept(given)
<1> DEFINE index == t.meta.index
           end == t.meta.footer.bloom_off
           s == OpenScan(t.file)
<1>1. /\ IsFile(t.file) /\ Blocks(t.file, index, end) /\ index # <<>>
      /\ Written(t.file, index) = Kept(given)
      /\ ReadMeta(t.file) = t.meta
  BY DEF TableInv
<1>2. ReadFooter(t.file) = t.meta.footer
  <2>1. ReadMeta(t.file).footer = ReadFooter(t.file)
    BY DEF ReadMeta
  <2> QED
    BY <2>1, <1>1
<1>3. s.pos = 0 /\ s.block_remaining = 0 /\ s.remaining = end
  BY <1>2 DEF OpenScan
<1>4. end \in Nat /\ 1 \in DOMAIN index /\ index[1].offset = 0
  BY <1>1, EmptySeq DEF Blocks
<1>5. ScanInv(t, s)
  BY <1>3, <1>4 DEF ScanInv
<1>6. \A p \in Places(t.file, index) : p \in Nat
  BY <1>1, PlacesAre
<1>7. Rest(t, s) = Written(t.file, index)
  BY <1>3, <1>6 DEF Rest, From, Written
<1> QED
  BY <1>1, <1>5, <1>7

\* The next entry of a scan is the first of the rest, and there is one until the
\* end.  Nothing is found corrupt.
LEMMA ScanIs ==
  ASSUME NEW t, NEW given, TableInv(t, given), NEW s, ScanInv(t, s)
  PROVE  LET e == ScanEntry(t.file, s)
             next == ScanNext(t.file, s)
         IN  /\ AtEnd(s) => Rest(t, s) = {}
             /\ ~AtEnd(s) =>
                 /\ ~Corrupt(t.file, s)
                 /\ ScanInv(t, next)
                 /\ e \in Stored
                 /\ Rest(t, s) = Rest(t, next) \cup {e}
                 /\ \A d \in Rest(t, next) : Less(e.key, d.key)
<1> DEFINE file == t.file
           index == t.meta.index
           end == t.meta.footer.bloom_off
           in == CheckBlock(file, s)
           e == ScanEntry(file, s)
           next == ScanNext(file, s)
<1>1. /\ IsFile(file) /\ Blocks(file, index, end) /\ DOMAIN file.at \subseteq Nat
      /\ index \in Seq(Handles)
      /\ end \in Nat /\ BlockHeader \in Nat /\ BlockHeader > 0
  BY Sizes DEF TableInv, Blocks, IsFile
<1>2. /\ s.pos \in Nat /\ s.block_remaining \in Nat /\ s.remaining \in Nat
      /\ s.pos + s.remaining = end
  BY DEF ScanInv
<1>3. /\ \A p \in Places(file, index) :
           /\ p \in DOMAIN file.at /\ p \in Nat
           /\ file.at[p].entry \in Stored
           /\ file.at[p] = [entry |-> file.at[p].entry]
           /\ Read(file, p, "entry") = file.at[p].entry
           /\ SizeAt(file, p) \in Nat /\ SizeAt(file, p) > 0
           /\ p + SizeAt(file, p) <= end
      /\ \A p, q \in Places(file, index) : p < q =>
           /\ p + SizeAt(file, p) <= q
           /\ Less(file.at[p].entry.key, file.at[q].entry.key)
  BY <1>1, PlacesAre
<1>6. end \in Nat /\ BlockHeader \in Nat /\ BlockHeader > 0
  BY <1>1
<1>4. ASSUME AtEnd(s) PROVE Rest(t, s) = {}
  <2>1. s.pos = end
    BY <1>1, <1>2, <1>4 DEF AtEnd
  <2>2. \A p \in Places(file, index) : ~(p >= end)
    <3> SUFFICES ASSUME NEW p \in Places(file, index), p >= end PROVE FALSE
      OBVIOUS
    <3>1. p \in Nat /\ SizeAt(file, p) \in Nat /\ SizeAt(file, p) > 0
          /\ p + SizeAt(file, p) <= end
      BY <1>3
    <3> QED
      BY <3>1, <1>1
  <2> QED
    BY <2>1, <2>2 DEF Rest, From
<1>5. ASSUME ~AtEnd(s)
      PROVE  /\ ~Corrupt(file, s)
             /\ ScanInv(t, next)
             /\ e \in Stored
             /\ Rest(t, s) = Rest(t, next) \cup {e}
             /\ \A d \in Rest(t, next) : Less(e.key, d.key)
  \* Where the next entry is.
  <2>1. \E n \in DOMAIN index :
          /\ in.pos \in Entries(file, index[n])
          /\ in.pos \in Nat /\ in.block_remaining \in Nat /\ in.remaining \in Nat
          /\ in.pos + in.block_remaining = index[n].offset + index[n].len
          /\ in.pos + in.remaining = end
          /\ ~(s.block_remaining = 0 /\ s.remaining < BlockHeader)
          /\ Rest(t, s) = From(t, in.pos)
    <3>1. CASE s.block_remaining > 0
      <4>1. in = s
        BY <3>1 DEF CheckBlock
      <4>2. PICK n \in DOMAIN index :
              /\ s.pos \in Entries(file, index[n])
              /\ s.pos + s.block_remaining = index[n].offset + index[n].len
        BY <3>1 DEF ScanInv
      <4> QED
        BY <3>1, <4>1, <4>2, <1>2 DEF Rest
    <3>2. CASE s.block_remaining = 0
      <4>1. s.pos # end
        BY <1>1, <1>2, <1>5 DEF AtEnd
      <4>2. PICK n \in DOMAIN index : s.pos = index[n].offset
        BY <3>2, <4>1 DEF ScanInv
      <4> DEFINE h == index[n]
      <4>3. /\ h \in Handles
            /\ h.offset \in Nat /\ h.len \in Nat /\ BlockHeader < h.len
            /\ h.offset + h.len <= end
        BY <1>1, BlockEnds
      <4>4. Block(file, h)
        BY <1>1 DEF Blocks
      <4>5. /\ s.pos \in DOMAIN file.at
            /\ file.at[s.pos] = [header |-> [len |-> h.len - BlockHeader]]
            /\ \A p \in DOMAIN file.at : ~(s.pos < p /\ p < s.pos + BlockHeader)
            /\ Run(file, s.pos + BlockHeader, s.pos + h.len)
        BY <4>2, <4>4 DEF Block
      <4> HIDE DEF h
      <4>6. Read(file, s.pos, "header") = [len |-> h.len - BlockHeader]
        BY <4>5 DEF Read
      <4>7. /\ in.pos = s.pos + BlockHeader
            /\ in.block_remaining = h.len - BlockHeader
            /\ in.remaining = s.remaining - BlockHeader
        <5>1. in = [pos |-> s.pos + BlockHeader,
                    block_remaining |-> Read(file, s.pos, "header").len,
                    remaining |-> s.remaining - BlockHeader]
          BY <3>2 DEF CheckBlock
        <5> HIDE DEF in
        <5> QED
          BY <5>1, <4>6
      <4> HIDE DEF in
      <4>8. /\ in.pos \in Nat /\ in.block_remaining \in Nat /\ in.remaining \in Nat
            /\ in.pos + in.block_remaining = h.offset + h.len
            /\ in.pos + in.remaining = end
            /\ ~(s.remaining < BlockHeader)
        <5>1. h.offset = s.pos
          BY <4>2 DEF h
        <5> QED
          BY <5>1, <4>3, <4>7, <1>2, <1>6
      <4>9. in.pos \in Entries(file, h)
        <5>1. s.pos + BlockHeader \in DOMAIN file.at
          BY <4>2, <4>3, <4>5, <1>1, <1>2 DEF Run
        <5> QED
          <6>1. h.offset = s.pos
            BY <4>2 DEF h
          <6>2. in.pos \in DOMAIN file.at /\ h.offset + BlockHeader <= in.pos
            BY <5>1, <6>1, <4>7, <1>2, <1>6
          <6>3. in.pos < h.offset + h.len
            BY <6>1, <4>3, <4>7, <1>2, <1>6
          <6> QED
            BY <6>2, <6>3, <4>3, <1>1, EntriesAre
      <4>10. s.pos \notin Places(file, index)
        <5> SUFFICES ASSUME s.pos \in Places(file, index) PROVE FALSE
          OBVIOUS
        <5>1. file.at[s.pos] = [entry |-> file.at[s.pos].entry]
          BY <1>3
        <5>2. DOMAIN file.at[s.pos] = {"entry"}
          BY <5>1
        <5>3. DOMAIN file.at[s.pos] = {"header"}
          BY <4>5
        <5> QED
          BY <5>2, <5>3
      <4>11. \A p \in Places(file, index) : p >= s.pos <=> p >= in.pos
        <5> SUFFICES ASSUME NEW p \in Places(file, index), p >= s.pos
                     PROVE  p >= in.pos
          <6>1. \A p \in Places(file, index) : p \in Nat
            BY <1>3
          <6> QED
            BY <6>1, <4>7, <1>1, <1>2
        <5>1. p \in DOMAIN file.at /\ p \in Nat /\ p # s.pos
          BY <1>3, <4>10
        <5>2. ~(s.pos < p /\ p < s.pos + BlockHeader)
          BY <5>1, <4>5
        <5> QED
          BY <5>1, <5>2, <4>7, <1>2, <1>6
      <4>12. Rest(t, s) = From(t, in.pos)
        BY <4>11 DEF Rest, From
      <4> QED
        BY <4>8, <4>9, <4>12 DEF h
    <3> QED
      BY <3>1, <3>2, <1>2
  <2>2. PICK n \in DOMAIN index :
          /\ in.pos \in Entries(file, index[n])
          /\ in.pos \in Nat /\ in.block_remaining \in Nat /\ in.remaining \in Nat
          /\ in.pos + in.block_remaining = index[n].offset + index[n].len
          /\ in.pos + in.remaining = end
          /\ ~(s.block_remaining = 0 /\ s.remaining < BlockHeader)
          /\ Rest(t, s) = From(t, in.pos)
    BY <2>1
  <2> DEFINE h == index[n]
             used == EntrySize(e)
  <2>3. e = Read(file, in.pos, "entry")
    BY DEF ScanEntry
  <2>4. /\ ~Corrupt(file, s) <=> /\ ~(s.block_remaining = 0 /\ s.remaining < BlockHeader)
                                 /\ ~(in.block_remaining < used)
                                 /\ ~(in.remaining < used)
        /\ next.pos = in.pos + used
        /\ next.block_remaining = in.block_remaining - used
        /\ next.remaining = in.remaining - used
    BY DEF Corrupt, ScanNext
  <2> HIDE DEF in, e, next
  <2>5. in.pos \in Places(file, index)
    BY <2>2 DEF Places
  <2>6. e = file.at[in.pos].entry /\ e \in Stored /\ used = SizeAt(file, in.pos)
    BY <2>3, <2>5, <1>3 DEF SizeAt
  <2>7. used \in Nat /\ used > 0
    BY <2>6, EntryHasSize
  <2>8. /\ h \in Handles
        /\ h.offset \in Nat /\ h.len \in Nat /\ BlockHeader < h.len
        /\ h.offset + h.len <= end
    BY <1>1, BlockEnds
  <2>9. /\ in.pos \in DOMAIN file.at
        /\ h.offset + BlockHeader <= in.pos /\ in.pos < h.offset + h.len
    BY <2>2, <2>8, <1>1, EntriesAre
  <2> HIDE DEF used
  <2>10. /\ in.pos + used <= h.offset + h.len
         /\ in.pos + used < h.offset + h.len => in.pos + used \in DOMAIN file.at
    <3>1. Run(file, h.offset + BlockHeader, h.offset + h.len)
      BY <1>1 DEF Blocks, Block
    <3> QED
      BY <3>1, <2>6, <2>9 DEF Run
  <2>11. /\ next.pos \in Nat /\ next.block_remaining \in Nat /\ next.remaining \in Nat
         /\ next.pos + next.remaining = end
         /\ next.pos + next.block_remaining = h.offset + h.len
         /\ ~(in.block_remaining < used) /\ ~(in.remaining < used)
    <3>1. /\ in.pos \in Nat /\ in.block_remaining \in Nat /\ in.remaining \in Nat
          /\ in.pos + in.block_remaining = h.offset + h.len
          /\ in.pos + in.remaining = end
      BY <2>2
    <3>2. h.offset \in Nat /\ h.len \in Nat /\ h.offset + h.len <= end
          /\ in.pos + used <= h.offset + h.len
      BY <2>8, <2>10
    <3> HIDE DEF h
    <3>3. ~(in.block_remaining < used) /\ ~(in.remaining < used)
      BY <3>1, <3>2, <2>7, <1>6
    <3> QED
      BY <3>1, <3>2, <3>3, <2>4, <2>7, <1>6
  <2>12. ~Corrupt(file, s)
    BY <2>2, <2>4, <2>11
  <2>13. ScanInv(t, next)
    <3>1. ASSUME next.block_remaining = 0
          PROVE  next.pos = end \/ \E m \in DOMAIN index : next.pos = index[m].offset
      <4>1. next.pos = h.offset + h.len
        BY <2>11, <3>1
      <4>2. h.offset + h.len = IF n = Len(index) THEN end ELSE index[n + 1].offset
        BY <1>1 DEF Blocks
      <4>3. n # Len(index) => n + 1 \in DOMAIN index
        BY <1>1
      <4> QED
        BY <4>1, <4>2, <4>3
    <3>2. ASSUME next.block_remaining > 0
          PROVE  next.pos \in Entries(file, h)
      <4>1. next.pos < h.offset + h.len
        BY <2>8, <2>11, <3>2
      <4>2. next.pos \in DOMAIN file.at /\ h.offset + BlockHeader <= next.pos
        <5>1. in.pos \in Nat /\ next.pos = in.pos + used
          BY <2>2, <2>4
        <5>2. h.offset \in Nat /\ h.offset + BlockHeader <= in.pos
          BY <2>8, <2>9
        <5>3. in.pos + used \in DOMAIN file.at
          BY <4>1, <5>1, <2>10
        <5> HIDE DEF h
        <5> QED
          BY <5>1, <5>2, <5>3, <2>7, <1>6
      <4> QED
        BY <4>1, <4>2, <2>8, <1>1, EntriesAre
    <3> QED
      BY <3>1, <3>2, <2>11 DEF ScanInv
  <2>14. \A q \in Places(file, index) : q >= in.pos <=> q = in.pos \/ q >= next.pos
    <3> SUFFICES ASSUME NEW q \in Places(file, index)
                 PROVE  q >= in.pos <=> q = in.pos \/ q >= next.pos
      OBVIOUS
    <3>1. q \in Nat /\ (in.pos < q => in.pos + used <= q)
      BY <2>5, <2>6, <1>3
    <3> QED
      BY <3>1, <2>2, <2>4, <2>7
  <2>15. Rest(t, s) = Rest(t, next) \cup {e}
    BY <2>2, <2>5, <2>6, <2>14 DEF Rest, From
  <2>16. ASSUME NEW d \in Rest(t, next) PROVE Less(e.key, d.key)
    <3>1. PICK q \in Places(file, index) : q >= next.pos /\ d = file.at[q].entry
      BY <2>16 DEF Rest, From
    <3>2. q \in Nat /\ in.pos < q
      <4>1. q \in Nat /\ in.pos \in Nat /\ next.pos = in.pos + used
        BY <2>2, <2>4, <1>3
      <4> QED
        BY <4>1, <3>1, <2>7
    <3> QED
      BY <3>1, <3>2, <2>5, <2>6, <1>3
  <2> QED
    BY <2>6, <2>12, <2>13, <2>15, <2>16
<1> QED
  BY <1>4, <1>5

=============================================================================
