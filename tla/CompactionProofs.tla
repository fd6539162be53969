--------------------------- MODULE CompactionProofs ---------------------------
(***************************************************************************)
(* Tables and their compaction are right for every set of entries, every   *)
(* block size and every number of tables: what SSTableProofs.tla says of   *)
(* the operators, carried along the steps of Compaction.tla.               *)
(*                                                                         *)
(* The inductive invariant says of a merge which entries of each input are *)
(* still to come, that the heap has the first of them, that what was taken *)
(* is behind curr, and that every key behind curr is settled.              *)
(***************************************************************************)
EXTENDS Compaction, SSTableProofs

-----------------------------------------------------------------------------
(* The inductive invariant.                                                *)

\* There is a table for every set of entries but the one that is being written,
\* and the one that compact found nothing for.
TablesInv ==
    /\ tables \in Seq({tables[n] : n \in DOMAIN tables})
    /\ Len(given) \in {Len(tables), Len(tables) + 1}
    /\ phase = "idle" => Len(given) = Len(tables)
    /\ phase \in {"add", "merge"} => Len(given) = Len(tables) + 1
    /\ \A n \in DOMAIN tables : TableInv(tables[n], given[n])

\* What an input of a merge was written from are the entries that were given to
\* a writer, not those of another merge.
GivenInv ==
    \A n \in DOMAIN given :
        phase \in {"idle", "add"} \/ n \in DOMAIN scans => given[n] \subseteq Given

WritingInv ==
    phase \in {"add", "merge"} =>
        WriterInv(writer, LastGiven) /\ writer.block.size <= BlockSize

\* What the scan of an input has yet to yield.
Left(i) == Rest(tables[i], scans[i])

\* A version of an input that was not taken yet.
Waits(i, v) == <<v, i>> \in heap \/ \E d \in Left(i) : d.key = v

ScansInv ==
    \A i \in DOMAIN scans :
        /\ ScanInv(tables[i], scans[i])
        /\ Left(i) \subseteq Kept(given[i])
        /\ (\A h \in heap : h[2] # i) => Left(i) = {}

HeapInv ==
    /\ \A h \in heap :
        /\ \E g \in given[h[2]] :
            g.key = h[1] /\ pending[h[2]] = Decode(Encode(g.value))
        /\ \A d \in Left(h[2]) : Less(h[1], d.key)
    /\ \A g, h \in heap : g[2] = h[2] => g = h

Inputs == UNION {given[i] : i \in DOMAIN scans}

\* The output has of a key what the inputs have.
Settled(key) ==
    /\ Value(LastGiven, key) = Value(Inputs, key)
    /\ Cardinality({e \in LastGiven : e.key[1] = key}) <= 1

\* Before the first entry, and after the last one.
NoCurr ==
    /\ heap # {} =>
        LastGiven = {} /\ \A i \in DOMAIN scans : \A g \in given[i] : Waits(i, g.key)
    /\ heap = {} => \A key \in Key : Settled(key)

\* The newest version of a key, behind those of lesser keys.
HasCurr ==
    /\ \E g \in Inputs : curr.key = g.key /\ curr.value = Decode(Encode(g.value))
    /\ \A i \in DOMAIN scans : \A g \in given[i] :
        /\ Waits(i, g.key) => ~Less(g.key, curr.key)
        /\ ~Waits(i, g.key) =>
            \/ g.key[1] < curr.key[1]
            \/ g.key[1] = curr.key[1] /\ g.key[2] <= curr.key[2]
    /\ \A key \in Key : key < curr.key[1] => Settled(key)
    /\ \A e \in LastGiven : e.key[1] < curr.key[1]

CurrInv == IF curr = None THEN NoCurr ELSE HasCurr

MergeInv == phase = "merge" => ScansInv /\ HeapInv /\ CurrInv

IInv ==
    /\ TypeOK
    /\ TablesInv /\ GivenInv /\ WritingInv /\ MergeInv
    /\ MergeExact /\ FailsOnlyOversize

-----------------------------------------------------------------------------
(* Lists and lookups.                                                      *)

\* A list with an element more at its end.
LEMMA AtEndOf ==
  ASSUME NEW s, s \in Seq({s[n] : n \in DOMAIN s}), NEW e
  PROVE  LET more == Append(s, e) IN
         /\ more \in Seq({more[n] : n \in DOMAIN more})
         /\ Len(s) \in Nat /\ Len(more) = Len(s) + 1
         /\ DOMAIN s = 1..Len(s) /\ DOMAIN more = 1..(Len(s) + 1)
         /\ \A n \in DOMAIN s : more[n] = s[n]
         /\ more[Len(s) + 1] = e
<1> DEFINE S == {s[n] : n \in DOMAIN s} \cup {e}
           more == Append(s, e)
<1>1. s \in Seq(S) /\ e \in S
  <2>1. Len(s) \in Nat /\ s \in [1..Len(s) -> {s[n] : n \in DOMAIN s}]
    OBVIOUS
  <2>2. s \in [1..Len(s) -> S]
    BY <2>1
  <2> QED
    BY <2>1, <2>2
<1> HIDE DEF S
<1>2. /\ more \in Seq(S)
      /\ Len(s) \in Nat /\ Len(more) = Len(s) + 1
      /\ DOMAIN s = 1..Len(s) /\ DOMAIN more = 1..(Len(s) + 1)
      /\ \A n \in DOMAIN s : more[n] = s[n]
      /\ more[Len(s) + 1] = e
  BY <1>1
<1> HIDE DEF more
<1>3. more \in Seq({more[n] : n \in DOMAIN more})
  <2>1. Len(more) \in Nat /\ more \in [1..Len(more) -> S] /\ DOMAIN more = 1..Len(more)
    BY <1>2
  <2>2. more \in [1..Len(more) -> {more[n] : n \in DOMAIN more}]
    BY <2>1
  <2> QED
    BY <2>1, <2>2
<1> QED
  BY <1>2, <1>3 DEF more

\* An entry that was given is a version of a key of the model.
LEMMA GivenAre ==
  /\ Given \subseteq Facts
  /\ \A g \in Given : g.key[2] <= MaxSeq
  /\ \A d, e \in Given : d.key = e.key => d = e
  /\ MaxSeq \in Nat
  /\ None \notin Facts
<1>1. /\ MaxSeq \in Nat
      /\ Given \subseteq [key : Key \X (0..MaxSeq), value : Nat \cup {Delete}]
      /\ \A d, e \in Given : d.key = e.key => d = e
      /\ None \notin [key : Key \X Nat, value : Nat \cup {Delete}]
  BY CompactionAssumption, Zenon DEF CompactionAssumption
<1>2. \A g \in Given : g \in Facts /\ g.key[2] <= MaxSeq
  <2> SUFFICES ASSUME NEW g \in Given PROVE g \in Facts /\ g.key[2] <= MaxSeq
    OBVIOUS
  <2>1. g \in [key : Key \X (0..MaxSeq), value : Nat \cup {Delete}]
    BY <1>1
  <2> QED
    BY <2>1, <1>1 DEF Facts
<1> QED
  BY <1>1, <1>2 DEF Facts

\* A value that is not a deletion is one, and a value that was read stays the same.
LEMMA ReadValue ==
  ASSUME NEW g \in Facts
  PROVE  LET v == Decode(Encode(g.value)) IN
         /\ v \in Nat \cup {Delete} /\ v # Absent
         /\ Decode(Encode(v)) = v
<1>1. Encode(g.value) \in Nat
  BY DEF Facts, Encode
<1>2. Absent \notin Nat \cup {Delete}
  BY SSTableAssumption, Zenon DEF SSTableAssumption
<1> QED
  BY <1>1, <1>2, Decoded

\* What a file makes of a value: only an empty string changes.
LEMMA ReadAs ==
  ASSUME NEW g \in Facts
  PROVE  AsRead(g.value) = Decode(Encode(g.value))
<1>1. g.value \in Nat \cup {Delete}
  BY DEF Facts
<1> QED
  BY <1>1 DEF AsRead, Encode, Decode

\* Of the versions of a key that a snapshot sees, there is a newest one.
LEMMA NewestIs ==
  ASSUME NEW S, S \subseteq Facts, NEW key, NEW snapshot \in Nat
  PROVE  LET old == {e \in S : e.key[1] = key /\ e.key[2] <= snapshot} IN
         /\ old = {} => Newest(S, key, snapshot) = Absent
         /\ old # {} => \E e \in old :
              /\ \A f \in old : f.key[2] <= e.key[2]
              /\ Newest(S, key, snapshot) = Decode(Encode(e.value))
<1> DEFINE old == {e \in S : e.key[1] = key /\ e.key[2] <= snapshot}
           seqs == {e.key[2] : e \in old}
           seq == Largest(seqs)
           newest == CHOOSE e \in old : e.key[2] = seq
<1>1. Newest(S, key, snapshot) =
        IF old = {} THEN Absent ELSE AsRead(newest.value)
  BY DEF Newest
<1>2. ASSUME old # {}
      PROVE  \E e \in old :
              /\ \A f \in old : f.key[2] <= e.key[2]
              /\ Newest(S, key, snapshot) = Decode(Encode(e.value))
  <2>1. \A e \in old : e.key[2] \in Nat /\ e.key[2] <= snapshot
    BY DEF Facts
  <2>2. seqs \subseteq 0..snapshot /\ seqs # {}
    BY <2>1, <1>2
  <2> HIDE DEF seqs
  <2>3. PICK m \in seqs : \A n \in seqs : n <= m
    BY <2>2, Greatest
  <2>4. \A n \in seqs : m >= n
    BY <2>2, <2>3
  <2>5. seq \in seqs /\ \A n \in seqs : seq >= n
    BY <2>4 DEF Largest
  <2> HIDE DEF seq
  <2>6. \E e \in old : e.key[2] = seq
    BY <2>5 DEF seqs
  <2>7. newest \in old /\ newest.key[2] = seq
    BY <2>6
  <2>9. AsRead(newest.value) = Decode(Encode(newest.value))
    BY <2>7, ReadAs
  <2> HIDE DEF newest
  <2>8. \A f \in old : f.key[2] <= newest.key[2]
    <3> SUFFICES ASSUME NEW f \in old PROVE f.key[2] <= seq
      BY <2>7
    <3>1. f.key[2] \in seqs
      BY DEF seqs
    <3> QED
      BY <3>1, <2>2, <2>5
  <2> HIDE DEF old
  <2> QED
    BY <2>7, <2>8, <2>9, <1>1, <1>2
<1> QED
  BY <1>1, <1>2

\* What a set has of a key depends on the entries of the key only.
LEMMA ValueSame ==
  ASSUME NEW S, NEW T, NEW key,
         \A e : e.key[1] = key => (e \in S <=> e \in T)
  PROVE  /\ Value(S, key) = Value(T, key)
         /\ {e \in S : e.key[1] = key} = {e \in T : e.key[1] = key}
<1> DEFINE old(U) == {e \in U : e.key[1] = key /\ e.key[2] <= MaxSeq}
           newest(V) == CHOOSE e \in V : e.key[2] = Largest({f.key[2] : f \in V})
           found(V) == IF V = {} THEN Absent ELSE AsRead(newest(V).value)
           value(f) == IF f = Absent THEN Delete ELSE f
<1>1. {e \in S : e.key[1] = key} = {e \in T : e.key[1] = key}
  OBVIOUS
<1>2. old(S) = old(T)
  OBVIOUS
<1>3. /\ Newest(S, key, MaxSeq) = found(old(S))
      /\ Newest(T, key, MaxSeq) = found(old(T))
  BY DEF Newest
<1>4. /\ Value(S, key) = value(Newest(S, key, MaxSeq))
      /\ Value(T, key) = value(Newest(T, key, MaxSeq))
  BY DEF Value
<1> HIDE DEF old, found, value
<1> QED
  BY <1>1, <1>2, <1>3, <1>4

\* A set without a version of a key has nothing of it.
LEMMA NoValue ==
  ASSUME NEW S, S \subseteq Facts, NEW key, \A e \in S : e.key[1] # key
  PROVE  Value(S, key) = Delete /\ Cardinality({e \in S : e.key[1] = key}) <= 1
<1>1. {e \in S : e.key[1] = key} = {}
      /\ {e \in S : e.key[1] = key /\ e.key[2] <= MaxSeq} = {}
  OBVIOUS
<1>2. Newest(S, key, MaxSeq) = Absent
  BY <1>1, GivenAre, NewestIs
<1>3. Cardinality({e \in S : e.key[1] = key}) = 0
  BY <1>1, FS_EmptySet
<1> QED
  BY <1>2, <1>3 DEF Value

\* What a set has of a key is what the newest version says.
LEMMA ValueIs ==
  ASSUME NEW S, S \subseteq Facts, \A d, e \in S : d.key = e.key => d = e,
         NEW g \in S, g.key[2] <= MaxSeq,
         \A e \in S : e.key[1] = g.key[1] => e.key[2] <= g.key[2]
  PROVE  Value(S, g.key[1]) = Decode(Encode(g.value))
<1> DEFINE old == {e \in S : e.key[1] = g.key[1] /\ e.key[2] <= MaxSeq}
<1>1. \A e \in S : e.key = <<e.key[1], e.key[2]>> /\ e.key[2] \in Nat
  BY DEF Facts
<1>2. g \in old
  OBVIOUS
<1>3. PICK e \in old :
        /\ \A f \in old : f.key[2] <= e.key[2]
        /\ Newest(S, g.key[1], MaxSeq) = Decode(Encode(e.value))
  BY <1>2, GivenAre, NewestIs
<1>4. e = g
  <2>1. e.key[2] <= g.key[2] /\ g.key[2] <= e.key[2]
    BY <1>2, <1>3
  <2>2. e.key = g.key
    BY <2>1, <1>1
  <2> QED
    BY <2>2
<1>5. Newest(S, g.key[1], MaxSeq) # Absent
  BY <1>3, <1>4, ReadValue
<1> QED
  BY <1>3, <1>4, <1>5 DEF Value

-----------------------------------------------------------------------------
(* Parts of the steps.                                                     *)

\* The entries that were given, by table.
LEMMA GivenList ==
  ASSUME TypeOK
  PROVE  /\ given \in Seq(SUBSET Facts)
         /\ Len(given) \in Nat /\ DOMAIN given = 1..Len(given)
         /\ \A n \in DOMAIN given : given[n] \subseteq Facts
<1>1. given \in Seq(SUBSET Facts)
  BY DEF TypeOK, Facts
<1> QED
  BY <1>1

\* The writer is given an entry.
LEMMA GiveIs ==
  ASSUME IInv, phase \in {"add", "merge"}, NEW g \in Facts,
         writer.entries > 0 => Less(writer.last_key, g.key),
         NEW next \in {"add", "merge"}, Give(g.key, g.value, next)
  PROVE  /\ given' \in Seq(SUBSET Facts)
         /\ Len(given) \in Nat /\ Len(given) > 0 /\ Len(given') = Len(given)
         /\ DOMAIN given = 1..Len(given) /\ DOMAIN given' = 1..Len(given)
         /\ \A n \in DOMAIN given : n # Len(given) => given'[n] = given[n]
         /\ LastGiven \subseteq Facts /\ LastGiven' = LastGiven \cup {g}
         /\ writer'.block.size >= BlockHeader
         /\ writer'.error \in {None, "order", "block length"}
         /\ \/ /\ phase' = next
               /\ WriterInv(writer', LastGiven') /\ writer'.block.size <= BlockSize
            \/ /\ phase' = "failed"
               /\ writer'.error = "block length"
               /\ EntrySize(LastEntry(writer'.block)) > MaxBlock - BlockSize
<1> DEFINE w == Add(writer, Entry(g.key, g.value))
           n == Len(given)
<1>1. /\ writer' = w
      /\ given' = [given EXCEPT ![n] = @ \cup {[key |-> g.key, value |-> g.value]}]
      /\ phase' = IF w.error = None THEN next ELSE "failed"
  BY DEF Give
<1>2. [key |-> g.key, value |-> g.value] = g
  BY DEF Facts
<1>3. /\ given \in Seq(SUBSET Facts) /\ n \in Nat /\ DOMAIN given = 1..n
      /\ \A i \in DOMAIN given : given[i] \subseteq Facts
  BY GivenList DEF IInv
<1>4. n > 0
  <2>1. Len(given) = Len(tables) + 1 /\ tables \in Seq({tables[i] : i \in DOMAIN tables})
    BY DEF IInv, TablesInv
  <2>2. Len(tables) \in Nat
    BY <2>1
  <2> QED
    BY <2>1, <2>2
<1>5. LastGiven \subseteq Facts
  BY <1>3, <1>4 DEF LastGiven
<1>6. /\ given' \in Seq(SUBSET Facts)
      /\ Len(given') = n /\ DOMAIN given' = 1..n
      /\ \A i \in DOMAIN given : i # n => given'[i] = given[i]
      /\ given'[n] = given[n] \cup {g}
  <2>1. given' = [given EXCEPT ![n] = given[n] \cup {g}]
    BY <1>1, <1>2
  <2>2. n \in DOMAIN given /\ given[n] \cup {g} \in SUBSET Facts
    BY <1>3, <1>4
  <2> QED
    BY <2>1, <2>2, <1>3
<1>7. LastGiven' = LastGiven \cup {g}
  BY <1>6 DEF LastGiven
<1>8. WriterInv(writer, LastGiven) /\ writer.block.size <= BlockSize
  BY DEF IInv, WritingInv
<1>9. \/ /\ w.error = None
         /\ WriterInv(w, LastGiven \cup {g})
         /\ w.block.size <= BlockSize
      \/ /\ w.error = "block length"
         /\ w.block.size \in Nat /\ w.block.size >= BlockHeader
         /\ EntrySize(w.block.at[Largest(DOMAIN w.block.at)].entry) > MaxBlock - BlockSize
  BY <1>8, AddInv
<1> HIDE DEF w
<1>10. None # "block length"
  BY SSTableAssumption, Zenon DEF SSTableAssumption
<1>11. CASE w.error = None
  <2>1. WriterInv(w, LastGiven \cup {g}) /\ w.block.size <= BlockSize
    BY <1>9, <1>10, <1>11
  <2>2. w.block.size >= BlockHeader
    <3>1. BlockHeader <= w.block.size /\ w.block.size \in Nat /\ BlockHeader \in Nat
      BY <2>1, Sizes DEF WriterInv, BufferInv, IsFile
    <3> QED
      BY <3>1
  <2>3. phase' = next /\ WriterInv(writer', LastGiven')
    BY <2>1, <1>1, <1>7, <1>11
  <2> QED
    BY <2>1, <2>2, <2>3, <1>1, <1>3, <1>4, <1>5, <1>6, <1>7, <1>11
<1>12. CASE w.error = "block length"
  <2>1. /\ w.block.size >= BlockHeader
        /\ EntrySize(w.block.at[Largest(DOMAIN w.block.at)].entry) > MaxBlock - BlockSize
    BY <1>9, <1>10, <1>12
  <2>2. EntrySize(LastEntry(writer'.block)) > MaxBlock - BlockSize
    BY <2>1, <1>1 DEF LastEntry
  <2>3. phase' = "failed"
    BY <1>1, <1>10, <1>12
  <2> QED
    BY <2>1, <2>2, <2>3, <1>1, <1>3, <1>4, <1>5, <1>6, <1>7, <1>12
<1> QED
  BY <1>9, <1>11, <1>12

\* What the next entry of an input is, if it has one.
LEMMA AdvanceIs ==
  ASSUME NEW i \in DOMAIN tables, NEW from, TableInv(tables[i], from),
         NEW s, ScanInv(tables[i], s)
  PROVE  LET next == Advance(i, s) IN
         /\ next.ok = TRUE
         /\ ScanInv(tables[i], next.scan)
         /\ \/ /\ next.heap = {}
               /\ Rest(tables[i], s) = {} /\ Rest(tables[i], next.scan) = {}
            \/ \E e \in Stored :
               /\ next.heap = {<<e.key, i>>} /\ next.value = Decode(e.length)
               /\ Rest(tables[i], s) = Rest(tables[i], next.scan) \cup {e}
               /\ \A d \in Rest(tables[i], next.scan) : Less(e.key, d.key)
<1> DEFINE file == tables[i].file
           e == ScanEntry(file, s)
           next == Advance(i, s)
<1>1. /\ AtEnd(s) => Rest(tables[i], s) = {}
      /\ ~AtEnd(s) =>
          /\ ~Corrupt(file, s)
          /\ ScanInv(tables[i], ScanNext(file, s))
          /\ e \in Stored
          /\ Rest(tables[i], s) = Rest(tables[i], ScanNext(file, s)) \cup {e}
          /\ \A d \in Rest(tables[i], ScanNext(file, s)) : Less(e.key, d.key)
  BY ScanIs
<1>2. CASE AtEnd(s)
  <2>1. next.ok = TRUE /\ next.scan = s /\ next.heap = {}
    BY <1>2 DEF Advance
  <2> QED
    BY <2>1, <1>1, <1>2
<1>3. CASE ~AtEnd(s)
  <2>1. /\ next.ok = ~Corrupt(file, s) /\ next.scan = ScanNext(file, s)
        /\ next.value = Decode(e.length) /\ next.heap = {<<e.key, i>>}
    BY <1>3 DEF Advance
  <2>2. next.ok = TRUE
    BY <2>1, <1>1, <1>3
  <2> QED
    BY <2>1, <2>2, <1>1, <1>3
<1> QED
  BY <1>2, <1>3

\* The inputs of a merge.
LEMMA InputsAre ==
  ASSUME IInv
  PROVE  /\ DOMAIN scans \subseteq DOMAIN tables
         /\ DOMAIN tables = 1..Len(tables) /\ Len(tables) \in Nat
         /\ \A i \in DOMAIN scans :
              /\ i \in DOMAIN given
              /\ TableInv(tables[i], given[i])
              /\ given[i] \subseteq Given /\ given[i] \subseteq Facts
              /\ \A g \in given[i] : g.key \in Nat \X Nat /\ g.key[2] <= MaxSeq
         /\ Inputs \subseteq Given /\ Inputs \subseteq Facts
         /\ \A i \in DOMAIN scans : phase = "merge" => i # Len(given)
<1>1. /\ TypeOK /\ GivenInv
      /\ tables \in Seq({tables[n] : n \in DOMAIN tables})
      /\ Len(given) \in {Len(tables), Len(tables) + 1}
      /\ phase = "merge" => Len(given) = Len(tables) + 1
      /\ \A n \in DOMAIN tables : TableInv(tables[n], given[n])
  BY DEF IInv, TablesInv
<1>2. DOMAIN tables = 1..Len(tables) /\ Len(tables) \in Nat
  BY <1>1
<1>3. DOMAIN scans \subseteq DOMAIN tables
  BY <1>1 DEF TypeOK
<1>4. Len(given) \in Nat /\ DOMAIN given = 1..Len(given)
  BY <1>1, GivenList
<1>5. ASSUME NEW i \in DOMAIN scans
      PROVE  /\ i \in DOMAIN given
             /\ TableInv(tables[i], given[i])
             /\ given[i] \subseteq Given /\ given[i] \subseteq Facts
             /\ \A g \in given[i] : g.key \in Nat \X Nat /\ g.key[2] <= MaxSeq
             /\ phase = "merge" => i # Len(given)
  <2>1. i \in 1..Len(tables)
    BY <1>2, <1>3
  <2>2. i \in DOMAIN given /\ (phase = "merge" => i # Len(given))
    <3>1. Len(given) = Len(tables) \/ Len(given) = Len(tables) + 1
      BY <1>1
    <3>2. i \in Nat /\ 1 <= i /\ i <= Len(tables)
      BY <2>1, <1>2
    <3>3. i <= Len(given)
      BY <3>1, <3>2, <1>2
    <3>4. ASSUME phase = "merge" PROVE i # Len(given)
      <4>1. Len(given) = Len(tables) + 1
        BY <3>4, <1>1
      <4> QED
        BY <4>1, <3>2, <1>2
    <3> QED
      BY <3>2, <3>3, <3>4, <1>4
  <2>3. TableInv(tables[i], given[i])
    BY <2>1, <1>1, <1>2
  <2>4. given[i] \subseteq Given
    BY <2>2, <1>1 DEF GivenInv
  <2>5. given[i] \subseteq Facts /\ \A g \in given[i] : g.key[2] <= MaxSeq
    BY <2>4, GivenAre
  <2>6. \A g \in given[i] : g.key \in Nat \X Nat
    BY <2>5, Versions DEF Facts
  <2> QED
    BY <2>2, <2>3, <2>4, <2>5, <2>6
<1>6. Inputs \subseteq Given /\ Inputs \subseteq Facts
  BY <1>5 DEF Inputs
<1> QED
  BY <1>2, <1>3, <1>5, <1>6

-----------------------------------------------------------------------------
(* The steps that write a table.                                           *)

\* At first there is nothing.
LEMMA InitInv == Init => IInv
<1> SUFFICES ASSUME Init PROVE IInv
  OBVIOUS
<1>1. /\ phase = "idle" /\ writer = Create /\ tables = <<>> /\ given = <<>>
      /\ scans = <<>> /\ heap = {} /\ pending = <<>> /\ curr = None
  BY DEF Init
<1>2. /\ \A S : <<>> \in Seq(S)
      /\ Len(<<>>) = 0 /\ DOMAIN <<>> = {}
  BY EmptySeq
<1>3. Create.block.size = BlockHeader /\ Create.error = None
  BY CreateInv
<1>4. BlockHeader \in Nat /\ BlockSize \in Nat /\ BlockHeader < BlockSize
  BY Sizes
<1>5. TypeOK
  BY <1>1, <1>2, <1>3, <1>4 DEF TypeOK
<1>6. TablesInv
  BY <1>1, <1>2 DEF TablesInv
<1>7. GivenInv
  BY <1>1, <1>2 DEF GivenInv
<1>8. WritingInv /\ MergeInv /\ MergeExact /\ FailsOnlyOversize
  BY <1>1 DEF WritingInv, MergeInv, MergeExact, FailsOnlyOversize
<1> QED
  BY <1>5, <1>6, <1>7, <1>8 DEF IInv

\* Another table gets a set of entries, so far empty.
LEMMA BeginAnother ==
  ASSUME IInv, phase = "idle", given' = Append(given, {})
  PROVE  /\ given' \in Seq(SUBSET Facts)
         /\ Len(given) \in Nat /\ Len(given') = Len(given) + 1
         /\ DOMAIN given' = DOMAIN given \cup {Len(given) + 1}
         /\ Len(given) = Len(tables) /\ DOMAIN given = DOMAIN tables
         /\ \A n \in DOMAIN given : given'[n] = given[n] /\ given[n] \subseteq Given
         /\ given'[Len(given')] = {}
<1>1. /\ given \in Seq(SUBSET Facts) /\ Len(given) \in Nat /\ DOMAIN given = 1..Len(given)
  BY GivenList DEF IInv
<1>2. /\ Len(given) = Len(tables)
      /\ tables \in Seq({tables[n] : n \in DOMAIN tables})
  BY DEF IInv, TablesInv
<1>3. \A n \in DOMAIN given : given[n] \subseteq Given
  BY DEF IInv, GivenInv
<1>4. {} \in SUBSET Facts
  OBVIOUS
<1>5. /\ given' \in Seq(SUBSET Facts)
      /\ Len(given') = Len(given) + 1
      /\ DOMAIN given' = 1..(Len(given) + 1)
      /\ \A n \in DOMAIN given : given'[n] = given[n]
      /\ given'[Len(given) + 1] = {}
  BY <1>1, <1>4
<1> QED
  BY <1>1, <1>2, <1>3, <1>5

\* A new writer.
LEMMA BeginInv == IInv /\ Begin => IInv'
<1> SUFFICES ASSUME IInv, Begin PROVE IInv'
  OBVIOUS
<1>1. /\ phase = "idle" /\ phase' = "add" /\ writer' = Create
      /\ given' = Append(given, {})
      /\ tables' = tables /\ scans' = scans /\ heap' = heap
      /\ pending' = pending /\ curr' = curr
  BY DEF Begin, mergeVars
<1>2. /\ given' \in Seq(SUBSET Facts)
      /\ Len(given) \in Nat /\ Len(given') = Len(given) + 1
      /\ DOMAIN given' = DOMAIN given \cup {Len(given) + 1}
      /\ Len(given) = Len(tables) /\ DOMAIN given = DOMAIN tables
      /\ \A n \in DOMAIN given : given'[n] = given[n] /\ given[n] \subseteq Given
      /\ given'[Len(given')] = {}
  BY <1>1, BeginAnother
<1>3. /\ WriterInv(Create, {}) /\ Create.block.size = BlockHeader /\ Create.error = None
      /\ BlockHeader \in Nat /\ BlockSize \in Nat /\ BlockHeader < BlockSize
  BY CreateInv, Sizes
<1>4. TypeOK'
  <2>1. given' \in Seq(SUBSET [key : Key \X Nat, value : Nat \cup {Delete}])
    BY <1>2 DEF Facts
  <2>2. TypeOK
    BY DEF IInv
  <2>3. /\ writer'.block.size >= BlockHeader /\ writer'.block.size <= BlockSize
        /\ writer'.error \in {None, "order", "block length"}
    BY <1>1, <1>3
  <2> QED
    BY <2>1, <2>2, <2>3, <1>1 DEF TypeOK
<1>5. TablesInv'
  <2>1. Len(tables') = Len(tables) /\ Len(given') = Len(tables') + 1
    BY <1>1, <1>2
  <2>2. /\ tables' \in Seq({tables'[n] : n \in DOMAIN tables'})
        /\ \A n \in DOMAIN tables' : TableInv(tables'[n], given'[n])
    BY <1>1, <1>2 DEF IInv, TablesInv
  <2> QED
    BY <2>1, <2>2, <1>1 DEF TablesInv
<1>6. GivenInv'
  BY <1>1, <1>2 DEF GivenInv
<1>7. WritingInv'
  BY <1>1, <1>2, <1>3 DEF WritingInv, LastGiven
<1>8. MergeInv' /\ MergeExact' /\ FailsOnlyOversize'
  BY <1>1 DEF MergeInv, MergeExact, FailsOnlyOversize
<1> QED
  BY <1>4, <1>5, <1>6, <1>7, <1>8 DEF IInv

\* What is left of the invariant when the writer of a merge or of a table got
\* an entry.
LEMMA GiveInv ==
  ASSUME IInv, phase \in {"add", "merge"}, NEW g \in Facts,
         writer.entries > 0 => Less(writer.last_key, g.key),
         NEW next \in {"add", "merge"}, Give(g.key, g.value, next),
         next = phase, next = "add" => g \in Given,
         tables' = tables, DOMAIN scans' = DOMAIN scans
  PROVE  /\ TablesInv' /\ GivenInv' /\ WritingInv'
         /\ MergeExact' /\ FailsOnlyOversize'
         /\ \A i \in DOMAIN scans : phase = "merge" => given'[i] = given[i]
<1>1. /\ given' \in Seq(SUBSET Facts)
      /\ Len(given) \in Nat /\ Len(given) > 0 /\ Len(given') = Len(given)
      /\ DOMAIN given = 1..Len(given) /\ DOMAIN given' = 1..Len(given)
      /\ \A n \in DOMAIN given : n # Len(given) => given'[n] = given[n]
      /\ LastGiven' = LastGiven \cup {g}
      /\ \/ /\ phase' = next
            /\ WriterInv(writer', LastGiven') /\ writer'.block.size <= BlockSize
         \/ /\ phase' = "failed"
            /\ writer'.error = "block length"
            /\ EntrySize(LastEntry(writer'.block)) > MaxBlock - BlockSize
  BY GiveIs
<1>2. /\ tables \in Seq({tables[n] : n \in DOMAIN tables})
      /\ Len(given) = Len(tables) + 1
      /\ \A n \in DOMAIN tables : TableInv(tables[n], given[n])
  BY DEF IInv, TablesInv
<1>3. /\ DOMAIN tables = 1..Len(tables) /\ Len(tables) \in Nat
      /\ \A n \in DOMAIN tables : n \in DOMAIN given /\ n # Len(given)
  <2>1. DOMAIN tables = 1..Len(tables) /\ Len(tables) \in Nat
    BY <1>2
  <2>2. ASSUME NEW n \in DOMAIN tables PROVE n \in 1..Len(given) /\ n # Len(given)
    BY <2>1, <1>2
  <2> QED
    BY <2>1, <2>2, <1>1
<1>4. phase' \in {"add", "merge", "failed"} /\ phase' # "idle" /\ phase' # "compacted"
  BY <1>1
<1>5. TablesInv'
  BY <1>1, <1>2, <1>3, <1>4 DEF TablesInv
<1>6. GivenInv'
  <2>1. ASSUME NEW n \in DOMAIN given, phase' = "add" \/ n \in DOMAIN scans
        PROVE  given'[n] \subseteq Given
    <3>1. CASE n # Len(given)
      <4>1. phase = "add" \/ n \in DOMAIN scans
        BY <2>1, <1>1
      <4>2. given[n] \subseteq Given
        BY <4>1 DEF IInv, GivenInv
      <4> QED
        BY <4>2, <3>1, <1>1
    <3>2. CASE n = Len(given)
      <4>1. n \notin DOMAIN scans
        BY <3>2, <1>2, <1>3 DEF IInv, TypeOK
      <4>2. phase = "add" /\ next = "add"
        BY <4>1, <2>1, <1>1
      <4>3. LastGiven \subseteq Given
        BY <4>2, <3>2 DEF IInv, GivenInv, LastGiven
      <4>4. given'[n] = LastGiven \cup {g}
        BY <3>2, <1>1 DEF LastGiven
      <4> QED
        BY <4>2, <4>3, <4>4
    <3> QED
      BY <3>1, <3>2
  <2> QED
    BY <2>1, <1>1, <1>4 DEF GivenInv
<1>7. WritingInv'
  BY <1>1 DEF WritingInv
<1>8. MergeExact'
  BY <1>4 DEF MergeExact
<1>9. FailsOnlyOversize'
  BY <1>1 DEF FailsOnlyOversize
<1>10. ASSUME NEW i \in DOMAIN scans, phase = "merge" PROVE given'[i] = given[i]
  BY <1>1, <1>10, InputsAre
<1> QED
  BY <1>5, <1>6, <1>7, <1>8, <1>9, <1>10

\* An entry of the memtable.
LEMMA AddNextInv == IInv /\ AddNext => IInv'
<1> SUFFICES ASSUME IInv, AddNext PROVE IInv'
  OBVIOUS
<1>1. PICK g \in Given :
        /\ phase = "add"
        /\ writer.entries > 0 => Less(writer.last_key, g.key)
        /\ Give(g.key, g.value, "add")
        /\ UNCHANGED <<tables, mergeVars>>
  BY DEF AddNext
<1>2. /\ tables' = tables /\ scans' = scans /\ heap' = heap
      /\ pending' = pending /\ curr' = curr
  BY <1>1 DEF mergeVars
<1>3. g \in Facts
  BY GivenAre
<1>4. /\ given' \in Seq(SUBSET Facts)
      /\ writer'.block.size >= BlockHeader
      /\ writer'.error \in {None, "order", "block length"}
      /\ \/ phase' = "add" /\ writer'.block.size <= BlockSize
         \/ phase' = "failed"
  BY <1>1, <1>3, GiveIs
<1>5. /\ TablesInv' /\ GivenInv' /\ WritingInv'
      /\ MergeExact' /\ FailsOnlyOversize'
  BY <1>1, <1>2, <1>3, GiveInv
<1>6. TypeOK'
  BY <1>2, <1>4 DEF IInv, TypeOK, Facts
<1>7. MergeInv'
  BY <1>4 DEF MergeInv
<1> QED
  BY <1>5, <1>6, <1>7 DEF IInv

\* A table more.
LEMMA AnotherTable ==
  ASSUME IInv, phase \in {"add", "merge"}, writer.entries > 0, given' = given,
         tables' = Append(tables, Finish(writer))
  PROVE  /\ tables' \in Seq({tables'[n] : n \in DOMAIN tables'})
         /\ Len(tables') = Len(given) /\ Len(given) = Len(tables) + 1 /\ Len(tables) \in Nat
         /\ DOMAIN tables \subseteq DOMAIN tables'
         /\ \A n \in DOMAIN tables' :
              TableInv(tables'[n], given[n]) /\ tables'[n].meta.file_size \in Nat
<1>1. /\ tables \in Seq({tables[n] : n \in DOMAIN tables})
      /\ Len(given) = Len(tables) + 1
      /\ \A n \in DOMAIN tables : TableInv(tables[n], given[n])
  BY DEF IInv, TablesInv
<1>2. /\ tables' \in Seq({tables'[n] : n \in DOMAIN tables'})
      /\ Len(tables) \in Nat /\ Len(tables') = Len(tables) + 1
      /\ DOMAIN tables = 1..Len(tables) /\ DOMAIN tables' = 1..(Len(tables) + 1)
      /\ \A n \in DOMAIN tables : tables'[n] = tables[n]
      /\ tables'[Len(tables) + 1] = Finish(writer)
  BY <1>1, AtEndOf
<1>3. TableInv(Finish(writer), LastGiven)
  <2>1. WriterInv(writer, LastGiven) /\ writer.block.size <= BlockSize
    BY DEF IInv, WritingInv
  <2>2. writer.block.size <= MaxBlock
    <3>1. writer.block.size \in Nat /\ BlockSize \in Nat /\ MaxBlock \in Nat /\ MaxBlock >= BlockSize
      BY <2>1, Sizes DEF WriterInv, BufferInv, IsFile
    <3> QED
      BY <3>1, <2>1
  <2> QED
    BY <2>1, <2>2, FinishInv
<1>4. ASSUME NEW n \in DOMAIN tables' PROVE TableInv(tables'[n], given[n])
  <2>1. CASE n \in DOMAIN tables
    BY <2>1, <1>1, <1>2
  <2>2. CASE n = Len(tables) + 1
    BY <2>2, <1>1, <1>2, <1>3 DEF LastGiven
  <2> QED
    BY <2>1, <2>2, <1>2
<1>5. ASSUME NEW n \in DOMAIN tables' PROVE tables'[n].meta.file_size \in Nat
  BY <1>4 DEF TableInv, IsFile
<1> QED
  BY <1>1, <1>2, <1>4, <1>5

\* The table is finished.
LEMMA FinishTableInv == IInv /\ FinishTable => IInv'
<1> SUFFICES ASSUME IInv, FinishTable PROVE IInv'
  OBVIOUS
<1>1. /\ phase = "add" /\ phase' = "idle" /\ writer.entries > 0
      /\ tables' = Append(tables, Finish(writer))
      /\ writer' = Create
      /\ given' = given /\ scans' = scans /\ heap' = heap
      /\ pending' = pending /\ curr' = curr
  BY DEF FinishTable, mergeVars
<1>2. /\ tables' \in Seq({tables'[n] : n \in DOMAIN tables'})
      /\ Len(tables') = Len(given) /\ DOMAIN tables \subseteq DOMAIN tables'
      /\ \A n \in DOMAIN tables' :
           TableInv(tables'[n], given[n]) /\ tables'[n].meta.file_size \in Nat
  BY <1>1, AnotherTable
<1>3. /\ Create.block.size = BlockHeader /\ Create.error = None
      /\ BlockHeader \in Nat /\ BlockSize \in Nat /\ BlockHeader < BlockSize
  BY CreateInv, Sizes
<1>4. TypeOK'
  <2>1. /\ DOMAIN scans' \subseteq DOMAIN tables' /\ DOMAIN pending' = DOMAIN scans'
        /\ heap' \subseteq (Key \X Nat) \X DOMAIN scans'
        /\ curr' \in {None} \cup [key : Key \X Nat, value : Nat \cup {Delete}]
        /\ given' \in Seq(SUBSET [key : Key \X Nat, value : Nat \cup {Delete}])
    BY <1>1, <1>2 DEF IInv, TypeOK
  <2> QED
    BY <2>1, <1>1, <1>2, <1>3 DEF TypeOK
<1>5. TablesInv'
  BY <1>1, <1>2 DEF TablesInv
<1>6. GivenInv'
  BY <1>1 DEF IInv, GivenInv
<1>7. WritingInv' /\ MergeInv' /\ MergeExact' /\ FailsOnlyOversize'
  BY <1>1 DEF WritingInv, MergeInv, MergeExact, FailsOnlyOversize
<1> QED
  BY <1>4, <1>5, <1>6, <1>7 DEF IInv

-----------------------------------------------------------------------------
(* The steps of a merge.                                                   *)

\* A key that neither the output nor the inputs have is settled.
LEMMA NothingSettled ==
  ASSUME NEW S, S \subseteq Facts, NEW T, T \subseteq Facts, NEW key,
         \A e \in S \cup T : e.key[1] # key
  PROVE  Value(S, key) = Value(T, key) /\ Cardinality({e \in S : e.key[1] = key}) <= 1
<1>1. Value(S, key) = Delete /\ Cardinality({e \in S : e.key[1] = key}) <= 1
  BY NoValue
<1>2. Value(T, key) = Delete
  BY NoValue
<1> QED
  BY <1>1, <1>2

\* What was kept of a table has a value.
LEMMA KeptIs ==
  ASSUME NEW S, S \subseteq Facts, NEW e \in Kept(S)
  PROVE  \E g \in S : e.key = g.key /\ e.length = Encode(g.value)
<1>1. PICK g \in S : e = Entry(g.key, g.value)
  BY DEF Kept
<1> QED
  BY <1>1, EntryIs

\* The inputs are opened, and the heap has the first entry of each.
LEMMA CompactInv == IInv /\ Compact => IInv'
<1> SUFFICES ASSUME IInv, Compact PROVE IInv'
  OBVIOUS
<1>1. PICK inputs \in SUBSET DOMAIN tables :
        LET first == [i \in inputs |-> Advance(i, OpenScan(tables[i].file))] IN
        /\ phase = "idle"
        /\ phase' = IF \A i \in inputs : first[i].ok THEN "merge" ELSE "failed"
        /\ scans' = [i \in inputs |-> first[i].scan]
        /\ pending' = [i \in inputs |-> first[i].value]
        /\ heap' = UNION {first[i].heap : i \in inputs}
        /\ curr' = None
        /\ writer' = Create
        /\ given' = Append(given, {})
        /\ UNCHANGED tables
  BY DEF Compact
<1> DEFINE next(i) == Advance(i, OpenScan(tables[i].file))
<1>2. /\ phase = "idle" /\ curr' = None /\ writer' = Create
      /\ given' = Append(given, {}) /\ tables' = tables
      /\ phase' = IF \A i \in inputs : next(i).ok THEN "merge" ELSE "failed"
      /\ scans' = [i \in inputs |-> next(i).scan]
      /\ pending' = [i \in inputs |-> next(i).value]
      /\ heap' = UNION {next(i).heap : i \in inputs}
  BY <1>1
<1>3. /\ given' \in Seq(SUBSET Facts)
      /\ Len(given) \in Nat /\ Len(given') = Len(given) + 1
      /\ DOMAIN given' = DOMAIN given \cup {Len(given) + 1}
      /\ Len(given) = Len(tables) /\ DOMAIN given = DOMAIN tables
      /\ \A n \in DOMAIN given : given'[n] = given[n] /\ given[n] \subseteq Given
      /\ given'[Len(given')] = {}
  BY <1>2, BeginAnother
<1>4. \A n \in DOMAIN tables :
        /\ TableInv(tables[n], given[n])
        /\ given'[n] = given[n] /\ given[n] \subseteq Facts /\ given[n] # {}
  <2>1. \A n \in DOMAIN tables : TableInv(tables[n], given[n])
    BY DEF IInv, TablesInv
  <2> QED
    BY <2>1, <1>3 DEF TableInv
<1>5. ASSUME NEW i \in inputs
      PROVE  /\ next(i).ok = TRUE
             /\ ScanInv(tables[i], next(i).scan)
             /\ \E e \in Stored :
                 /\ next(i).heap = {<<e.key, i>>} /\ next(i).value = Decode(e.length)
                 /\ Kept(given[i]) = Rest(tables[i], next(i).scan) \cup {e}
                 /\ \A d \in Rest(tables[i], next(i).scan) : Less(e.key, d.key)
  <2> DEFINE s == OpenScan(tables[i].file)
  <2>1. i \in DOMAIN tables /\ TableInv(tables[i], given[i]) /\ given[i] # {}
    BY <1>4
  <2>2. ScanInv(tables[i], s) /\ Rest(tables[i], s) = Kept(given[i])
    BY <2>1, OpenScanIs
  <2>3. Kept(given[i]) # {}
    BY <2>1 DEF Kept
  <2>4. /\ next(i).ok = TRUE
        /\ ScanInv(tables[i], next(i).scan)
        /\ \/ /\ next(i).heap = {}
              /\ Rest(tables[i], s) = {} /\ Rest(tables[i], next(i).scan) = {}
           \/ \E e \in Stored :
              /\ next(i).heap = {<<e.key, i>>} /\ next(i).value = Decode(e.length)
              /\ Rest(tables[i], s) = Rest(tables[i], next(i).scan) \cup {e}
              /\ \A d \in Rest(tables[i], next(i).scan) : Less(e.key, d.key)
    <3> HIDE DEF s
    <3>1. LET a == Advance(i, s) IN
          /\ a.ok = TRUE
          /\ ScanInv(tables[i], a.scan)
          /\ \/ /\ a.heap = {}
                /\ Rest(tables[i], s) = {} /\ Rest(tables[i], a.scan) = {}
             \/ \E e \in Stored :
                /\ a.heap = {<<e.key, i>>} /\ a.value = Decode(e.length)
                /\ Rest(tables[i], s) = Rest(tables[i], a.scan) \cup {e}
                /\ \A d \in Rest(tables[i], a.scan) : Less(e.key, d.key)
      BY <2>1, <2>2, AdvanceIs
    <3> QED
      BY <3>1, Zenon DEF s
  <2> HIDE DEF next
  <2> QED
    BY <2>2, <2>3, <2>4
<1> HIDE DEF next
<1>6. phase' = "merge"
  BY <1>2, <1>5
<1>7. /\ DOMAIN scans' = inputs /\ DOMAIN pending' = inputs
      /\ \A i \in inputs : scans'[i] = next(i).scan /\ pending'[i] = next(i).value
  BY <1>2
<1>8. ASSUME NEW h \in heap'
      PROVE  /\ h \in (Key \X Nat) \X inputs
             /\ h[2] \in inputs
             /\ \E e \in Stored :
                 /\ h[1] = e.key
                 /\ next(h[2]).heap = {h} /\ next(h[2]).value = Decode(e.length)
                 /\ Kept(given[h[2]]) = Rest(tables[h[2]], next(h[2]).scan) \cup {e}
                 /\ \A d \in Rest(tables[h[2]], next(h[2]).scan) : Less(e.key, d.key)
  <2>1. PICK i \in inputs : h \in next(i).heap
    BY <1>2
  <2>2. PICK e \in Stored :
          /\ next(i).heap = {<<e.key, i>>} /\ next(i).value = Decode(e.length)
          /\ Kept(given[i]) = Rest(tables[i], next(i).scan) \cup {e}
          /\ \A d \in Rest(tables[i], next(i).scan) : Less(e.key, d.key)
    BY <1>5
  <2>3. h = <<e.key, i>>
    BY <2>1, <2>2
  <2>4. e.key \in Key \X Nat
    BY DEF Stored
  <2> QED
    BY <2>2, <2>3, <2>4
<1>9. TypeOK'
  <2>1. /\ Create.block.size = BlockHeader /\ Create.error = None
        /\ BlockHeader \in Nat /\ BlockSize \in Nat /\ BlockHeader < BlockSize
    BY CreateInv, Sizes
  <2>2. heap' \subseteq (Key \X Nat) \X DOMAIN scans'
    BY <1>7, <1>8
  <2>3. given' \in Seq(SUBSET [key : Key \X Nat, value : Nat \cup {Delete}])
    BY <1>3 DEF Facts
  <2>4. \A n \in DOMAIN tables' : tables'[n].meta.file_size \in Nat
    BY <1>2 DEF IInv, TypeOK
  <2>5. /\ writer'.block.size >= BlockHeader /\ writer'.block.size <= BlockSize
        /\ writer'.error = None
    BY <2>1, <1>2
  <2>6. /\ DOMAIN scans' \subseteq DOMAIN tables' /\ DOMAIN pending' = DOMAIN scans'
        /\ curr' = None
    BY <1>2, <1>7
  <2> QED
    BY <2>2, <2>3, <2>4, <2>5, <2>6, <1>6 DEF TypeOK
<1>10. TablesInv'
  <2>1. /\ tables' \in Seq({tables'[n] : n \in DOMAIN tables'})
        /\ Len(given') = Len(tables') + 1
    BY <1>2, <1>3 DEF IInv, TablesInv
  <2>2. \A n \in DOMAIN tables' : TableInv(tables'[n], given'[n])
    BY <1>2, <1>4
  <2> QED
    BY <2>1, <2>2, <1>6 DEF TablesInv
<1>11. GivenInv'
  BY <1>3, <1>6, <1>7 DEF GivenInv
<1>12. WritingInv'
  <2>1. /\ WriterInv(Create, {}) /\ Create.block.size = BlockHeader
        /\ BlockHeader \in Nat /\ BlockSize \in Nat /\ BlockHeader < BlockSize
    BY CreateInv, Sizes
  <2> QED
    BY <2>1, <1>2, <1>3 DEF WritingInv, LastGiven
<1>13. \A i \in inputs : Left(i)' = Rest(tables[i], next(i).scan)
  BY <1>2, <1>7 DEF Left
<1>14. ScansInv'
  <2>1. ASSUME NEW i \in inputs
        PROVE  /\ ScanInv(tables'[i], scans'[i])
               /\ Left(i)' \subseteq Kept(given'[i])
               /\ \E h \in heap' : h[2] = i
    <3>1. PICK e \in Stored :
            /\ next(i).heap = {<<e.key, i>>}
            /\ Kept(given[i]) = Rest(tables[i], next(i).scan) \cup {e}
      BY <1>5
    <3>2. <<e.key, i>> \in heap'
      BY <3>1, <1>2
    <3>3. \E h \in heap' : h[2] = i
      BY <3>2
    <3>4. given'[i] = given[i]
      BY <1>4
    <3> QED
      BY <3>1, <3>3, <3>4, <1>2, <1>5, <1>7, <1>13
  <2> QED
    BY <2>1, <1>7 DEF ScansInv
<1>15. HeapInv'
  <2>1. ASSUME NEW h \in heap'
        PROVE  /\ \E g \in given'[h[2]] :
                   g.key = h[1] /\ pending'[h[2]] = Decode(Encode(g.value))
               /\ \A d \in Left(h[2])' : Less(h[1], d.key)
    <3> DEFINE i == h[2]
    <3>1. i \in inputs
      BY <1>8
    <3>2. PICK e \in Stored :
            /\ h[1] = e.key /\ next(i).value = Decode(e.length)
            /\ Kept(given[i]) = Rest(tables[i], next(i).scan) \cup {e}
            /\ \A d \in Rest(tables[i], next(i).scan) : Less(e.key, d.key)
      BY <1>8
    <3>3. PICK g \in given[i] : e.key = g.key /\ e.length = Encode(g.value)
      <4>1. given[i] \subseteq Facts /\ e \in Kept(given[i])
        BY <3>1, <3>2, <1>4
      <4> QED
        BY <4>1, KeptIs
    <3>4. given'[i] = given[i] /\ pending'[i] = next(i).value
          /\ Left(i)' = Rest(tables[i], next(i).scan)
      BY <3>1, <1>4, <1>7, <1>13
    <3> QED
      BY <3>2, <3>3, <3>4
  <2>2. ASSUME NEW g \in heap', NEW h \in heap', g[2] = h[2] PROVE g = h
    <3>1. next(g[2]).heap = {g} /\ next(h[2]).heap = {h}
      BY <1>8
    <3> QED
      BY <3>1, <2>2
  <2> QED
    BY <2>1, <2>2 DEF HeapInv
<1>16. CurrInv'
  <2>1. LastGiven' = {}
    BY <1>3 DEF LastGiven
  <2>2. ASSUME NEW i \in DOMAIN scans', NEW g \in given'[i] PROVE Waits(i, g.key)'
    <3>1. i \in inputs /\ g \in given[i] /\ given[i] \subseteq Facts
      BY <2>2, <1>4, <1>7
    <3>2. PICK e \in Stored :
            /\ next(i).heap = {<<e.key, i>>}
            /\ Kept(given[i]) = Rest(tables[i], next(i).scan) \cup {e}
      BY <3>1, <1>5
    <3>3. Entry(g.key, g.value) \in Kept(given[i]) /\ Entry(g.key, g.value).key = g.key
      BY <3>1, EntryIs DEF Kept
    <3>4. <<e.key, i>> \in heap' /\ Left(i)' = Rest(tables[i], next(i).scan)
      BY <3>1, <3>2, <1>2, <1>13
    <3>5. <<g.key, i>> \in heap' \/ \E d \in Left(i)' : d.key = g.key
      BY <3>2, <3>3, <3>4
    <3> QED
      BY <3>5 DEF Waits
  <2>3. ASSUME heap' = {}, NEW key \in Key PROVE Settled(key)'
    <3>1. inputs = {}
      <4> SUFFICES ASSUME NEW i \in inputs PROVE FALSE
        OBVIOUS
      <4>1. PICK e \in Stored : next(i).heap = {<<e.key, i>>}
        BY <1>5
      <4>2. <<e.key, i>> \in heap'
        BY <4>1, <1>2
      <4> QED
        BY <4>2, <2>3
    <3>2. Inputs' = {}
      BY <3>1, <1>7 DEF Inputs
    <3>3. /\ Value(LastGiven', key) = Value(Inputs', key)
          /\ Cardinality({e \in LastGiven' : e.key[1] = key}) <= 1
      BY <3>2, <2>1, NothingSettled
    <3> QED
      BY <3>3, Zenon DEF Settled
  <2>4. NoCurr'
    BY <2>1, <2>2, <2>3 DEF NoCurr
  <2> QED
    BY <2>4, <1>2 DEF CurrInv
<1>17. MergeInv' /\ MergeExact' /\ FailsOnlyOversize'
  BY <1>6, <1>14, <1>15, <1>16 DEF MergeInv, MergeExact, FailsOnlyOversize
<1> QED
  BY <1>9, <1>10, <1>11, <1>12, <1>17 DEF IInv

\* What the heap has is a version of its input.
LEMMA HeapIs ==
  ASSUME IInv, phase = "merge", NEW h \in heap
  PROVE  /\ h[1] \in Key \X Nat /\ h[1] \in Nat \X Nat /\ h[1][1] \in Key
         /\ h[1] = <<h[1][1], h[1][2]>> /\ h = <<h[1], h[2]>>
         /\ h[2] \in DOMAIN scans /\ h[2] \in Nat /\ h[1][2] <= MaxSeq
<1>1. h \in (Key \X Nat) \X DOMAIN scans
  BY DEF IInv, TypeOK
<1>2. h[1] \in Key \X Nat /\ h[2] \in DOMAIN scans /\ h = <<h[1], h[2]>>
  BY <1>1
<1>3. h[2] \in Nat
  BY <1>2, InputsAre
<1>4. PICK g \in given[h[2]] : g.key = h[1]
  BY DEF IInv, MergeInv, HeapInv
<1>5. h[1][2] <= MaxSeq
  BY <1>2, <1>4, InputsAre
<1>6. h[1] \in Nat \X Nat /\ h[1][1] \in Key /\ h[1] = <<h[1][1], h[1][2]>>
  BY <1>2, Versions
<1> QED
  BY <1>2, <1>3, <1>5, <1>6

\* The heap has a least element.
LEMMA TopIs ==
  ASSUME IInv, phase = "merge", heap # {}
  PROVE  /\ Top \in heap
         /\ \A g \in heap : Less(Top[1], g[1]) \/ (Top[1] = g[1] /\ Top[2] <= g[2])
<1>1. \A h \in heap :
        /\ h[1] \in Nat \X Nat /\ h[1] = <<h[1][1], h[1][2]>> /\ h = <<h[1], h[2]>>
        /\ h[1][1] \in Nat /\ h[1][2] \in 0..MaxSeq /\ h[2] \in Nat
  <2> SUFFICES ASSUME NEW h \in heap
               PROVE  /\ h[1] \in Nat \X Nat /\ h[1] = <<h[1][1], h[1][2]>> /\ h = <<h[1], h[2]>>
                      /\ h[1][1] \in Nat /\ h[1][2] \in 0..MaxSeq /\ h[2] \in Nat
    OBVIOUS
  <2>1. /\ h[1] \in Nat \X Nat /\ h[1] = <<h[1][1], h[1][2]>> /\ h = <<h[1], h[2]>>
        /\ h[2] \in Nat /\ h[1][2] <= MaxSeq
    BY HeapIs
  <2> QED
    BY <2>1, GivenAre
<1>2. PICK k \in heap : \A h \in heap : k[1][1] <= h[1][1]
  <2> DEFINE K == {h[1][1] : h \in heap}
  <2>1. K \subseteq Nat /\ K # {}
    BY <1>1
  <2> HIDE DEF K
  <2>2. PICK m \in K : \A n \in K : m <= n
    BY <2>1, Least
  <2> QED
    BY <2>2 DEF K
<1>3. PICK s \in heap : s[1][1] = k[1][1] /\ \A h \in heap : h[1][1] = k[1][1] => h[1][2] <= s[1][2]
  <2> DEFINE S == {h[1][2] : h \in {g \in heap : g[1][1] = k[1][1]}}
  <2>1. S \subseteq 0..MaxSeq /\ S # {}
    BY <1>1
  <2> HIDE DEF S
  <2>2. PICK m \in S : \A n \in S : n <= m
    BY <2>1, GivenAre, Greatest
  <2> QED
    BY <2>2 DEF S
<1>4. PICK t \in heap : t[1] = s[1] /\ \A h \in heap : h[1] = s[1] => t[2] <= h[2]
  <2> DEFINE I == {h[2] : h \in {g \in heap : g[1] = s[1]}}
  <2>1. I \subseteq Nat /\ I # {}
    BY <1>1
  <2> HIDE DEF I
  <2>2. PICK m \in I : \A n \in I : m <= n
    BY <2>1, Least
  <2> QED
    BY <2>2 DEF I
<1>5. \A g \in heap : Less(t[1], g[1]) \/ (t[1] = g[1] /\ t[2] <= g[2])
  <2> SUFFICES ASSUME NEW g \in heap
               PROVE  Less(t[1], g[1]) \/ (t[1] = g[1] /\ t[2] <= g[2])
    OBVIOUS
  <2>1. t[1][1] <= g[1][1] /\ t[1][1] = k[1][1]
    BY <1>2, <1>3, <1>4
  <2>2. CASE t[1][1] = g[1][1]
    <3>1. g[1][2] <= t[1][2]
      BY <2>1, <2>2, <1>3, <1>4
    <3>2. CASE g[1][2] = t[1][2]
      <4>1. g[1] = t[1]
        BY <2>2, <3>2, <1>1
      <4> QED
        BY <4>1, <1>4
    <3>3. CASE g[1][2] < t[1][2]
      BY <2>2, <3>3 DEF Less
    <3>4. g[1][2] \in Nat /\ t[1][2] \in Nat
      BY <1>1, GivenAre
    <3> QED
      BY <3>1, <3>2, <3>3, <3>4
  <2>3. CASE t[1][1] # g[1][1]
    <3>1. t[1][1] < g[1][1]
      BY <2>1, <2>3, <1>1
    <3> QED
      BY <3>1 DEF Less
  <2> QED
    BY <2>2, <2>3
<1> QED
  BY <1>5 DEF Top

\* No version that waits is before the top.
LEMMA TopIsFirst ==
  ASSUME IInv, phase = "merge", heap # {}, NEW i \in DOMAIN scans,
         NEW v \in Nat \X Nat, Waits(i, v)
  PROVE  ~Less(v, Top[1])
<1>1. /\ Top \in heap
      /\ \A g \in heap : Less(Top[1], g[1]) \/ Top[1] = g[1]
  BY TopIs
<1>2. \A h \in heap : h[1] \in Nat \X Nat
  BY HeapIs
<1>3. CASE <<v, i>> \in heap
  <2>1. Less(Top[1], v) \/ Top[1] = v
    BY <1>1, <1>3
  <2> QED
    BY <2>1, <1>1, <1>2, Order
<1>4. CASE \E d \in Left(i) : d.key = v
  <2>1. PICK h \in heap : h[2] = i
    BY <1>4 DEF IInv, MergeInv, ScansInv
  <2>2. Less(h[1], v)
    BY <2>1, <1>4 DEF IInv, MergeInv, HeapInv
  <2>3. Less(Top[1], h[1]) \/ Top[1] = h[1]
    BY <1>1
  <2> QED
    BY <2>2, <2>3, <1>1, <1>2, Order
<1> QED
  BY <1>3, <1>4 DEF Waits

\* Taking the top from the heap: the next entry of its input comes in.
LEMMA PopIs ==
  ASSUME IInv, Pop, tables' = tables, \A i \in DOMAIN scans : given'[i] = given[i]
  PROVE  /\ PopOk = TRUE
         /\ Top \in heap /\ Top[2] \in DOMAIN scans
         /\ Top[1] \in Key \X Nat /\ Top[1] \in Nat \X Nat /\ Top[1][1] \in Key
         /\ Popped \in Facts /\ Popped.key = Top[1]
         /\ \E g \in Inputs : Popped.key = g.key /\ Popped.value = Decode(Encode(g.value))
         /\ DOMAIN scans' = DOMAIN scans /\ DOMAIN pending' = DOMAIN pending
         /\ heap' \subseteq (Key \X Nat) \X DOMAIN scans'
         /\ ScansInv' /\ HeapInv'
         /\ \A i \in DOMAIN scans : \A v \in Nat \X Nat :
              Waits(i, v)' <=> Waits(i, v) /\ ~(i = Top[2] /\ v = Top[1])
         /\ Waits(Top[2], Top[1])
<1>20. PICK t : t = Top
  OBVIOUS
<1>21. PICK i : i = t[2]
  OBVIOUS
<1> DEFINE next == Advance(i, scans[i])
<1>1. /\ phase = "merge" /\ heap # {}
      /\ heap' = (heap \ {t}) \cup next.heap
      /\ scans' = [scans EXCEPT ![i] = next.scan]
      /\ pending' = [pending EXCEPT ![i] = next.value]
  BY <1>20, <1>21 DEF Pop
<1>2. /\ t \in heap
      /\ \A g \in heap : Less(t[1], g[1]) \/ (t[1] = g[1] /\ t[2] <= g[2])
  BY <1>1, <1>20, TopIs
<1>3. /\ t[1] \in Key \X Nat /\ t[1] \in Nat \X Nat /\ t[1][1] \in Key
      /\ t = <<t[1], i>> /\ i \in DOMAIN scans
  BY <1>1, <1>2, <1>21, HeapIs
<1>4. Popped.key = t[1] /\ Popped.value = pending[i]
      /\ Popped = [key |-> t[1], value |-> pending[i]]
  BY <1>20, <1>21 DEF Popped
<1>5. PopOk = next.ok
  BY <1>20, <1>21 DEF PopOk
<1>6. /\ ScansInv /\ HeapInv /\ TypeOK
      /\ i \in DOMAIN tables /\ TableInv(tables[i], given[i])
      /\ \A j \in DOMAIN scans : given[j] \subseteq Facts
  BY <1>1, <1>3, InputsAre DEF IInv, MergeInv
<1>7. /\ next.ok = TRUE
      /\ ScanInv(tables[i], next.scan)
      /\ \/ /\ next.heap = {}
            /\ Rest(tables[i], scans[i]) = {} /\ Rest(tables[i], next.scan) = {}
         \/ \E e \in Stored :
            /\ next.heap = {<<e.key, i>>} /\ next.value = Decode(e.length)
            /\ Rest(tables[i], scans[i]) = Rest(tables[i], next.scan) \cup {e}
            /\ \A d \in Rest(tables[i], next.scan) : Less(e.key, d.key)
  <2>1. ScanInv(tables[i], scans[i])
    BY <1>3, <1>6 DEF ScansInv
  <2> QED
    BY <2>1, <1>6, AdvanceIs
<1> HIDE DEF next
<1>8. /\ DOMAIN pending = DOMAIN scans
      /\ DOMAIN scans' = DOMAIN scans /\ DOMAIN pending' = DOMAIN pending
      /\ scans'[i] = next.scan /\ pending'[i] = next.value
      /\ \A j \in DOMAIN scans : j # i => scans'[j] = scans[j] /\ pending'[j] = pending[j]
  <2>1. DOMAIN pending = DOMAIN scans
    BY <1>6 DEF TypeOK
  <2> QED
    BY <2>1, <1>1, <1>3
<1>9. /\ Left(i)' = Rest(tables[i], next.scan)
      /\ Left(i) = Rest(tables[i], scans[i])
      /\ \A j \in DOMAIN scans : j # i => Left(j)' = Left(j)
  BY <1>8 DEF Left
<1>10. /\ \E g \in given[i] : g.key = t[1] /\ pending[i] = Decode(Encode(g.value))
       /\ \A d \in Left(i) : Less(t[1], d.key)
       /\ \A g, h \in heap : g[2] = h[2] => g = h
  BY <1>2, <1>6, <1>21 DEF HeapInv
\* What was popped.
<1>11. /\ Popped \in Facts
       /\ \E g \in Inputs : Popped.key = g.key /\ Popped.value = Decode(Encode(g.value))
  <2>1. PICK g \in given[i] : g.key = t[1] /\ pending[i] = Decode(Encode(g.value))
    BY <1>10
  <2>2. g \in Facts /\ g \in Inputs
    BY <2>1, <1>3, <1>6 DEF Inputs
  <2>3. pending[i] \in Nat \cup {Delete}
    BY <2>1, <2>2, ReadValue
  <2> QED
    BY <2>1, <2>2, <2>3, <1>3, <1>4 DEF Facts
\* What the heap has now.
<1>12. ASSUME NEW h \in heap'
       PROVE  \/ h \in heap /\ h[2] # i
              \/ /\ next.heap = {h} /\ h[2] = i
                 /\ \E e \in Stored : h = <<e.key, i>> /\ next.value = Decode(e.length)
                                      /\ e \in Left(i)
                                      /\ \A d \in Left(i)' : Less(e.key, d.key)
  <2>1. CASE h \in next.heap
    <3>1. PICK e \in Stored :
            /\ next.heap = {<<e.key, i>>} /\ next.value = Decode(e.length)
            /\ Rest(tables[i], scans[i]) = Rest(tables[i], next.scan) \cup {e}
            /\ \A d \in Rest(tables[i], next.scan) : Less(e.key, d.key)
      BY <2>1, <1>7
    <3>2. h = <<e.key, i>> /\ e \in Left(i) /\ \A d \in Left(i)' : Less(e.key, d.key)
      BY <2>1, <3>1, <1>9
    <3> QED
      BY <3>1, <3>2
  <2>2. CASE h \in heap /\ h # t
    BY <2>2, <1>2, <1>10, <1>21
  <2> QED
    BY <2>1, <2>2, <1>1
<1>13. heap' \subseteq (Key \X Nat) \X DOMAIN scans'
  <2> SUFFICES ASSUME NEW h \in heap' PROVE h \in (Key \X Nat) \X DOMAIN scans
    BY <1>8
  <2>1. CASE h \in heap
    BY <2>1, <1>6 DEF TypeOK
  <2>2. CASE \E e \in Stored : h = <<e.key, i>>
    BY <2>2, <1>3 DEF Stored
  <2> QED
    BY <2>1, <2>2, <1>12
<1>14. Left(i)' \subseteq Left(i)
  BY <1>7, <1>9
<1>15. ScansInv'
  <2>1. ASSUME NEW j \in DOMAIN scans
        PROVE  /\ ScanInv(tables[j], scans'[j])
               /\ Left(j)' \subseteq Kept(given[j])
               /\ (\A h \in heap' : h[2] # j) => Left(j)' = {}
    <3>1. /\ ScanInv(tables[j], scans[j])
          /\ Left(j) \subseteq Kept(given[j])
          /\ (\A h \in heap : h[2] # j) => Left(j) = {}
      BY <1>6 DEF ScansInv
    <3>2. CASE j = i
      <4>1. ScanInv(tables[j], scans'[j]) /\ Left(j)' \subseteq Kept(given[j])
        BY <3>1, <3>2, <1>7, <1>8, <1>14
      <4>2. CASE next.heap = {} /\ Left(i)' = {}
        BY <4>1, <4>2, <3>2
      <4>3. CASE \E e \in Stored : next.heap = {<<e.key, i>>}
        <5>1. PICK e \in Stored : <<e.key, i>> \in heap'
          BY <4>3, <1>1
        <5>2. ~(\A h \in heap' : h[2] # j)
          BY <5>1, <3>2
        <5> QED
          BY <4>1, <5>2
      <4>4. \/ next.heap = {} /\ Left(i)' = {}
            \/ \E e \in Stored : next.heap = {<<e.key, i>>}
        BY <1>7, <1>9
      <4> QED
        BY <4>2, <4>3, <4>4
    <3>3. CASE j # i
      <4>1. \A h \in heap : h[2] = j => h \in heap'
        BY <3>3, <1>1, <1>21
      <4> QED
        BY <4>1, <3>1, <3>3, <1>8, <1>9
    <3> QED
      BY <3>2, <3>3
  <2> QED
    BY <2>1, <1>8 DEF ScansInv
<1>16. HeapInv'
  <2>1. ASSUME NEW h \in heap'
        PROVE  /\ \E g \in given[h[2]] :
                   g.key = h[1] /\ pending'[h[2]] = Decode(Encode(g.value))
               /\ \A d \in Left(h[2])' : Less(h[1], d.key)
               /\ h[2] \in DOMAIN scans
    <3>1. CASE h \in heap /\ h[2] # i
      <4>1. h[2] \in DOMAIN scans
        BY <3>1, <1>1, HeapIs
      <4>2. pending'[h[2]] = pending[h[2]] /\ Left(h[2])' = Left(h[2])
        BY <3>1, <4>1, <1>8, <1>9
      <4> QED
        BY <3>1, <4>1, <4>2, <1>6 DEF HeapInv
    <3>2. CASE /\ h[2] = i
               /\ \E e \in Stored : h = <<e.key, i>> /\ next.value = Decode(e.length)
                                    /\ e \in Left(i)
                                    /\ \A d \in Left(i)' : Less(e.key, d.key)
      <4>1. PICK e \in Stored : h = <<e.key, i>> /\ next.value = Decode(e.length)
                                /\ e \in Left(i)
                                /\ \A d \in Left(i)' : Less(e.key, d.key)
        BY <3>2
      <4>2. e \in Kept(given[i]) /\ given[i] \subseteq Facts
        BY <4>1, <1>3, <1>6 DEF ScansInv
      <4>3. PICK g \in given[i] : e.key = g.key /\ e.length = Encode(g.value)
        BY <4>2, KeptIs
      <4>4. pending'[i] = Decode(Encode(g.value)) /\ h[1] = g.key
        BY <4>1, <4>3, <1>8
      <4> QED
        BY <4>1, <4>4, <3>2, <1>3
    <3> QED
      BY <3>1, <3>2, <1>12
  <2>2. ASSUME NEW g \in heap', NEW h \in heap', g[2] = h[2] PROVE g = h
    <3>1. CASE g \in heap /\ g[2] # i
      <4>1. h \in heap
        BY <3>1, <2>2, <1>12
      <4> QED
        BY <3>1, <4>1, <2>2, <1>10
    <3>2. CASE next.heap = {g} /\ g[2] = i
      <4>1. next.heap = {h}
        BY <3>2, <2>2, <1>12
      <4> QED
        BY <3>2, <4>1
    <3> QED
      BY <3>1, <3>2, <1>12
  <2> QED
    BY <2>1, <2>2 DEF HeapInv
<1>17. ASSUME NEW j \in DOMAIN scans, NEW v \in Nat \X Nat
       PROVE  Waits(j, v)' <=> Waits(j, v) /\ ~(j = i /\ v = t[1])
  <2>1. Waits(j, v)' <=> <<v, j>> \in heap' \/ \E d \in Left(j)' : d.key = v
    BY DEF Waits
  <2>2. Waits(j, v) <=> <<v, j>> \in heap \/ \E d \in Left(j) : d.key = v
    BY DEF Waits
  <2>3. CASE j # i
    <3>1. <<v, j>> \in heap' <=> <<v, j>> \in heap
      BY <2>3, <1>1, <1>3, <1>12
    <3>2. Left(j)' = Left(j)
      BY <2>3, <1>9
    <3> QED
      BY <3>1, <3>2, <2>1, <2>2, <2>3
  <2>4. CASE j = i
    <3>1. <<v, i>> \in heap <=> v = t[1]
      BY <1>2, <1>3, <1>10
    <3>2. ~ \E d \in Left(i) : d.key = t[1]
      BY <1>3, <1>10, Order
    <3>3. <<v, i>> \in heap' \/ (\E d \in Left(i)' : d.key = v) <=> \E d \in Left(i) : d.key = v
      <4>1. <<v, i>> \in heap' <=> <<v, i>> \in next.heap
        <5>1. \A h \in heap : h[2] = i => h = t
          BY <1>2, <1>10, <1>21
        <5> QED
          BY <5>1, <1>1
      <4>2. CASE next.heap = {} /\ Left(i) = {} /\ Left(i)' = {}
        BY <4>1, <4>2
      <4>3. CASE \E e \in Stored : next.heap = {<<e.key, i>>} /\ Left(i) = Left(i)' \cup {e}
        BY <4>1, <4>3
      <4> QED
        BY <4>2, <4>3, <1>7, <1>9
    <3> QED
      BY <3>1, <3>2, <3>3, <2>1, <2>2, <2>4
  <2> QED
    BY <2>3, <2>4
<1>18. Waits(i, t[1])
  BY <1>2, <1>3 DEF Waits
<1> QED
  BY <1>2, <1>3, <1>4, <1>5, <1>7, <1>8, <1>11, <1>13, <1>15, <1>16, <1>17, <1>18,
     <1>20, <1>21

\* What curr is, and what lies in the output behind it.
LEMMA CurrIs ==
  ASSUME IInv, phase = "merge", curr # None
  PROVE  /\ HasCurr
         /\ curr \in Facts /\ curr = [key |-> curr.key, value |-> curr.value]
         /\ curr.key \in Nat \X Nat /\ curr.key[2] <= MaxSeq
         /\ Decode(Encode(curr.value)) = curr.value
         /\ LastGiven \subseteq Facts
         /\ writer.entries > 0 => Less(writer.last_key, curr.key)
<1>1. HasCurr
  BY DEF IInv, MergeInv, CurrInv
<1>2. curr \in Facts
  BY DEF IInv, TypeOK, Facts
<1>3. curr = [key |-> curr.key, value |-> curr.value]
  BY <1>2 DEF Facts
<1>4. PICK g \in Inputs : curr.key = g.key /\ curr.value = Decode(Encode(g.value))
  BY <1>1 DEF HasCurr
<1>5. g \in Facts /\ g.key[2] <= MaxSeq /\ g.key \in Nat \X Nat
  <2>1. g \in Given /\ g \in Facts
    BY InputsAre
  <2> QED
    BY <2>1, GivenAre, Versions DEF Facts
<1>6. Decode(Encode(curr.value)) = curr.value
  BY <1>4, <1>5, ReadValue
<1>7. WriterInv(writer, LastGiven)
  BY DEF IInv, WritingInv
<1>8. ASSUME writer.entries > 0 PROVE Less(writer.last_key, curr.key)
  <2>1. PICK e \in LastGiven : e.key = writer.last_key
    BY <1>7, <1>8 DEF WriterInv, CountInv, Ends
  <2>2. e.key[1] < curr.key[1]
    BY <1>1 DEF HasCurr
  <2> QED
    BY <2>1, <2>2 DEF Less
<1> QED
  BY <1>1, <1>2, <1>3, <1>4, <1>5, <1>6, <1>7, <1>8 DEF WriterInv

\* When curr goes to the output, or was deleted, every key is settled of which
\* no version waits.
LEMMA Behind ==
  ASSUME IInv, phase = "merge", curr # None,
         NEW out, (curr.value = Delete /\ out = LastGiven) \/ out = LastGiven \cup {curr},
         NEW key \in Key,
         \A i \in DOMAIN scans : \A g \in given[i] : Waits(i, g.key) => g.key[1] # key
  PROVE  /\ Value(out, key) = Value(Inputs, key)
         /\ Cardinality({e \in out : e.key[1] = key}) <= 1
<1>1. /\ HasCurr
      /\ curr \in Facts /\ curr.key \in Nat \X Nat /\ curr.key[2] <= MaxSeq
      /\ Decode(Encode(curr.value)) = curr.value
      /\ LastGiven \subseteq Facts
  BY CurrIs
<1>2. Inputs \subseteq Given /\ Inputs \subseteq Facts
  BY InputsAre
<1>3. out \subseteq Facts /\ curr.key[1] \in Nat /\ key \in Nat
  <2>1. key \in Nat
    BY SSTableAssumption DEF SSTableAssumption
  <2>2. out \subseteq Facts
    BY <1>1
  <2> QED
    BY <2>1, <2>2, <1>1
<1>4. \A e \in LastGiven : e.key[1] < curr.key[1]
  BY <1>1 DEF HasCurr
<1>5. \A e \in Inputs : e.key[1] = key =>
        e.key[1] < curr.key[1] \/ (e.key[1] = curr.key[1] /\ e.key[2] <= curr.key[2])
  BY <1>1 DEF HasCurr, Inputs
<1>6. \A e \in Facts : e.key[1] \in Nat /\ e.key[2] \in Nat
  BY Versions DEF Facts
<1>7. CASE key < curr.key[1]
  <2>1. Settled(key)
    BY <1>7, <1>1 DEF HasCurr
  <2>2. \A e : e.key[1] = key => (e \in out <=> e \in LastGiven)
    BY <1>3, <1>7
  <2>3. /\ Value(out, key) = Value(LastGiven, key)
        /\ {e \in out : e.key[1] = key} = {e \in LastGiven : e.key[1] = key}
    BY <2>2, ValueSame
  <2> QED
    BY <2>1, <2>3 DEF Settled
<1>8. CASE key = curr.key[1]
  <2>1. PICK g \in Inputs : curr.key = g.key /\ curr.value = Decode(Encode(g.value))
    BY <1>1 DEF HasCurr
  <2>2. \A e \in Inputs : e.key[1] = g.key[1] => e.key[2] <= g.key[2]
    <3> SUFFICES ASSUME NEW e \in Inputs, e.key[1] = key PROVE e.key[2] <= curr.key[2]
      BY <2>1, <1>8
    <3>1. e.key[1] < curr.key[1] \/ e.key[2] <= curr.key[2]
      BY <1>5
    <3> QED
      BY <3>1, <1>3, <1>8
  <2>3. Value(Inputs, g.key[1]) = Decode(Encode(g.value))
    <3>1. \A d, e \in Inputs : d.key = e.key => d = e
      BY <1>2, GivenAre
    <3>2. g.key[2] <= MaxSeq
      BY <2>1, <1>1
    <3> QED
      BY <3>1, <3>2, <2>2, <1>2, ValueIs
  <2>4. Value(Inputs, key) = curr.value
    BY <2>1, <2>3, <1>8
  <2>5. \A e \in LastGiven : e.key[1] # key
    <3> SUFFICES ASSUME NEW e \in LastGiven PROVE e.key[1] # curr.key[1]
      BY <1>8
    <3>1. e.key[1] \in Nat /\ e.key[1] < curr.key[1]
      BY <1>1, <1>4, <1>6
    <3> QED
      BY <3>1, <1>3
  <2>6. CASE curr.value = Delete /\ out = LastGiven
    BY <2>4, <2>5, <2>6, <1>3, NoValue
  <2>7. CASE out = LastGiven \cup {curr}
    <3> DEFINE one == {curr}
    <3>1. \A e : e.key[1] = key => (e \in out <=> e \in one)
      BY <2>5, <2>7
    <3>2. /\ one \subseteq Facts /\ curr \in one
          /\ \A d, e \in one : d.key = e.key => d = e
          /\ \A e \in one : e.key[1] = curr.key[1] => e.key[2] <= curr.key[2]
      BY <1>1, <1>6
    <3> HIDE DEF one
    <3>3. Value(one, curr.key[1]) = Decode(Encode(curr.value))
      BY <3>2, <1>1, ValueIs
    <3>4. /\ Value(out, key) = Value(one, key)
          /\ {e \in out : e.key[1] = key} = {e \in one : e.key[1] = key}
      BY <3>1, ValueSame
    <3>5. {e \in one : e.key[1] = key} = {curr}
      BY <1>8 DEF one
    <3>6. Cardinality({curr}) = 1
      BY FS_Singleton
    <3>7. Value(out, key) = curr.value
      BY <3>3, <3>4, <1>1, <1>8
    <3>8. Cardinality({e \in out : e.key[1] = key}) = 1
      BY <3>4, <3>5, <3>6
    <3> QED
      BY <2>4, <3>7, <3>8
  <2> QED
    BY <2>6, <2>7
<1>9. CASE key > curr.key[1]
  <2>1. ASSUME NEW e \in out \cup Inputs PROVE e.key[1] # key
    <3>1. CASE e \in Inputs
      <4> SUFFICES ASSUME e.key[1] = key PROVE FALSE
        OBVIOUS
      <4>1. key <= curr.key[1]
        BY <3>1, <1>3, <1>5
      <4> QED
        BY <4>1, <1>3, <1>9
    <3>2. CASE e \in LastGiven
      <4>1. e.key[1] < curr.key[1] /\ e.key[1] \in Nat
        BY <3>2, <1>1, <1>4, <1>6
      <4> QED
        BY <4>1, <1>3, <1>9
    <3>3. CASE e = curr
      BY <3>3, <1>3, <1>9
    <3> QED
      BY <2>1, <3>1, <3>2, <3>3
  <2> QED
    BY <2>1, <1>2, <1>3, NothingSettled
<1> QED
  BY <1>3, <1>7, <1>8, <1>9

\* The top belongs to no key before that of curr.
LEMMA TopIsBehind ==
  ASSUME IInv, phase = "merge", heap # {}, curr # None
  PROVE  /\ Top[1] \in Nat \X Nat /\ curr.key \in Nat \X Nat
         /\ ~Less(Top[1], curr.key)
         /\ ~Same => curr.key[1] < Top[1][1]
<1>1. Top \in heap /\ Top[1] \in Nat \X Nat /\ Top = <<Top[1], Top[2]>>
      /\ Top[2] \in DOMAIN scans
  BY TopIs, HeapIs
<1>2. HasCurr /\ curr.key \in Nat \X Nat
  BY CurrIs
<1>3. PICK g \in given[Top[2]] : g.key = Top[1]
  BY <1>1 DEF IInv, MergeInv, HeapInv
<1>4. Waits(Top[2], g.key)
  BY <1>1, <1>3 DEF Waits
<1>5. ~Less(Top[1], curr.key)
  BY <1>1, <1>2, <1>3, <1>4 DEF HasCurr
<1>6. ASSUME ~Same PROVE curr.key[1] < Top[1][1]
  <2>1. curr.key[1] # Top[1][1]
    BY <1>6 DEF Same, Popped
  <2>2. ~(Top[1][1] < curr.key[1])
    BY <1>5 DEF Less
  <2> QED
    BY <2>1, <2>2, <1>1, <1>2
<1> QED
  BY <1>1, <1>2, <1>5, <1>6

\* What was popped takes the place of curr, which is in the output or was
\* deleted.
LEMMA NextCurr ==
  ASSUME IInv, Pop, tables' = tables, \A i \in DOMAIN scans : given'[i] = given[i],
         ~Same, curr' = Popped,
         IF curr = None
         THEN LastGiven' = LastGiven
         ELSE (curr.value = Delete /\ LastGiven' = LastGiven)
              \/ LastGiven' = LastGiven \cup {curr}
  PROVE  /\ CurrInv'
         /\ curr' \in {None} \cup [key : Key \X Nat, value : Nat \cup {Delete}]
<1>1. /\ Top[2] \in DOMAIN scans
      /\ Top[1] \in Nat \X Nat /\ Top[1][1] \in Key
      /\ Popped \in Facts /\ Popped.key = Top[1]
      /\ \E g \in Inputs : Popped.key = g.key /\ Popped.value = Decode(Encode(g.value))
      /\ DOMAIN scans' = DOMAIN scans
      /\ \A i \in DOMAIN scans : \A v \in Nat \X Nat :
           Waits(i, v)' <=> Waits(i, v) /\ ~(i = Top[2] /\ v = Top[1])
  BY PopIs
<1>2. phase = "merge" /\ heap # {}
  BY DEF Pop
<1>3. curr' # None /\ curr'.key = Top[1]
  BY <1>1, GivenAre
<1>4. Inputs' = Inputs
  BY <1>1 DEF Inputs
<1>5. /\ \A i \in DOMAIN scans : \A g \in given[i] : g.key \in Nat \X Nat
      /\ Inputs \subseteq Facts
  BY InputsAre
<1>6. /\ curr # None => HasCurr /\ curr.key \in Nat \X Nat /\ LastGiven \subseteq Facts
      /\ curr # None => curr.key[1] < Top[1][1]
      /\ curr = None =>
           LastGiven = {} /\ \A i \in DOMAIN scans : \A g \in given[i] : Waits(i, g.key)
  <2>1. CASE curr # None
    BY <2>1, <1>2, CurrIs, TopIsBehind
  <2>2. CASE curr = None
    BY <2>2, <1>2 DEF IInv, MergeInv, CurrInv, NoCurr
  <2> QED
    BY <2>1, <2>2
<1>7. ASSUME NEW i \in DOMAIN scans, NEW g \in given[i]
      PROVE  /\ Waits(i, g.key)' => ~Less(g.key, Top[1])
             /\ ~Waits(i, g.key)' =>
                  \/ g.key[1] < Top[1][1]
                  \/ g.key[1] = Top[1][1] /\ g.key[2] <= Top[1][2]
             /\ Waits(i, g.key) => ~(g.key[1] < Top[1][1])
  <2>1. g.key \in Nat \X Nat
    BY <1>5
  <2>2. Waits(i, g.key)' <=> Waits(i, g.key) /\ ~(i = Top[2] /\ g.key = Top[1])
    BY <2>1, <1>1
  <2>3. Waits(i, g.key) => ~Less(g.key, Top[1])
    BY <2>1, <1>2, TopIsFirst
  <2>4. Waits(i, g.key) => ~(g.key[1] < Top[1][1])
    BY <2>3 DEF Less
  <2>5. ASSUME ~Waits(i, g.key) PROVE g.key[1] < Top[1][1]
    <3>1. curr # None
      BY <2>5, <1>6
    <3>2. g.key[1] < curr.key[1] \/ g.key[1] = curr.key[1]
      BY <2>5, <3>1, <1>6 DEF HasCurr
    <3>3. curr.key[1] < Top[1][1] /\ curr.key[1] \in Nat
      BY <3>1, <1>6
    <3> QED
      BY <3>2, <3>3, <2>1, <1>1
  <2>6. g.key = Top[1] => g.key[1] = Top[1][1] /\ g.key[2] <= Top[1][2]
    BY <1>1
  <2> QED
    BY <2>2, <2>3, <2>4, <2>5, <2>6
<1>8. ASSUME NEW key \in Key, key < Top[1][1]
      PROVE  /\ Value(LastGiven', key) = Value(Inputs, key)
             /\ Cardinality({e \in LastGiven' : e.key[1] = key}) <= 1
  <2>1. \A i \in DOMAIN scans : \A g \in given[i] : Waits(i, g.key) => g.key[1] # key
    BY <1>7, <1>8
  <2>2. CASE curr # None
    BY <2>1, <2>2, <1>2, Behind
  <2>3. CASE curr = None
    <3>1. LastGiven' = {}
      BY <2>3, <1>6
    <3>2. \A e \in LastGiven' \cup Inputs : e.key[1] # key
      BY <3>1, <2>1, <2>3, <1>6 DEF Inputs
    <3>3. LastGiven' \subseteq Facts
      BY <3>1
    <3> QED
      BY <3>2, <3>3, <1>5, NothingSettled
  <2> QED
    BY <2>2, <2>3
<1>9. \A e \in LastGiven' : e.key[1] < Top[1][1]
  <2>1. CASE curr = None
    BY <2>1, <1>6
  <2>2. CASE curr # None
    <3> SUFFICES ASSUME NEW e \in LastGiven' PROVE e.key[1] < Top[1][1]
      OBVIOUS
    <3>1. curr.key[1] < Top[1][1] /\ curr.key[1] \in Nat
      BY <2>2, <1>6
    <3>2. CASE e \in LastGiven
      <4>1. e.key[1] < curr.key[1]
        BY <3>2, <2>2, <1>6 DEF HasCurr
      <4>2. e.key[1] \in Nat
        BY <3>2, <2>2, <1>6, Versions DEF Facts
      <4> QED
        BY <4>1, <4>2, <3>1, <1>1
    <3>3. CASE e = curr
      BY <3>3, <3>1
    <3> QED
      BY <3>2, <3>3, <2>2
  <2> QED
    BY <2>1, <2>2
<1>10. HasCurr'
  <2>1. \E g \in Inputs' : curr'.key = g.key /\ curr'.value = Decode(Encode(g.value))
    BY <1>1, <1>4
  <2>2. \A i \in DOMAIN scans' : \A g \in given'[i] :
          /\ Waits(i, g.key)' => ~Less(g.key, curr'.key)
          /\ ~Waits(i, g.key)' =>
              \/ g.key[1] < curr'.key[1]
              \/ g.key[1] = curr'.key[1] /\ g.key[2] <= curr'.key[2]
    BY <1>1, <1>3, <1>7
  <2>3. \A key \in Key : key < curr'.key[1] => Settled(key)'
    BY <1>3, <1>4, <1>8 DEF Settled
  <2>4. \A e \in LastGiven' : e.key[1] < curr'.key[1]
    BY <1>3, <1>9
  <2> QED
    BY <2>1, <2>2, <2>3, <2>4 DEF HasCurr
<1> QED
  BY <1>1, <1>3, <1>10 DEF CurrInv, Facts

\* What every step keeps that pops an entry.
LEMMA PopInv ==
  ASSUME IInv, Pop, tables' = tables, \A i \in DOMAIN scans : given'[i] = given[i]
  PROVE  /\ PopOk = TRUE /\ phase = "merge" /\ heap # {}
         /\ DOMAIN scans' = DOMAIN scans
         /\ ScansInv' /\ HeapInv'
         /\ \A n \in DOMAIN tables' : tables'[n].meta.file_size \in Nat
         /\ DOMAIN scans' \subseteq DOMAIN tables' /\ DOMAIN pending' = DOMAIN scans'
         /\ heap' \subseteq (Key \X Nat) \X DOMAIN scans'
<1>1. /\ PopOk = TRUE
      /\ DOMAIN scans' = DOMAIN scans /\ DOMAIN pending' = DOMAIN pending
      /\ heap' \subseteq (Key \X Nat) \X DOMAIN scans'
      /\ ScansInv' /\ HeapInv'
  BY PopIs
<1>2. phase = "merge" /\ heap # {}
  BY DEF Pop
<1>3. TypeOK
  BY DEF IInv
<1> QED
  BY <1>1, <1>2, <1>3 DEF TypeOK

\* What stays when the writer gets nothing.
LEMMA NotGiven ==
  ASSUME IInv, phase = "merge", phase' = "merge",
         writer' = writer, tables' = tables, given' = given, DOMAIN scans' = DOMAIN scans
  PROVE  /\ TablesInv' /\ GivenInv' /\ WritingInv'
         /\ MergeExact' /\ FailsOnlyOversize'
         /\ writer'.block.size >= BlockHeader /\ writer'.block.size <= BlockSize
         /\ writer'.error \in {None, "order", "block length"}
         /\ given' \in Seq(SUBSET [key : Key \X Nat, value : Nat \cup {Delete}])
         /\ LastGiven' = LastGiven
<1>1. LastGiven' = LastGiven
  BY DEF LastGiven
<1>2. TablesInv'
  BY DEF IInv, TablesInv
<1>3. GivenInv'
  BY DEF IInv, GivenInv
<1>4. WritingInv'
  BY <1>1 DEF IInv, WritingInv
<1>5. MergeExact' /\ FailsOnlyOversize'
  BY DEF MergeExact, FailsOnlyOversize
<1> QED
  BY <1>1, <1>2, <1>3, <1>4, <1>5 DEF IInv, TypeOK

\* An older version of the key of curr is passed over.
LEMMA SupersedeInv == IInv /\ Supersede => IInv'
<1> SUFFICES ASSUME IInv, Supersede PROVE IInv'
  OBVIOUS
<1>1. /\ Pop /\ Same
      /\ phase' = IF PopOk THEN "merge" ELSE "failed"
      /\ writer' = writer /\ tables' = tables /\ given' = given /\ curr' = curr
  BY DEF Supersede
<1>2. /\ PopOk = TRUE /\ phase = "merge" /\ heap # {}
      /\ DOMAIN scans' = DOMAIN scans
      /\ ScansInv' /\ HeapInv'
      /\ \A n \in DOMAIN tables' : tables'[n].meta.file_size \in Nat
      /\ DOMAIN scans' \subseteq DOMAIN tables' /\ DOMAIN pending' = DOMAIN scans'
      /\ heap' \subseteq (Key \X Nat) \X DOMAIN scans'
  BY <1>1, PopInv
<1>3. phase' = "merge"
  BY <1>1, <1>2
<1>4. /\ TablesInv' /\ GivenInv' /\ WritingInv'
      /\ MergeExact' /\ FailsOnlyOversize'
      /\ writer'.block.size >= BlockHeader /\ writer'.block.size <= BlockSize
      /\ writer'.error \in {None, "order", "block length"}
      /\ given' \in Seq(SUBSET [key : Key \X Nat, value : Nat \cup {Delete}])
      /\ LastGiven' = LastGiven
  BY <1>1, <1>2, <1>3, NotGiven
<1>5. TypeOK'
  <2>1. curr' \in {None} \cup [key : Key \X Nat, value : Nat \cup {Delete}]
    BY <1>1 DEF IInv, TypeOK
  <2> QED
    BY <2>1, <1>2, <1>3, <1>4 DEF TypeOK
<1>6. curr # None /\ curr.key[1] = Top[1][1]
  BY <1>1 DEF Same, Popped
<1>7. HasCurr /\ curr.key \in Nat \X Nat
  BY <1>2, <1>6, CurrIs
<1>8. /\ Top[1] \in Nat \X Nat /\ ~Less(Top[1], curr.key)
      /\ \A i \in DOMAIN scans : \A v \in Nat \X Nat :
           Waits(i, v)' <=> Waits(i, v) /\ ~(i = Top[2] /\ v = Top[1])
  BY <1>1, <1>2, <1>6, PopIs, TopIsBehind
<1>9. Top[1][2] <= curr.key[2]
  <2>1. ~(Top[1][2] > curr.key[2])
    BY <1>6, <1>8 DEF Less
  <2> QED
    BY <2>1, <1>7, <1>8
<1>10. HasCurr'
  <2>1. Inputs' = Inputs
    BY <1>1, <1>2 DEF Inputs
  <2>2. \A key \in Key : key < curr'.key[1] => Settled(key)'
    BY <2>1, <1>1, <1>4, <1>7 DEF HasCurr, Settled
  <2>3. ASSUME NEW i \in DOMAIN scans, NEW g \in given[i]
        PROVE  /\ Waits(i, g.key)' => ~Less(g.key, curr.key)
               /\ ~Waits(i, g.key)' =>
                    \/ g.key[1] < curr.key[1]
                    \/ g.key[1] = curr.key[1] /\ g.key[2] <= curr.key[2]
    <3>1. g.key \in Nat \X Nat
      BY InputsAre
    <3>2. Waits(i, g.key)' <=> Waits(i, g.key) /\ ~(i = Top[2] /\ g.key = Top[1])
      BY <3>1, <1>8
    <3>3. /\ Waits(i, g.key) => ~Less(g.key, curr.key)
          /\ ~Waits(i, g.key) =>
               \/ g.key[1] < curr.key[1]
               \/ g.key[1] = curr.key[1] /\ g.key[2] <= curr.key[2]
      BY <1>7 DEF HasCurr
    <3>4. g.key = Top[1] => g.key[1] = curr.key[1] /\ g.key[2] <= curr.key[2]
      BY <1>6, <1>9
    <3> QED
      BY <3>2, <3>3, <3>4
  <2> QED
    BY <2>1, <2>2, <2>3, <1>1, <1>2, <1>4, <1>7 DEF HasCurr
<1>11. MergeInv'
  BY <1>1, <1>2, <1>6, <1>10 DEF MergeInv, CurrInv
<1> QED
  BY <1>4, <1>5, <1>11 DEF IInv

\* The first entry, or the first of a key after one that was deleted.
LEMMA ReplaceInv == IInv /\ Replace => IInv'
<1> SUFFICES ASSUME IInv, Replace PROVE IInv'
  OBVIOUS
<1>1. /\ Pop /\ ~Same /\ ~Due /\ curr' = Popped
      /\ phase' = IF PopOk THEN "merge" ELSE "failed"
      /\ writer' = writer /\ tables' = tables /\ given' = given
  BY DEF Replace
<1>2. /\ PopOk = TRUE /\ phase = "merge" /\ heap # {}
      /\ DOMAIN scans' = DOMAIN scans
      /\ ScansInv' /\ HeapInv'
      /\ \A n \in DOMAIN tables' : tables'[n].meta.file_size \in Nat
      /\ DOMAIN scans' \subseteq DOMAIN tables' /\ DOMAIN pending' = DOMAIN scans'
      /\ heap' \subseteq (Key \X Nat) \X DOMAIN scans'
  BY <1>1, PopInv
<1>3. phase' = "merge"
  BY <1>1, <1>2
<1>4. /\ TablesInv' /\ GivenInv' /\ WritingInv'
      /\ MergeExact' /\ FailsOnlyOversize'
      /\ writer'.block.size >= BlockHeader /\ writer'.block.size <= BlockSize
      /\ writer'.error \in {None, "order", "block length"}
      /\ given' \in Seq(SUBSET [key : Key \X Nat, value : Nat \cup {Delete}])
      /\ LastGiven' = LastGiven
  BY <1>1, <1>2, <1>3, NotGiven
<1>5. curr # None => curr.value = Delete
  BY <1>1 DEF Due
<1>6. /\ CurrInv'
      /\ curr' \in {None} \cup [key : Key \X Nat, value : Nat \cup {Delete}]
  BY <1>1, <1>4, <1>5, NextCurr
<1>7. TypeOK'
  BY <1>2, <1>3, <1>4, <1>6 DEF TypeOK
<1>8. MergeInv'
  BY <1>2, <1>6 DEF MergeInv
<1> QED
  BY <1>4, <1>7, <1>8 DEF IInv

\* The writer of a merge gets curr.
LEMMA GiveCurr ==
  ASSUME IInv, phase = "merge", curr # None, Give(curr.key, curr.value, "merge"),
         tables' = tables, DOMAIN scans' = DOMAIN scans
  PROVE  /\ TablesInv' /\ GivenInv' /\ WritingInv'
         /\ MergeExact' /\ FailsOnlyOversize'
         /\ \A i \in DOMAIN scans : given'[i] = given[i]
         /\ LastGiven' = LastGiven \cup {curr}
         /\ given' \in Seq(SUBSET [key : Key \X Nat, value : Nat \cup {Delete}])
         /\ writer'.block.size >= BlockHeader
         /\ writer'.error \in {None, "order", "block length"}
         /\ \/ phase' = "merge" /\ writer'.block.size <= BlockSize
            \/ phase' = "failed"
<1>1. /\ curr \in Facts
      /\ writer.entries > 0 => Less(writer.last_key, curr.key)
  BY CurrIs
<1>2. /\ TablesInv' /\ GivenInv' /\ WritingInv'
      /\ MergeExact' /\ FailsOnlyOversize'
      /\ \A i \in DOMAIN scans : given'[i] = given[i]
  BY <1>1, GiveInv
<1>3. /\ given' \in Seq(SUBSET Facts)
      /\ LastGiven' = LastGiven \cup {curr}
      /\ writer'.block.size >= BlockHeader
      /\ writer'.error \in {None, "order", "block length"}
      /\ \/ phase' = "merge" /\ writer'.block.size <= BlockSize
         \/ phase' = "failed"
  BY <1>1, GiveIs
<1> QED
  BY <1>2, <1>3 DEF Facts

\* The first of a key after one that has a value.
LEMMA EmitInv == IInv /\ Emit => IInv'
<1> SUFFICES ASSUME IInv, Emit PROVE IInv'
  OBVIOUS
<1>1. /\ Pop /\ Due /\ curr' = Popped /\ tables' = tables
      /\ IF PopOk
         THEN Give(curr.key, curr.value, "merge")
         ELSE phase' = "failed" /\ UNCHANGED <<writer, given>>
  BY DEF Emit
<1>2. /\ curr # None /\ ~Same /\ phase = "merge"
  BY <1>1 DEF Due, Pop
<1>3. DOMAIN scans' = DOMAIN scans
  <2>1. scans' = [scans EXCEPT ![Top[2]] = Advance(Top[2], scans[Top[2]]).scan]
    BY <1>1 DEF Pop
  <2> QED
    BY <2>1
<1>4. \A i \in DOMAIN scans : given'[i] = given[i]
  <2>1. CASE PopOk
    BY <2>1, <1>1, <1>2, <1>3, GiveCurr
  <2>2. CASE ~PopOk
    BY <2>2, <1>1
  <2> QED
    BY <2>1, <2>2
<1>5. /\ PopOk = TRUE
      /\ ScansInv' /\ HeapInv'
      /\ \A n \in DOMAIN tables' : tables'[n].meta.file_size \in Nat
      /\ DOMAIN scans' \subseteq DOMAIN tables' /\ DOMAIN pending' = DOMAIN scans'
      /\ heap' \subseteq (Key \X Nat) \X DOMAIN scans'
  BY <1>1, <1>4, PopInv
<1>6. Give(curr.key, curr.value, "merge")
  BY <1>1, <1>5
<1>7. /\ TablesInv' /\ GivenInv' /\ WritingInv'
      /\ MergeExact' /\ FailsOnlyOversize'
      /\ LastGiven' = LastGiven \cup {curr}
      /\ given' \in Seq(SUBSET [key : Key \X Nat, value : Nat \cup {Delete}])
      /\ writer'.block.size >= BlockHeader
      /\ writer'.error \in {None, "order", "block length"}
      /\ \/ phase' = "merge" /\ writer'.block.size <= BlockSize
         \/ phase' = "failed"
  BY <1>1, <1>2, <1>3, <1>6, GiveCurr
<1>8. /\ CurrInv'
      /\ curr' \in {None} \cup [key : Key \X Nat, value : Nat \cup {Delete}]
  BY <1>1, <1>2, <1>4, <1>7, NextCurr
<1>9. TypeOK'
  BY <1>5, <1>7, <1>8 DEF TypeOK
<1>10. MergeInv'
  BY <1>5, <1>8 DEF MergeInv
<1> QED
  BY <1>7, <1>9, <1>10 DEF IInv

\* The last key: nothing waits, and every key is settled.
LEMMA EmitLastInv == IInv /\ EmitLast => IInv'
<1> SUFFICES ASSUME IInv, EmitLast PROVE IInv'
  OBVIOUS
<1>1. /\ phase = "merge" /\ heap = {} /\ curr # None /\ curr' = None
      /\ Give(curr.key, curr.value, "merge")
      /\ tables' = tables /\ scans' = scans /\ heap' = heap /\ pending' = pending
  BY DEF EmitLast
<1>2. /\ TablesInv' /\ GivenInv' /\ WritingInv'
      /\ MergeExact' /\ FailsOnlyOversize'
      /\ \A i \in DOMAIN scans : given'[i] = given[i]
      /\ LastGiven' = LastGiven \cup {curr}
      /\ given' \in Seq(SUBSET [key : Key \X Nat, value : Nat \cup {Delete}])
      /\ writer'.block.size >= BlockHeader
      /\ writer'.error \in {None, "order", "block length"}
      /\ \/ phase' = "merge" /\ writer'.block.size <= BlockSize
         \/ phase' = "failed"
  BY <1>1, GiveCurr
<1>3. TypeOK'
  BY <1>1, <1>2 DEF IInv, TypeOK
<1>4. ScansInv /\ HeapInv
  BY <1>1 DEF IInv, MergeInv
<1>5. ScansInv'
  <2>1. \A i \in DOMAIN scans : Left(i)' = Left(i)
    BY <1>1 DEF Left
  <2> QED
    BY <2>1, <1>1, <1>2, <1>4 DEF ScansInv
<1>6. HeapInv'
  BY <1>1 DEF HeapInv
<1>7. \A i \in DOMAIN scans : \A g \in given[i] : ~Waits(i, g.key)
  BY <1>1, <1>4 DEF Waits, ScansInv
<1>8. ASSUME NEW key \in Key PROVE Settled(key)'
  <2>1. /\ Value(LastGiven', key) = Value(Inputs, key)
        /\ Cardinality({e \in LastGiven' : e.key[1] = key}) <= 1
    BY <1>1, <1>2, <1>7, Behind
  <2>2. Inputs' = Inputs
    BY <1>1, <1>2 DEF Inputs
  <2> QED
    BY <2>1, <2>2 DEF Settled
<1>9. MergeInv'
  BY <1>1, <1>5, <1>6, <1>8 DEF MergeInv, CurrInv, NoCurr
<1> QED
  BY <1>2, <1>3, <1>9 DEF IInv

\* The output is finished, if there is anything in it.
LEMMA FinishCompactionInv == IInv /\ FinishCompaction => IInv'
<1> SUFFICES ASSUME IInv, FinishCompaction PROVE IInv'
  OBVIOUS
<1>1. /\ phase = "merge" /\ heap = {} /\ curr = None /\ phase' = "compacted"
      /\ tables' = IF writer.entries = 0 THEN tables ELSE Append(tables, Finish(writer))
      /\ writer' = writer /\ given' = given /\ scans' = scans /\ heap' = heap
      /\ pending' = pending /\ curr' = curr
  BY DEF FinishCompaction, mergeVars
<1>2. /\ tables' \in Seq({tables'[n] : n \in DOMAIN tables'})
      /\ Len(given) \in {Len(tables'), Len(tables') + 1}
      /\ DOMAIN tables \subseteq DOMAIN tables'
      /\ \A n \in DOMAIN tables' :
           TableInv(tables'[n], given[n]) /\ tables'[n].meta.file_size \in Nat
  <2>1. CASE writer.entries = 0
    <3>1. tables' = tables
      BY <2>1, <1>1
    <3>2. /\ tables \in Seq({tables[n] : n \in DOMAIN tables})
          /\ Len(given) \in {Len(tables), Len(tables) + 1}
          /\ \A n \in DOMAIN tables : TableInv(tables[n], given[n])
      BY DEF IInv, TablesInv
    <3>3. \A n \in DOMAIN tables : tables[n].meta.file_size \in Nat
      BY DEF IInv, TypeOK
    <3> QED
      BY <3>1, <3>2, <3>3
  <2>2. CASE writer.entries # 0
    <3>1. writer.entries \in Nat
      BY <1>1 DEF IInv, WritingInv, WriterInv, CountInv
    <3>2. writer.entries > 0
      BY <3>1, <2>2
    <3> QED
      BY <3>2, <2>2, <1>1, AnotherTable
  <2> QED
    BY <2>1, <2>2
<1>3. TypeOK'
  <2>1. /\ DOMAIN scans' \subseteq DOMAIN tables' /\ DOMAIN pending' = DOMAIN scans'
        /\ heap' \subseteq (Key \X Nat) \X DOMAIN scans'
        /\ curr' \in {None} \cup [key : Key \X Nat, value : Nat \cup {Delete}]
        /\ given' \in Seq(SUBSET [key : Key \X Nat, value : Nat \cup {Delete}])
        /\ writer'.block.size >= BlockHeader /\ writer'.block.size <= BlockSize
        /\ writer'.error \in {None, "order", "block length"}
    BY <1>1, <1>2 DEF IInv, TypeOK
  <2> QED
    BY <2>1, <1>1, <1>2 DEF TypeOK
<1>4. TablesInv'
  BY <1>1, <1>2 DEF TablesInv
<1>5. GivenInv'
  BY <1>1 DEF IInv, GivenInv
<1>6. WritingInv' /\ MergeInv' /\ FailsOnlyOversize'
  BY <1>1 DEF WritingInv, MergeInv, FailsOnlyOversize
<1>7. MergeExact'
  <2>1. \A key \in Key : Settled(key)
    BY <1>1 DEF IInv, MergeInv, CurrInv, NoCurr
  <2>2. LastGiven' = LastGiven
    BY <1>1 DEF LastGiven
  <2> QED
    BY <2>1, <2>2, <1>1 DEF MergeExact, Settled, Inputs
<1> QED
  BY <1>3, <1>4, <1>5, <1>6, <1>7 DEF IInv

\* Nothing happens.
LEMMA StutterInv == IInv /\ UNCHANGED vars => IInv'
<1> SUFFICES ASSUME IInv, UNCHANGED vars PROVE IInv'
  OBVIOUS
<1>1. /\ phase' = phase /\ writer' = writer /\ tables' = tables /\ given' = given
      /\ scans' = scans /\ heap' = heap /\ pending' = pending /\ curr' = curr
  BY DEF vars, mergeVars
<1>2. TypeOK' /\ TablesInv' /\ GivenInv'
  BY <1>1 DEF IInv, TypeOK, TablesInv, GivenInv
<1>3. LastGiven' = LastGiven /\ Inputs' = Inputs
  BY <1>1 DEF LastGiven, Inputs
<1>4. \A i : Left(i)' = Left(i)
  BY <1>1 DEF Left
<1>5. \A i, v : Waits(i, v)' <=> Waits(i, v)
  BY <1>1, <1>4 DEF Waits
<1>6. WritingInv' /\ FailsOnlyOversize'
  BY <1>1, <1>3 DEF IInv, WritingInv, FailsOnlyOversize
<1>7. MergeExact'
  BY <1>1, <1>3 DEF IInv, MergeExact, Inputs
<1>8. ScansInv => ScansInv'
  BY <1>1, <1>4 DEF ScansInv
<1>9. HeapInv => HeapInv'
  BY <1>1, <1>4 DEF HeapInv
<1>10. \A key : Settled(key)' <=> Settled(key)
  BY <1>3 DEF Settled
<1>11. CurrInv => CurrInv'
  <2>1. NoCurr => NoCurr'
    BY <1>1, <1>3, <1>5, <1>10 DEF NoCurr
  <2>2. HasCurr => HasCurr'
    BY <1>1, <1>3, <1>5, <1>10 DEF HasCurr
  <2> QED
    BY <2>1, <2>2, <1>1 DEF CurrInv
<1>12. MergeInv'
  BY <1>1, <1>8, <1>9, <1>11 DEF IInv, MergeInv
<1> QED
  BY <1>2, <1>6, <1>7, <1>12 DEF IInv

-----------------------------------------------------------------------------
(* The theorems.                                                           *)

\* The invariant holds at first and every step keeps it, whatever the entries,
\* the sizes and the bounds: tables stand for what they were written from, and a
\* merge has settled what is behind it.
THEOREM Inductive == Spec => []IInv
<1>1. Init => IInv
  BY InitInv
<1>2. IInv /\ [Next]_vars => IInv'
  <2> SUFFICES ASSUME IInv, [Next]_vars PROVE IInv'
    OBVIOUS
  <2>1. CASE Begin
    BY <2>1, BeginInv
  <2>2. CASE AddNext
    BY <2>2, AddNextInv
  <2>3. CASE FinishTable
    BY <2>3, FinishTableInv
  <2>4. CASE Compact
    BY <2>4, CompactInv
  <2>5. CASE Supersede
    BY <2>5, SupersedeInv
  <2>6. CASE Replace
    BY <2>6, ReplaceInv
  <2>7. CASE Emit
    BY <2>7, EmitInv
  <2>8. CASE EmitLast
    BY <2>8, EmitLastInv
  <2>9. CASE FinishCompaction
    BY <2>9, FinishCompactionInv
  <2>10. CASE UNCHANGED vars
    BY <2>10, StutterInv
  <2> QED
    BY <2>1, <2>2, <2>3, <2>4, <2>5, <2>6, <2>7, <2>8, <2>9, <2>10 DEF Next
<1> QED
  BY <1>1, <1>2, PTL DEF Spec

\* Every variable keeps its type; in particular no block outgrows its size
\* unless an entry does so (BlockBuilder::add, SSTableWriter::flush_block).
THEOREM TypeCorrect == Spec => []TypeOK
<1>1. IInv => TypeOK
  BY DEF IInv
<1> QED
  BY <1>1, Inductive, PTL

\* The table that was finished last, and what it was written from.
LEMMA LastTableInv ==
  ASSUME IInv, JustFinished
  PROVE  TableInv(LastTable, LastGiven) /\ LastGiven \subseteq Facts
<1>1. /\ tables \in Seq({tables[n] : n \in DOMAIN tables})
      /\ \A n \in DOMAIN tables : TableInv(tables[n], given[n])
  BY DEF IInv, TablesInv
<1>2. tables # <<>> /\ Len(tables) = Len(given)
  BY DEF JustFinished
<1>3. Len(tables) \in DOMAIN tables
  <2>1. Len(tables) \in Nat /\ DOMAIN tables = 1..Len(tables)
    BY <1>1
  <2>2. Len(tables) # 0
    BY <1>1, <1>2
  <2> QED
    BY <2>1, <2>2
<1>4. TableInv(LastTable, LastGiven)
  BY <1>1, <1>2, <1>3 DEF LastTable, LastGiven
<1> QED
  BY <1>4 DEF TableInv

\* SSTable::get answers for every key and snapshot as if it looked through all
\* the entries the table was written from: the bloom filter, the key range and
\* the block that the index names lose nothing, for every block size.
THEOREM GetsAreExact == Spec => []GetExact
<1>1. ASSUME IInv PROVE GetExact
  <2> SUFFICES ASSUME JustFinished, NEW key \in Key, NEW snapshot \in 0..MaxSeq
               PROVE  Get(LastTable.file, LastTable.meta, key, snapshot)
                        = Newest(LastGiven, key, snapshot)
    BY DEF GetExact
  <2> DEFINE old == {g \in LastGiven : g.key[1] = key /\ g.key[2] <= snapshot}
             found == Get(LastTable.file, LastTable.meta, key, snapshot)
  <2>1. TableInv(LastTable, LastGiven) /\ LastGiven \subseteq Facts
    BY <1>1, LastTableInv
  <2>2. snapshot \in Nat
    BY GivenAre
  <2>3. /\ old = {} => found = Absent
        /\ \A g \in old : (\A f \in old : f.key[2] <= g.key[2]) =>
             found = Decode(Encode(g.value))
    BY <2>1, <2>2, GetIs
  <2>4. /\ old = {} => Newest(LastGiven, key, snapshot) = Absent
        /\ old # {} => \E g \in old :
             /\ \A f \in old : f.key[2] <= g.key[2]
             /\ Newest(LastGiven, key, snapshot) = Decode(Encode(g.value))
    BY <2>1, <2>2, NewestIs
  <2> HIDE DEF old, found
  <2>5. found = Newest(LastGiven, key, snapshot)
    BY <2>3, <2>4
  <2> QED
    BY <2>5 DEF found
<1> QED
  BY <1>1, Inductive, PTL

\* Opening the file of a table finds the meta that finish kept in memory, with
\* the largest sequence number of the entries (SSTable::open, recovery).
THEOREM ReopensAreExact == Spec => []ReopenExact
<1>1. ASSUME IInv PROVE ReopenExact
  <2> SUFFICES ASSUME JustFinished
               PROVE  /\ ReadMeta(LastTable.file) = LastTable.meta
                      /\ LastTable.meta.footer.largest_seq
                           = Largest({e.key[2] : e \in LastGiven})
    BY DEF ReopenExact
  <2> DEFINE seqs == {e.key[2] : e \in LastGiven}
             seq == LastTable.meta.footer.largest_seq
  <2>1. TableInv(LastTable, LastGiven) /\ LastGiven \subseteq Facts
    BY <1>1, LastTableInv
  <2>2. ReadMeta(LastTable.file) = LastTable.meta
    BY <2>1 DEF TableInv
  <2>3. /\ \E g \in LastGiven : g.key[2] = seq
        /\ \A g \in LastGiven : g.key[2] <= seq
    BY <2>1 DEF TableInv, Ends
  <2>4. seq \in seqs /\ seqs \subseteq Nat /\ \A n \in seqs : n <= seq
    <3>1. \A g \in LastGiven : g.key[2] \in Nat
      BY <2>1, Versions DEF Facts
    <3>2. seq \in seqs
      BY <2>3
    <3>3. \A n \in seqs : n \in Nat /\ n <= seq
      BY <3>1, <2>3
    <3> QED
      BY <3>2, <3>3
  <2> HIDE DEF seqs, seq
  <2>5. \A n \in seqs : seq >= n
    <3>1. seq \in Nat
      BY <2>4
    <3> QED
      BY <3>1, <2>4
  <2>6. Largest(seqs) \in seqs /\ \A n \in seqs : Largest(seqs) >= n
    BY <2>4, <2>5 DEF Largest
  <2>7. seq = Largest(seqs)
    <3>1. seq >= Largest(seqs) /\ Largest(seqs) >= seq
      BY <2>4, <2>5, <2>6
    <3>2. seq \in Nat /\ Largest(seqs) \in Nat
      BY <2>4, <2>6
    <3> QED
      BY <3>1, <3>2
  <2> QED
    BY <2>2, <2>7 DEF seqs, seq
<1> QED
  BY <1>1, Inductive, PTL

\* compact loses no key and revives none, and has each once, whatever its inputs
\* are and however their versions are spread over them.
THEOREM MergesAreExact == Spec => []MergeExact
<1>1. IInv => MergeExact
  BY DEF IInv
<1> QED
  BY <1>1, Inductive, PTL

\* Reading a table never fails, and a writer that is given entries in order
\* fails only over an entry that is nearly as long as a block may be.
THEOREM FailsOnlyOversized == Spec => []FailsOnlyOversize
<1>1. IInv => FailsOnlyOversize
  BY DEF IInv
<1> QED
  BY <1>1, Inductive, PTL

=============================================================================
