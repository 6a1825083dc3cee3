------------------------ MODULE BindingTable_proofs ------------------------
(***************************************************************************)
(* Machine-checked proofs about BindingTable, for every number of slots,   *)
(* every set of parts and quantities and every modulus of table_seq.       *)
(***************************************************************************)
EXTENDS BindingTable, SequenceTheorems, TLAPS

-----------------------------------------------------------------------------
(* move_block: where each record of the new table comes from.              *)

\* The slot whose record arrives in slot i.
MoveSource(from, to, len, i) ==
    IF i \in to..(to + len - 1) THEN i + from - to
    ELSE IF i \in from..(to + len - 1) THEN i + len
    ELSE IF i \in to..(from + len - 1) THEN i - len
    ELSE i

MoveValid(from, to, len) ==
    /\ from \in Slot /\ to \in Slot /\ len \in AnySlot
    /\ len # 0 /\ from + len - 1 <= N /\ to + len - 1 <= N
    /\ from # to

\* Slice(table, lo, hi) in the domain a table has.
LEMMA SliceFacts ==
    ASSUME NEW S, NEW table \in [Slot -> S], NEW lo \in Int, NEW hi \in Int,
           1 <= lo, hi <= N
    PROVE  /\ SubSeq(table, lo, hi) \in Seq(S)
           /\ Len(SubSeq(table, lo, hi)) = IF lo <= hi THEN hi - lo + 1 ELSE 0
           /\ \A i \in 1..(hi - lo + 1) : SubSeq(table, lo, hi)[i] = table[lo + i - 1]
<1>1. \A i \in lo..hi : table[i] \in S
  BY TableAssumption DEF Slot
<1> QED
  BY <1>1, SubSeqProperties

\* The table without the block has N - len records, in the old order.
LEMMA RestFacts ==
    ASSUME NEW S, NEW table \in [Slot -> S],
           NEW from \in Slot, NEW len \in AnySlot, len # 0, from + len - 1 <= N
    PROVE  /\ Rest(table, from, len) \in Seq(S)
           /\ Len(Rest(table, from, len)) = N - len
           /\ \A i \in 1..(N - len) : Rest(table, from, len)[i] =
                  IF i < from THEN table[i] ELSE table[i + len]
<1> DEFINE head == SubSeq(table, 1, from - 1)
           tail == SubSeq(table, from + len, N)
<1> USE TableAssumption DEF Slot, AnySlot
<1>1. /\ head \in Seq(S) /\ Len(head) = from - 1
      /\ \A i \in 1..(from - 1) : head[i] = table[i]
  <2>1. /\ head \in Seq(S)
        /\ Len(head) = IF 1 <= from - 1 THEN from - 1 - 1 + 1 ELSE 0
        /\ \A i \in 1..(from - 1 - 1 + 1) : head[i] = table[1 + i - 1]
    BY SliceFacts
  <2> HIDE DEF head
  <2> QED BY <2>1
<1>2. /\ tail \in Seq(S) /\ Len(tail) = N - (from + len) + 1
      /\ \A i \in 1..(N - (from + len) + 1) : tail[i] = table[from + len + i - 1]
  <2>1. /\ tail \in Seq(S)
        /\ Len(tail) = IF from + len <= N THEN N - (from + len) + 1 ELSE 0
        /\ \A i \in 1..(N - (from + len) + 1) : tail[i] = table[from + len + i - 1]
    BY SliceFacts
  <2> HIDE DEF tail
  <2> QED BY <2>1
<1> HIDE DEF head, tail
<1>3. /\ head \o tail \in Seq(S)
      /\ Len(head \o tail) = N - len
      /\ \A i \in 1..(N - len) : (head \o tail)[i] =
             IF i <= from - 1 THEN head[i] ELSE tail[i - (from - 1)]
  <2>1. /\ head \o tail \in Seq(S)
        /\ Len(head \o tail) = Len(head) + Len(tail)
        /\ \A i \in 1..(Len(head) + Len(tail)) : (head \o tail)[i] =
               IF i <= Len(head) THEN head[i] ELSE tail[i - Len(head)]
    BY <1>1, <1>2, ConcatProperties
  <2>2. Len(head) + Len(tail) = N - len
    BY <1>1, <1>2
  <2> QED BY <1>1, <2>1, <2>2
<1>4. Rest(table, from, len) = head \o tail
  BY DEF Rest, head, tail
<1>5. ASSUME NEW i \in 1..(N - len)
      PROVE  (head \o tail)[i] = IF i < from THEN table[i] ELSE table[i + len]
  <2>1. CASE i < from
    BY <1>1, <1>3, <2>1
  <2>2. CASE ~(i < from)
    <3>1. /\ i - (from - 1) \in 1..(N - (from + len) + 1)
          /\ from + len + (i - (from - 1)) - 1 = i + len
      BY <2>2
    <3> QED BY <1>2, <1>3, <2>2, <3>1
  <2> QED BY <2>1, <2>2
<1> QED
  BY <1>3, <1>4, <1>5

\* Before it is renumbered, the table move_block builds holds the record of
\* MoveSource in every slot.
LEMMA MovedFacts ==
    ASSUME NEW S, NEW table \in [Slot -> S],
           NEW from, NEW to, NEW len, MoveValid(from, to, len),
           NEW i \in Slot
    PROVE  LET rest == Rest(table, from, len)
               insertAt == IF to - 1 > N - len THEN N - len ELSE to - 1
               moved == SubSeq(rest, 1, insertAt) \o SubSeq(table, from, from + len - 1)
                            \o SubSeq(rest, insertAt + 1, N - len)
           IN  /\ moved[i] = table[MoveSource(from, to, len, i)]
               /\ MoveSource(from, to, len, i) \in Slot
<1> DEFINE rest == Rest(table, from, len)
           insertAt == IF to - 1 > N - len THEN N - len ELSE to - 1
           before == SubSeq(rest, 1, insertAt)
           block == SubSeq(table, from, from + len - 1)
           after == SubSeq(rest, insertAt + 1, N - len)
<1>a. /\ from \in Slot /\ to \in Slot /\ len \in AnySlot /\ len # 0
      /\ from + len - 1 <= N /\ to + len - 1 <= N /\ from # to
  BY DEF MoveValid
<1>b. N \in Nat /\ from \in 1..N /\ to \in 1..N /\ len \in 1..N /\ i \in 1..N
  BY <1>a, TableAssumption DEF Slot, AnySlot
<1>1. insertAt = to - 1 /\ insertAt \in 0..(N - len)
  BY <1>a, <1>b
<1>2. /\ rest \in Seq(S) /\ Len(rest) = N - len
      /\ \A j \in 1..(N - len) : rest[j] = IF j < from THEN table[j] ELSE table[j + len]
  BY <1>a, RestFacts
<1> USE <1>a, <1>b
<1> HIDE DEF rest
<1>3. \A j \in 1..(N - len) : rest[j] \in S
  BY <1>2, ElementOfSeq
<1> HIDE DEF insertAt
<1>4. /\ before \in Seq(S) /\ Len(before) = to - 1
      /\ \A j \in 1..(to - 1) : before[j] = rest[j]
  <2>1. \A j \in 1..insertAt : rest[j] \in S
    BY <1>1, <1>3
  <2>2. /\ before \in Seq(S)
        /\ Len(before) = IF 1 <= insertAt THEN insertAt - 1 + 1 ELSE 0
        /\ \A j \in 1..(insertAt - 1 + 1) : before[j] = rest[1 + j - 1]
    BY <1>1, <2>1, SubSeqProperties
  <2> HIDE DEF before
  <2>3. \A j \in 1..(to - 1) : j \in 1..(insertAt - 1 + 1) /\ 1 + j - 1 = j
    BY <1>1
  <2>4. Len(before) = to - 1
    BY <1>1, <2>2
  <2> QED BY <2>2, <2>3, <2>4
<1>5. /\ block \in Seq(S) /\ Len(block) = len
      /\ \A j \in 1..len : block[j] = table[from + j - 1]
  <2>1. /\ block \in Seq(S)
        /\ Len(block) = IF from <= from + len - 1 THEN from + len - 1 - from + 1 ELSE 0
        /\ \A j \in 1..(from + len - 1 - from + 1) : block[j] = table[from + j - 1]
    BY SliceFacts DEF Slot
  <2> HIDE DEF block
  <2> QED BY <2>1
<1>6. /\ after \in Seq(S) /\ Len(after) = N - len - (to - 1)
      /\ \A j \in 1..(N - len - (to - 1)) : after[j] = rest[to - 1 + j]
  <2>1. \A j \in (insertAt + 1)..(N - len) : rest[j] \in S
    BY <1>1, <1>3
  <2>2. /\ after \in Seq(S)
        /\ Len(after) = IF insertAt + 1 <= N - len THEN N - len - (insertAt + 1) + 1 ELSE 0
        /\ \A j \in 1..(N - len - (insertAt + 1) + 1) : after[j] = rest[insertAt + 1 + j - 1]
    BY <1>1, <2>1, SubSeqProperties
  <2> HIDE DEF after
  <2> QED BY <1>1, <2>2
<1> HIDE DEF before, block, after
<1>7. /\ before \o block \in Seq(S) /\ Len(before \o block) = to - 1 + len
      /\ \A j \in 1..(to - 1 + len) : (before \o block)[j] =
             IF j <= to - 1 THEN before[j] ELSE block[j - (to - 1)]
  <2>1. /\ before \o block \in Seq(S)
        /\ Len(before \o block) = Len(before) + Len(block)
        /\ \A j \in 1..(Len(before) + Len(block)) : (before \o block)[j] =
               IF j <= Len(before) THEN before[j] ELSE block[j - Len(before)]
    BY <1>4, <1>5, ConcatProperties
  <2> QED BY <1>4, <1>5, <2>1
<1>8. \A j \in 1..N : (before \o block \o after)[j] =
          IF j <= to - 1 + len THEN (before \o block)[j] ELSE after[j - (to - 1 + len)]
  <2>1. \A j \in 1..(Len(before \o block) + Len(after)) :
            ((before \o block) \o after)[j] =
                IF j <= Len(before \o block) THEN (before \o block)[j]
                ELSE after[j - Len(before \o block)]
    BY <1>6, <1>7, ConcatProperties
  <2>2. Len(before \o block) + Len(after) = N
    BY <1>6, <1>7
  <2> QED BY <1>7, <2>1, <2>2
<1>9. MoveSource(from, to, len, i) \in Slot
  BY DEF MoveSource, Slot
<1>10. (before \o block \o after)[i] = table[MoveSource(from, to, len, i)]
  <2>1. CASE i \in to..(to + len - 1)
    <3>1. (before \o block \o after)[i] = block[i - (to - 1)]
      BY <1>7, <1>8, <2>1
    <3>2. i - (to - 1) \in 1..len /\ from + (i - (to - 1)) - 1 = i + from - to
      BY <2>1
    <3>3. MoveSource(from, to, len, i) = i + from - to
      BY <2>1 DEF MoveSource
    <3> QED BY <1>5, <3>1, <3>2, <3>3
  <2>2. CASE i < to
    <3>1. (before \o block \o after)[i] = rest[i]
      BY <1>4, <1>7, <1>8, <2>2
    <3>2. i \in 1..(N - len)
      BY <2>2
    <3>3. rest[i] = IF i < from THEN table[i] ELSE table[i + len]
      BY <1>2, <3>2
    <3>4. MoveSource(from, to, len, i) = IF i < from THEN i ELSE i + len
      BY <2>2 DEF MoveSource
    <3> QED BY <3>1, <3>3, <3>4
  <2>3. CASE i > to + len - 1
    <3>0. ~(i <= to - 1 + len)
      BY <2>3
    <3>1. (before \o block \o after)[i] = after[i - (to - 1 + len)]
      BY <1>8, <3>0
    <3>2. /\ i - (to - 1 + len) \in 1..(N - len - (to - 1))
          /\ to - 1 + (i - (to - 1 + len)) = i - len
          /\ i - len \in 1..(N - len)
      BY <2>3
    <3>3. after[i - (to - 1 + len)] = rest[i - len]
      BY <1>6, <3>2
    <3>4. rest[i - len] = IF i - len < from THEN table[i - len] ELSE table[i - len + len]
      BY <1>2, <3>2
    <3>5. i - len + len = i
      OBVIOUS
    <3>6. MoveSource(from, to, len, i) = IF i - len < from THEN i - len ELSE i
      BY <2>3 DEF MoveSource
    <3> QED BY <3>1, <3>3, <3>4, <3>5, <3>6
  <2>4. i \in to..(to + len - 1) \/ i < to \/ i > to + len - 1
    OBVIOUS
  <2> QED BY <2>1, <2>2, <2>3, <2>4
<1> QED
  BY <1>9, <1>10 DEF rest, insertAt, before, block, after

-----------------------------------------------------------------------------
(* Records and tables: every operation builds a sealed table.              *)

SealedTable(table) == \A i \in Slot : SealedAt(table[i], i)

\* Slots as numbers.
LEMMA SlotFacts ==
    /\ N \in Nat /\ N >= 1
    /\ \A i \in Slot : i \in Nat /\ i >= 1 /\ i <= N /\ i \in AnySlot /\ i # 0
    /\ \A i \in Int : 1 <= i /\ i <= N => i \in Slot
    /\ 0 \in AnySlot
BY TableAssumption DEF Slot, AnySlot

\* The blank record and the blank table are sealed.
LEMMA BlankFacts == Blank \in Record /\ BlankTable \in Table /\ SealedTable(BlankTable)
<1>1. Blank \in Record
  BY SlotFacts, TableAssumption DEF Blank, Record, Crc8, PartOrNone
<1> QED
  BY <1>1 DEF BlankTable, Table, SealedTable, SealedAt

\* normalize_slot seals a record for the slot it is given.
LEMMA NormalizeFacts ==
    ASSUME NEW record \in Record, NEW slot \in Slot
    PROVE  /\ NormalizeSlot(record, slot) \in Record
           /\ SealedAt(NormalizeSlot(record, slot), slot)
           /\ Payload(NormalizeSlot(record, slot)) = Payload(record)
<1>1. slot \in AnySlot
  BY SlotFacts
<1> QED
  BY <1>1 DEF NormalizeSlot, Record, Crc8, SealedAt, RecordCrcOk, Payload

\* Normalizing twice for the same slot changes nothing more.
LEMMA NormalizeTwice ==
    ASSUME NEW record \in Record, NEW slot \in Slot
    PROVE  NormalizeSlot(NormalizeSlot(record, slot), slot) = NormalizeSlot(record, slot)
BY DEF NormalizeSlot, Record

\* What the shifting loops do to a record that was sealed where it came from.
LEMMA RenumberFacts ==
    ASSUME NEW record \in Record, NEW source \in Slot, NEW slot \in Slot,
           SealedAt(record, source)
    PROVE  /\ Renumber(record, slot) \in Record
           /\ SealedAt(Renumber(record, slot), slot)
           /\ Payload(Renumber(record, slot)) = Payload(record)
<1>1. CASE record.slot # 0
  BY <1>1, NormalizeFacts DEF Renumber
<1>2. CASE record.slot = 0
  <2>1. record = Blank
    BY <1>2, SlotFacts DEF SealedAt
  <2> QED BY <1>2, <2>1 DEF Renumber, SealedAt
<1> QED
  BY <1>1, <1>2

\* WRITE_ONE proposes a sealed table.
LEMMA WrittenFacts ==
    ASSUME NEW table \in Table, SealedTable(table), NEW record \in Record,
           ValidSlot(record.slot)
    PROVE  WithWritten(table, record) \in Table /\ SealedTable(WithWritten(table, record))
BY NormalizeFacts DEF ValidSlot, WithWritten, Table, SealedTable

\* CLEAR_ONE proposes a sealed table.
LEMMA ClearedFacts ==
    ASSUME NEW table \in Table, SealedTable(table), NEW slot \in Slot
    PROVE  WithCleared(table, slot) \in Table /\ SealedTable(WithCleared(table, slot))
BY BlankFacts DEF WithCleared, Table, SealedTable, SealedAt

\* INSERT_AT proposes a sealed table.
LEMMA InsertedFacts ==
    ASSUME NEW table \in Table, SealedTable(table), NEW slot \in Slot,
           NEW gap \in slot..N, NEW record \in Record
    PROVE  /\ WithInserted(table, slot, gap, record) \in Table
           /\ SealedTable(WithInserted(table, slot, gap, record))
<1> DEFINE new == WithInserted(table, slot, gap, record)
<1>1. ASSUME NEW i \in Slot PROVE new[i] \in Record /\ SealedAt(new[i], i)
  <2>1. CASE i = slot
    BY <2>1, NormalizeFacts DEF WithInserted
  <2>2. CASE i # slot /\ i \in (slot + 1)..gap
    <3>1. i - 1 \in Slot
      BY <2>2, SlotFacts
    <3>2. table[i - 1] \in Record /\ SealedAt(table[i - 1], i - 1)
      BY <3>1 DEF Table, SealedTable
    <3> QED BY <2>2, <3>1, <3>2, RenumberFacts DEF WithInserted
  <2>3. CASE i # slot /\ i \notin (slot + 1)..gap
    BY <2>3 DEF WithInserted, Table, SealedTable
  <2> QED BY <2>1, <2>2, <2>3
<1>2. new = [i \in Slot |-> new[i]]
  BY DEF WithInserted
<1> HIDE DEF new
<1>3. new \in Table /\ SealedTable(new)
  BY <1>1, <1>2 DEF Table, SealedTable
<1> QED
  BY <1>3 DEF new

\* REMOVE_AT proposes a sealed table.
LEMMA RemovedFacts ==
    ASSUME NEW table \in Table, SealedTable(table), NEW slot \in Slot
    PROVE  WithRemoved(table, slot) \in Table /\ SealedTable(WithRemoved(table, slot))
<1> DEFINE new == WithRemoved(table, slot)
<1>1. ASSUME NEW i \in Slot PROVE new[i] \in Record /\ SealedAt(new[i], i)
  <2>1. CASE i < slot
    BY <2>1 DEF WithRemoved, Table, SealedTable
  <2>2. CASE ~(i < slot) /\ i < N
    <3>1. i + 1 \in Slot
      BY <2>2, SlotFacts
    <3>2. table[i + 1] \in Record /\ SealedAt(table[i + 1], i + 1)
      BY <3>1 DEF Table, SealedTable
    <3> QED BY <2>2, <3>1, <3>2, RenumberFacts DEF WithRemoved
  <2>3. CASE ~(i < slot) /\ ~(i < N)
    BY <2>3, BlankFacts DEF WithRemoved, SealedAt
  <2> QED BY <2>1, <2>2, <2>3
<1>2. new = [i \in Slot |-> new[i]]
  BY DEF WithRemoved
<1> HIDE DEF new
<1>3. new \in Table /\ SealedTable(new)
  BY <1>1, <1>2 DEF Table, SealedTable
<1> QED
  BY <1>3 DEF new

\* MOVE_BLOCK proposes a sealed table, rotated as MoveSource says.
LEMMA MoveFacts ==
    ASSUME NEW table \in Table, SealedTable(table),
           NEW from, NEW to, NEW len, MoveValid(from, to, len)
    PROVE  LET new == WithMoved(table, from, to, len)
           IN  /\ new \in Table /\ SealedTable(new)
               /\ \A i \in Slot : /\ MoveSource(from, to, len, i) \in Slot
                                   /\ new[i] = Renumber(table[MoveSource(from, to, len, i)], i)
                                   /\ Payload(new[i]) = Payload(table[MoveSource(from, to, len, i)])
<1> DEFINE new == WithMoved(table, from, to, len)
           source(i) == MoveSource(from, to, len, i)
<1>1. ASSUME NEW i \in Slot
      PROVE  new[i] = Renumber(table[source(i)], i) /\ source(i) \in Slot
  <2>1. table \in [Slot -> Record]
    BY DEF Table
  <2> DEFINE rest == Rest(table, from, len)
             insertAt == IF to - 1 > N - len THEN N - len ELSE to - 1
             moved == SubSeq(rest, 1, insertAt) \o SubSeq(table, from, from + len - 1)
                          \o SubSeq(rest, insertAt + 1, N - len)
  <2>2. moved[i] = table[source(i)] /\ source(i) \in Slot
    BY <2>1, MovedFacts
  <2>3. new[i] = Renumber(moved[i], i)
    BY DEF WithMoved
  <2> HIDE DEF new, source, moved
  <2> QED BY <2>2, <2>3
<1>2. new = [i \in Slot |-> new[i]]
  BY DEF WithMoved
<1> HIDE DEF new, source
<1>3. ASSUME NEW i \in Slot
      PROVE  new[i] \in Record /\ SealedAt(new[i], i) /\ Payload(new[i]) = Payload(table[source(i)])
  <2>1. table[source(i)] \in Record /\ SealedAt(table[source(i)], source(i))
    BY <1>1 DEF Table, SealedTable
  <2> QED BY <1>1, <2>1, RenumberFacts
<1>4. new \in Table /\ SealedTable(new)
  BY <1>2, <1>3 DEF Table, SealedTable
<1> QED
  BY <1>1, <1>3, <1>4 DEF new, source

\* SET_QTY proposes a sealed table.
LEMMA QtyFacts ==
    ASSUME NEW table \in Table, SealedTable(table), NEW slot \in Slot, NEW qty \in Qty
    PROVE  WithQty(table, slot, qty) \in Table /\ SealedTable(WithQty(table, slot, qty))
<1>1. [table[slot] EXCEPT !.qty = qty] \in Record
  BY DEF Table, Record
<1>2. /\ NormalizeSlot([table[slot] EXCEPT !.qty = qty], slot) \in Record
      /\ SealedAt(NormalizeSlot([table[slot] EXCEPT !.qty = qty], slot), slot)
  BY <1>1, NormalizeFacts
<1> QED
  BY <1>2 DEF WithQty, Table, SealedTable

-----------------------------------------------------------------------------
(* The inductive invariant.                                                *)

\* SlotsSealed also of the flash image, which a boot copies into RAM, and the
\* table_seq of every image in its range; next_seq follows table_seq while a
\* commit runs, so that the answer to RebootKeepsTable survives the last step; and
\* a boot that fails to read starts from a blank table.
IInv ==
    /\ TypeOK
    /\ SlotsSealed
    /\ SealedTable(flash.image.records)
    /\ flash.image.seq \in 1..(SeqMod - 1) /\ next.seq \in 1..(SeqMod - 1)
    /\ RebootKeepsTable
    /\ phase \in {"saving", "saved"} => next.seq = NextSeq(seq)
    /\ phase \in {"off", "booting", "saved"} => ~unread
    /\ phase = "booting" => records = BlankTable /\ seq = 1

\* The next table_seq is in range: never 0.
LEMMA NextSeqFacts ==
    ASSUME NEW s \in 1..(SeqMod - 1) PROVE NextSeq(s) \in 1..(SeqMod - 1)
BY TableAssumption DEF NextSeq

\* The names of the phases.
LEMMA PhaseFacts == {"off", "booting", "idle", "saving", "saved"} \subseteq Phase
BY DEF Phase

\* The names of the error numbers.
LEMMA ErrnoFacts == {"OK", "EINVAL", "ENOSPC", "EBUSY", "EIO"} \subseteq Errno
BY DEF Errno

\* An image is made of a table and a table_seq.
LEMMA ImageFacts ==
    ASSUME NEW table \in Table, NEW s \in Nat
    PROVE  /\ Image(table, s) \in Images
           /\ Image(table, s).records = table /\ Image(table, s).seq = s
BY DEF Image, Images

\* The image of a fresh table has the right type.
LEMMA NoImageFacts ==
    /\ NoImage \in Images /\ NoImage.seq = 1 /\ SealedTable(NoImage.records)
    /\ NoImage.records = BlankTable /\ 1 \in 1..(SeqMod - 1)
BY BlankFacts, ImageFacts, TableAssumption DEF NoImage

\* What a good flash entry restores.
LEMMA GoodFacts ==
    ASSUME NEW image \in Images, image.seq \in 1..(SeqMod - 1)
    PROVE  /\ Good(image).kind = "good" /\ Good(image).image = image
           /\ Restored(Good(image)) = image
<1>1. image = Image(image.records, image.seq)
  BY DEF Image, Images
<1>2. image.seq # 0
  BY TableAssumption
<1> QED
  BY <1>1, <1>2 DEF Good, Restored

\* A boot ends with a sealed table and a table_seq in range.
LEMMA RestoredFacts ==
    ASSUME IInv
    PROVE  /\ Restored(flash) \in Images
           /\ Restored(flash).seq \in 1..(SeqMod - 1)
           /\ SealedTable(Restored(flash).records)
           /\ Restored(flash) = Image(Restored(flash).records, Restored(flash).seq)
<1>1. CASE flash.kind = "good"
  <2>1. flash.image.seq # 0 /\ flash.image.seq \in Nat
    BY TableAssumption DEF IInv
  <2>2. flash.image.records \in Table
    BY DEF IInv, TypeOK, Images
  <2>3. Restored(flash) = Image(flash.image.records, flash.image.seq)
    BY <1>1, <2>1 DEF Restored
  <2> QED BY <2>1, <2>2, <2>3, ImageFacts DEF IInv
<1>2. CASE flash.kind # "good"
  <2>1. Restored(flash) = NoImage
    BY <1>2 DEF Restored
  <2> QED BY <2>1, NoImageFacts DEF NoImage
<1> QED
  BY <1>1, <1>2

\* The switched-off device satisfies the invariant.
LEMMA IInit == Init => IInv
<1> SUFFICES ASSUME Init PROVE IInv
  OBVIOUS
<1>1. TypeOK
  BY BlankFacts, NoImageFacts, PhaseFacts, ErrnoFacts DEF Init, TypeOK, Absent
<1>2. SlotsSealed /\ SealedTable(flash.image.records)
  BY BlankFacts, NoImageFacts DEF Init, SlotsSealed, SealedTable, Absent
<1>3. flash.image.seq \in 1..(SeqMod - 1) /\ next.seq \in 1..(SeqMod - 1)
  BY NoImageFacts DEF Init, Absent
<1>4. phase = "off" /\ ~unread
  BY DEF Init
<1> QED
  BY <1>1, <1>2, <1>3, <1>4 DEF IInv, RebootKeepsTable

\* commit_table accepts any well-formed, sealed table.
LEMMA ProposeStep ==
    ASSUME IInv, phase = "idle", NEW table \in Table, SealedTable(table),
           NEW what, Propose(table, what)
    PROVE  IInv'
<1>1. /\ next'.records = table /\ next'.seq = NextSeq(seq) /\ next' \in Images
      /\ NextSeq(seq) \in 1..(SeqMod - 1)
  <2>1. NextSeq(seq) \in 1..(SeqMod - 1) /\ NextSeq(seq) \in Nat
    BY NextSeqFacts DEF IInv, TypeOK
  <2> QED BY <2>1, ImageFacts DEF Propose
<1>2. phase' = "saving" /\ UNCHANGED <<records, seq, flash, unread>> /\ result' = "OK"
  BY DEF Propose
<1>3. TypeOK'
  BY <1>1, <1>2, PhaseFacts, ErrnoFacts DEF IInv, TypeOK
<1>4. SlotsSealed'
  BY <1>1, <1>2 DEF IInv, SlotsSealed, SealedTable
<1>5. RebootKeepsTable'
  BY <1>2 DEF IInv, RebootKeepsTable
<1>6. SealedTable(flash.image.records)' /\ (flash.image.seq \in 1..(SeqMod - 1))'
  BY <1>2 DEF IInv
<1> QED
  BY <1>1, <1>2, <1>3, <1>4, <1>5, <1>6 DEF IInv

\* An operation that returns at once changes nothing but its result.
LEMMA ReturnStep ==
    ASSUME IInv, NEW errno \in Errno, Return(errno) PROVE IInv'
BY DEF IInv, Return, TypeOK, SlotsSealed, RebootKeepsTable

\* A frame is a record, whatever its check byte was computed over.
LEMMA FrameFacts == Frame \subseteq Record
<1> SUFFICES ASSUME NEW record \in Frame PROVE record \in Record
  OBVIOUS
<1>1. CASE record \in { [slot |-> s, part |-> p, qty |-> q, crc8 |-> Crc8(s, p, q)] :
                           s \in AnySlot, p \in Part, q \in Qty }
  BY <1>1 DEF Record, Crc8, PartOrNone
<1>2. CASE record \in { [slot |-> s, part |-> p, qty |-> 0,
                          crc8 |-> Crc8((s + 1) % (N + 2), p, 0)] :
                           s \in AnySlot, p \in Part }
  <2>1. \A s \in AnySlot : (s + 1) % (N + 2) \in AnySlot
    BY TableAssumption DEF AnySlot
  <2> QED BY <1>2, <2>1, TableAssumption DEF Record, Crc8, PartOrNone
<1> QED
  BY <1>1, <1>2 DEF Frame

\* The table in RAM is a sealed table.
LEMMA TablesOfState ==
    ASSUME IInv PROVE records \in Table /\ SealedTable(records)
BY DEF IInv, TypeOK, SlotsSealed, SealedTable

\* Every operation keeps the invariant.
LEMMA OperationStep == IInv /\ Operation => IInv'
<1> SUFFICES ASSUME IInv, Operation PROVE IInv'
  OBVIOUS
<1> USE TablesOfState, ErrnoFacts
<1>1. ASSUME NEW record \in Frame, WriteOne(record) PROVE IInv'
  <2>1. record \in Record /\ phase = "idle"
    BY <1>1, FrameFacts DEF WriteOne
  <2>2. CASE Return("EINVAL")
    BY <2>2, ReturnStep
  <2>3. ASSUME NEW what, ValidSlot(record.slot), Propose(WithWritten(records, record), what)
        PROVE  IInv'
    BY <2>1, <2>3, WrittenFacts, ProposeStep
  <2> QED BY <1>1, <2>2, <2>3 DEF WriteOne
<1>2. ASSUME NEW slot \in AnySlot, ClearOne(slot) PROVE IInv'
  <2>1. phase = "idle"
    BY <1>2 DEF ClearOne
  <2>2. CASE Return("EINVAL")
    BY <2>2, ReturnStep
  <2>3. ASSUME NEW what, ValidSlot(slot), Propose(WithCleared(records, slot), what)
        PROVE  IInv'
    BY <2>1, <2>3, ClearedFacts, ProposeStep DEF ValidSlot
  <2> QED BY <1>2, <2>2, <2>3 DEF ClearOne
<1>3. ASSUME NEW slot \in AnySlot, RemoveAt(slot) PROVE IInv'
  <2>1. phase = "idle"
    BY <1>3 DEF RemoveAt
  <2>2. CASE Return("EINVAL")
    BY <2>2, ReturnStep
  <2>3. ASSUME NEW what, ValidSlot(slot), Propose(WithRemoved(records, slot), what)
        PROVE  IInv'
    BY <2>1, <2>3, RemovedFacts, ProposeStep DEF ValidSlot
  <2> QED BY <1>3, <2>2, <2>3 DEF RemoveAt
<1>4. ASSUME NEW slot \in AnySlot, NEW record \in Frame, InsertAt(slot, record) PROVE IInv'
  <2>1. record \in Record /\ phase = "idle"
    BY <1>4, FrameFacts DEF InsertAt
  <2>2. ASSUME NEW errno \in Errno, Return(errno) PROVE IInv'
    BY <2>2, ReturnStep
  <2>3. ASSUME NEW gap \in slot..N, NEW what, ValidSlot(slot),
               Propose(WithInserted(records, slot, gap, record), what)
        PROVE  IInv'
    BY <2>1, <2>3, InsertedFacts, ProposeStep DEF ValidSlot
  <2> QED BY <1>4, <2>2, <2>3 DEF InsertAt
<1>5. ASSUME NEW slot \in AnySlot, NEW qty \in Qty, SetQty(slot, qty) PROVE IInv'
  <2>1. phase = "idle"
    BY <1>5 DEF SetQty
  <2>2. CASE Return("EINVAL")
    BY <2>2, ReturnStep
  <2>3. ASSUME NEW what, ValidSlot(slot), Propose(WithQty(records, slot, qty), what)
        PROVE  IInv'
    BY <2>1, <2>3, QtyFacts, ProposeStep DEF ValidSlot
  <2> QED BY <1>5, <2>2, <2>3 DEF SetQty
<1>6. ASSUME NEW from \in AnySlot, NEW to \in AnySlot, NEW len \in AnySlot,
             MoveBlock(from, to, len)
      PROVE  IInv'
  <2>1. phase = "idle"
    BY <1>6 DEF MoveBlock
  <2>2. ASSUME NEW errno \in Errno, Return(errno) PROVE IInv'
    BY <2>2, ReturnStep
  <2>3. ASSUME NEW what, MoveValid(from, to, len), Propose(WithMoved(records, from, to, len), what)
        PROVE  IInv'
    BY <2>1, <2>3, MoveFacts, ProposeStep
  <2> QED BY <1>6, <2>2, <2>3 DEF MoveBlock, MoveValid, ValidSlot
<1>7. ASSUME NEW magicOk \in BOOLEAN, FactoryReset(magicOk) PROVE IInv'
  <2>1. phase = "idle"
    BY <1>7 DEF FactoryReset
  <2>2. CASE Return("EINVAL")
    BY <2>2, ReturnStep
  <2>3. ASSUME NEW what, Propose(BlankTable, what) PROVE IInv'
    BY <2>1, <2>3, BlankFacts, ProposeStep
  <2> QED BY <1>7, <2>2, <2>3 DEF FactoryReset
<1> QED
  BY <1>1, <1>2, <1>3, <1>4, <1>5, <1>6, <1>7 DEF Operation

\* Every step keeps the invariant.
LEMMA IStep == IInv /\ [Next]_vars => IInv'
<1> SUFFICES ASSUME IInv, [Next]_vars PROVE IInv'
  OBVIOUS
<1>1. CASE BindingTableInit
  <2>1. TypeOK'
    BY <1>1, BlankFacts, NoImageFacts, PhaseFacts DEF BindingTableInit, IInv, TypeOK
  <2>2. SlotsSealed'
    BY <1>1, BlankFacts DEF BindingTableInit, IInv, SlotsSealed, SealedTable
  <2> QED BY <1>1, <2>1, <2>2 DEF BindingTableInit, IInv, RebootKeepsTable
<1>2. CASE SettingsSet
  <2>1. TypeOK'
    BY <1>2, RestoredFacts, PhaseFacts DEF SettingsSet, IInv, TypeOK, Images
  <2>2. SlotsSealed'
    BY <1>2, RestoredFacts DEF SettingsSet, IInv, SlotsSealed, SealedTable
  <2>3. ~unread'
    BY <1>2 DEF SettingsSet, IInv
  <2>4. RebootKeepsTable'
    BY <1>2, <2>3, RestoredFacts DEF SettingsSet, RebootKeepsTable
  <2> QED BY <1>2, <2>1, <2>2, <2>3, <2>4 DEF SettingsSet, IInv
<1>r. CASE ReadFailed
  <2>1. phase' = "idle" /\ unread' = TRUE /\ UNCHANGED <<records, seq, flash, next, result>>
    BY <1>r DEF ReadFailed
  <2>2. TypeOK' /\ SlotsSealed'
    BY <2>1, PhaseFacts DEF IInv, TypeOK, SlotsSealed
  <2>3. Image(records, seq)' = NoImage
    BY <1>r, <2>1 DEF ReadFailed, IInv, NoImage
  <2>4. RebootKeepsTable'
    BY <2>1, <2>3 DEF RebootKeepsTable
  <2> QED BY <2>1, <2>2, <2>4 DEF IInv
<1>3. CASE Operation
  BY <1>3, OperationStep
<1>4. CASE SaveDone
  <2>1. next \in Images /\ next.seq \in 1..(SeqMod - 1) /\ SealedTable(next.records)
    BY DEF IInv, TypeOK, SlotsSealed, SealedTable
  <2>2. flash'.kind = "good" /\ flash'.image = next /\ Restored(flash)' = next
    BY <1>4, <2>1, GoodFacts DEF SaveDone, Restored
  <2>3. TypeOK' /\ SlotsSealed'
    BY <1>4, <2>1, <2>2, PhaseFacts DEF SaveDone, IInv, TypeOK, SlotsSealed
  <2>4. RebootKeepsTable'
    BY <1>4, <2>2 DEF SaveDone, RebootKeepsTable
  <2> QED BY <1>4, <2>1, <2>2, <2>3, <2>4 DEF SaveDone, IInv
<1>5. CASE SaveFailed
  <2>1. TypeOK' /\ SlotsSealed'
    BY <1>5, NoImageFacts, PhaseFacts, ErrnoFacts
    DEF SaveFailed, IInv, TypeOK, SlotsSealed, SealedTable
  <2>2. RebootKeepsTable'
    BY <1>5 DEF SaveFailed, IInv, RebootKeepsTable
  <2> QED BY <1>5, <2>1, <2>2, NoImageFacts DEF SaveFailed, IInv
<1>6. CASE CommitRam
  <2>1. next = Image(next.records, next.seq)
    BY DEF IInv, TypeOK, Images, Image
  <2>2. TypeOK' /\ SlotsSealed'
    BY <1>6, NoImageFacts, PhaseFacts, ErrnoFacts
    DEF CommitRam, IInv, TypeOK, Images, SlotsSealed, SealedTable
  <2>3. RebootKeepsTable'
    BY <1>6, <2>1 DEF CommitRam, IInv, RebootKeepsTable
  <2> QED BY <1>6, <2>2, <2>3, NoImageFacts DEF CommitRam, IInv
<1>7. CASE Crash
  <2>1. TypeOK' /\ SlotsSealed'
    BY <1>7, BlankFacts, NoImageFacts, PhaseFacts
    DEF Crash, IInv, TypeOK, SlotsSealed, SealedTable
  <2> QED BY <1>7, <2>1, NoImageFacts DEF Crash, IInv, RebootKeepsTable
<1>8. CASE FlashDamage
  <2>1. flash'.kind = "damaged" /\ flash'.image = NoImage
    BY <1>8 DEF FlashDamage, Damaged
  <2>2. TypeOK' /\ SlotsSealed'
    BY <1>8, <2>1, NoImageFacts DEF FlashDamage, IInv, TypeOK, SlotsSealed
  <2> QED BY <1>8, <2>1, <2>2, NoImageFacts DEF FlashDamage, IInv, RebootKeepsTable
<1>9. CASE UNCHANGED vars
  BY <1>9 DEF vars, IInv, TypeOK, SlotsSealed, RebootKeepsTable
<1> QED
  BY <1>1, <1>2, <1>r, <1>3, <1>4, <1>5, <1>6, <1>7, <1>8, <1>9 DEF Next, Boot, Commit

\* The invariant holds in every reachable state.
LEMMA Invariance == Spec => []IInv
BY IInit, IStep, PTL DEF Spec

\* The RAM table, the flash image and the table being committed are always
\* tables of records; table_seq stays in 1..SeqMod-1 and never becomes 0.
THEOREM TypeCorrect == Spec => []TypeOK
<1>1. IInv => TypeOK
  BY DEF IInv
<1> QED
  BY <1>1, Invariance, PTL

\* No sequence of writes, shifts, moves, failed saves, crashes and reboots leaves
\* a record that names another slot or has a check byte that does not fit.
THEOREM RecordsSealed == Spec => []SlotsSealed
<1>1. IInv => SlotsSealed
  BY DEF IInv
<1> QED
  BY <1>1, Invariance, PTL

\* What a reboot restores is what clients were shown, wherever the crash falls; a
\* boot that could not read the entry shows a blank table until something is saved.
THEOREM RebootSafe == Spec => []RebootKeepsTable
<1>1. IInv => RebootKeepsTable
  BY DEF IInv
<1> QED
  BY <1>1, Invariance, PTL

-----------------------------------------------------------------------------
(* table_seq tells a client that the table changed.                        *)

\* The table clients will find changes with the next table_seq, or starts over,
\* or comes back with the end of a boot that could not read it.
LEMMA EffectiveStep ==
    ASSUME IInv, [Next]_vars
    PROVE  [Effective' # Effective =>
                \/ Effective'.seq = NextSeq(Effective.seq)
                \/ Effective' = NoImage /\ (flash'.kind = "damaged" \/ unread')
                \/ unread /\ phase' = "off"]_vars
<1> USE DEF Effective
<1>1. CASE BindingTableInit
  BY <1>1 DEF BindingTableInit, Restored
<1>2. CASE SettingsSet
  <2>1. Effective = Restored(flash) /\ Effective' = Image(Restored(flash).records, Restored(flash).seq)
    BY <1>2 DEF SettingsSet
  <2> QED BY <2>1, RestoredFacts
<1>r. CASE ReadFailed
  <2>1. phase' = "idle" /\ unread' = TRUE /\ records' = BlankTable /\ seq' = 1
    BY <1>r DEF ReadFailed, IInv
  <2>2. Effective' = NoImage
    BY <2>1 DEF NoImage
  <2> QED BY <2>1, <2>2
<1>3. ASSUME phase = "idle", phase' \in {"idle", "saving"}, UNCHANGED <<records, seq>>
      PROVE  Effective' = Effective
  BY <1>3
<1>4. CASE Operation
  BY <1>3, <1>4 DEF Operation, WriteOne, ClearOne, RemoveAt, InsertAt, SetQty, MoveBlock,
                    FactoryReset, Propose, Return
<1>5. CASE SaveDone
  BY <1>5 DEF SaveDone
<1>6. CASE SaveFailed
  BY <1>6 DEF SaveFailed
<1>7. CASE CommitRam
  <2>1. Effective'.seq = next.seq /\ Effective.seq = seq
    BY <1>7 DEF CommitRam, Image
  <2>2. next.seq = NextSeq(seq)
    BY <1>7 DEF CommitRam, IInv
  <2> QED BY <2>1, <2>2
<1>8. CASE Crash
  <2>1. Effective' = Restored(flash) /\ phase' = "off"
    BY <1>8 DEF Crash, Restored
  <2>2. CASE phase \in {"off", "booting"} \/ unread
    BY <2>1, <2>2
  <2>3. CASE phase \in {"idle", "saving"} /\ ~unread
    BY <2>1, <2>3 DEF IInv, RebootKeepsTable
  <2>4. CASE phase = "saved"
    <3>1. Effective' = next /\ next.seq = NextSeq(seq) /\ Effective.seq = seq
      BY <2>1, <2>4 DEF IInv, RebootKeepsTable, Image
    <3> QED BY <3>1
  <2> QED BY <2>2, <2>3, <2>4 DEF IInv, TypeOK, Phase
<1>9. CASE FlashDamage
  <2>1. phase = "off" /\ phase' = "off" /\ flash' = Damaged
    BY <1>9 DEF FlashDamage
  <2> QED BY <2>1 DEF Damaged, Restored
<1>10. CASE UNCHANGED vars
  BY <1>10
<1> QED
  BY <1>1, <1>2, <1>r, <1>4, <1>5, <1>6, <1>7, <1>8, <1>9, <1>10 DEF Next, Boot, Commit

\* A client that remembers table_seq misses no change of the table, crashes
\* between the flash write and its answer included, unless the table started over
\* (damage, or a boot that could not read it) or came back after such a boot.
THEOREM SeqReveals == Spec => SeqTellsChange
BY Invariance, EffectiveStep, PTL DEF Spec, SeqTellsChange

-----------------------------------------------------------------------------
(* MOVE_BLOCK.                                                             *)

\* While a move is being saved, the saved table is WithMoved of valid arguments.
MoveInv ==
    phase = "saving" /\ job.op = "move" =>
        /\ MoveValid(job.from, job.to, job.len)
        /\ next.records = WithMoved(records, job.from, job.to, job.len)

\* The switched-off device runs no move.
LEMMA MoveInvInit == Init => MoveInv
BY DEF Init, MoveInv

\* A running move has proposed the rotation of the table still in RAM.
LEMMA MoveInvStep == MoveInv /\ [Next]_vars => MoveInv'
<1> SUFFICES ASSUME MoveInv, [Next]_vars PROVE MoveInv'
  OBVIOUS
<1>1. ASSUME NEW table, NEW what, Propose(table, what), what.op # "move" PROVE MoveInv'
  BY <1>1 DEF Propose, MoveInv
<1>2. ASSUME NEW errno, Return(errno) PROVE MoveInv'
  BY <1>2 DEF Return, MoveInv
<1>3. CASE Operation
  <2>1. ASSUME NEW record \in Frame, WriteOne(record) PROVE MoveInv'
    BY <1>1, <1>2, <2>1 DEF WriteOne
  <2>2. ASSUME NEW slot \in AnySlot, ClearOne(slot) PROVE MoveInv'
    BY <1>1, <1>2, <2>2 DEF ClearOne
  <2>3. ASSUME NEW slot \in AnySlot, RemoveAt(slot) PROVE MoveInv'
    BY <1>1, <1>2, <2>3 DEF RemoveAt
  <2>4. ASSUME NEW slot \in AnySlot, NEW record \in Frame, InsertAt(slot, record) PROVE MoveInv'
    <3>1. ASSUME NEW gap \in slot..N,
                 Propose(WithInserted(records, slot, gap, record),
                         [op |-> "insert", slot |-> slot, gap |-> gap,
                          record |-> NormalizeSlot(record, slot)])
          PROVE  MoveInv'
      BY <1>1, <3>1
    <3> QED BY <1>2, <2>4, <3>1 DEF InsertAt
  <2>5. ASSUME NEW slot \in AnySlot, NEW qty \in Qty, SetQty(slot, qty) PROVE MoveInv'
    BY <1>1, <1>2, <2>5 DEF SetQty
  <2>6. ASSUME NEW from \in AnySlot, NEW to \in AnySlot, NEW len \in AnySlot,
               MoveBlock(from, to, len)
        PROVE  MoveInv'
    <3>1. CASE MoveValid(from, to, len)
               /\ Propose(WithMoved(records, from, to, len),
                          [op |-> "move", from |-> from, to |-> to, len |-> len])
      <4>1. next'.records = WithMoved(records, from, to, len) /\ records' = records
        BY <3>1 DEF Propose, Image
      <4>2. job'.from = from /\ job'.to = to /\ job'.len = len
        BY <3>1 DEF Propose
      <4> QED BY <3>1, <4>1, <4>2 DEF MoveInv
    <3> QED BY <1>2, <2>6, <3>1 DEF MoveBlock, MoveValid, ValidSlot
  <2>7. ASSUME NEW magicOk \in BOOLEAN, FactoryReset(magicOk) PROVE MoveInv'
    BY <1>1, <1>2, <2>7 DEF FactoryReset
  <2> QED BY <1>3, <2>1, <2>2, <2>3, <2>4, <2>5, <2>6, <2>7 DEF Operation
<1>4. CASE Boot \/ Commit \/ Crash \/ FlashDamage
  BY <1>4 DEF Boot, BindingTableInit, SettingsSet, ReadFailed, Commit, SaveDone, SaveFailed, CommitRam,
              Crash, FlashDamage, MoveInv
<1>5. CASE UNCHANGED vars
  BY <1>5 DEF vars, MoveInv
<1> QED
  BY <1>3, <1>4, <1>5 DEF Next

\* MoveInv holds in every reachable state.
LEMMA MoveInvariance == Spec => []MoveInv
BY MoveInvInit, MoveInvStep, PTL DEF Spec

\* The two memcpy calls of move_block permute the slots as a rotation, for every
\* table size, block and destination.
THEOREM MoveRotates == Spec => []MoveIsRotation
<1>1. IInv /\ MoveInv => MoveIsRotation
  <2> SUFFICES ASSUME IInv, MoveInv, phase = "saving", job.op = "move", NEW i \in Slot
               PROVE  Payload(next.records[i]) =
                          Payload(records[MoveSource(job.from, job.to, job.len, i)])
    BY DEF MoveIsRotation, MoveSource
  <2>1. MoveValid(job.from, job.to, job.len)
        /\ next.records = WithMoved(records, job.from, job.to, job.len)
    BY DEF MoveInv
  <2> QED BY <2>1, TablesOfState, MoveFacts
<1> QED
  BY <1>1, Invariance, MoveInvariance, PTL

-----------------------------------------------------------------------------
(* INSERT_AT and REMOVE_AT.                                                *)

\* Renumbering changes neither what a record says nor whether it is bound.
LEMMA RenumberKeeps ==
    ASSUME NEW record \in Record, NEW slot \in Slot
    PROVE  /\ Payload(Renumber(record, slot)) = Payload(record)
           /\ Renumber(record, slot).slot # 0 <=> record.slot # 0
<1>1. slot # 0
  BY SlotFacts
<1> QED
  BY <1>1, NormalizeFacts DEF Renumber, NormalizeSlot, Record

\* insert_at: the new record at its slot; the run of records up to the gap is one
\* slot higher, every other record where it was.
LEMMA InsertKeepsRecords ==
    ASSUME NEW table \in Table, NEW slot \in Slot, NEW gap, IsFirstGap(table, slot, gap),
           NEW record \in Record
    PROVE  LET new == WithInserted(table, slot, gap, record)
           IN  /\ slot \in BoundSlots(new) /\ Payload(new[slot]) = Payload(record)
               /\ SameRecords(table, BoundSlots(table), new, BoundSlots(new) \ {slot}, slot)
<1> DEFINE new == WithInserted(table, slot, gap, record)
           from == BoundSlots(table)
           to == BoundSlots(new) \ {slot}
           arrival(i) == IF slot <= i /\ i < gap THEN i + 1 ELSE i
           f == [i \in from |-> arrival(i)]
<1> USE SlotFacts
<1>1. gap \in slot..N /\ table[gap].slot = 0 /\ \A i \in slot..(gap - 1) : table[i].slot # 0
  BY DEF IsFirstGap
<1>2. \A i \in Slot : table[i] \in Record
  BY DEF Table
<1>3. new[slot].slot # 0 /\ Payload(new[slot]) = Payload(record)
  BY NormalizeFacts DEF WithInserted, NormalizeSlot, Record
<1>4. ASSUME NEW i \in Slot, i # slot
      PROVE  new[i] = IF slot < i /\ i <= gap THEN Renumber(table[i - 1], i) ELSE table[i]
  BY <1>1, <1>4 DEF WithInserted, Slot
<1> HIDE DEF new
<1>5. ASSUME NEW i \in from
      PROVE  /\ i \in Slot /\ i # gap /\ arrival(i) \in Slot /\ arrival(i) # slot
             /\ new[arrival(i)].slot # 0
             /\ Payload(new[arrival(i)]) = Payload(table[i])
  <2>1. i \in Slot /\ table[i].slot # 0 /\ i # gap
    BY <1>1 DEF BoundSlots
  <2>2. CASE slot <= i /\ i < gap
    <3>1. i + 1 \in Slot /\ i + 1 # slot /\ slot < i + 1 /\ i + 1 <= gap /\ i + 1 - 1 = i
      BY <1>1, <2>1, <2>2
    <3>2. new[i + 1] = Renumber(table[i + 1 - 1], i + 1)
      BY <1>4, <2>1, <3>1
    <3>3. new[i + 1] = Renumber(table[i], i + 1)
      BY <2>1, <3>1, <3>2
    <3> QED BY <1>2, <2>1, <2>2, <3>1, <3>3, RenumberKeeps
  <2>3. CASE ~(slot <= i /\ i < gap)
    <3>1. i # slot /\ ~(slot < i /\ i <= gap)
      BY <1>1, <2>1, <2>3
    <3>2. new[i] = table[i]
      BY <1>4, <2>1, <3>1
    <3> QED BY <2>1, <2>3, <3>1, <3>2
  <2> QED BY <2>2, <2>3
<1>6. ASSUME NEW j \in to PROVE \E i \in from : arrival(i) = j
  <2>1. j \in Slot /\ j # slot /\ new[j].slot # 0
    BY DEF BoundSlots
  <2>2. CASE slot < j /\ j <= gap
    <3>1. j - 1 \in Slot /\ slot <= j - 1 /\ j - 1 < gap /\ j - 1 + 1 = j /\ j - 1 \in slot..(gap - 1)
      BY <1>1, <2>1, <2>2
    <3>2. j - 1 \in from
      BY <1>1, <3>1 DEF BoundSlots
    <3> QED BY <3>1, <3>2
  <2>3. CASE ~(slot < j /\ j <= gap)
    <3>1. j \in from
      BY <1>4, <2>1, <2>3 DEF BoundSlots
    <3>2. ~(slot <= j /\ j < gap)
      BY <1>1, <2>1, <2>3
    <3> QED BY <3>1, <3>2
  <2> QED BY <2>2, <2>3
<1>7. f \in [from -> to]
  BY <1>5 DEF BoundSlots
<1>8. to \subseteq {f[i] : i \in from}
  BY <1>6
<1>9. \A i, j \in from : i < j => f[i] < f[j]
  <2> SUFFICES ASSUME NEW i \in from, NEW j \in from, i < j PROVE arrival(i) < arrival(j)
    OBVIOUS
  <2> QED BY <1>1, <1>5
<1>10. \A i \in from : Payload(new[f[i]]) = Payload(table[i]) /\ (f[i] < slot <=> i < slot)
  <2> SUFFICES ASSUME NEW i \in from
               PROVE  /\ Payload(new[arrival(i)]) = Payload(table[i])
                      /\ arrival(i) < slot <=> i < slot
    OBVIOUS
  <2> QED BY <1>1, <1>5
<1> HIDE DEF f, from, to
<1>11. SameRecords(table, from, new, to, slot)
  BY <1>7, <1>8, <1>9, <1>10 DEF SameRecords
<1> QED
  BY <1>3, <1>11 DEF BoundSlots, new, from, to

\* remove_at: everything behind the slot one slot lower, the last slot blank.
LEMMA RemoveKeepsRecords ==
    ASSUME NEW table \in Table, NEW slot \in Slot
    PROVE  LET new == WithRemoved(table, slot)
           IN  SameRecords(table, BoundSlots(table) \ {slot}, new, BoundSlots(new), slot)
<1> DEFINE new == WithRemoved(table, slot)
           from == BoundSlots(table) \ {slot}
           to == BoundSlots(new)
           arrival(i) == IF i < slot THEN i ELSE i - 1
           f == [i \in from |-> arrival(i)]
<1> USE SlotFacts
<1>2. \A i \in Slot : table[i] \in Record
  BY DEF Table
<1>4. ASSUME NEW i \in Slot
      PROVE  new[i] = IF i < slot THEN table[i]
                      ELSE IF i < N THEN Renumber(table[i + 1], i) ELSE Blank
  BY DEF WithRemoved
<1> HIDE DEF new
<1>5. ASSUME NEW i \in from
      PROVE  /\ i \in Slot /\ i # slot /\ arrival(i) \in Slot
             /\ new[arrival(i)].slot # 0
             /\ Payload(new[arrival(i)]) = Payload(table[i])
  <2>1. i \in Slot /\ table[i].slot # 0 /\ i # slot
    BY DEF BoundSlots
  <2>2. CASE i < slot
    BY <1>4, <2>1, <2>2
  <2>3. CASE ~(i < slot)
    <3>1. i - 1 \in Slot /\ ~(i - 1 < slot) /\ i - 1 < N /\ i - 1 + 1 = i
      BY <2>1, <2>3
    <3>2. new[i - 1] = Renumber(table[i - 1 + 1], i - 1)
      BY <1>4, <3>1
    <3>3. new[i - 1] = Renumber(table[i], i - 1)
      BY <2>1, <3>1, <3>2
    <3> QED BY <1>2, <2>1, <2>3, <3>1, <3>3, RenumberKeeps
  <2> QED BY <2>2, <2>3
<1>6. ASSUME NEW j \in to PROVE \E i \in from : arrival(i) = j
  <2>1. j \in Slot /\ new[j].slot # 0
    BY DEF BoundSlots
  <2>2. CASE j < slot
    <3>1. j \in from
      BY <1>4, <2>1, <2>2 DEF BoundSlots
    <3> QED BY <2>2, <3>1
  <2>3. CASE ~(j < slot)
    <3>1. j < N
      BY <1>4, <2>1, <2>3 DEF Blank
    <3>2. j + 1 \in Slot /\ j + 1 # slot /\ ~(j + 1 < slot) /\ j + 1 - 1 = j
      BY <2>1, <2>3, <3>1
    <3>3. new[j] = Renumber(table[j + 1], j)
      BY <1>4, <2>1, <2>3, <3>1
    <3>4. j + 1 \in from
      BY <1>2, <2>1, <3>2, <3>3, RenumberKeeps DEF BoundSlots
    <3>5. arrival(j + 1) = j
      BY <2>1, <3>2
    <3> QED BY <3>4, <3>5
  <2> QED BY <2>2, <2>3
<1>7. f \in [from -> to]
  BY <1>5 DEF BoundSlots
<1>8. to \subseteq {f[i] : i \in from}
  BY <1>6
<1>9. \A i, j \in from : i < j => f[i] < f[j]
  <2> SUFFICES ASSUME NEW i \in from, NEW j \in from, i < j PROVE arrival(i) < arrival(j)
    OBVIOUS
  <2> QED BY <1>5
<1>10. \A i \in from : Payload(new[f[i]]) = Payload(table[i]) /\ (f[i] < slot <=> i < slot)
  <2> SUFFICES ASSUME NEW i \in from
               PROVE  /\ Payload(new[arrival(i)]) = Payload(table[i])
                      /\ arrival(i) < slot <=> i < slot
    OBVIOUS
  <2> QED BY <1>5
<1> HIDE DEF f, from, to
<1>11. SameRecords(table, from, new, to, slot)
  BY <1>7, <1>8, <1>9, <1>10 DEF SameRecords
<1> QED
  BY <1>11 DEF new, from, to

\* While an insertion or a removal is being saved, the saved table is the shifted
\* one of valid arguments, and the table in RAM the one that was shifted.
ShiftInv ==
    phase = "saving" =>
        /\ job.op = "insert" =>
              /\ job.slot \in Slot /\ job.record \in Record
              /\ IsFirstGap(records, job.slot, job.gap)
              /\ next.records = WithInserted(records, job.slot, job.gap, job.record)
        /\ job.op = "remove" =>
              job.slot \in Slot /\ next.records = WithRemoved(records, job.slot)

\* The switched-off device runs no shift.
LEMMA ShiftInvInit == Init => ShiftInv
BY DEF Init, ShiftInv

\* A running shift has proposed the shifted table of the table still in RAM.
LEMMA ShiftInvStep == ShiftInv /\ [Next]_vars => ShiftInv'
<1> SUFFICES ASSUME ShiftInv, [Next]_vars PROVE ShiftInv'
  OBVIOUS
<1>1. ASSUME NEW table, NEW what, Propose(table, what), what.op \notin {"insert", "remove"}
      PROVE  ShiftInv'
  BY <1>1 DEF Propose, ShiftInv
<1>2. ASSUME NEW errno, Return(errno) PROVE ShiftInv'
  BY <1>2 DEF Return, ShiftInv
<1>3. CASE Operation
  <2>1. ASSUME NEW record \in Frame, WriteOne(record) PROVE ShiftInv'
    BY <1>1, <1>2, <2>1 DEF WriteOne
  <2>2. ASSUME NEW slot \in AnySlot, ClearOne(slot) PROVE ShiftInv'
    BY <1>1, <1>2, <2>2 DEF ClearOne
  <2>3. ASSUME NEW slot \in AnySlot, RemoveAt(slot) PROVE ShiftInv'
    <3>1. CASE slot \in Slot
               /\ Propose(WithRemoved(records, slot), [op |-> "remove", slot |-> slot])
      <4>1. next'.records = WithRemoved(records, slot) /\ records' = records
        BY <3>1 DEF Propose, Image
      <4>2. job'.op = "remove" /\ job'.slot = slot
        BY <3>1 DEF Propose
      <4> QED BY <3>1, <4>1, <4>2 DEF ShiftInv
    <3> QED BY <1>2, <2>3, <3>1 DEF RemoveAt, ValidSlot
  <2>4. ASSUME NEW slot \in AnySlot, NEW record \in Frame, InsertAt(slot, record)
        PROVE  ShiftInv'
    <3>1. ASSUME NEW gap, slot \in Slot, IsFirstGap(records, slot, gap),
                 Propose(WithInserted(records, slot, gap, record),
                         [op |-> "insert", slot |-> slot, gap |-> gap,
                          record |-> NormalizeSlot(record, slot)])
          PROVE  ShiftInv'
      <4> DEFINE placed == NormalizeSlot(record, slot)
      <4>1. next'.records = WithInserted(records, slot, gap, record) /\ records' = records
        BY <3>1 DEF Propose, Image
      <4>2. job'.op = "insert" /\ job'.slot = slot /\ job'.gap = gap /\ job'.record = placed
        BY <3>1 DEF Propose
      <4>3. IsFirstGap(records, slot, gap)'
        BY <3>1, <4>1 DEF IsFirstGap
      <4>4. placed \in Record /\ NormalizeSlot(placed, slot) = placed
        BY <3>1, FrameFacts, NormalizeFacts, NormalizeTwice
      <4>5. WithInserted(records, slot, gap, record) = WithInserted(records, slot, gap, placed)
        BY <4>4 DEF WithInserted
      <4> HIDE DEF placed
      <4> QED BY <3>1, <4>1, <4>2, <4>3, <4>4, <4>5 DEF ShiftInv
    <3> QED BY <1>2, <2>4, <3>1 DEF InsertAt, ValidSlot
  <2>5. ASSUME NEW slot \in AnySlot, NEW qty \in Qty, SetQty(slot, qty) PROVE ShiftInv'
    BY <1>1, <1>2, <2>5 DEF SetQty
  <2>6. ASSUME NEW from \in AnySlot, NEW to \in AnySlot, NEW len \in AnySlot,
               MoveBlock(from, to, len)
        PROVE  ShiftInv'
    <3>1. ASSUME Propose(WithMoved(records, from, to, len),
                         [op |-> "move", from |-> from, to |-> to, len |-> len])
          PROVE  ShiftInv'
      BY <1>1, <3>1
    <3> QED BY <1>2, <2>6, <3>1 DEF MoveBlock
  <2>7. ASSUME NEW magicOk \in BOOLEAN, FactoryReset(magicOk) PROVE ShiftInv'
    BY <1>1, <1>2, <2>7 DEF FactoryReset
  <2> QED BY <1>3, <2>1, <2>2, <2>3, <2>4, <2>5, <2>6, <2>7 DEF Operation
<1>4. CASE Boot \/ Commit \/ Crash \/ FlashDamage
  BY <1>4 DEF Boot, BindingTableInit, SettingsSet, ReadFailed, Commit, SaveDone, SaveFailed, CommitRam,
              Crash, FlashDamage, ShiftInv
<1>5. CASE UNCHANGED vars
  BY <1>5 DEF vars, ShiftInv, IsFirstGap
<1> QED
  BY <1>3, <1>4, <1>5 DEF Next

\* ShiftInv holds in every reachable state.
LEMMA ShiftInvariance == Spec => []ShiftInv
BY ShiftInvInit, ShiftInvStep, PTL DEF Spec

\* The two shifting loops lose, double and reorder no record, for every table
\* size, every pattern of gaps and every slot.
THEOREM ShiftsKeepOrder == Spec => []ShiftKeepsOrder
<1>1. IInv /\ ShiftInv => ShiftKeepsOrder
  <2> SUFFICES ASSUME IInv, ShiftInv, phase = "saving" PROVE ShiftKeepsOrder
    BY DEF ShiftKeepsOrder
  <2>1. CASE job.op = "insert"
    <3>1. /\ job.slot \in Slot /\ job.record \in Record
          /\ IsFirstGap(records, job.slot, job.gap)
          /\ next.records = WithInserted(records, job.slot, job.gap, job.record)
      BY <2>1 DEF ShiftInv
    <3> QED BY <2>1, <3>1, TablesOfState, InsertKeepsRecords DEF ShiftKeepsOrder
  <2>2. CASE job.op = "remove"
    <3>1. job.slot \in Slot /\ next.records = WithRemoved(records, job.slot)
      BY <2>2 DEF ShiftInv
    <3> QED BY <2>2, <3>1, TablesOfState, RemoveKeepsRecords DEF ShiftKeepsOrder
  <2> QED BY <2>1, <2>2 DEF ShiftKeepsOrder
<1> QED
  BY <1>1, Invariance, ShiftInvariance, PTL
=============================================================================
