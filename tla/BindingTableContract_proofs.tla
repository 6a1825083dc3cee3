--------------------- MODULE BindingTableContract_proofs ---------------------
(***************************************************************************)
(* BindingTable implements TableContract: the records with their slot      *)
(* numbers and check bytes, the buffered commit, the flash write and its   *)
(* failures, crashes and boots, against a shelf that operations change as  *)
(* a whole.                                                                *)
(***************************************************************************)
EXTENDS BindingTable_proofs

-----------------------------------------------------------------------------
(* Records and tables, seen as the content of a shelf.                     *)

\* The content of a slot that holds this record.
Content(record) == [bound |-> record.slot # 0, item |-> Payload(record)]

\* A table is seen slot by slot.
LEMMA ContentsAt ==
    ASSUME NEW table, NEW i \in Slot PROVE Contents(table)[i] = Content(table[i])
BY DEF Contents, Content

\* What bound means.
LEMMA BoundFacts ==
    ASSUME NEW record
    PROVE  (Content(record).bound <=> record.slot # 0) /\ Content(record).item = Payload(record)
BY DEF Content

\* The shelf of a cleared table, and of a cleared slot, is empty.
LEMMA BlankContents ==
    Content(Blank) = Contract!Empty /\ Contents(BlankTable) = Contract!EmptyShelf
BY DEF Content, Contents, Blank, BlankTable, Payload, Contract!Empty, Contract!EmptyShelf,
       Contract!Slot, Slot

\* normalize_slot in a valid slot shows the record's part and quantity.
LEMMA NormalizedContent ==
    ASSUME NEW record \in Record, NEW slot \in Slot
    PROVE  Content(NormalizeSlot(record, slot)) = Contract!Holding(record.part, record.qty)
<1>1. NormalizeSlot(record, slot).slot = slot /\ slot # 0
  BY SlotFacts DEF NormalizeSlot, Record
<1>2. Payload(NormalizeSlot(record, slot)) = <<record.part, record.qty>>
  BY NormalizeFacts DEF Payload
<1> QED
  BY <1>1, <1>2 DEF Content, Contract!Holding

\* Renumbering leaves what a slot shows.
LEMMA RenumberedContent ==
    ASSUME NEW record \in Record, NEW slot \in Slot
    PROVE  Content(Renumber(record, slot)) = Content(record)
<1>1. CASE record.slot # 0
  BY <1>1, NormalizedContent DEF Renumber, Content, Payload, Contract!Holding
<1>2. CASE record.slot = 0
  BY <1>2 DEF Renumber
<1> QED
  BY <1>1, <1>2

-----------------------------------------------------------------------------
(* Each operation makes of the shelf what the contract says.               *)

\* The shelf an operation starts from is the table in RAM.
LEMMA ShelfFacts ==
    ASSUME records \in Table
    PROVE  /\ Contract!Slot = Slot
           /\ \A i \in Slot : records[i] \in Record /\ Contents(records)[i] = Content(records[i])
<1>2. Contract!Slot = Slot
  BY DEF Contract!Slot, Slot
<1>3. \A i \in Slot : records[i] \in Record
  BY DEF Table
<1>4. \A i \in Slot : Contents(records)[i] = Content(records[i])
  BY ContentsAt
<1> QED
  BY <1>2, <1>3, <1>4

\* A single slot replaced, in the table and on the shelf.
LEMMA PutResult ==
    ASSUME records \in Table, NEW slot \in Slot, NEW record, NEW content, Content(record) = content
    PROVE  Contents([records EXCEPT ![slot] = record])
               = Contract!Put(Contents(records), slot, content)
<1> DEFINE table == [records EXCEPT ![slot] = record]
<1>1. \A i \in Slot : table[i] = IF i = slot THEN record ELSE records[i]
  BY DEF Table
<1>4. Contents(table) = [i \in Slot |-> Contents(table)[i]]
  BY DEF Contents
<1> HIDE DEF table
<1>2. \A i \in Slot : Contents(table)[i] = IF i = slot THEN content ELSE Contents(records)[i]
  BY <1>1, ContentsAt
<1>3. Contract!Put(Contents(records), slot, content) =
          [i \in Slot |-> IF i = slot THEN content ELSE Contents(records)[i]]
  BY ShelfFacts DEF Contract!Put, Contents
<1>5. Contents(table) = Contract!Put(Contents(records), slot, content)
  BY <1>2, <1>3, <1>4
<1> QED
  BY <1>5 DEF table

\* INSERT_AT up to the first gap.
LEMMA InsertResult ==
    ASSUME records \in Table, NEW slot \in Slot, NEW gap \in slot..N, NEW record \in Record,
           IsFirstGap(records, slot, gap)
    PROVE  /\ gap \in Slot /\ Contract!FirstGap(Contents(records), slot, gap)
           /\ Contents(WithInserted(records, slot, gap, record)) =
                  Contract!Inserted(Contents(records), slot, gap,
                                    Contract!Holding(record.part, record.qty))
<1> USE ShelfFacts
<1>1. gap \in Slot
  BY SlotFacts
<1>2. Contract!FirstGap(Contents(records), slot, gap)
  <2>1. ~Contents(records)[gap].bound
    BY <1>1, BoundFacts DEF IsFirstGap
  <2>2. ASSUME NEW i \in Slot, slot <= i, i < gap PROVE Contents(records)[i].bound
    <3>1. i \in slot..(gap - 1)
      BY <2>2, SlotFacts
    <3> QED BY <3>1, BoundFacts DEF IsFirstGap
  <2>3. gap >= slot
    BY SlotFacts
  <2>4. \A i \in Slot : slot <= i /\ i < gap => Contents(records)[i].bound
    BY <2>2
  <2> QED BY <2>1, <2>3, <2>4, Zenon DEF Contract!FirstGap
<1> DEFINE table == WithInserted(records, slot, gap, record)
           content == Contract!Holding(record.part, record.qty)
<1>3. ASSUME NEW i \in Slot
      PROVE  Contents(table)[i] = IF i = slot THEN content
                                  ELSE IF slot < i /\ i <= gap THEN Contents(records)[i - 1]
                                  ELSE Contents(records)[i]
  <2>1. CASE i = slot
    <3>1. table[i] = NormalizeSlot(record, slot)
      BY <2>1 DEF WithInserted
    <3> QED BY <2>1, <3>1, ContentsAt, NormalizedContent
  <2>2. CASE i # slot /\ slot < i /\ i <= gap
    <3>1. i \in (slot + 1)..gap /\ i - 1 \in Slot
      BY <2>2, SlotFacts
    <3>2. table[i] = Renumber(records[i - 1], i)
      BY <2>2, <3>1 DEF WithInserted
    <3> QED BY <2>2, <3>1, <3>2, ContentsAt, RenumberedContent
  <2>3. CASE i # slot /\ ~(slot < i /\ i <= gap)
    <3>1. i \notin (slot + 1)..gap
      BY <2>3, SlotFacts
    <3>2. table[i] = records[i]
      BY <2>3, <3>1 DEF WithInserted
    <3> QED BY <2>3, <3>2, ContentsAt
  <2> QED BY <2>1, <2>2, <2>3
<1>4. Contract!Inserted(Contents(records), slot, gap, content) =
          [i \in Slot |-> IF i = slot THEN content
                          ELSE IF slot < i /\ i <= gap THEN Contents(records)[i - 1]
                          ELSE Contents(records)[i]]
  BY DEF Contract!Inserted
<1>5. Contents(table) = [i \in Slot |-> Contents(table)[i]]
  BY DEF Contents
<1> HIDE DEF table, content
<1>6. Contents(table) = Contract!Inserted(Contents(records), slot, gap, content)
  BY <1>3, <1>4, <1>5
<1> QED
  BY <1>1, <1>2, <1>6 DEF table, content

\* REMOVE_AT.
LEMMA RemoveResult ==
    ASSUME records \in Table, NEW slot \in Slot
    PROVE  Contents(WithRemoved(records, slot)) = Contract!Removed(Contents(records), slot)
<1> USE ShelfFacts
<1> DEFINE table == WithRemoved(records, slot)
<1>1. ASSUME NEW i \in Slot
      PROVE  Contents(table)[i] = IF i < slot THEN Contents(records)[i]
                                  ELSE IF i < N THEN Contents(records)[i + 1]
                                  ELSE Contract!Empty
  <2>1. CASE i < slot
    BY <2>1, ContentsAt DEF WithRemoved
  <2>2. CASE ~(i < slot) /\ i < N
    <3>1. i + 1 \in Slot
      BY <2>2, SlotFacts
    <3>2. table[i] = Renumber(records[i + 1], i)
      BY <2>2 DEF WithRemoved
    <3> QED BY <2>2, <3>1, <3>2, ContentsAt, RenumberedContent
  <2>3. CASE ~(i < slot) /\ ~(i < N)
    <3>1. table[i] = Blank
      BY <2>3 DEF WithRemoved
    <3> QED BY <2>3, <3>1, ContentsAt, BlankContents
  <2> QED BY <2>1, <2>2, <2>3
<1>2. Contract!Removed(Contents(records), slot) =
          [i \in Slot |-> IF i < slot THEN Contents(records)[i]
                          ELSE IF i < N THEN Contents(records)[i + 1]
                          ELSE Contract!Empty]
  BY DEF Contract!Removed
<1>3. Contents(table) = [i \in Slot |-> Contents(table)[i]]
  BY DEF Contents
<1> HIDE DEF table
<1>4. Contents(table) = Contract!Removed(Contents(records), slot)
  BY <1>1, <1>2, <1>3
<1> QED
  BY <1>4 DEF table

\* MOVE_BLOCK.
LEMMA MoveResult ==
    ASSUME records \in Table, SealedTable(records),
           NEW from, NEW to, NEW len, MoveValid(from, to, len)
    PROVE  Contents(WithMoved(records, from, to, len))
               = Contract!Rotated(Contents(records), from, to, len)
<1> USE ShelfFacts
<1> DEFINE table == WithMoved(records, from, to, len)
           source(i) == MoveSource(from, to, len, i)
<1>1. ASSUME NEW i \in Slot
      PROVE  Contents(table)[i] = Contents(records)[source(i)] /\ source(i) \in Slot
  <2>1. source(i) \in Slot /\ table[i] = Renumber(records[source(i)], i)
    BY MoveFacts
  <2> HIDE DEF table, source
  <2> QED BY <2>1, ContentsAt, RenumberedContent
<1>2. Contract!Rotated(Contents(records), from, to, len)
          = [i \in Slot |-> Contents(records)[source(i)]]
  <2>1. from \in Int /\ to \in Int /\ len \in Int /\ \A i \in Slot : i \in Int
    BY SlotFacts, TableAssumption DEF MoveValid, AnySlot
  <2>2. ASSUME NEW i \in Slot
        PROVE  Contents(records)[source(i)] =
                   IF to <= i /\ i < to + len THEN Contents(records)[i + from - to]
                   ELSE IF from <= i /\ i < to + len THEN Contents(records)[i + len]
                   ELSE IF to <= i /\ i < from + len THEN Contents(records)[i - len]
                   ELSE Contents(records)[i]
    BY <2>1 DEF MoveSource
  <2> HIDE DEF source
  <2> QED BY <2>2 DEF Contract!Rotated
<1>3. Contents(table) = [i \in Slot |-> Contents(table)[i]]
  BY DEF Contents
<1> HIDE DEF table, source
<1>4. Contents(table) = Contract!Rotated(Contents(records), from, to, len)
  BY <1>1, <1>2, <1>3
<1> QED
  BY <1>4 DEF table

-----------------------------------------------------------------------------
(* The refinement.                                                         *)

\* While the flash write runs, the proposed table is the result of one of the
\* contract's operations on the shelf; a device that is down shows nothing.
ContractInv ==
    /\ phase = "saving" => Contract!IsResult(Contents(records), Contents(next.records))
    /\ phase \in {"off", "booting"} => records = BlankTable /\ seq = 1

\* The switched-off device.
LEMMA ContractInit == Init => ContractInv /\ Contract!Init
<1> SUFFICES ASSUME Init PROVE ContractInv /\ Contract!Init
  OBVIOUS
<1>1. records = BlankTable /\ seq = 1 /\ phase = "off" /\ unread = FALSE
  BY DEF Init
<1>2. Restored(flash) = NoImage /\ NoImage.records = BlankTable /\ NoImage.seq = 1
  BY DEF Init, Restored, Absent, NoImage, Image
<1> QED
  BY <1>1, <1>2, BlankContents DEF ContractInv, Contract!Init, Contract!Dark

\* A table proposed by an operation is one of the contract's results.
LEMMA ProposeResult ==
    ASSUME NEW table, NEW what, Propose(table, what),
           Contract!IsResult(Contents(records), Contents(table))
    PROVE  ContractInv'
<1>1. next'.records = table /\ phase' = "saving" /\ UNCHANGED records
  BY DEF Propose, Image
<1>2. Contract!IsResult(Contents(records), Contents(next.records))'
  BY <1>1
<1> QED
  BY <1>1, <1>2 DEF ContractInv

\* An operation that returns at once, or fails to save, proposes nothing.
LEMMA QuietOperation ==
    ASSUME phase = "idle", NEW errno, Return(errno) PROVE ContractInv'
BY DEF Return, ContractInv

\* What frames carry.
LEMMA FrameParts == \A record \in Frame : record.part \in Part /\ record.qty \in Qty
BY TableAssumption DEF Frame

\* Every operation proposes a result of the contract, or nothing.
LEMMA OperationContract == IInv /\ Operation => ContractInv'
<1> SUFFICES ASSUME IInv, Operation PROVE ContractInv'
  OBVIOUS
<1>0. phase = "idle"
  BY DEF Operation, WriteOne, ClearOne, RemoveAt, InsertAt, SetQty, MoveBlock, FactoryReset
<1>r. records \in Table /\ SealedTable(records)
  BY TablesOfState
<1>s. Contract!Slot = Slot
  BY <1>r, ShelfFacts
<1>1. ASSUME NEW record \in Frame, WriteOne(record) PROVE ContractInv'
  <2>1. ASSUME NEW what, ValidSlot(record.slot), Propose(WithWritten(records, record), what)
        PROVE  ContractInv'
    <3>1. record \in Record /\ record.slot \in Slot
      BY <2>1, FrameFacts DEF ValidSlot
    <3>2. Contents(WithWritten(records, record))
              = Contract!Put(Contents(records), record.slot,
                             Contract!Holding(record.part, record.qty))
      BY <1>r, <3>1, NormalizedContent, PutResult DEF WithWritten
    <3>3. Contract!IsResult(Contents(records), Contents(WithWritten(records, record)))
      BY <1>s, <3>1, <3>2, FrameParts DEF Contract!IsResult
    <3> QED BY <2>1, <3>3, ProposeResult
  <2> QED BY <1>0, <1>1, <2>1, QuietOperation DEF WriteOne
<1>2. ASSUME NEW slot \in AnySlot, ClearOne(slot) PROVE ContractInv'
  <2>1. ASSUME NEW what, ValidSlot(slot), Propose(WithCleared(records, slot), what)
        PROVE  ContractInv'
    <3>1. Contents(WithCleared(records, slot))
              = Contract!Put(Contents(records), slot, Contract!Empty)
      BY <1>r, <2>1, BlankContents, PutResult DEF WithCleared, ValidSlot
    <3>2. Contract!IsResult(Contents(records), Contents(WithCleared(records, slot)))
      BY <1>s, <2>1, <3>1 DEF Contract!IsResult, ValidSlot
    <3> QED BY <2>1, <3>2, ProposeResult
  <2> QED BY <1>0, <1>2, <2>1, QuietOperation DEF ClearOne
<1>3. ASSUME NEW slot \in AnySlot, RemoveAt(slot) PROVE ContractInv'
  <2>1. ASSUME NEW what, ValidSlot(slot), Propose(WithRemoved(records, slot), what)
        PROVE  ContractInv'
    <3>1. Contents(WithRemoved(records, slot)) = Contract!Removed(Contents(records), slot)
      BY <1>r, <2>1, RemoveResult DEF ValidSlot
    <3>2. Contract!IsResult(Contents(records), Contents(WithRemoved(records, slot)))
      BY <1>s, <2>1, <3>1 DEF Contract!IsResult, ValidSlot
    <3> QED BY <2>1, <3>2, ProposeResult
  <2> QED BY <1>0, <1>3, <2>1, QuietOperation DEF RemoveAt
<1>4. ASSUME NEW slot \in AnySlot, NEW record \in Frame, InsertAt(slot, record)
      PROVE  ContractInv'
  <2>1. ASSUME NEW gap \in slot..N, NEW what, ValidSlot(slot), IsFirstGap(records, slot, gap),
               Propose(WithInserted(records, slot, gap, record), what)
        PROVE  ContractInv'
    <3>1. /\ gap \in Slot /\ Contract!FirstGap(Contents(records), slot, gap)
          /\ Contents(WithInserted(records, slot, gap, record)) =
                 Contract!Inserted(Contents(records), slot, gap,
                                    Contract!Holding(record.part, record.qty))
      BY <1>r, <2>1, FrameFacts, InsertResult DEF ValidSlot
    <3>2. Contract!IsResult(Contents(records), Contents(WithInserted(records, slot, gap, record)))
      BY <1>s, <2>1, <3>1, FrameParts DEF Contract!IsResult, ValidSlot
    <3> QED BY <2>1, <3>2, ProposeResult
  <2> QED BY <1>0, <1>4, <2>1, QuietOperation DEF InsertAt
<1>5. ASSUME NEW slot \in AnySlot, NEW qty \in Qty, SetQty(slot, qty) PROVE ContractInv'
  <2>1. ASSUME NEW what, ValidSlot(slot), records[slot].slot # 0,
               Propose(WithQty(records, slot, qty), what)
        PROVE  ContractInv'
    <3> DEFINE edited == [records[slot] EXCEPT !.qty = qty]
    <3>1. slot \in Slot /\ records[slot] \in Record
      BY <1>r, <2>1, ShelfFacts DEF ValidSlot
    <3>2. edited \in Record /\ edited.part = records[slot].part /\ edited.qty = qty
      BY <3>1 DEF Record
    <3>3. Content(NormalizeSlot(edited, slot)) = Contract!Holding(records[slot].part, qty)
      BY <3>1, <3>2, NormalizedContent
    <3>4. Contents(WithQty(records, slot, qty))
              = Contract!Put(Contents(records), slot, Contract!Holding(records[slot].part, qty))
      BY <1>r, <3>1, <3>3, PutResult DEF WithQty
    <3>5. Contents(records)[slot].bound /\ Contents(records)[slot].item[1] = records[slot].part
      BY <2>1, <3>1, ContentsAt, BoundFacts DEF Payload
    <3>6. Contract!IsResult(Contents(records), Contents(WithQty(records, slot, qty)))
      BY <1>s, <3>1, <3>4, <3>5 DEF Contract!IsResult
    <3> QED BY <2>1, <3>6, ProposeResult
  <2> QED BY <1>0, <1>5, <2>1, QuietOperation DEF SetQty
<1>6. ASSUME NEW from \in AnySlot, NEW to \in AnySlot, NEW len \in AnySlot,
             MoveBlock(from, to, len)
      PROVE  ContractInv'
  <2>1. ASSUME NEW what, MoveValid(from, to, len), Propose(WithMoved(records, from, to, len), what)
        PROVE  ContractInv'
    <3>1. Contents(WithMoved(records, from, to, len))
              = Contract!Rotated(Contents(records), from, to, len)
      BY <1>r, <2>1, MoveResult
    <3>2. len \in Slot
      BY <2>1, SlotFacts DEF MoveValid, AnySlot
    <3>3. Contract!IsResult(Contents(records), Contents(WithMoved(records, from, to, len)))
      BY <1>s, <2>1, <3>1, <3>2 DEF Contract!IsResult, MoveValid
    <3> QED BY <2>1, <3>3, ProposeResult
  <2> QED BY <1>0, <1>6, <2>1, QuietOperation DEF MoveBlock, MoveValid, ValidSlot
<1>7. ASSUME NEW magicOk \in BOOLEAN, FactoryReset(magicOk) PROVE ContractInv'
  <2>1. ASSUME NEW what, Propose(BlankTable, what) PROVE ContractInv'
    <3>1. Contract!IsResult(Contents(records), Contents(BlankTable))
      BY BlankContents DEF Contract!IsResult
    <3> QED BY <2>1, <3>1, ProposeResult
  <2> QED BY <1>0, <1>7, <2>1, QuietOperation DEF FactoryReset
<1> QED
  BY <1>1, <1>2, <1>3, <1>4, <1>5, <1>6, <1>7 DEF Operation

\* The other steps propose nothing, and what is down was wiped.
LEMMA ContractStep == IInv /\ ContractInv /\ [Next]_vars => ContractInv'
<1> SUFFICES ASSUME IInv, ContractInv, [Next]_vars PROVE ContractInv'
  OBVIOUS
<1>1. CASE Operation
  BY <1>1, OperationContract
<1>2. CASE Boot \/ Commit \/ Crash
  BY <1>2 DEF Boot, BindingTableInit, SettingsSet, ReadFailed, Commit, SaveDone, SaveFailed,
              CommitRam, Crash, ContractInv
<1>3. CASE FlashDamage
  BY <1>3 DEF FlashDamage, ContractInv
<1>4. CASE UNCHANGED vars
  BY <1>4 DEF vars, ContractInv
<1> QED
  BY <1>1, <1>2, <1>3, <1>4 DEF Next

\* ContractInv holds in every reachable state.
LEMMA ContractInvariance == Spec => []ContractInv
BY ContractInit, ContractStep, Invariance, PTL DEF Spec

\* What clients see is unchanged while the device is idle, saving or saved.
View == [up |-> phase \notin {"off", "booting"}, shelf |-> Contents(records), version |-> seq]

\* Every step of the table is a step of the contract, or none.
LEMMA RefinementStep ==
    ASSUME IInv, ContractInv, [Next]_vars PROVE [Contract!Next]_(Contract!vars)
<1> DEFINE Same == UNCHANGED <<Restored(flash), View, unread>>
<1>s. Same => UNCHANGED Contract!vars
  BY DEF Contract!vars, View
<1>u. phase \in {"off", "booting", "saved"} => unread = FALSE
  BY DEF IInv, TypeOK
<1>1. CASE BindingTableInit
  <2>1. records' = records /\ seq' = seq
    BY <1>1 DEF BindingTableInit, ContractInv
  <2>2. View' = View
    BY <1>1, <2>1 DEF BindingTableInit, View
  <2> QED BY <1>1, <1>s, <2>2 DEF BindingTableInit
<1>2. CASE SettingsSet
  <2>1. phase' = "idle" /\ UNCHANGED <<flash, unread>> /\ unread = FALSE
        /\ records' = Restored(flash).records /\ seq' = Restored(flash).seq
    BY <1>2, <1>u DEF SettingsSet
  <2>2. Contract!Show
    BY <2>1 DEF Contract!Show, Contract!Showing
  <2> QED BY <2>2 DEF Contract!Next
<1>r. CASE ReadFailed
  <2>1. /\ phase = "booting" /\ phase' = "idle" /\ unread' = TRUE
        /\ records = BlankTable /\ seq = 1 /\ UNCHANGED <<records, seq, flash>>
    BY <1>r DEF ReadFailed, ContractInv
  <2>2. Contract!Overlook
    BY <2>1, BlankContents DEF Contract!Overlook, Contract!Dark, Contract!Showing
  <2> QED BY <2>2 DEF Contract!Next
<1>3. CASE Operation
  <2>1. /\ phase = "idle" /\ phase' \in {"idle", "saving"}
        /\ UNCHANGED <<records, seq, flash, unread>>
    BY <1>3 DEF Operation, WriteOne, ClearOne, RemoveAt, InsertAt, SetQty, MoveBlock,
                FactoryReset, Propose, Return
  <2> QED BY <1>s, <2>1 DEF View
<1>4. CASE SaveDone
  <2>1. phase = "saving" /\ phase' = "saved" /\ UNCHANGED <<records, seq>> /\ unread' = FALSE
    BY <1>4 DEF SaveDone
  <2>2. next \in Images /\ next.seq \in 1..(SeqMod - 1)
    BY DEF IInv, TypeOK
  <2>3. Restored(flash)' = next
    BY <1>4, <2>2, GoodFacts DEF SaveDone
  <2>4. ~unread => Restored(flash).records = records /\ Restored(flash).seq = seq
    BY <2>1 DEF IInv, RebootKeepsTable, Image
  <2>5. next.seq = NextSeq(seq) /\ NextSeq(seq) = Contract!Following(seq)
    BY <2>1, TableAssumption DEF IInv, TypeOK, NextSeq, Contract!Following
  <2>6. Contract!IsResult(Contents(records), Contents(next.records))
    BY <2>1 DEF ContractInv
  <2>7. View = Contract!Showing(Contents(records), seq) /\ View' = View
    BY <2>1 DEF View, Contract!Showing
  <2>8. View.up /\ View.shelf = Contents(records) /\ View.version = seq
    BY <2>1 DEF View
  <2>9. Contract!Operate
    BY <2>1, <2>3, <2>4, <2>5, <2>6, <2>7, <2>8 DEF Contract!Operate, View
  <2> QED BY <2>9 DEF Contract!Next
<1>5. CASE SaveFailed
  BY <1>5, <1>s DEF SaveFailed, View
<1>6. CASE CommitRam
  <2>1. Restored(flash) = next /\ UNCHANGED <<flash, unread>> /\ phase' = "idle"
        /\ records' = next.records /\ seq' = next.seq /\ unread = FALSE
    BY <1>6, <1>u DEF CommitRam, IInv, RebootKeepsTable
  <2>2. Contract!Show
    BY <2>1 DEF Contract!Show, Contract!Showing
  <2> QED BY <2>2 DEF Contract!Next
<1>7. CASE Crash
  <2>1. /\ phase' = "off" /\ UNCHANGED flash /\ records' = BlankTable /\ seq' = 1
        /\ unread' = FALSE
    BY <1>7 DEF Crash
  <2>2. Contract!PowerLoss
    BY <2>1, BlankContents DEF Contract!PowerLoss, Contract!Dark
  <2> QED BY <2>2 DEF Contract!Next
<1>8. CASE FlashDamage
  <2>1. phase = "off" /\ UNCHANGED <<records, seq, phase, unread>> /\ flash' = Damaged
    BY <1>8 DEF FlashDamage
  <2>2. records = BlankTable /\ seq = 1
    BY <2>1 DEF ContractInv
  <2>3. Restored(flash)'.records = BlankTable /\ Restored(flash)'.seq = 1
    BY <2>1 DEF Restored, Damaged, NoImage, Image
  <2>4. Contract!Damage
    BY <2>1, <2>2, <2>3, BlankContents DEF Contract!Damage, Contract!Dark
  <2> QED BY <2>4 DEF Contract!Next
<1>9. CASE UNCHANGED vars
  BY <1>9, <1>s DEF vars, View
<1> QED
  BY <1>1, <1>2, <1>r, <1>3, <1>4, <1>5, <1>6, <1>7, <1>8, <1>9 DEF Next, Boot, Commit

\* The slot binding table keeps its contract for every number of slots, every set
\* of parts and quantities and every modulus: clients see whole operations, each
\* with the next table_seq, whatever fails or crashes in between; a boot that could
\* not read the stored table shows an empty one, and says so by table_seq 1.
THEOREM ContractKept == Spec => KeepsContract
<1>1. Init => Contract!Init
  BY ContractInit
<1> QED
  BY <1>1, RefinementStep, Invariance, ContractInvariance, PTL
  DEF Spec, KeepsContract, Contract!Spec
=============================================================================
