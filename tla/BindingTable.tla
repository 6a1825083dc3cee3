---------------------------- MODULE BindingTable ----------------------------
(***************************************************************************)
(* The slot binding table and its flash copy:                              *)
(* protocol/viberack_binding_table_model.c, viberack_storage.c and         *)
(* firmware/nrf52/app/src/binding_table.c.                                 *)
(*                                                                         *)
(* Every mutation builds the whole next table, writes it to flash, and     *)
(* only then replaces the table in RAM.  The flash write blocks, so the    *)
(* write, its failure, a crash and the replacement in RAM are steps of     *)
(* their own.  A record's check byte is modelled as what it was computed   *)
(* over; the flash is taken to hold the old or the new snapshot after a    *)
(* crash (settings/NVS, external), or a damaged one, and a boot may fail   *)
(* to read it.                                                             *)
(***************************************************************************)
EXTENDS Integers, Sequences

CONSTANTS
    N,        \* VBRK_SLOT_COUNT
    Part,     \* part identities
    NoPart,   \* the part_id of a blank record: all zero
    Qty,      \* quantities, with 0
    SeqMod    \* table_seq is kept modulo SeqMod (2^32 in the code)

ASSUME TableAssumption ==
    /\ N \in Nat \ {0}
    /\ NoPart \notin Part
    /\ 0 \in Qty
    /\ SeqMod \in Nat /\ SeqMod > 2

Slot == 1..N
AnySlot == 0..(N + 1)    \* what a frame may carry: both sides of the valid range

\* vbrk_crc8_maxim over a record's first bytes, taken to be injective.
Crc8(slot, part, qty) == <<slot, part, qty>>

PartOrNone == Part \cup {NoPart}
Record == [slot : AnySlot, part : PartOrNone, qty : Qty, crc8 : AnySlot \X PartOrNone \X Qty]

\* A memset record; CRC-8/MAXIM of zero bytes is zero.
Blank == [slot |-> 0, part |-> NoPart, qty |-> 0, crc8 |-> Crc8(0, NoPart, 0)]

BlankTable == [i \in Slot |-> Blank]

ValidSlot(slot) == slot \in Slot

RecordCrcOk(record) == record.crc8 = Crc8(record.slot, record.part, record.qty)

NormalizeSlot(record, slot) ==
    [record EXCEPT !.slot = slot, !.crc8 = Crc8(slot, record.part, record.qty)]

\* What the shifting loops do with each record that arrives in a slot.
Renumber(record, slot) == IF record.slot # 0 THEN NormalizeSlot(record, slot) ELSE record

\* Seeded bug: the wrap does not skip 0.
NextSeqThroughZero(s) == (s + 1) % SeqMod

\* table_seq + 1, skipping 0 on wrap.
NextSeq(s) == IF (s + 1) % SeqMod = 0 THEN 1 ELSE (s + 1) % SeqMod

-----------------------------------------------------------------------------
(* The next table of each operation.                                       *)

WithWritten(table, record) ==
    [table EXCEPT ![record.slot] = NormalizeSlot(record, record.slot)]

WithCleared(table, slot) == [table EXCEPT ![slot] = Blank]

IsFirstGap(table, slot, gap) ==
    /\ gap \in slot..N
    /\ table[gap].slot = 0
    /\ \A i \in slot..(gap - 1) : table[i].slot # 0

\* Seeded bug: a shifted record keeps its old slot number and check byte.
WithInsertedNotRenumbered(table, slot, gap, record) ==
    [i \in Slot |-> IF i = slot THEN NormalizeSlot(record, slot)
                    ELSE IF i \in (slot + 1)..gap THEN table[i - 1]
                    ELSE table[i]]

\* Seeded bug: the shift does not stop at the gap and drops the last record.
WithInsertedToEnd(table, slot, gap, record) ==
    [i \in Slot |-> IF i = slot THEN NormalizeSlot(record, slot)
                    ELSE IF i > slot THEN Renumber(table[i - 1], i)
                    ELSE table[i]]

\* insert_at shifts only the records between the slot and the first gap.
WithInserted(table, slot, gap, record) ==
    [i \in Slot |-> IF i = slot THEN NormalizeSlot(record, slot)
                    ELSE IF i \in (slot + 1)..gap THEN Renumber(table[i - 1], i)
                    ELSE table[i]]

\* Seeded bug: the last slot keeps its record when its neighbours moved down.
WithRemovedKeepsLast(table, slot) ==
    [i \in Slot |-> IF i < slot \/ i = N THEN table[i] ELSE Renumber(table[i + 1], i)]

\* remove_at shifts everything behind the slot, gaps included.
WithRemoved(table, slot) ==
    [i \in Slot |-> IF i < slot THEN table[i]
                    ELSE IF i < N THEN Renumber(table[i + 1], i)
                    ELSE Blank]

\* move_block: take the block out, put it back behind insert_at of the rest.
Rest(table, from, len) == SubSeq(table, 1, from - 1) \o SubSeq(table, from + len, N)

\* Seeded bug: the destination is counted in the table that still holds the block.
WithMovedCountingBlock(table, from, to, len) ==
    LET rest == Rest(table, from, len)
        insertAt == IF to > from /\ to - len >= 1 THEN to - len ELSE to - 1
        moved == SubSeq(rest, 1, insertAt) \o SubSeq(table, from, from + len - 1)
                    \o SubSeq(rest, insertAt + 1, N - len)
    IN  [i \in Slot |-> Renumber(moved[i], i)]

WithMoved(table, from, to, len) ==
    LET rest == Rest(table, from, len)
        insertAt == IF to - 1 > N - len THEN N - len ELSE to - 1
        moved == SubSeq(rest, 1, insertAt) \o SubSeq(table, from, from + len - 1)
                    \o SubSeq(rest, insertAt + 1, N - len)
    IN  [i \in Slot |-> Renumber(moved[i], i)]

WithQty(table, slot, qty) ==
    [table EXCEPT ![slot] = NormalizeSlot([table[slot] EXCEPT !.qty = qty], slot)]

-----------------------------------------------------------------------------
VARIABLES
    records, seq,   \* vbrk_binding_table_model_t in RAM
    flash,          \* the settings entry: absent, good or damaged
    phase,          \* off, booting, idle, saving (flash write running), saved
    next,           \* commit_table's next_records and next_seq, while it runs
    job,            \* the operation being committed (read by properties only)
    result,         \* the errno the last operation returned; OK while one runs
    unread          \* history: the boot could not read the entry, nothing was saved since

vars == <<records, seq, flash, phase, next, job, result, unread>>

Table == [Slot -> Record]
Image(table, s) == [records |-> table, seq |-> s]
NoImage == Image(BlankTable, 1)
Images == [records : Table, seq : Nat]
Absent == [kind |-> "absent", image |-> NoImage]
Damaged == [kind |-> "damaged", image |-> NoImage]
Good(image) == [kind |-> "good", image |-> image]
Phase == {"off", "booting", "idle", "saving", "saved"}
Errno == {"OK", "EINVAL", "ENOSPC", "EBUSY", "EIO"}
NoJob == [op |-> "none"]

TypeOK ==
    /\ records \in Table /\ seq \in 1..(SeqMod - 1)
    /\ flash.kind \in {"absent", "good", "damaged"} /\ flash.image \in Images
    /\ phase \in Phase
    /\ next \in Images
    /\ result \in Errno
    /\ unread \in BOOLEAN

Init ==
    /\ records = BlankTable /\ seq = 1
    /\ flash = Absent
    /\ phase = "off"
    /\ next = NoImage
    /\ job = NoJob
    /\ result = "OK"
    /\ unread = FALSE

\* snapshot_decode and model_load, or init again when the snapshot is damaged:
\* the table a boot with this flash entry ends up with.
Restored(entry) ==
    IF entry.kind = "good"
    THEN Image(entry.image.records, IF entry.image.seq = 0 THEN 1 ELSE entry.image.seq)
    ELSE NoImage

\* binding_table_init from main.
BindingTableInit ==
    /\ phase = "off"
    /\ phase' = "booting"
    /\ records' = BlankTable /\ seq' = 1
    /\ UNCHANGED <<flash, next, job, result, unread>>

\* settings_load -> binding_table_settings_set with an entry that can be read, or
\* without one; before advertising starts.
SettingsSet ==
    /\ phase = "booting"
    /\ phase' = "idle"
    /\ records' = Restored(flash).records /\ seq' = Restored(flash).seq
    /\ UNCHANGED <<flash, next, job, result, unread>>

\* read_cb fails: the handler returns its error, which settings_load only logs
\* (external).  The boot goes on with the blank table, the entry stays as it is.
ReadFailed ==
    /\ phase = "booting" /\ flash.kind # "absent"
    /\ phase' = "idle"
    /\ unread' = TRUE
    /\ UNCHANGED <<records, seq, flash, next, job, result>>

-----------------------------------------------------------------------------
(* Operations, one at a time in the Bluetooth RX thread.                   *)

\* Seeded bug: RAM takes the new table before the flash write.
ProposeIntoRam(table, what) ==
    /\ phase' = "saving"
    /\ next' = Image(table, NextSeq(seq))
    /\ records' = table /\ seq' = NextSeq(seq)
    /\ job' = what
    /\ result' = "OK"
    /\ UNCHANGED <<flash, unread>>

\* commit_table up to the save callback.
Propose(table, what) ==
    /\ phase' = "saving"
    /\ next' = Image(table, NextSeq(seq))
    /\ job' = what
    /\ result' = "OK"
    /\ UNCHANGED <<records, seq, flash, unread>>

Return(errno) ==
    /\ result' = errno
    /\ UNCHANGED <<records, seq, flash, phase, next, job, unread>>

WriteOne(record) ==
    /\ phase = "idle"
    /\ LET valid == ValidSlot(record.slot) /\ RecordCrcOk(record)
       IN  \/ valid /\ Propose(WithWritten(records, record),
                               [op |-> "write", record |-> record])
           \/ ~valid /\ Return("EINVAL")

ClearOne(slot) ==
    /\ phase = "idle"
    /\ \/ ValidSlot(slot) /\ Propose(WithCleared(records, slot), [op |-> "clear", slot |-> slot])
       \/ ~ValidSlot(slot) /\ Return("EINVAL")

InsertAt(slot, record) ==
    /\ phase = "idle"
    /\ LET valid == ValidSlot(slot) /\ RecordCrcOk(record)
       IN  \/ ~valid /\ Return("EINVAL")
           \/ valid /\ (\A i \in slot..N : records[i].slot # 0) /\ Return("ENOSPC")
           \/ /\ valid
              /\ \E gap \in slot..N :
                    /\ IsFirstGap(records, slot, gap)
                    /\ Propose(WithInserted(records, slot, gap, record),
                               [op |-> "insert", slot |-> slot, gap |-> gap,
                                record |-> NormalizeSlot(record, slot)])

RemoveAt(slot) ==
    /\ phase = "idle"
    /\ \/ ValidSlot(slot) /\ Propose(WithRemoved(records, slot), [op |-> "remove", slot |-> slot])
       \/ ~ValidSlot(slot) /\ Return("EINVAL")

\* from = to returns 0 before anything is committed.
MoveBlock(from, to, len) ==
    /\ phase = "idle"
    /\ LET valid == /\ ValidSlot(from) /\ ValidSlot(to) /\ len # 0
                    /\ from + len - 1 <= N /\ to + len - 1 <= N
       IN  \/ ~valid /\ Return("EINVAL")
           \/ valid /\ from = to /\ Return("OK")
           \/ /\ valid /\ from # to
              /\ Propose(WithMoved(records, from, to, len),
                         [op |-> "move", from |-> from, to |-> to, len |-> len])

SetQty(slot, qty) ==
    /\ phase = "idle"
    /\ LET valid == ValidSlot(slot) /\ records[slot].slot # 0
       IN  \/ valid /\ Propose(WithQty(records, slot, qty), [op |-> "qty", slot |-> slot])
           \/ ~valid /\ Return("EINVAL")

FactoryReset(magicOk) ==
    /\ phase = "idle"
    /\ \/ magicOk /\ Propose(BlankTable, [op |-> "reset"])
       \/ ~magicOk /\ Return("EINVAL")

\* settings_save_one succeeds; RAM still holds the old table.
SaveDone ==
    /\ phase = "saving"
    /\ phase' = "saved"
    /\ flash' = Good(next) /\ unread' = FALSE
    /\ UNCHANGED <<records, seq, next, job, result>>

\* settings_save_one fails: commit_table returns its error, nothing changed.
SaveFailed ==
    /\ phase = "saving"
    /\ phase' = "idle"
    /\ result' \in {"EBUSY", "ENOSPC", "EIO"}
    /\ job' = NoJob /\ next' = NoImage
    /\ UNCHANGED <<records, seq, flash, unread>>

\* Seeded bug: the new table goes live with the old table_seq.
CommitRamKeepsSeq ==
    /\ phase = "saved"
    /\ phase' = "idle"
    /\ records' = next.records
    /\ result' = "OK"
    /\ job' = NoJob /\ next' = NoImage
    /\ UNCHANGED <<seq, flash, unread>>

\* commit_table's memcpy and the new table_seq.
CommitRam ==
    /\ phase = "saved"
    /\ phase' = "idle"
    /\ records' = next.records /\ seq' = next.seq
    /\ result' = "OK"
    /\ job' = NoJob /\ next' = NoImage
    /\ UNCHANGED <<flash, unread>>

-----------------------------------------------------------------------------
\* Power loss, watchdog or reset: RAM is gone, the flash entry stays.
Crash ==
    /\ phase # "off"
    /\ phase' = "off"
    /\ records' = BlankTable /\ seq' = 1
    /\ job' = NoJob /\ next' = NoImage /\ unread' = FALSE
    /\ UNCHANGED <<flash, result>>

\* The stored entry is damaged for good: its length, magic, version or CRC-16 is
\* wrong (vbrk_binding_snapshot_decode).
FlashDamage ==
    /\ phase = "off" /\ flash.kind = "good"
    /\ flash' = Damaged
    /\ UNCHANGED <<records, seq, phase, next, job, result, unread>>

\* Frames as clients send them: sealed over their own content, or over another slot.
Frame ==
    { [slot |-> s, part |-> p, qty |-> q, crc8 |-> Crc8(s, p, q)] :
          s \in AnySlot, p \in Part, q \in Qty }
    \cup
    { [slot |-> s, part |-> p, qty |-> 0, crc8 |-> Crc8((s + 1) % (N + 2), p, 0)] :
          s \in AnySlot, p \in Part }

Boot == BindingTableInit \/ SettingsSet \/ ReadFailed

Operation ==
    \/ \E record \in Frame : WriteOne(record)
    \/ \E slot \in AnySlot :
          \/ ClearOne(slot)
          \/ RemoveAt(slot)
          \/ \E record \in Frame : InsertAt(slot, record)
          \/ \E qty \in Qty : SetQty(slot, qty)
    \/ \E from \in AnySlot, to \in AnySlot, len \in AnySlot : MoveBlock(from, to, len)
    \/ \E magicOk \in BOOLEAN : FactoryReset(magicOk)

Commit == SaveDone \/ SaveFailed \/ CommitRam

Next == Boot \/ Operation \/ Commit \/ Crash \/ FlashDamage

Spec == Init /\ [][Next]_vars

-----------------------------------------------------------------------------
(* Properties.                                                             *)

SealedAt(record, slot) ==
    record = Blank \/ (record.slot = slot /\ RecordCrcOk(record))

\* Whatever was shifted, moved or edited, every record that READ_ONE can return
\* and every record written to flash is blank, or names its own slot and carries
\* a check byte that fits (normalize_slot and the loops that call it).
SlotsSealed ==
    \A slot \in Slot :
        SealedAt(records[slot], slot) /\ SealedAt(next.records[slot], slot)

\* A reboot at rest gives back exactly the table and table_seq that clients see,
\* and one between the flash write and its answer the new ones (commit_table
\* saves before it changes RAM; a damaged snapshot starts over).  Only a boot that
\* could not read the entry shows something else, a blank table at table_seq 1,
\* and only until something is saved.
RebootKeepsTable ==
    /\ phase \in {"idle", "saving"} =>
          IF unread THEN Image(records, seq) = NoImage ELSE Restored(flash) = Image(records, seq)
    /\ phase = "saved" => Restored(flash) = next

\* The table as clients will find it: in RAM, or in flash while the device is down.
Effective == IF phase \in {"off", "booting"} THEN Restored(flash) ELSE Image(records, seq)

\* A client that compares table_seq notices every change, also one that a crash
\* left without an answer: a changed table has the next table_seq.  Otherwise the
\* table started over, after damage or a boot that could not read it, or it came
\* back with the end of such a boot (table_seq in commit_table and model_load).
SeqTellsChange ==
    [][Effective' # Effective =>
          \/ Effective'.seq = NextSeq(Effective.seq)
          \/ Effective' = NoImage /\ (flash'.kind = "damaged" \/ unread')
          \/ unread /\ phase' = "off"]_vars

\* "After a restart the records are read back and table_seq does not go back"
\* (docs/pending-verification-plan.md:30, in Chinese): the device serves the table
\* it has stored.
StoredTableServed ==
    phase \in {"idle", "saving"} /\ flash.kind = "good" => Restored(flash) = Image(records, seq)

Payload(record) == <<record.part, record.qty>>

BoundSlots(table) == {i \in Slot : table[i].slot # 0}

\* The records in the slots `from` of the old table are those in the slots `to` of
\* the new one: same order, same payloads, on the same side of `slot`.
SameRecords(old, from, new, to, slot) ==
    \E f \in [from -> to] :
        /\ to \subseteq {f[i] : i \in from}
        /\ \A i, j \in from : i < j => f[i] < f[j]
        /\ \A i \in from : /\ Payload(new[f[i]]) = Payload(old[i])
                          /\ f[i] < slot <=> i < slot

\* INSERT_AT puts one record in and REMOVE_AT takes one out; the records bound
\* before keep their order and none is lost or doubled, wherever the gaps are.
ShiftKeepsOrder ==
    phase = "saving" =>
        /\ job.op = "insert" =>
              /\ job.slot \in BoundSlots(next.records)
              /\ Payload(next.records[job.slot]) = Payload(job.record)
              /\ SameRecords(records, BoundSlots(records),
                             next.records, BoundSlots(next.records) \ {job.slot}, job.slot)
        /\ job.op = "remove" =>
              SameRecords(records, BoundSlots(records) \ {job.slot},
                          next.records, BoundSlots(next.records), job.slot)

\* MOVE_BLOCK is a rotation: the block arrives at `to`, the slots between move
\* by its length the other way, and every other slot keeps its content.
MoveIsRotation ==
    phase = "saving" /\ job.op = "move" =>
        \A i \in Slot :
            LET from == job.from
                to == job.to
                len == job.len
                source == IF i \in to..(to + len - 1) THEN i + from - to
                          ELSE IF i \in from..(to + len - 1) THEN i + len
                          ELSE IF i \in to..(from + len - 1) THEN i - len
                          ELSE i
            IN  Payload(next.records[i]) = Payload(records[source])
-----------------------------------------------------------------------------
(* The abstract table that this one implements.                            *)

Contents(table) ==
    [i \in Slot |-> [bound |-> table[i].slot # 0, item |-> Payload(table[i])]]

Contract == INSTANCE TableContract WITH
    NoItem     <- <<NoPart, 0>>,
    shelf      <- Contents(Restored(flash).records),
    version    <- Restored(flash).seq,
    view       <- [up      |-> phase \notin {"off", "booting"},
                   shelf   |-> Contents(records),
                   version |-> seq],
    overlooked <- unread

\* Whatever fails, crashes or overlaps, clients see the table of TableContract:
\* every operation takes effect as a whole on the content they were shown, with
\* the next table_seq, and is shown before the next one begins; and that content
\* is the stored one unless a boot could not read it (every function of
\* viberack_binding_table_model.c over commit_table, and the boot).
KeepsContract == Contract!Spec
=============================================================================
