--------------------- MODULE BindingControlPoint_proofs ---------------------
(***************************************************************************)
(* Proofs about BindingControlPoint, for every number of slots, parts and  *)
(* quantities.  The invariant follows a command from the client through    *)
(* the flash write to its answers, and relates table_seq as stored in      *)
(* flash, which every crash falls back to, to what the client was told.    *)
(***************************************************************************)
EXTENDS BindingControlPoint, SequenceTheorems, TLAPS

-----------------------------------------------------------------------------
(* The binding table, as far as its answers and table_seq go.              *)

\* The table_seq that clients see, or will see after a boot that can read the entry.
Stored == IF unread THEN 1 ELSE Table!Restored(flash).seq

Seqs == 1..(SeqMod - 1)

\* The committed number is in flash, and RAM follows it; a boot that could not
\* read the flash counts from 1, until something is saved.
TableInv ==
    /\ seq \in Seqs /\ Stored \in Seqs /\ Table!Restored(flash).seq \in Seqs
    /\ result \in Table!Errno
    /\ phase \in {"idle", "saving"} => seq = Stored
    /\ phase \in {"saving", "saved"} => next.seq = Table!NextSeq(seq)
    /\ phase = "saved" => Stored = next.seq
    /\ phase = "booting" => seq = 1
    /\ phase \notin {"idle", "saving"} => unread = FALSE

\* Where a count of so many changes leads to from s.
Ahead(s, n) == IF s + n < SeqMod THEN s + n ELSE s + n - (SeqMod - 1)

LEMMA NextSeqFacts ==
    ASSUME NEW s \in Seqs
    PROVE  /\ Table!NextSeq(s) \in Seqs
           /\ Table!NextSeq(s) = IF s = SeqMod - 1 THEN 1 ELSE s + 1
BY ControlPointAssumption DEF Table!NextSeq, Seqs

\* Fewer changes than there are numbers never lead back.
LEMMA AheadFacts ==
    ASSUME NEW s \in Seqs
    PROVE  /\ Ahead(s, 0) = s
           /\ \A n \in 0..(MaxForeign + 1) : Ahead(s, n) = s <=> n = 0
           /\ \A n \in 0..MaxForeign : Table!NextSeq(Ahead(s, n)) = Ahead(s, n + 1)
<1> USE ControlPointAssumption DEF Ahead, Seqs
<1>1. ASSUME NEW n \in 0..MaxForeign PROVE Table!NextSeq(Ahead(s, n)) = Ahead(s, n + 1)
  <2>1. Ahead(s, n) \in Seqs
    OBVIOUS
  <2>2. Table!NextSeq(Ahead(s, n)) = IF Ahead(s, n) = SeqMod - 1 THEN 1 ELSE Ahead(s, n) + 1
    BY <2>1, NextSeqFacts
  <2> QED BY <2>2
<1> QED
  BY <1>1

\* The status says OK of no error.
LEMMA StatusFacts ==
    /\ \A errno \in Table!Errno : StatusFromErrno(errno) \in Answer
    /\ \A errno \in Table!Errno : StatusFromErrno(errno) = "OK" <=> errno = "OK"
BY DEF StatusFromErrno, Answer, Table!Errno

\* An operation that leaves the table alone; it says OK only of a command that
\* changes nothing.
Returned(command) ==
    /\ UNCHANGED <<records, seq, flash, phase, next, job, unread>>
    /\ result' \in Table!Errno
    /\ result' = "OK" => ~Mutating(command) \/ InPlace(command)

\* An operation that begins a flash write.
Proposed(command) ==
    /\ phase' = "saving" /\ next'.seq = Table!NextSeq(seq)
    /\ result' = "OK"
    /\ UNCHANGED <<records, seq, flash, unread>>
    /\ Mutating(command) /\ ~InPlace(command)

LEMMA ReturnEffect ==
    ASSUME NEW command, NEW errno \in Table!Errno, Table!Return(errno),
           errno = "OK" => ~Mutating(command) \/ InPlace(command)
    PROVE  Returned(command)
BY DEF Table!Return, Returned

LEMMA ProposeEffect ==
    ASSUME NEW command, NEW table, NEW what, Table!Propose(table, what),
           Mutating(command), ~InPlace(command)
    PROVE  Proposed(command)
BY DEF Table!Propose, Proposed, Table!Image

\* Every operation of the dispatcher does one or the other.
LEMMA PerformEffect ==
    ASSUME NEW command, Perform(command) PROVE Returned(command) \/ Proposed(command)
<1> USE ReturnEffect, ProposeEffect
<1>1. {"OK", "EINVAL", "ENOSPC"} \subseteq Table!Errno
  BY DEF Table!Errno
<1>2. CASE command.op = "malformed" /\ Table!Return("EINVAL")
  BY <1>1, <1>2
<1>3. CASE command.op = "read"
           /\ Table!Return(IF Table!ValidSlot(command.slot) THEN "OK" ELSE "EINVAL")
  BY <1>1, <1>3 DEF Mutating
<1>4. CASE command.op = "write" /\ Table!WriteOne(command.record)
  BY <1>1, <1>4 DEF Mutating, InPlace, Table!WriteOne
<1>5. CASE command.op = "clear" /\ Table!ClearOne(command.slot)
  BY <1>1, <1>5 DEF Mutating, InPlace, Table!ClearOne
<1>6. CASE command.op = "insert" /\ Table!InsertAt(command.slot, command.record)
  BY <1>1, <1>6 DEF Mutating, InPlace, Table!InsertAt
<1>7. CASE command.op = "remove" /\ Table!RemoveAt(command.slot)
  BY <1>1, <1>7 DEF Mutating, InPlace, Table!RemoveAt
<1>8. CASE command.op = "move" /\ Table!MoveBlock(command.from, command.to, command.len)
  BY <1>1, <1>8 DEF Mutating, InPlace, Table!MoveBlock
<1>9. CASE command.op = "qty" /\ Table!SetQty(command.slot, command.qty)
  BY <1>1, <1>9 DEF Mutating, InPlace, Table!SetQty
<1>10. CASE command.op = "reset" /\ Table!FactoryReset(command.magicOk)
  BY <1>1, <1>10 DEF Mutating, InPlace, Table!FactoryReset
<1> QED
  BY <1>2, <1>3, <1>4, <1>5, <1>6, <1>7, <1>8, <1>9, <1>10 DEF Perform

LEMMA PerformTable ==
    ASSUME TableInv, phase = "idle", NEW command, Perform(command)
    PROVE  TableInv' /\ Stored' = Stored
<1>1. UNCHANGED <<seq, flash, unread>> /\ result' \in Table!Errno
  BY PerformEffect DEF Returned, Proposed, Table!Errno
<1>2. Stored' = Stored
  BY <1>1 DEF Stored
<1>3. \/ phase' = phase
      \/ phase' = "saving" /\ next'.seq = Table!NextSeq(seq)
  BY PerformEffect DEF Returned, Proposed
<1> QED
  BY <1>1, <1>2, <1>3 DEF TableInv

\* A step of commit_table: the write may fail, and until RAM follows the new
\* number is in flash only.
LEMMA CommitTableFacts ==
    ASSUME TableInv, Table!Commit
    PROVE  /\ TableInv'
           /\ \/ phase = "saving" /\ phase' = "saved" /\ Stored' = Table!NextSeq(Stored)
                 /\ result' = result
              \/ phase = "saving" /\ phase' = "idle" /\ Stored' = Stored /\ result' # "OK"
              \/ phase = "saved" /\ phase' = "idle" /\ Stored' = Stored /\ result' = "OK"
<1>1. CASE Table!SaveDone
  <2>1. next.seq \in Seqs /\ next.seq = Table!NextSeq(Stored)
    BY <1>1, NextSeqFacts DEF TableInv, Table!SaveDone
  <2>2. Stored' = next.seq
    <3>1. flash' = [kind |-> "good", image |-> next] /\ unread' = FALSE
      BY <1>1 DEF Table!SaveDone, Table!Good
    <3>2. next.seq # 0
      BY <2>1 DEF Seqs
    <3> QED BY <3>1, <3>2 DEF Stored, Table!Restored, Table!Image
  <2>3. Table!Restored(flash)'.seq = next.seq
    BY <1>1, <2>2 DEF Stored, Table!SaveDone
  <2>4. phase' = "saved" /\ unread' = FALSE /\ UNCHANGED <<seq, next, result>>
    BY <1>1 DEF Table!SaveDone
  <2>5. TableInv'
    BY <1>1, <2>1, <2>2, <2>3, <2>4 DEF TableInv, Table!SaveDone
  <2> QED BY <1>1, <2>1, <2>2, <2>4, <2>5 DEF Table!SaveDone
<1>2. CASE Table!SaveFailed
  <2>1. Stored' = Stored
    BY <1>2 DEF Stored, Table!SaveFailed
  <2> QED BY <1>2, <2>1 DEF TableInv, Table!SaveFailed, Table!Errno
<1>3. CASE Table!CommitRam
  <2>1. Stored' = Stored
    BY <1>3 DEF Stored, Table!CommitRam
  <2>2. seq' = Stored
    BY <1>3 DEF TableInv, Table!CommitRam
  <2> QED BY <1>3, <2>1, <2>2 DEF TableInv, Table!CommitRam, Table!Errno
<1> QED
  BY <1>1, <1>2, <1>3 DEF Table!Commit

LEMMA BootFacts ==
    ASSUME TableInv, Table!Boot
    PROVE  /\ TableInv' /\ (unread' \/ Stored' = Stored)
           /\ phase \in {"off", "booting"} /\ phase' \in {"booting", "idle"}
<1>0. 1 \in Seqs
  BY ControlPointAssumption DEF Seqs
<1>1. CASE Table!BindingTableInit
  <2>1. Stored' = Stored
    BY <1>1 DEF Stored, Table!BindingTableInit
  <2> QED BY <1>0, <1>1, <2>1 DEF TableInv, Table!BindingTableInit
<1>2. CASE Table!SettingsSet
  <2>1. Stored' = Stored /\ Stored = Table!Restored(flash).seq
    BY <1>2 DEF Stored, Table!SettingsSet, TableInv
  <2> QED BY <1>2, <2>1 DEF TableInv, Table!SettingsSet
<1>3. CASE Table!ReadFailed
  <2>1. Stored' = 1 /\ unread'
    BY <1>3 DEF Stored, Table!ReadFailed
  <2> QED BY <1>0, <1>3, <2>1 DEF TableInv, Table!ReadFailed
<1> QED
  BY <1>1, <1>2, <1>3 DEF Table!Boot, Table!BindingTableInit, Table!SettingsSet, Table!ReadFailed

LEMMA CrashFacts ==
    ASSUME TableInv, Table!Crash
    PROVE  TableInv' /\ (~unread => Stored' = Stored) /\ phase' = "off"
<1>1. Stored' = Table!Restored(flash).seq
  BY DEF Stored, Table!Crash
<1>2. Stored' \in Seqs
  BY <1>1 DEF TableInv
<1> QED
  BY <1>1, <1>2, ControlPointAssumption DEF TableInv, Table!Crash, Seqs, Stored

LEMMA DamageFacts ==
    ASSUME TableInv, Table!FlashDamage PROVE TableInv' /\ phase = "off" /\ phase' = "off"
<1>1. Table!Restored(flash)'.seq = 1
  BY DEF Table!FlashDamage, Table!Restored, Table!Damaged, Table!NoImage, Table!Image
<1>2. Stored' = 1 /\ 1 \in Seqs
  BY <1>1, ControlPointAssumption DEF Stored, Seqs
<1> QED
  BY <1>1, <1>2 DEF TableInv, Table!FlashDamage

-----------------------------------------------------------------------------
(* The inductive invariant.                                                *)

Own == peer = "client"
Changing == Mutating(sent) /\ ~InPlace(sent)

\* An answer that may be given to the client's command now.
TrueAnswer(answer) == took = IF Changing /\ answer = "OK" THEN 1 ELSE 0

Types ==
    /\ link \in {"down", "up", "lost"} /\ peer \in Phone
    /\ {request, serving, sent} \subseteq Command \cup {NoCommand}
    /\ stage \in {"none", "operating", "informing"}
    /\ status \in Answer \cup {"none", "waiting", "unconfirmed"}
    /\ known \in 0..(SeqMod - 1) /\ fresh \in BOOLEAN /\ reconnected \in BOOLEAN
    /\ verdict \in {"none", "applied", "not applied"}
    /\ took \in 0..1 /\ before \in BOOLEAN /\ foreign \in 0..MaxForeign
    /\ restarted \in BOOLEAN

\* A command on its way: nothing was done, nothing was said.
RequestInv ==
    request # NoCommand =>
        /\ stage = "none" /\ link # "down" /\ air = <<>>
        /\ Own => request = sent /\ status = "waiting" /\ took = 0

\* The command being served, step by step through its flash write.
StageInv ==
    /\ link # "down" => phase \in {"idle", "saving", "saved"}
    /\ stage = "none" => phase \notin {"saving", "saved"}
    /\ stage # "none" => request = NoCommand /\ phase \in {"idle", "saving", "saved"}
    /\ stage = "operating" => air = <<>>
    /\ stage = "informing" => phase = "idle"

\* What it means to the client, when it is the client's.
OwnInv ==
    Own =>
        /\ stage # "none" => serving = sent
        /\ stage = "operating" =>
              /\ status = "waiting"
              /\ phase = "saving" => Changing /\ took = 0 /\ result = "OK"
              /\ phase = "saved" => Changing /\ took = 1
              /\ phase = "idle" => took = IF Changing /\ result = "OK" THEN 1 ELSE 0
        /\ stage = "informing" =>
              /\ Mutating(sent) /\ TrueAnswer("OK")
              /\ status = "waiting" \/ (status = "OK" /\ ~fresh)

StatusOf(answer) == [kind |-> "status", status |-> answer]
Info == [kind |-> "info", seq |-> Stored]

\* What may be on the air: the answer, Table Info, or both in this order.
AnswerOnAir ==
    \E answer \in Answer :
        /\ air = <<StatusOf(answer)>>
        /\ status = "waiting" /\ TrueAnswer(answer)
        /\ stage = "none" \/ (stage = "informing" /\ answer = "OK")
InfoOnAir ==
    /\ air = <<Info>> /\ stage = "none" /\ Mutating(sent)
    /\ status = "waiting" \/ (status = "OK" /\ ~fresh)
BothOnAir ==
    /\ air = <<StatusOf("OK"), Info>> /\ stage = "none" /\ Mutating(sent)
    /\ status = "waiting" /\ TrueAnswer("OK")
AirInv ==
    air = <<>> \/ (link = "up" /\ Own /\ (AnswerOnAir \/ InfoOnAir \/ BothOnAir))

\* A change by another phone that is still to come is within the bound.
ForeignInv ==
    ~Own /\ status = "waiting" =>
        /\ request # NoCommand => foreign < MaxForeign
        /\ stage = "operating" /\ phase = "saving" => foreign < MaxForeign

\* What the client knows of table_seq: the number before its command while it
\* waits, the present one otherwise, unless it missed a confirmation; and it sends
\* again only what changed nothing.
SeqInv ==
    /\ status = "waiting" =>
          /\ known \in Seqs /\ verdict = "none"
          /\ ~restarted => Stored = Ahead(known, took + foreign)
    /\ link = "up" /\ fresh =>
          Own /\ Stored = IF status = "waiting" THEN Ahead(known, took) ELSE known
    /\ status \in Answer => TrueAnswer(status)
    /\ Careful /\ ~restarted => ~before

IInv ==
    /\ TableInv /\ Types /\ RequestInv /\ StageInv /\ OwnInv /\ AirInv /\ ForeignInv
    /\ SeqInv /\ SeqSettlesUnconfirmed

-----------------------------------------------------------------------------
(* Short sequences of notifications.                                       *)

LEMMA AppendToOne ==
    ASSUME NEW S, NEW s \in Seq(S), NEW e \in S, Len(s) = 1
    PROVE  /\ Append(s, e) \in Seq(S) /\ Len(Append(s, e)) = 2
           /\ Append(s, e)[1] = s[1] /\ Append(s, e)[2] = e
<1>1. Append(s, e) \in Seq(S)
  OBVIOUS
<1>2. Len(Append(s, e)) = Len(s) + 1
  OBVIOUS
<1>3. Append(s, e)[1] = s[1]
  OBVIOUS
<1>4. Append(s, e)[Len(s) + 1] = e
  BY AppendProperties
<1> QED
  BY <1>1, <1>2, <1>3, <1>4

LEMMA AirFacts ==
    /\ \A m : Append(<<>>, m) = <<m>>
    /\ \A m, n : Append(<<m>>, n) = <<m, n>>
    /\ \A m : Head(<<m>>) = m /\ Tail(<<m>>) = <<>>
    /\ \A m, n : Head(<<m, n>>) = m /\ Tail(<<m, n>>) = <<n>>
    /\ \A m : <<m>> # <<>>
    /\ \A m, n : <<m, n>> # <<>>
<1>1. ASSUME NEW m PROVE Append(<<>>, m) = <<m>>
  OBVIOUS
<1>2. ASSUME NEW m, NEW n PROVE Append(<<m>>, n) = <<m, n>>
  <2> DEFINE S == {m, n}
             one == <<m>>
             both == Append(one, n)
  <2>1. n \in S /\ one \in Seq(S) /\ Len(one) = 1 /\ one[1] = m
    OBVIOUS
  <2> HIDE DEF S, one
  <2>2. both \in Seq(S) /\ Len(both) = 2 /\ both[1] = m /\ both[2] = n
    BY <2>1, AppendToOne
  <2> HIDE DEF both
  <2>3. both = <<m, n>>
    BY <2>2
  <2> QED BY <2>3 DEF both, one
<1>3. ASSUME NEW m PROVE Head(<<m>>) = m /\ Tail(<<m>>) = <<>>
  OBVIOUS
<1>4. ASSUME NEW m, NEW n PROVE Head(<<m, n>>) = m /\ Tail(<<m, n>>) = <<n>>
  OBVIOUS
<1>5. ASSUME NEW m, NEW n PROVE <<m>> # <<>> /\ <<m, n>> # <<>>
  OBVIOUS
<1> QED
  BY <1>1, <1>2, <1>3, <1>4, <1>5

\* A message is what it says.
LEMMA MessageFacts ==
    /\ \A answer : StatusOf(answer).kind = "status" /\ StatusOf(answer).status = answer
    /\ Info.kind = "info" /\ Info.seq = Stored
BY DEF StatusOf, Info

\* Nothing is known at first.
LEMMA InitInv == Init => IInv
<1> SUFFICES ASSUME Init PROVE IInv
  OBVIOUS
<1>1. Stored = 1 /\ Table!Restored(flash).seq = 1
  BY DEF Init, Table!Init, Stored, Table!Restored, Table!Absent, Table!NoImage, Table!Image
<1>2. TableInv
  BY <1>1, ControlPointAssumption DEF Init, Table!Init, TableInv, Seqs, Table!Errno
<1>3. Types
  <2>1. known \in 0..(SeqMod - 1) /\ foreign \in 0..MaxForeign /\ took \in 0..1
    BY ControlPointAssumption DEF Init
  <2> QED BY <2>1 DEF Init, Types, Phone
<1>4. RequestInv /\ StageInv /\ OwnInv /\ AirInv /\ ForeignInv
  BY DEF Init, Table!Init, RequestInv, StageInv, OwnInv, AirInv, ForeignInv
<1>5. SeqInv /\ SeqSettlesUnconfirmed
  BY DEF Init, SeqInv, SeqSettlesUnconfirmed, Answer
<1> QED
  BY <1>2, <1>3, <1>4, <1>5 DEF IInv

\* A step that leaves the table alone.
LEMMA TableUnchanged ==
    ASSUME TableInv, UNCHANGED tableVars
    PROVE  TableInv' /\ Stored' = Stored /\ phase' = phase /\ result' = result
<1>1. Stored' = Stored /\ Table!Restored(flash)' = Table!Restored(flash)
  BY DEF tableVars, Stored
<1> QED
  BY <1>1 DEF tableVars, TableInv

\* A truth about the answer lasts until the next command.
LEMMA AnswerStays ==
    ASSUME UNCHANGED <<sent, took>> PROVE \A a : TrueAnswer(a)' <=> TrueAnswer(a)
BY DEF TrueAnswer, Changing

\* What is known of table_seq lasts while neither side of it moves.
LEMMA SeqStays ==
    ASSUME SeqInv, SeqSettlesUnconfirmed, Stored' = Stored,
           link' = "up" => link = "up" /\ peer' = peer, fresh' => fresh,
           UNCHANGED <<sent, status, known, verdict, took, before, foreign, restarted>>
    PROVE  SeqInv' /\ SeqSettlesUnconfirmed'
<1>1. SeqInv'
  BY AnswerStays DEF SeqInv, Own
<1> QED
  BY <1>1 DEF SeqSettlesUnconfirmed

LEMMA SeqsKnown == Seqs \subseteq 0..(SeqMod - 1)
BY ControlPointAssumption DEF Seqs

-----------------------------------------------------------------------------
(* The steps of the device.                                                *)

LEMMA WriteStep == ASSUME IInv, BindingCpWrite PROVE IInv'
<1> USE DEF IInv
<1>1. /\ request # NoCommand /\ stage = "none" /\ phase = "idle" /\ Perform(request)
      /\ serving' = request /\ request' = NoCommand /\ stage' = "operating"
      /\ UNCHANGED <<link, peer, air, sent, status, known, fresh, reconnected, verdict>>
      /\ UNCHANGED <<took, before, foreign, restarted>>
  BY DEF BindingCpWrite, clientVars, historyVars, linkVars
<1>2. /\ link # "down" /\ air = <<>>
      /\ Own => request = sent /\ status = "waiting" /\ took = 0
  BY <1>1 DEF RequestInv
<1>3. \/ phase' = "idle" /\ result' \in Table!Errno
            /\ (result' = "OK" => ~Mutating(request) \/ InPlace(request))
      \/ phase' = "saving" /\ Mutating(request) /\ ~InPlace(request) /\ result' = "OK"
  BY <1>1, PerformEffect DEF Returned, Proposed
<1>4. TableInv' /\ Stored' = Stored
  BY <1>1, PerformTable
<1>5. Types'
  BY <1>1 DEF Types
<1>6. RequestInv' /\ AirInv'
  BY <1>1, <1>2 DEF RequestInv, AirInv
<1>7. StageInv'
  BY <1>1, <1>2, <1>3 DEF StageInv
<1>8. OwnInv'
  <2>1. Changing' = Changing /\ Own' = Own
    BY <1>1 DEF Changing, Own
  <2> QED BY <1>1, <1>2, <1>3, <2>1 DEF OwnInv, Changing
<1>9. ForeignInv'
  BY <1>1 DEF ForeignInv, Own
<1>10. SeqInv' /\ SeqSettlesUnconfirmed'
  BY <1>1, <1>4, SeqStays
<1> QED
  BY <1>4, <1>5, <1>6, <1>7, <1>8, <1>9, <1>10

\* A change of the stored table counts as the client's or as another phone's.
LEMMA CommitStep == ASSUME IInv, CommitTable PROVE IInv'
<1> USE DEF IInv
<1> DEFINE change == IF phase' = "saved" THEN 1 ELSE 0
<1>1. /\ stage = "operating"
      /\ UNCHANGED <<request, serving, stage, link, peer, air, sent, status, known, fresh>>
      /\ UNCHANGED <<reconnected, verdict, before, restarted>>
  BY DEF CommitTable, deviceVars, clientVars, linkVars
<1>2. /\ Own => took' = took + change /\ foreign' = foreign
      /\ ~Own => /\ foreign' = IF status = "waiting" THEN foreign + change ELSE foreign
                 /\ took' = took
  BY DEF CommitTable, Own
<1>3. /\ TableInv'
      /\ \/ phase = "saving" /\ phase' = "saved" /\ Stored' = Table!NextSeq(Stored)
            /\ result' = result
         \/ phase = "saving" /\ phase' = "idle" /\ Stored' = Stored /\ result' # "OK"
         \/ phase = "saved" /\ phase' = "idle" /\ Stored' = Stored /\ result' = "OK"
  BY CommitTableFacts DEF CommitTable
<1>4. /\ air = <<>> /\ request = NoCommand
      /\ Own => /\ status = "waiting" /\ serving = sent /\ Changing
                /\ phase = "saving" => took = 0 /\ result = "OK"
                /\ phase = "saved" => took = 1
  BY <1>1, <1>3 DEF StageInv, OwnInv
<1>5. Changing' = Changing /\ Own' = Own
  BY <1>1 DEF Changing, Own
<1>6. took \in 0..1 /\ foreign \in 0..MaxForeign
  BY DEF Types
<1>7. /\ took' \in 0..1 /\ foreign' \in 0..MaxForeign
      /\ change = 1 /\ Own => took = 0 /\ took' = 1 /\ foreign' = foreign
      /\ change = 1 /\ ~Own /\ status = "waiting" =>
            took' = took /\ foreign' = foreign + 1 /\ foreign < MaxForeign
      /\ change = 0 \/ (~Own /\ status # "waiting") => took' = took /\ foreign' = foreign
  <2>1. CASE Own
    BY <1>2, <1>3, <1>4, <1>6, <2>1
  <2>2. CASE ~Own
    <3>1. change = 1 /\ status = "waiting" => foreign < MaxForeign
      BY <1>1, <1>3, <2>2 DEF ForeignInv
    <3> QED BY <1>2, <1>6, <2>2, <3>1, ControlPointAssumption
  <2> QED BY <2>1, <2>2
<1>8. Stored' = IF change = 1 THEN Table!NextSeq(Stored) ELSE Stored
  BY <1>3
<1> HIDE DEF change
<1>9. Types'
  BY <1>1, <1>7 DEF Types
<1>10. RequestInv' /\ AirInv'
  BY <1>1, <1>4 DEF RequestInv, AirInv
<1>11. StageInv'
  BY <1>1, <1>3, <1>4 DEF StageInv
<1>12. OwnInv'
  <2>1. Own => /\ phase' = "saved" => took' = 1
               /\ phase' = "idle" => took' = IF result' = "OK" THEN 1 ELSE 0
    BY <1>2, <1>3, <1>4 DEF change
  <2> QED BY <1>1, <1>3, <1>4, <1>5, <2>1 DEF OwnInv
<1>13. ForeignInv'
  BY <1>1, <1>3, <1>4, <1>5 DEF ForeignInv
<1>14. SeqInv'
  <2>1. status = "waiting" /\ ~restarted => Stored' = Ahead(known, took' + foreign')
    <3> SUFFICES ASSUME status = "waiting", ~restarted
                 PROVE  Stored' = Ahead(known, took' + foreign')
      OBVIOUS
    <3>1. known \in Seqs /\ Stored = Ahead(known, took + foreign)
      BY DEF SeqInv
    <3>2. CASE change = 1
      <4>1. took' + foreign' = (took + foreign) + 1 /\ took + foreign \in 0..MaxForeign
        <5>1. CASE Own
          <6>1. took = 0 /\ took' = 1 /\ foreign' = foreign
            BY <1>7, <3>2, <5>1
          <6> QED BY <1>6, <6>1, ControlPointAssumption
        <5>2. CASE ~Own
          <6>1. took' = took /\ foreign' = foreign + 1 /\ foreign < MaxForeign
            BY <1>7, <3>2, <5>2
          <6> QED BY <1>6, <6>1, ControlPointAssumption
        <5> QED BY <5>1, <5>2
      <4> QED BY <1>8, <3>1, <3>2, <4>1, AheadFacts
    <3>3. CASE change = 0
      BY <1>7, <1>8, <3>1, <3>3
    <3> QED BY <3>2, <3>3 DEF change
  <2>2. link = "up" /\ fresh => Own /\ Stored' = Ahead(known, took')
    <3> SUFFICES ASSUME link = "up", fresh PROVE Own /\ Stored' = Ahead(known, took')
      OBVIOUS
    <3>1. Own /\ status = "waiting" /\ known \in Seqs /\ Stored = Ahead(known, took)
      BY <1>4 DEF SeqInv
    <3>2. 0 \in 0..MaxForeign
      BY ControlPointAssumption
    <3>3. CASE change = 1
      BY <1>7, <1>8, <3>1, <3>2, <3>3, AheadFacts
    <3>4. CASE change = 0
      BY <1>7, <1>8, <3>1, <3>4
    <3> QED BY <3>3, <3>4 DEF change
  <2>3. status \in Answer => took' = took
    BY <1>4, <1>7 DEF Answer, change
  <2> QED
    BY <1>1, <1>4, <1>5, <2>1, <2>2, <2>3 DEF SeqInv, TrueAnswer, Answer
<1>15. SeqSettlesUnconfirmed'
  <2>1. verdict # "none" => took' = took /\ foreign' = foreign
    BY <1>4, <1>7 DEF SeqInv, change
  <2> QED BY <1>1, <2>1 DEF SeqSettlesUnconfirmed
<1> QED
  BY <1>3, <1>9, <1>10, <1>11, <1>12, <1>13, <1>14, <1>15

\* The answer the operation returned is true.
LEMMA AnswerFacts ==
    ASSUME IInv, Own, stage = "operating", phase = "idle"
    PROVE  TrueAnswer(StatusFromErrno(result))
<1>1. result \in Table!Errno
  BY DEF IInv, TableInv
<1>2. took = IF Changing /\ result = "OK" THEN 1 ELSE 0
  BY DEF IInv, OwnInv
<1> QED
  BY <1>1, <1>2, StatusFacts DEF TrueAnswer, Changing

LEMMA NotifyStep == ASSUME IInv, NotifyBinding PROVE IInv'
<1> USE DEF IInv
<1>1. /\ stage = "operating" /\ phase = "idle" /\ Notify(StatusMessage) /\ AfterStatus
      /\ UNCHANGED <<request, link, peer, sent, status, known, fresh, reconnected, verdict>>
      /\ UNCHANGED <<took, before, foreign, restarted>> /\ UNCHANGED tableVars
  BY DEF NotifyBinding, clientVars, linkVars, historyVars
<1>2. TableInv' /\ Stored' = Stored /\ phase' = phase /\ result' = result
  BY <1>1, TableUnchanged
<1>3. /\ air = <<>> /\ request = NoCommand
      /\ Own => status = "waiting" /\ serving = sent
  BY <1>1 DEF StageInv, OwnInv
<1> DEFINE answer == StatusFromErrno(result)
<1>4. answer \in Answer /\ (answer = "OK" <=> result = "OK") /\ (Own => TrueAnswer(answer))
  BY <1>1, StatusFacts, AnswerFacts DEF TableInv
<1>5. \/ stage' = "informing" /\ serving' = serving /\ result = "OK" /\ Mutating(serving)
      \/ stage' = "none" /\ serving' = NoCommand
  BY <1>1 DEF AfterStatus
<1>6. air' = <<>> \/ (link = "up" /\ Own /\ air' = <<StatusOf(answer)>>)
  <2>1. StatusMessage = StatusOf(answer)
    BY DEF StatusMessage, StatusOf
  <2> QED BY <1>1, <1>3, <2>1, AirFacts DEF Notify, Own
<1> HIDE DEF answer
<1>7. Types'
  BY <1>1, <1>5 DEF Types
<1>8. RequestInv' /\ ForeignInv'
  BY <1>1, <1>3, <1>5 DEF RequestInv, ForeignInv, Own
<1>9. (\A a : TrueAnswer(a)' <=> TrueAnswer(a)) /\ Changing' = Changing /\ Own' = Own
  BY <1>1 DEF TrueAnswer, Changing, Own
<1>10. StageInv'
  BY <1>1, <1>2, <1>3, <1>5 DEF StageInv
<1>11. OwnInv'
  <2>1. Own /\ stage' = "informing" => TrueAnswer("OK") /\ Mutating(sent)
    BY <1>3, <1>4, <1>5
  <2> QED BY <1>1, <1>3, <1>5, <1>9, <2>1 DEF OwnInv
<1>12. AirInv'
  <2>1. CASE link = "up" /\ Own /\ air' = <<StatusOf(answer)>>
    <3>1. AnswerOnAir'
      BY <1>1, <1>3, <1>4, <1>5, <1>9, <2>1 DEF AnswerOnAir
    <3> QED BY <1>1, <1>9, <2>1, <3>1 DEF AirInv
  <2>2. CASE air' = <<>>
    BY <2>2 DEF AirInv
  <2> QED BY <1>6, <2>1, <2>2
<1>13. SeqInv' /\ SeqSettlesUnconfirmed'
  BY <1>1, <1>2, SeqStays
<1> QED
  BY <1>2, <1>7, <1>8, <1>10, <1>11, <1>12, <1>13

LEMMA InformStep == ASSUME IInv, NotifyTableInfo PROVE IInv'
<1> USE DEF IInv
<1>1. /\ stage = "informing" /\ stage' = "none" /\ serving' = NoCommand /\ Notify(InfoMessage)
      /\ UNCHANGED <<request, link, peer, sent, status, known, fresh, reconnected, verdict>>
      /\ UNCHANGED <<took, before, foreign, restarted>> /\ UNCHANGED tableVars
  BY DEF NotifyTableInfo, clientVars, linkVars, historyVars
<1>2. TableInv' /\ Stored' = Stored /\ phase' = phase /\ result' = result
  BY <1>1, TableUnchanged
<1>3. /\ request = NoCommand /\ phase = "idle"
      /\ Own => /\ Mutating(sent) /\ TrueAnswer("OK")
                /\ status = "waiting" \/ (status = "OK" /\ ~fresh)
  BY <1>1 DEF StageInv, OwnInv
<1>4. InfoMessage = Info
  BY <1>3 DEF InfoMessage, Info, TableInv
<1>5. air' = air \/ (link = "up" /\ Own /\ air' = Append(air, Info))
  BY <1>1, <1>4 DEF Notify, Own
<1>6. (\A a : TrueAnswer(a)' <=> TrueAnswer(a)) /\ Own' = Own
  BY <1>1 DEF TrueAnswer, Changing, Own
<1>7. Info' = Info
  BY <1>2 DEF Info
<1>8. \/ air = <<>>
      \/ air = <<StatusOf("OK")>> /\ status = "waiting" /\ link = "up" /\ Own
  BY <1>1 DEF AirInv, AnswerOnAir, InfoOnAir, BothOnAir
<1>9. AirInv'
  <2>1. CASE air' = air
    <3>1. CASE air = <<>>
      BY <2>1, <3>1 DEF AirInv
    <3>2. CASE air = <<StatusOf("OK")>> /\ status = "waiting" /\ link = "up" /\ Own
      <4>1. AnswerOnAir'
        BY <1>1, <1>3, <1>6, <2>1, <3>2 DEF AnswerOnAir, Answer
      <4> QED BY <1>1, <1>6, <3>2, <4>1 DEF AirInv
    <3> QED BY <1>8, <3>1, <3>2
  <2>2. CASE link = "up" /\ Own /\ air' = Append(air, Info)
    <3>1. CASE air = <<>>
      <4>1. air' = <<Info'>>
        BY <1>7, <2>2, <3>1, AirFacts
      <4>2. InfoOnAir'
        BY <1>1, <1>3, <2>2, <4>1 DEF InfoOnAir
      <4> QED BY <1>1, <1>6, <2>2, <4>2 DEF AirInv
    <3>2. CASE air = <<StatusOf("OK")>> /\ status = "waiting" /\ link = "up" /\ Own
      <4>1. air' = <<StatusOf("OK"), Info'>>
        BY <1>7, <2>2, <3>2, AirFacts
      <4>2. BothOnAir'
        BY <1>1, <1>3, <1>6, <3>2, <4>1 DEF BothOnAir
      <4> QED BY <1>1, <1>6, <2>2, <4>2 DEF AirInv
    <3> QED BY <1>8, <3>1, <3>2
  <2> QED BY <1>5, <2>1, <2>2
<1>10. Types' /\ RequestInv' /\ ForeignInv'
  BY <1>1, <1>3 DEF Types, RequestInv, ForeignInv, Own
<1>11. StageInv' /\ OwnInv'
  BY <1>1, <1>2, <1>3 DEF StageInv, OwnInv
<1>12. SeqInv' /\ SeqSettlesUnconfirmed'
  BY <1>1, <1>2, SeqStays
<1> QED
  BY <1>2, <1>9, <1>10, <1>11, <1>12

-----------------------------------------------------------------------------
(* The steps of the link, of the power and of the flash.                   *)

LEMMA DisconnectedStep == ASSUME IInv, Disconnected PROVE IInv'
<1> USE DEF IInv
<1>1. /\ link = "lost" /\ link' = "down" /\ request' = NoCommand
      /\ UNCHANGED <<serving, stage, peer, air, sent, status, known, fresh, reconnected>>
      /\ UNCHANGED <<verdict, took, before, foreign, restarted>> /\ UNCHANGED tableVars
  BY DEF Disconnected, clientVars, historyVars
<1>2. TableInv' /\ Stored' = Stored /\ phase' = phase /\ result' = result
  BY <1>1, TableUnchanged
<1>3. air = <<>> /\ (stage # "none" => request = NoCommand)
  BY <1>1 DEF AirInv, StageInv
<1>4. Types' /\ RequestInv' /\ AirInv' /\ ForeignInv'
  BY <1>1, <1>2, <1>3 DEF Types, RequestInv, AirInv, ForeignInv, Own
<1>5. StageInv'
  BY <1>1, <1>2, <1>3 DEF StageInv
<1>6. OwnInv'
  <2>1. Changing' = Changing /\ Own' = Own /\ (TrueAnswer("OK")' <=> TrueAnswer("OK"))
    BY <1>1, AnswerStays DEF Changing, Own
  <2> QED BY <1>1, <1>2, <2>1 DEF OwnInv
<1>7. SeqInv' /\ SeqSettlesUnconfirmed'
  BY <1>1, <1>2, SeqStays
<1> QED
  BY <1>2, <1>4, <1>5, <1>6, <1>7

\* Where the device is off or booting, no command is under way and nobody is there.
LEMMA Offline ==
    ASSUME IInv, phase \in {"off", "booting"}
    PROVE  link = "down" /\ stage = "none" /\ request = NoCommand /\ air = <<>>
BY DEF IInv, StageInv, RequestInv, AirInv

\* With the link down and no command under way, only table_seq matters.
LEMMA OfflineInv ==
    ASSUME Types', TableInv', SeqInv', SeqSettlesUnconfirmed', link' = "down",
           stage' = "none", request' = NoCommand, air' = <<>>,
           phase' \in {"off", "booting", "idle"}
    PROVE  IInv'
BY DEF IInv, RequestInv, StageInv, OwnInv, AirInv, ForeignInv

\* A step that may move table_seq, if it says so.
LEMMA SeqRestarts ==
    ASSUME SeqInv, SeqSettlesUnconfirmed, Stored' = Stored \/ restarted', link' = "down",
           restarted => restarted', restarted \in BOOLEAN,
           UNCHANGED <<sent, status, known, verdict, took, before, foreign>>
    PROVE  SeqInv' /\ SeqSettlesUnconfirmed'
<1>1. SeqInv'
  BY AnswerStays DEF SeqInv
<1> QED
  BY <1>1 DEF SeqSettlesUnconfirmed

LEMMA BootStep == ASSUME IInv, Boot PROVE IInv'
<1> USE DEF IInv
<1>1. /\ UNCHANGED <<request, serving, stage, link, peer, air, sent, status, known, fresh>>
      /\ UNCHANGED <<reconnected, verdict, took, before, foreign>>
      /\ restarted' = (restarted \/ unread') /\ Table!Boot
  BY DEF Boot, deviceVars, clientVars, linkVars
<1>2. /\ TableInv' /\ (unread' \/ Stored' = Stored)
      /\ phase \in {"off", "booting"} /\ phase' \in {"booting", "idle"}
  BY <1>1, BootFacts
<1>3. link = "down" /\ stage = "none" /\ request = NoCommand /\ air = <<>>
  BY <1>2, Offline
<1>4. restarted' \in BOOLEAN /\ (restarted => restarted') /\ (Stored' = Stored \/ restarted')
  BY <1>1, <1>2 DEF Types
<1>5. Types'
  BY <1>1, <1>4 DEF Types
<1>6. SeqInv' /\ SeqSettlesUnconfirmed'
  BY <1>1, <1>3, <1>4, SeqRestarts DEF Types
<1> QED
  BY <1>1, <1>2, <1>3, <1>5, <1>6, OfflineInv

LEMMA CrashStep == ASSUME IInv, Crash PROVE IInv'
<1> USE DEF IInv
<1>1. /\ link' = "down" /\ air' = <<>>
      /\ request' = NoCommand /\ serving' = NoCommand /\ stage' = "none"
      /\ UNCHANGED <<peer, sent, status, known, fresh, reconnected, verdict, took, before, foreign>>
      /\ restarted' = (restarted \/ unread) /\ Table!Crash
  BY DEF Crash, clientVars
<1>2. TableInv' /\ (~unread => Stored' = Stored) /\ phase' = "off"
  BY <1>1, CrashFacts
<1>3. restarted' \in BOOLEAN /\ (restarted => restarted') /\ (Stored' = Stored \/ restarted')
  BY <1>1, <1>2 DEF Types
<1>4. Types'
  BY <1>1, <1>3 DEF Types
<1>5. SeqInv' /\ SeqSettlesUnconfirmed'
  BY <1>1, <1>3, SeqRestarts DEF Types
<1> QED
  BY <1>1, <1>2, <1>4, <1>5, OfflineInv

LEMMA DamageStep == ASSUME IInv, FlashDamage PROVE IInv'
<1> USE DEF IInv
<1>1. /\ UNCHANGED <<request, serving, stage, link, peer, air, sent, status, known, fresh>>
      /\ UNCHANGED <<reconnected, verdict, took, before, foreign>>
      /\ restarted' = TRUE /\ Table!FlashDamage
  BY DEF FlashDamage, deviceVars, clientVars, linkVars
<1>2. TableInv' /\ phase = "off" /\ phase' = "off"
  BY <1>1, DamageFacts
<1>3. link = "down" /\ stage = "none" /\ request = NoCommand /\ air = <<>>
  BY <1>2, Offline
<1>4. Types'
  BY <1>1 DEF Types
<1>5. SeqInv' /\ SeqSettlesUnconfirmed'
  BY <1>1, <1>3, SeqRestarts DEF Types
<1> QED
  BY <1>1, <1>2, <1>3, <1>4, <1>5, OfflineInv

LEMMA LinkLostStep == ASSUME IInv, LinkLost PROVE IInv'
<1> USE DEF IInv
<1>1. /\ link = "up" /\ link' = "lost" /\ air' = <<>>
      /\ UNCHANGED <<request, serving, stage, peer, sent, status, known, fresh, reconnected>>
      /\ UNCHANGED <<verdict, took, before, foreign, restarted>> /\ UNCHANGED tableVars
  BY DEF LinkLost, deviceVars, clientVars, historyVars
<1>2. TableInv' /\ Stored' = Stored /\ phase' = phase /\ result' = result
  BY <1>1, TableUnchanged
<1>3. Types' /\ RequestInv' /\ AirInv' /\ ForeignInv'
  BY <1>1, <1>2 DEF Types, RequestInv, AirInv, ForeignInv, Own
<1>4. StageInv'
  BY <1>1, <1>2 DEF StageInv
<1>5. OwnInv'
  <2>1. Changing' = Changing /\ Own' = Own /\ (TrueAnswer("OK")' <=> TrueAnswer("OK"))
    BY <1>1, AnswerStays DEF Changing, Own
  <2> QED BY <1>1, <1>2, <2>1 DEF OwnInv
<1>6. SeqInv' /\ SeqSettlesUnconfirmed'
  BY <1>1, <1>2, SeqStays
<1> QED
  BY <1>2, <1>3, <1>4, <1>5, <1>6

\* Whoever connects has told nothing and knows nothing yet.
LEMMA ConnectStep ==
    ASSUME IInv, NEW phone \in Phone, Connect(phone) PROVE IInv'
<1> USE DEF IInv
<1>1. /\ link = "down" /\ phase = "idle" /\ stage = "none"
      /\ link' = "up" /\ peer' = phone /\ fresh' = FALSE /\ reconnected' = TRUE
      /\ UNCHANGED <<request, serving, stage, air, sent, status, known, verdict>>
      /\ UNCHANGED <<took, before, foreign, restarted>> /\ UNCHANGED tableVars
  BY DEF Connect, deviceVars, historyVars
<1>2. TableInv' /\ Stored' = Stored /\ phase' = phase /\ result' = result
  BY <1>1, TableUnchanged
<1>3. request = NoCommand /\ air = <<>>
  BY <1>1 DEF RequestInv, AirInv
<1>4. Types'
  BY <1>1 DEF Types
<1>5. RequestInv' /\ StageInv' /\ OwnInv' /\ AirInv' /\ ForeignInv'
  BY <1>1, <1>2, <1>3 DEF RequestInv, StageInv, OwnInv, AirInv, ForeignInv
<1>6. SeqInv' /\ SeqSettlesUnconfirmed'
  BY <1>1, <1>2, AnswerStays DEF SeqInv, SeqSettlesUnconfirmed
<1> QED
  BY <1>2, <1>4, <1>5, <1>6

-----------------------------------------------------------------------------
(* The steps of the client and of the other phones.                        *)

\* Nothing is under way when a phone sends a command.
LEMMA WriteFacts ==
    ASSUME IInv, NEW phone, MayWrite(phone), status # "waiting" \/ phone = "other", fresh \/ phone = "other"
    PROVE  /\ link = "up" /\ peer = phone /\ stage = "none" /\ phase = "idle" /\ air = <<>>
<1>1. link = "up" /\ peer = phone /\ stage = "none"
  BY DEF MayWrite
<1>2. phase = "idle"
  BY <1>1 DEF IInv, StageInv
<1>3. air = <<>>
  BY <1>1 DEF IInv, AirInv, Own, AnswerOnAir, InfoOnAir, BothOnAir
<1> QED
  BY <1>1, <1>2, <1>3

\* The client sends a command, for the first time or again.
LEMMA SendingInv ==
    ASSUME IInv, link = "up", peer = "client", fresh, status # "waiting", stage = "none",
           phase = "idle", air = <<>>, UNCHANGED tableVars, Types',
           UNCHANGED <<serving, stage, link, peer, air, known, fresh>>,
           request' = sent', status' = "waiting", verdict' = "none",
           took' = 0, foreign' = 0, Careful /\ ~restarted' => ~before'
    PROVE  IInv'
<1> USE DEF IInv
<1>1. TableInv' /\ Stored' = Stored /\ phase' = phase /\ result' = result
  BY TableUnchanged
<1>2. known = Stored /\ known \in Seqs
  BY DEF SeqInv, TableInv
<1>3. RequestInv' /\ StageInv' /\ OwnInv' /\ AirInv' /\ ForeignInv'
  BY <1>1 DEF RequestInv, StageInv, OwnInv, AirInv, ForeignInv, Own
<1>4. SeqInv'
  <2>1. Stored' = Ahead(known', took' + foreign') /\ Stored' = Ahead(known', took')
    BY <1>1, <1>2, AheadFacts
  <2> QED BY <1>2, <2>1 DEF SeqInv, Answer, Own
<1>5. SeqSettlesUnconfirmed'
  BY DEF SeqSettlesUnconfirmed
<1> QED
  BY <1>1, <1>3, <1>4, <1>5

LEMMA SendStep ==
    ASSUME IInv, NEW command \in ClientCommand, SendCommand(command) PROVE IInv'
<1>1. /\ MayWrite("client") /\ fresh /\ status # "waiting"
      /\ request' = command /\ sent' = command
      /\ status' = "waiting" /\ reconnected' = FALSE /\ verdict' = "none"
      /\ took' = 0 /\ before' = FALSE /\ foreign' = 0 /\ restarted' = FALSE
      /\ UNCHANGED <<serving, stage, link, peer, air, known, fresh>> /\ UNCHANGED tableVars
  BY DEF SendCommand, linkVars
<1>2. link = "up" /\ peer = "client" /\ stage = "none" /\ phase = "idle" /\ air = <<>>
  BY <1>1, WriteFacts
<1>3. Types'
  <2>1. command \in Command /\ 0 \in 0..1 /\ 0 \in 0..MaxForeign
    BY CommandAssumption, ControlPointAssumption
  <2> QED BY <1>1, <2>1 DEF IInv, Types
<1> QED
  BY <1>1, <1>2, <1>3, SendingInv

\* A careful client sends again only what had changed nothing.
LEMMA ResendStep == ASSUME IInv, Resend PROVE IInv'
<1>1. /\ MayWrite("client") /\ fresh /\ status = "unconfirmed"
      /\ Careful => verdict = "not applied"
      /\ request' = sent /\ status' = "waiting" /\ reconnected' = FALSE /\ verdict' = "none"
      /\ before' = (before \/ took = 1) /\ took' = 0 /\ foreign' = 0
      /\ UNCHANGED <<serving, stage, link, peer, air, sent, known, fresh, restarted>>
      /\ UNCHANGED tableVars
  BY DEF Resend, linkVars
<1>2. link = "up" /\ peer = "client" /\ stage = "none" /\ phase = "idle" /\ air = <<>>
  BY <1>1, WriteFacts
<1>3. Types'
  <2>1. 0 \in 0..1 /\ 0 \in 0..MaxForeign
    BY ControlPointAssumption
  <2> QED BY <1>1, <2>1 DEF IInv, Types
<1>4. Careful /\ ~restarted' => ~before'
  <2> SUFFICES ASSUME Careful, ~restarted PROVE ~before /\ took # 1
    BY <1>1
  <2>1. ~before
    BY DEF IInv, SeqInv
  <2>2. took = 0
    BY <1>1 DEF IInv, SeqSettlesUnconfirmed
  <2> QED BY <2>1, <2>2
<1> QED
  BY <1>1, <1>2, <1>3, <1>4, SendingInv

LEMMA SendOtherStep ==
    ASSUME IInv, NEW command \in OtherCommand, SendOther(command) PROVE IInv'
<1> USE DEF IInv
<1>1. /\ MayWrite("other") /\ (status = "waiting" => foreign < MaxForeign)
      /\ request' = command
      /\ UNCHANGED <<serving, stage, link, peer, air, sent, status, known, fresh, reconnected>>
      /\ UNCHANGED <<verdict, took, before, foreign, restarted>> /\ UNCHANGED tableVars
  BY DEF SendOther, linkVars, clientVars, historyVars
<1>2. link = "up" /\ peer = "other" /\ stage = "none" /\ phase = "idle" /\ air = <<>>
  BY <1>1, WriteFacts
<1>3. TableInv' /\ Stored' = Stored /\ phase' = phase /\ result' = result
  BY <1>1, TableUnchanged
<1>4. Types'
  <2>1. command \in Command
    BY CommandAssumption
  <2> QED BY <1>1, <2>1 DEF Types
<1>5. RequestInv' /\ StageInv' /\ OwnInv' /\ AirInv' /\ ForeignInv'
  BY <1>1, <1>2, <1>3 DEF RequestInv, StageInv, OwnInv, AirInv, ForeignInv, Own
<1>6. SeqInv' /\ SeqSettlesUnconfirmed'
  BY <1>1, <1>3, SeqStays
<1> QED
  BY <1>3, <1>4, <1>5, <1>6

LEMMA ReceiveStatusStep == ASSUME IInv, ReceiveStatus PROVE IInv'
<1> USE DEF IInv
<1>1. /\ air # <<>> /\ Head(air).kind = "status" /\ air' = Tail(air)
      /\ status' = Head(air).status
      /\ fresh' = (fresh /\ ~(status' = "OK" /\ Mutating(sent)))
      /\ UNCHANGED <<request, serving, stage, link, peer, sent, known, reconnected, verdict>>
      /\ UNCHANGED <<took, before, foreign, restarted>> /\ UNCHANGED tableVars
  BY DEF ReceiveStatus, deviceVars, linkVars, historyVars
<1>2. TableInv' /\ Stored' = Stored /\ phase' = phase /\ result' = result
  BY <1>1, TableUnchanged
<1>3. PICK answer \in Answer :
        /\ status' = answer /\ TrueAnswer(answer) /\ status = "waiting" /\ link = "up" /\ Own
        /\ stage = "none" \/ (stage = "informing" /\ answer = "OK")
        /\ \/ air' = <<>>
           \/ air' = <<Info>> /\ answer = "OK" /\ stage = "none" /\ Mutating(sent)
  <2>1. CASE AnswerOnAir
    BY <1>1, <2>1, AirFacts, MessageFacts DEF AnswerOnAir, AirInv
  <2>2. CASE InfoOnAir
    BY <1>1, <2>2, AirFacts, MessageFacts DEF InfoOnAir
  <2>3. CASE BothOnAir
    BY <1>1, <2>3, AirFacts, MessageFacts DEF BothOnAir, AirInv, Answer
  <2> QED BY <1>1, <2>1, <2>2, <2>3 DEF AirInv
<1>4. answer # "waiting" /\ request = NoCommand /\ verdict = "none"
  BY <1>1, <1>3 DEF Answer, RequestInv, SeqInv
<1>5. (\A a : TrueAnswer(a)' <=> TrueAnswer(a)) /\ Own'
  BY <1>1, <1>3, AnswerStays DEF Own
<1>6. Types'
  <2>1. status' \in Answer /\ fresh' \in BOOLEAN
    BY <1>1, <1>3 DEF Types
  <2> QED BY <1>1, <2>1 DEF Types
<1>7. RequestInv' /\ ForeignInv'
  BY <1>1, <1>4, <1>5 DEF RequestInv, ForeignInv
<1>8. StageInv'
  BY <1>1, <1>2, <1>3 DEF StageInv
<1>9. OwnInv'
  <2>1. stage = "informing" => Mutating(sent) /\ phase = "idle" /\ TrueAnswer("OK")
    BY <1>3 DEF StageInv, OwnInv
  <2>2. stage = "informing" => status' = "OK" /\ ~fresh'
    BY <1>1, <1>3, <2>1
  <2> QED BY <1>1, <1>3, <1>5, <2>1, <2>2 DEF OwnInv
<1>10. AirInv'
  <2>1. CASE air' = <<Info>> /\ answer = "OK" /\ stage = "none" /\ Mutating(sent)
    <3>1. Info' = Info
      BY <1>2 DEF Info
    <3>2. InfoOnAir'
      BY <1>1, <1>3, <2>1, <3>1 DEF InfoOnAir
    <3> QED BY <1>1, <1>3, <1>5, <3>2 DEF AirInv
  <2> QED BY <1>3, <2>1 DEF AirInv
<1>11. SeqInv'
  <2>1. fresh' => Stored' = known'
    <3> SUFFICES ASSUME fresh' PROVE Stored = known
      BY <1>1, <1>2
    <3>1. took = 0 /\ fresh
      BY <1>1, <1>3 DEF TrueAnswer, Changing
    <3>2. Stored = Ahead(known, 0) /\ known \in Seqs
      BY <1>3, <3>1 DEF SeqInv
    <3> QED BY <3>2, AheadFacts
  <2> QED BY <1>1, <1>3, <1>4, <1>5, <2>1 DEF SeqInv
<1>12. SeqSettlesUnconfirmed'
  BY <1>1, <1>4 DEF SeqSettlesUnconfirmed
<1> QED
  BY <1>2, <1>6, <1>7, <1>8, <1>9, <1>10, <1>11, <1>12

LEMMA ReceiveInfoStep == ASSUME IInv, ReceiveTableInfo PROVE IInv'
<1> USE DEF IInv
<1>1. /\ air # <<>> /\ Head(air).kind = "info" /\ air' = Tail(air)
      /\ IF status = "waiting" THEN known' = known /\ fresh' = FALSE
                               ELSE known' = Head(air).seq /\ fresh' = TRUE
      /\ UNCHANGED <<request, serving, stage, link, peer, sent, status, reconnected, verdict>>
      /\ UNCHANGED <<took, before, foreign, restarted>> /\ UNCHANGED tableVars
  BY DEF ReceiveTableInfo, deviceVars, linkVars, historyVars
<1>2. TableInv' /\ Stored' = Stored /\ phase' = phase /\ result' = result
  BY <1>1, TableUnchanged
<1>3. air' = <<>> /\ stage = "none" /\ Head(air).seq = Stored /\ Own /\ link = "up"
  <2>1. CASE AnswerOnAir
    BY <1>1, <2>1, AirFacts, MessageFacts DEF AnswerOnAir
  <2>2. CASE InfoOnAir
    BY <1>1, <2>2, AirFacts, MessageFacts DEF InfoOnAir, AirInv
  <2>3. CASE BothOnAir
    BY <1>1, <2>3, AirFacts, MessageFacts DEF BothOnAir
  <2> QED BY <1>1, <2>1, <2>2, <2>3 DEF AirInv
<1>4. request = NoCommand
  BY <1>1 DEF RequestInv
<1>5. Types'
  <2>1. known' \in 0..(SeqMod - 1) /\ fresh' \in BOOLEAN
    BY <1>1, <1>3, SeqsKnown DEF Types, TableInv
  <2> QED BY <1>1, <2>1 DEF Types
<1>6. RequestInv' /\ StageInv' /\ OwnInv' /\ AirInv' /\ ForeignInv'
  BY <1>1, <1>2, <1>3, <1>4 DEF RequestInv, StageInv, OwnInv, AirInv, ForeignInv, Own
<1>7. SeqInv' /\ SeqSettlesUnconfirmed'
  BY <1>1, <1>2, <1>3, AnswerStays DEF SeqInv, SeqSettlesUnconfirmed, Own
<1> QED
  BY <1>2, <1>5, <1>6, <1>7

\* An unchanged table_seq means that nobody changed the table since the command.
LEMMA ReadInfoStep == ASSUME IInv, TableInfoRead PROVE IInv'
<1> USE DEF IInv
<1>1. /\ link = "up" /\ peer = "client" /\ request = NoCommand /\ stage = "none" /\ air = <<>>
      /\ known' = seq /\ fresh' = TRUE
      /\ IF status = "waiting"
         THEN /\ status' = "unconfirmed"
              /\ verdict' = IF seq # known THEN "applied" ELSE "not applied"
         ELSE status' = status /\ verdict' = verdict
      /\ UNCHANGED <<request, serving, stage, link, peer, air, sent, reconnected>>
      /\ UNCHANGED <<took, before, foreign, restarted>> /\ UNCHANGED tableVars
  BY DEF TableInfoRead, TakeTableInfo, MayWrite, deviceVars, linkVars, historyVars
<1>2. TableInv' /\ Stored' = Stored /\ phase' = phase /\ result' = result
  BY <1>1, TableUnchanged
<1>3. seq = Stored
  BY <1>1 DEF StageInv, TableInv
<1>4. Types'
  <2>1. known' \in 0..(SeqMod - 1) /\ verdict' \in {"none", "applied", "not applied"}
    BY <1>1, SeqsKnown DEF TableInv, Types
  <2> QED BY <1>1, <2>1 DEF Types
<1>5. RequestInv' /\ StageInv' /\ OwnInv' /\ AirInv' /\ ForeignInv'
  BY <1>1, <1>2 DEF RequestInv, StageInv, OwnInv, AirInv, ForeignInv, Own
<1>6. SeqInv'
  BY <1>1, <1>2, <1>3, AnswerStays DEF SeqInv, Answer, Own
<1>7. SeqSettlesUnconfirmed'
  <2>1. status = "waiting" /\ ~restarted => (seq = known <=> took = 0 /\ foreign = 0)
    <3> SUFFICES ASSUME status = "waiting", ~restarted
                 PROVE  seq = known <=> took = 0 /\ foreign = 0
      OBVIOUS
    <3>1. known \in Seqs /\ seq = Ahead(known, took + foreign)
      BY <1>3 DEF SeqInv
    <3>2. took \in 0..1 /\ foreign \in 0..MaxForeign
      BY DEF Types
    <3>3. took + foreign \in 0..(MaxForeign + 1) /\ (took + foreign = 0 <=> took = 0 /\ foreign = 0)
      BY <3>2, ControlPointAssumption
    <3> QED BY <3>1, <3>3, AheadFacts
  <2>2. took # 0 => took = 1
    <3>1. took \in 0..1
      BY DEF Types
    <3> QED BY <3>1
  <2> QED BY <1>1, <2>1, <2>2 DEF SeqSettlesUnconfirmed
<1> QED
  BY <1>2, <1>4, <1>5, <1>6, <1>7

LEMMA Inductive == IInv /\ [Next]_vars => IInv'
<1> SUFFICES ASSUME IInv, [Next]_vars PROVE IInv'
  OBVIOUS
<1>1. CASE Device
  BY <1>1, WriteStep, CommitStep, NotifyStep, InformStep, DisconnectedStep DEF Device
<1>2. CASE Boot
  BY <1>2, BootStep
<1>3. CASE Failure
  BY <1>3, CrashStep, DamageStep, LinkLostStep DEF Failure
<1>4. CASE Client
  BY <1>4, ConnectStep, ReceiveStatusStep, ReceiveInfoStep, ReadInfoStep, ResendStep, SendStep
     DEF Client, Phone
<1>5. CASE Other
  BY <1>5, ConnectStep, SendOtherStep DEF Other, Phone
<1>6. CASE UNCHANGED vars
  <2>1. /\ UNCHANGED tableVars
        /\ UNCHANGED <<request, serving, stage, link, peer, air, sent, status, known, fresh>>
        /\ UNCHANGED <<reconnected, verdict, took, before, foreign, restarted>>
    BY <1>6 DEF vars, deviceVars, clientVars, linkVars, historyVars
  <2>2. TableInv' /\ Stored' = Stored /\ phase' = phase /\ result' = result
    BY <2>1, TableUnchanged DEF IInv
  <2>3. Changing' = Changing /\ Info' = Info /\ Own' = Own
    BY <2>1, <2>2 DEF Changing, Info, Own
  <2>4. Types'
    BY <2>1 DEF IInv, Types
  <2>5. RequestInv' /\ ForeignInv'
    BY <2>1, <2>2, <2>3 DEF IInv, RequestInv, ForeignInv
  <2>6. StageInv' /\ OwnInv'
    BY <2>1, <2>2, <2>3, AnswerStays DEF IInv, StageInv, OwnInv
  <2>7. SeqInv' /\ SeqSettlesUnconfirmed'
    BY <2>1, <2>2, SeqStays DEF IInv
  <2>8. AirInv'
    BY <2>1, <2>3, AnswerStays DEF IInv, AirInv, AnswerOnAir, InfoOnAir, BothOnAir
  <2> QED BY <2>2, <2>4, <2>5, <2>6, <2>7, <2>8 DEF IInv
<1> QED
  BY <1>1, <1>2, <1>3, <1>4, <1>5, <1>6 DEF Next

THEOREM Invariance == Spec => []IInv
<1>1. Init => IInv
  BY InitInv
<1>2. IInv /\ [Next]_vars => IInv'
  BY Inductive
<1> QED
  BY <1>1, <1>2, PTL DEF Spec

-----------------------------------------------------------------------------
(* The theorems.                                                           *)

\* binding_cp_write, its notifications and the client keep to their types, and
\* at most a status and a Table Info are under way.
THEOREM ControlPointTypeCorrect == Spec => []ControlPointTypeOK
<1>1. IInv => ControlPointTypeOK
  <2> SUFFICES ASSUME IInv PROVE ControlPointTypeOK
    OBVIOUS
  <2>1. Info \in Message
    BY DEF IInv, TableInv, Info, Message, Seqs
  <2>2. \A answer \in Answer : StatusOf(answer) \in Message
    BY DEF StatusOf, Message
  <2>3. "OK" \in Answer
    BY DEF Answer
  <2>4. Len(air) <= 2 /\ \A i \in 1..Len(air) : air[i] \in Message
    <3>1. CASE air = <<>>
      BY <3>1
    <3>2. CASE AnswerOnAir
      <4>1. PICK m \in Message : air = <<m>>
        BY <3>2, <2>2 DEF AnswerOnAir
      <4> QED BY <4>1
    <3>3. CASE InfoOnAir
      <4>1. PICK m \in Message : air = <<m>>
        BY <3>3, <2>1 DEF InfoOnAir
      <4> QED BY <4>1
    <3>4. CASE BothOnAir
      <4>1. PICK m \in Message, n \in Message : air = <<m, n>>
        BY <3>4, <2>1, <2>2, <2>3 DEF BothOnAir
      <4> QED BY <4>1
    <3> QED BY <3>1, <3>2, <3>3, <3>4 DEF IInv, AirInv
  <2>5. Types
    BY DEF IInv
  <2>6. /\ link \in {"down", "up", "lost"} /\ peer \in Phone
        /\ {request, serving, sent} \subseteq Command \cup {NoCommand}
        /\ stage \in {"none", "operating", "informing"}
    BY <2>5 DEF Types
  <2>7. /\ status \in Answer \cup {"none", "waiting", "unconfirmed"}
        /\ known \in 0..(SeqMod - 1) /\ fresh \in BOOLEAN /\ reconnected \in BOOLEAN
        /\ verdict \in {"none", "applied", "not applied"}
    BY <2>5 DEF Types
  <2>8. took \in 0..1 /\ before \in BOOLEAN /\ foreign \in 0..MaxForeign /\ restarted \in BOOLEAN
    BY <2>5 DEF Types
  <2> QED BY <2>4, <2>6, <2>7, <2>8, Zenon DEF ControlPointTypeOK
<1> QED
  BY <1>1, Invariance, PTL

\* An OK means one change of the stored table, an error none (commit_table
\* before dispatch_mutating_status), whatever was lost or crashed.
THEOREM AnswerTrue == Spec => []AnswerIsTrue
<1>1. IInv => AnswerIsTrue
  BY DEF IInv, SeqInv, TrueAnswer, Changing, AnswerIsTrue, Answer
<1> QED
  BY <1>1, Invariance, PTL

\* Table Info follows the OK of a command that changes the table, and nothing
\* else (report_binding_changed is called behind notify_binding).
THEOREM InfoAfterOk == Spec => []InfoOnlyAfterOk
<1>1. IInv => InfoOnlyAfterOk
  <2> SUFFICES ASSUME IInv PROVE InfoOnlyAfterOk
    OBVIOUS
  <2>1. CASE air = <<>>
    BY <2>1 DEF InfoOnlyAfterOk
  <2>2. CASE AnswerOnAir
    <3>1. PICK m : air = <<m>> /\ m.kind = "status"
      BY <2>2, MessageFacts DEF AnswerOnAir
    <3> QED BY <3>1 DEF InfoOnlyAfterOk
  <2>3. CASE InfoOnAir
    <3>1. PICK m : air = <<m>> /\ m.kind = "info"
      BY <2>3, MessageFacts DEF InfoOnAir
    <3>2. Mutating(sent) /\ status \in {"waiting", "OK"}
      BY <2>3 DEF InfoOnAir
    <3> QED BY <3>1, <3>2 DEF InfoOnlyAfterOk
  <2>4. CASE BothOnAir
    <3>1. PICK m, n : air = <<m, n>> /\ m.kind = "status" /\ m.status = "OK" /\ n.kind = "info"
      BY <2>4, MessageFacts DEF BothOnAir
    <3>2. Mutating(sent) /\ status = "waiting"
      BY <2>4 DEF BothOnAir
    <3>3. Len(air) = 2 /\ air[1].kind = "status" /\ air[1].status = "OK" /\ air[2].kind = "info"
      BY <3>1
    <3> QED BY <3>2, <3>3 DEF InfoOnlyAfterOk
  <2> QED BY <2>1, <2>2, <2>3, <2>4 DEF IInv, AirInv
<1> QED
  BY <1>1, Invariance, PTL

\* A client that missed no confirmation knows the table_seq of the device, the
\* one notify_table_info put into Table Info.
THEOREM KnownCurrent == Spec => []KnownIsCurrent
<1>1. IInv => KnownIsCurrent
  <2> SUFFICES ASSUME IInv, link = "up", fresh, status # "waiting" PROVE known = seq
    BY DEF KnownIsCurrent
  <2>1. known = Stored /\ Own
    BY DEF IInv, SeqInv
  <2>2. stage \in {"none", "informing"}
    BY <2>1 DEF IInv, Types, OwnInv
  <2>3. phase = "idle"
    BY <2>2 DEF IInv, StageInv
  <2> QED BY <2>1, <2>3 DEF IInv, TableInv
<1> QED
  BY <1>1, Invariance, PTL

\* table_seq settles whether an unanswered command was carried out, as long as
\* fewer changes by other phones than table_seq has numbers came in between and
\* it did not start over (commit_table and table_info_read).
THEOREM SeqSettles == Spec => []SeqSettlesUnconfirmed
<1>1. IInv => SeqSettlesUnconfirmed
  BY DEF IInv
<1> QED
  BY <1>1, Invariance, PTL

\* A client that compares table_seq before it sends a command again never has it
\* carried out twice; the dispatcher alone does not prevent it
\* (dispatch_mutating_status).
THEOREM RetryOnce == Careful => (Spec => []RetryActsOnce)
<1> SUFFICES ASSUME Careful PROVE Spec => []RetryActsOnce
  OBVIOUS
<1>1. IInv => RetryActsOnce
  BY DEF IInv, SeqInv, RetryActsOnce
<1> QED
  BY <1>1, Invariance, PTL

-----------------------------------------------------------------------------
(* The binding table underneath.                                           *)

\* A command carries the arguments of its operation.
LEMMA CommandFacts ==
    ASSUME NEW command \in Command
    PROVE  /\ command.op = "write" => command.record \in Table!Frame
           /\ command.op \in {"clear", "remove"} => command.slot \in Table!AnySlot
           /\ command.op = "insert" =>
                 command.slot \in Table!AnySlot /\ command.record \in Table!Frame
           /\ command.op = "move" =>
                 /\ command.from \in Table!AnySlot /\ command.to \in Table!AnySlot
                 /\ command.len \in Table!AnySlot
           /\ command.op = "qty" => command.slot \in Table!AnySlot /\ command.qty \in Qty
           /\ command.op = "reset" => command.magicOk \in BOOLEAN
<1>1. CASE command = Malformed
  BY <1>1 DEF Malformed
<1>2. CASE command \in [op : {"read", "clear", "remove"}, slot : Table!AnySlot]
  BY <1>2
<1>3. CASE command \in [op : {"write"}, record : Table!Frame]
  BY <1>3
<1>4. CASE command \in [op : {"insert"}, slot : Table!AnySlot, record : Table!Frame]
  BY <1>4
<1>5. CASE command \in [op : {"move"}, from : Table!AnySlot, to : Table!AnySlot, len : Table!AnySlot]
  BY <1>5
<1>6. CASE command \in [op : {"qty"}, slot : Table!AnySlot, qty : Qty]
  BY <1>6
<1>7. CASE command \in [op : {"reset"}, magicOk : BOOLEAN]
  BY <1>7
<1> QED
  BY <1>1, <1>2, <1>3, <1>4, <1>5, <1>6, <1>7 DEF Command

\* An operation that returns without changing the table, seen from the table: a
\* slot out of range or a block moved onto itself does the same.
LEMMA ReturnIsOperation ==
    ASSUME phase = "idle", NEW errno \in {"OK", "EINVAL"}, Table!Return(errno)
    PROVE  Table!Operation
<1>1. CASE errno = "EINVAL"
  <2>1. 0 \in Table!AnySlot /\ ~Table!ValidSlot(0)
    BY ControlPointAssumption DEF Table!AnySlot, Table!ValidSlot, Table!Slot
  <2>2. Table!ClearOne(0)
    BY <1>1, <2>1 DEF Table!ClearOne
  <2> QED BY <2>1, <2>2 DEF Table!Operation
<1>2. CASE errno = "OK"
  <2>1. 1 \in Table!AnySlot /\ Table!ValidSlot(1) /\ 1 + 1 - 1 <= N
    BY ControlPointAssumption DEF Table!AnySlot, Table!ValidSlot, Table!Slot
  <2>2. Table!MoveBlock(1, 1, 1)
    BY <1>2, <2>1 DEF Table!MoveBlock
  <2> QED BY <2>1, <2>2 DEF Table!Operation
<1> QED
  BY <1>1, <1>2

\* Whatever the dispatcher does with a command is an operation of the table.
LEMMA PerformIsOperation ==
    ASSUME phase = "idle", NEW command \in Command, Perform(command)
    PROVE  Table!Operation
<1> USE CommandFacts
<1>1. CASE command.op = "malformed" /\ Table!Return("EINVAL")
  BY <1>1, ReturnIsOperation
<1>2. CASE command.op = "read"
           /\ Table!Return(IF Table!ValidSlot(command.slot) THEN "OK" ELSE "EINVAL")
  BY <1>2, ReturnIsOperation
<1>3. CASE command.op = "write" /\ Table!WriteOne(command.record)
  BY <1>3 DEF Table!Operation
<1>4. CASE command.op = "clear" /\ Table!ClearOne(command.slot)
  BY <1>4 DEF Table!Operation
<1>5. CASE command.op = "insert" /\ Table!InsertAt(command.slot, command.record)
  BY <1>5 DEF Table!Operation
<1>6. CASE command.op = "remove" /\ Table!RemoveAt(command.slot)
  BY <1>6 DEF Table!Operation
<1>7. CASE command.op = "move" /\ Table!MoveBlock(command.from, command.to, command.len)
  BY <1>7 DEF Table!Operation
<1>8. CASE command.op = "qty" /\ Table!SetQty(command.slot, command.qty)
  BY <1>8 DEF Table!Operation
<1>9. CASE command.op = "reset" /\ Table!FactoryReset(command.magicOk)
  BY <1>9 DEF Table!Operation
<1> QED
  BY <1>1, <1>2, <1>3, <1>4, <1>5, <1>6, <1>7, <1>8, <1>9 DEF Perform

\* Every step of the control point is a step of the table or leaves it alone.
LEMMA TableStep == Types /\ [Next]_vars => [Table!Next]_(Table!vars)
<1> SUFFICES ASSUME Types, [Next]_vars PROVE [Table!Next]_(Table!vars)
  OBVIOUS
<1>s. ASSUME UNCHANGED tableVars PROVE UNCHANGED Table!vars
  BY <1>s DEF tableVars, Table!vars
<1>1. CASE BindingCpWrite
  <2>1. request \in Command /\ phase = "idle" /\ Perform(request)
    BY <1>1 DEF BindingCpWrite, Types
  <2> QED BY <2>1, PerformIsOperation DEF Table!Next
<1>2. CASE CommitTable
  BY <1>2 DEF CommitTable, Table!Next
<1>3. CASE NotifyBinding \/ NotifyTableInfo \/ Disconnected
  BY <1>3, <1>s DEF NotifyBinding, NotifyTableInfo, Disconnected
<1>4. CASE Boot
  BY <1>4 DEF Boot, Table!Next
<1>5. CASE Failure
  BY <1>5, <1>s DEF Failure, Crash, FlashDamage, LinkLost, Table!Next
<1>6. CASE Client \/ Other
  BY <1>6, <1>s DEF Client, Other, Connect, ReceiveStatus, ReceiveTableInfo, TableInfoRead,
                    TakeTableInfo, SendCommand, Resend, SendOther
<1>7. CASE UNCHANGED vars
  BY <1>7, <1>s DEF vars
<1> QED
  BY <1>1, <1>2, <1>3, <1>4, <1>5, <1>6, <1>7 DEF Next, Device

\* The control point drives the binding table as that module describes it, and in
\* no other way: whatever is proved of BindingTable holds behind the dispatcher.
THEOREM DrivesTable == Spec => Table!Spec
<1>1. IInv => Types
  BY DEF IInv
<1>2. Init => Table!Init
  BY DEF Init
<1> QED
  BY <1>1, <1>2, TableStep, Invariance, PTL DEF Spec, Table!Spec

-----------------------------------------------------------------------------
(* What is proved of the binding table holds of the one behind the control *)
(* point.  TableProofs brings those theorems in about a second copy of the *)
(* module's operators, so the copies are first shown to agree.             *)

TableProofs == INSTANCE BindingTableContract_proofs

LEMMA SameData ==
    /\ TableProofs!Slot = Table!Slot /\ TableProofs!AnySlot = Table!AnySlot
    /\ TableProofs!Blank = Table!Blank /\ TableProofs!BlankTable = Table!BlankTable
    /\ TableProofs!NoImage = Table!NoImage /\ TableProofs!NoJob = Table!NoJob
    /\ TableProofs!Damaged = Table!Damaged /\ TableProofs!Absent = Table!Absent
    /\ TableProofs!Frame = Table!Frame
    /\ \A image : TableProofs!Good(image) = Table!Good(image)
    /\ \A entry : TableProofs!Restored(entry) = Table!Restored(entry)
    /\ \A s : TableProofs!NextSeq(s) = Table!NextSeq(s)
    /\ \A r : TableProofs!RecordCrcOk(r) = Table!RecordCrcOk(r)
    /\ \A r, s : TableProofs!SealedAt(r, s) = Table!SealedAt(r, s)
    /\ \A slot : TableProofs!ValidSlot(slot) = Table!ValidSlot(slot)
BY DEF Table!Slot, TableProofs!Slot, Table!AnySlot, TableProofs!AnySlot,
       Table!Blank, TableProofs!Blank, Table!BlankTable, TableProofs!BlankTable,
       Table!NoImage, TableProofs!NoImage, Table!NoJob, TableProofs!NoJob,
       Table!Damaged, TableProofs!Damaged, Table!Absent, TableProofs!Absent,
       Table!Frame, TableProofs!Frame, Table!Crc8, TableProofs!Crc8, Table!Image,
       TableProofs!Image, Table!Good, TableProofs!Good, Table!Restored,
       TableProofs!Restored, Table!NextSeq, TableProofs!NextSeq, Table!RecordCrcOk,
       TableProofs!RecordCrcOk, Table!SealedAt, TableProofs!SealedAt,
       Table!ValidSlot, TableProofs!ValidSlot

LEMMA SameTables ==
    /\ \A t, r : TableProofs!WithWritten(t, r) = Table!WithWritten(t, r)
    /\ \A t, slot : TableProofs!WithCleared(t, slot) = Table!WithCleared(t, slot)
    /\ \A t, slot, gap, r :
          TableProofs!WithInserted(t, slot, gap, r) = Table!WithInserted(t, slot, gap, r)
    /\ \A t, slot, gap :
          TableProofs!IsFirstGap(t, slot, gap) = Table!IsFirstGap(t, slot, gap)
    /\ \A t, slot : TableProofs!WithRemoved(t, slot) = Table!WithRemoved(t, slot)
    /\ \A t, from, to, len :
          TableProofs!WithMoved(t, from, to, len) = Table!WithMoved(t, from, to, len)
    /\ \A t, slot, qty : TableProofs!WithQty(t, slot, qty) = Table!WithQty(t, slot, qty)
BY DEF Table!WithWritten, TableProofs!WithWritten, Table!WithCleared,
       TableProofs!WithCleared, Table!WithInserted, TableProofs!WithInserted,
       Table!IsFirstGap, TableProofs!IsFirstGap, Table!WithRemoved,
       TableProofs!WithRemoved, Table!WithMoved, TableProofs!WithMoved,
       Table!WithQty, TableProofs!WithQty, Table!Rest, TableProofs!Rest,
       Table!Renumber, TableProofs!Renumber, Table!NormalizeSlot,
       TableProofs!NormalizeSlot, Table!Crc8, TableProofs!Crc8, Table!Blank,
       TableProofs!Blank, Table!Slot, TableProofs!Slot

LEMMA SameInit == Table!Init => TableProofs!Init
BY SameData DEF Table!Init, TableProofs!Init

LEMMA SamePropose ==
    /\ \A t, w : Table!Propose(t, w) => TableProofs!Propose(t, w)
    /\ \A e : Table!Return(e) => TableProofs!Return(e)
BY SameData
   DEF Table!Propose, TableProofs!Propose, Table!Return, TableProofs!Return,
       Table!Image, TableProofs!Image, Table!NextSeq, TableProofs!NextSeq

LEMMA SameOperation == Table!Operation => TableProofs!Operation
<1> USE SameData
<1>1. \A r : Table!WriteOne(r) => TableProofs!WriteOne(r)
  BY SameTables, SamePropose DEF Table!WriteOne, TableProofs!WriteOne
<1>2. \A slot : Table!ClearOne(slot) => TableProofs!ClearOne(slot)
  BY SameTables, SamePropose DEF Table!ClearOne, TableProofs!ClearOne
<1>3. \A slot : Table!RemoveAt(slot) => TableProofs!RemoveAt(slot)
  BY SameTables, SamePropose DEF Table!RemoveAt, TableProofs!RemoveAt
<1>4. \A slot, r : Table!InsertAt(slot, r) => TableProofs!InsertAt(slot, r)
  <2>1. \A r, slot : TableProofs!NormalizeSlot(r, slot) = Table!NormalizeSlot(r, slot)
    BY DEF Table!NormalizeSlot, TableProofs!NormalizeSlot, Table!Crc8, TableProofs!Crc8
  <2> QED
    BY <2>1, SameTables, SamePropose DEF Table!InsertAt, TableProofs!InsertAt
<1>5. \A slot, q : Table!SetQty(slot, q) => TableProofs!SetQty(slot, q)
  BY SameTables, SamePropose DEF Table!SetQty, TableProofs!SetQty
<1>6. \A from, to, len : Table!MoveBlock(from, to, len) => TableProofs!MoveBlock(from, to, len)
  BY SameTables, SamePropose DEF Table!MoveBlock, TableProofs!MoveBlock
<1>7. \A m : Table!FactoryReset(m) => TableProofs!FactoryReset(m)
  BY SameTables, SamePropose DEF Table!FactoryReset, TableProofs!FactoryReset
<1> SUFFICES ASSUME Table!Operation PROVE TableProofs!Operation
  OBVIOUS
<1>8. CASE \E r \in Table!Frame : Table!WriteOne(r)
  BY <1>1, <1>8 DEF TableProofs!Operation
<1>9. CASE \E slot \in Table!AnySlot :
              \/ Table!ClearOne(slot) \/ Table!RemoveAt(slot)
              \/ \E r \in Table!Frame : Table!InsertAt(slot, r)
              \/ \E q \in Qty : Table!SetQty(slot, q)
  <2>1. PICK slot \in Table!AnySlot :
              \/ Table!ClearOne(slot) \/ Table!RemoveAt(slot)
              \/ \E r \in Table!Frame : Table!InsertAt(slot, r)
              \/ \E q \in Qty : Table!SetQty(slot, q)
    BY <1>9
  <2>2. slot \in TableProofs!AnySlot
    BY <2>1
  <2>3. CASE Table!ClearOne(slot)
    <3>1. TableProofs!ClearOne(slot)
      BY <2>3, <1>2
    <3> QED
      BY ONLY <3>1, <2>2 DEF TableProofs!Operation
  <2>4. CASE Table!RemoveAt(slot)
    <3>1. TableProofs!RemoveAt(slot)
      BY <2>4, <1>3
    <3> QED
      BY ONLY <3>1, <2>2 DEF TableProofs!Operation
  <2>5. CASE \E r \in Table!Frame : Table!InsertAt(slot, r)
    <3>1. \E r \in TableProofs!Frame : TableProofs!InsertAt(slot, r)
      BY <2>5, <1>4
    <3> QED
      BY ONLY <3>1, <2>2 DEF TableProofs!Operation
  <2>6. CASE \E q \in Qty : Table!SetQty(slot, q)
    <3>1. \E q \in Qty : TableProofs!SetQty(slot, q)
      BY <2>6, <1>5
    <3> QED
      BY ONLY <3>1, <2>2 DEF TableProofs!Operation
  <2> QED
    BY <2>1, <2>3, <2>4, <2>5, <2>6
<1>10. CASE \E from \in Table!AnySlot, to \in Table!AnySlot, len \in Table!AnySlot :
               Table!MoveBlock(from, to, len)
  BY <1>6, <1>10 DEF TableProofs!Operation
<1>11. CASE \E magicOk \in BOOLEAN : Table!FactoryReset(magicOk)
  BY <1>7, <1>11 DEF TableProofs!Operation
<1> QED
  BY <1>8, <1>9, <1>10, <1>11 DEF Table!Operation

LEMMA SameNext == [Table!Next]_(Table!vars) => [TableProofs!Next]_(TableProofs!vars)
<1>1. Table!Boot => TableProofs!Boot
  BY SameData
     DEF Table!Boot, TableProofs!Boot, Table!BindingTableInit,
         TableProofs!BindingTableInit, Table!SettingsSet, TableProofs!SettingsSet,
         Table!ReadFailed, TableProofs!ReadFailed
<1>2. Table!Commit => TableProofs!Commit
  BY SameData
     DEF Table!Commit, TableProofs!Commit, Table!SaveDone, TableProofs!SaveDone,
         Table!SaveFailed, TableProofs!SaveFailed, Table!CommitRam,
         TableProofs!CommitRam
<1>3. Table!Crash \/ Table!FlashDamage => TableProofs!Crash \/ TableProofs!FlashDamage
  BY SameData DEF Table!Crash, TableProofs!Crash, Table!FlashDamage, TableProofs!FlashDamage
<1> QED
  BY <1>1, <1>2, <1>3, SameOperation DEF Table!Next, TableProofs!Next, Table!vars,
     TableProofs!vars

LEMMA SameSpec == Table!Spec => TableProofs!Spec
BY SameInit, SameNext, PTL DEF Table!Spec, TableProofs!Spec

\* Whatever commands arrive over whatever links: the records that READ_ONE and
\* READ_ALL show are sealed, a reboot gives back the table that clients saw or,
\* if it cannot read the flash, shows a blank one until something is saved, and
\* the shifting operations lose, double and reorder nothing (the functions of
\* viberack_binding_table_model.c as dispatch_mutating_status calls them).
THEOREM TableServed ==
    Spec => [](/\ Table!SlotsSealed /\ Table!RebootKeepsTable
               /\ Table!ShiftKeepsOrder /\ Table!MoveIsRotation)
<1>1. TableProofs!Spec => []TableProofs!SlotsSealed
  BY TableProofs!RecordsSealed, ControlPointAssumption
<1>2. TableProofs!Spec => []TableProofs!RebootKeepsTable
  BY TableProofs!RebootSafe, ControlPointAssumption
<1>3. TableProofs!Spec => []TableProofs!ShiftKeepsOrder
  BY TableProofs!ShiftsKeepOrder, ControlPointAssumption
<1>4. TableProofs!Spec => []TableProofs!MoveIsRotation
  BY TableProofs!MoveRotates, ControlPointAssumption
<1>5. TableProofs!SlotsSealed => Table!SlotsSealed
  BY SameData DEF Table!SlotsSealed, TableProofs!SlotsSealed
<1>6. TableProofs!RebootKeepsTable => Table!RebootKeepsTable
  BY SameData
     DEF Table!RebootKeepsTable, TableProofs!RebootKeepsTable, Table!Image,
         TableProofs!Image
<1>7. \A r : TableProofs!Payload(r) = Table!Payload(r)
  BY DEF Table!Payload, TableProofs!Payload
<1>8. TableProofs!ShiftKeepsOrder => Table!ShiftKeepsOrder
  BY SameData, <1>7
     DEF Table!ShiftKeepsOrder, TableProofs!ShiftKeepsOrder, Table!SameRecords,
         TableProofs!SameRecords, Table!BoundSlots, TableProofs!BoundSlots
<1>9. TableProofs!MoveIsRotation => Table!MoveIsRotation
  BY SameData, <1>7 DEF Table!MoveIsRotation, TableProofs!MoveIsRotation
<1> QED
  BY DrivesTable, SameSpec, <1>1, <1>2, <1>3, <1>4, <1>5, <1>6, <1>8, <1>9, PTL

\* The clients of the control point see the table of TableContract: each command
\* takes effect as a whole on the content clients were shown, with the next
\* table_seq, or not at all, whatever the link, the flash, a boot that cannot read
\* it and the power do meanwhile (binding_cp_write to commit_table).
THEOREM ContractServed == Spec => Table!KeepsContract
<1>1. TableProofs!Spec => TableProofs!KeepsContract
  BY TableProofs!ContractKept, ControlPointAssumption
<1>2. \A t : TableProofs!Contents(t) = Table!Contents(t)
  BY DEF Table!Contents, TableProofs!Contents, Table!Payload, TableProofs!Payload,
         Table!Slot, TableProofs!Slot
<1>3. /\ TableProofs!Contract!EmptyShelf = Table!Contract!EmptyShelf
      /\ TableProofs!Contract!Dark = Table!Contract!Dark
      /\ \A s, v : TableProofs!Contract!Showing(s, v) = Table!Contract!Showing(s, v)
      /\ \A v : TableProofs!Contract!Following(v) = Table!Contract!Following(v)
  BY DEF Table!Contract!EmptyShelf, TableProofs!Contract!EmptyShelf,
         Table!Contract!Empty, TableProofs!Contract!Empty, Table!Contract!Slot,
         TableProofs!Contract!Slot, Table!Contract!Dark, TableProofs!Contract!Dark,
         Table!Contract!Showing, TableProofs!Contract!Showing,
         Table!Contract!Following, TableProofs!Contract!Following
<1>4. \A s, c : TableProofs!Contract!IsResult(s, c) = Table!Contract!IsResult(s, c)
  BY DEF Table!Contract!IsResult, TableProofs!Contract!IsResult,
         Table!Contract!Slot, TableProofs!Contract!Slot, Table!Contract!Put,
         TableProofs!Contract!Put, Table!Contract!Inserted,
         TableProofs!Contract!Inserted, Table!Contract!FirstGap,
         TableProofs!Contract!FirstGap, Table!Contract!Removed,
         TableProofs!Contract!Removed, Table!Contract!Rotated,
         TableProofs!Contract!Rotated, Table!Contract!Empty,
         TableProofs!Contract!Empty, Table!Contract!EmptyShelf,
         TableProofs!Contract!EmptyShelf, Table!Contract!Holding,
         TableProofs!Contract!Holding
<1>5. TableProofs!Contract!Init => Table!Contract!Init
  BY SameData, <1>2, <1>3 DEF Table!Contract!Init, TableProofs!Contract!Init
<1>6. TableProofs!Contract!Next => Table!Contract!Next
  <2>1. TableProofs!Contract!Show => Table!Contract!Show
    BY SameData, <1>2, <1>3 DEF Table!Contract!Show, TableProofs!Contract!Show
  <2>2. TableProofs!Contract!Overlook => Table!Contract!Overlook
    BY SameData, <1>2, <1>3 DEF Table!Contract!Overlook, TableProofs!Contract!Overlook
  <2>3. TableProofs!Contract!PowerLoss => Table!Contract!PowerLoss
    BY SameData, <1>2, <1>3 DEF Table!Contract!PowerLoss, TableProofs!Contract!PowerLoss
  <2>4. TableProofs!Contract!Damage => Table!Contract!Damage
    BY SameData, <1>2, <1>3 DEF Table!Contract!Damage, TableProofs!Contract!Damage
  <2>5. TableProofs!Contract!Operate => Table!Contract!Operate
    BY SameData, <1>2, <1>3, <1>4 DEF Table!Contract!Operate, TableProofs!Contract!Operate
  <2> QED
    BY <2>1, <2>2, <2>3, <2>4, <2>5 DEF Table!Contract!Next, TableProofs!Contract!Next
<1>7. UNCHANGED TableProofs!Contract!vars => UNCHANGED Table!Contract!vars
  <2>1. TableProofs!Contract!vars = Table!Contract!vars
    BY SameData, <1>2 DEF Table!Contract!vars, TableProofs!Contract!vars
  <2>2. TableProofs!Contract!vars' = Table!Contract!vars'
    BY SameData, <1>2 DEF Table!Contract!vars, TableProofs!Contract!vars
  <2> QED
    BY <2>1, <2>2
<1>8. [TableProofs!Contract!Next]_(TableProofs!Contract!vars)
         => [Table!Contract!Next]_(Table!Contract!vars)
  BY ONLY <1>6, <1>7
<1> QED
  BY DrivesTable, SameSpec, <1>1, <1>5, <1>8, PTL
     DEF Table!KeepsContract, TableProofs!KeepsContract, Table!Contract!Spec,
         TableProofs!Contract!Spec
=============================================================================
