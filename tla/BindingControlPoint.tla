------------------------ MODULE BindingControlPoint ------------------------
(***************************************************************************)
(* The Binding Control Point: binding_cp_write in                          *)
(* firmware/nrf52/app/src/app_ble.c, protocol/viberack_ble_dispatcher_     *)
(* model.c, and the binding table behind them.                             *)
(*                                                                         *)
(* A command runs in the Bluetooth RX thread, flash write included, and is *)
(* answered with its status and, if it changed the table, Table Info.  The *)
(* link may go, a notification may be refused and the device may crash     *)
(* anywhere in between.  The client (external) sends one command at a      *)
(* time, reads Table Info when it connects and when an answer is missing,  *)
(* and may send a command again whose answer it lost, as the retry guide   *)
(* docs/app-ble-retry-and-pairing.md tells it to.  While it is away other  *)
(* paired phones (external) may change the table; the device serves one    *)
(* connection at a time.  READ_ALL is in module ReadAll.                   *)
(***************************************************************************)
EXTENDS Integers, Sequences

CONSTANTS
    N, Part, NoPart, Qty, SeqMod,   \* as in BindingTable
    Careful,       \* the client compares table_seq before it sends a command again
    ClientCommand, OtherCommand,    \* what the client and the other phones send
    MaxForeign     \* bound: changes by other phones while an answer is outstanding

ASSUME ControlPointAssumption ==
    /\ N \in Nat \ {0}
    /\ NoPart \notin Part
    /\ 0 \in Qty
    /\ SeqMod \in Nat /\ SeqMod > 2
    /\ Careful \in BOOLEAN
    /\ MaxForeign \in Nat /\ MaxForeign + 2 < SeqMod

VARIABLES records, seq, flash, phase, next, job, result, unread    \* BindingTable's

Table == INSTANCE BindingTable

VARIABLES
    link,        \* down, up, or lost: gone, but `disconnected` has not run yet
    peer,        \* whose connection it is or was: the client's, or another phone's
    request,     \* the command on its way to the device
    serving,     \* the command binding_cp_write is handling
    stage,       \* where: none, operating, informing (status sent, Table Info not)
    air,         \* notifications on their way to the client
    sent,        \* client: its last command
    status,      \* client: what it knows of that command
    known,       \* client: the last table_seq it was told
    fresh,       \* client: no change was confirmed since, on this connection
    reconnected, \* client: it has connected again since it sent the command
    verdict,     \* client: what Table Info said of a command without answer
    took,        \* history: how often this sending of it changed the stored table
    before,      \* history: an earlier sending of the same command did
    foreign,     \* history: changes by other phones while its answer is outstanding
    restarted    \* history: since then table_seq started over, or came back

tableVars == <<records, seq, flash, phase, next, job, result, unread>>
deviceVars == <<request, serving, stage>>
linkVars == <<link, peer>>
clientVars == <<sent, status, known, fresh, reconnected, verdict>>
historyVars == <<took, before, foreign, restarted>>
vars == <<tableVars, deviceVars, linkVars, air, clientVars, historyVars>>

Phone == {"client", "other"}

NoCommand == [op |-> "none"]

\* Every length error and every unknown opcode is answered alike.
Malformed == [op |-> "malformed"]

Command ==
    {Malformed}
    \cup [op : {"read", "clear", "remove"}, slot : Table!AnySlot]
    \cup [op : {"write"}, record : Table!Frame]
    \cup [op : {"insert"}, slot : Table!AnySlot, record : Table!Frame]
    \cup [op : {"move"}, from : Table!AnySlot, to : Table!AnySlot, len : Table!AnySlot]
    \cup [op : {"qty"}, slot : Table!AnySlot, qty : Qty]
    \cup [op : {"reset"}, magicOk : BOOLEAN]

ASSUME CommandAssumption == ClientCommand \subseteq Command /\ OtherCommand \subseteq Command

Mutating(command) == command.op \notin {"none", "malformed", "read"}

\* vbrk_ble_status_from_errno
StatusFromErrno(errno) ==
    CASE errno = "OK"     -> "OK"
      [] errno = "ENOSPC" -> "ERR_FULL"
      [] errno = "EBUSY"  -> "ERR_FLASH_BUSY"
      [] errno = "EILSEQ" -> "ERR_CRC"
      [] OTHER            -> "ERR_PARAM"

Answer == {"OK", "ERR_FULL", "ERR_FLASH_BUSY", "ERR_CRC", "ERR_PARAM"}
Message == [kind : {"status"}, status : Answer] \cup [kind : {"info"}, seq : 1..(SeqMod - 1)]

ControlPointTypeOK ==
    /\ link \in {"down", "up", "lost"} /\ peer \in Phone
    /\ {request, serving, sent} \subseteq Command \cup {NoCommand}
    /\ stage \in {"none", "operating", "informing"}
    /\ Len(air) <= 2 /\ \A i \in 1..Len(air) : air[i] \in Message
    /\ status \in Answer \cup {"none", "waiting", "unconfirmed"}
    /\ known \in 0..(SeqMod - 1) /\ fresh \in BOOLEAN /\ reconnected \in BOOLEAN
    /\ verdict \in {"none", "applied", "not applied"}
    /\ took \in 0..1 /\ before \in BOOLEAN /\ foreign \in 0..MaxForeign
    /\ restarted \in BOOLEAN

Init ==
    /\ Table!Init
    /\ link = "down" /\ peer = "client"
    /\ request = NoCommand /\ serving = NoCommand /\ stage = "none"
    /\ air = <<>>
    /\ sent = NoCommand /\ status = "none" /\ known = 0 /\ fresh = FALSE
    /\ reconnected = FALSE /\ verdict = "none"
    /\ took = 0 /\ before = FALSE /\ foreign = 0 /\ restarted = FALSE

-----------------------------------------------------------------------------
(* The device.                                                             *)

Perform(command) ==
    \/ command.op = "malformed" /\ Table!Return("EINVAL")
    \/ command.op = "read" /\ Table!Return(IF Table!ValidSlot(command.slot) THEN "OK" ELSE "EINVAL")
    \/ command.op = "write" /\ Table!WriteOne(command.record)
    \/ command.op = "clear" /\ Table!ClearOne(command.slot)
    \/ command.op = "insert" /\ Table!InsertAt(command.slot, command.record)
    \/ command.op = "remove" /\ Table!RemoveAt(command.slot)
    \/ command.op = "move" /\ Table!MoveBlock(command.from, command.to, command.len)
    \/ command.op = "qty" /\ Table!SetQty(command.slot, command.qty)
    \/ command.op = "reset" /\ Table!FactoryReset(command.magicOk)

BindingCpWrite ==
    /\ request # NoCommand /\ stage = "none" /\ phase = "idle"
    /\ Perform(request)
    /\ serving' = request /\ request' = NoCommand /\ stage' = "operating"
    /\ UNCHANGED <<linkVars, air, clientVars, historyVars>>

\* commit_table around the flash write.
CommitTable ==
    /\ stage = "operating"
    /\ Table!Commit
    /\ LET change == IF phase' = "saved" THEN 1 ELSE 0
       IN  IF peer = "client"
           THEN took' = took + change /\ UNCHANGED foreign
           ELSE /\ foreign' = IF status = "waiting" THEN foreign + change ELSE foreign
                /\ UNCHANGED took
    /\ UNCHANGED <<deviceVars, linkVars, air, clientVars, before, restarted>>

\* bt_gatt_notify: its error is ignored, and without a link there is no receiver.
Notify(message) ==
    \/ link = "up" /\ peer = "client" /\ air' = Append(air, message)
    \/ air' = air

\* Seeded bug: Table Info is filled in before the table changes.
InfoMessageBefore ==
    [kind |-> "info", seq |-> CHOOSE s \in 1..(SeqMod - 1) : Table!NextSeq(s) = seq]

\* binding_table_get_info at the time of the notification.
InfoMessage == [kind |-> "info", seq |-> seq]
StatusMessage == [kind |-> "status", status |-> StatusFromErrno(result)]

\* Table Info is due after the OK of a command that changes the table.
AfterStatus ==
    IF result = "OK" /\ Mutating(serving)
    THEN stage' = "informing" /\ UNCHANGED serving
    ELSE stage' = "none" /\ serving' = NoCommand

\* Seeded bug: the answer does not wait for the flash write.
NotifyBindingEarly ==
    /\ stage = "operating"
    /\ Notify(StatusMessage) /\ AfterStatus
    /\ UNCHANGED <<tableVars, request, linkVars, clientVars, historyVars>>

\* Seeded bug: the change is announced before the status, whatever that is.
NotifyBindingAfterInfo ==
    /\ stage = "operating" /\ phase = "idle"
    /\ air' = IF link = "up" THEN air \o <<InfoMessage, StatusMessage>> ELSE air
    /\ stage' = "none" /\ serving' = NoCommand
    /\ UNCHANGED <<tableVars, request, linkVars, clientVars, historyVars>>

\* dispatch_mutating_status, and the same for a read: the operation has returned.
NotifyBinding ==
    /\ stage = "operating" /\ phase = "idle"
    /\ Notify(StatusMessage) /\ AfterStatus
    /\ UNCHANGED <<tableVars, request, linkVars, clientVars, historyVars>>

\* Seeded bug: the change is announced over and over.
NotifyTableInfoAgain ==
    /\ stage = "informing"
    /\ Notify(InfoMessage)
    /\ UNCHANGED <<tableVars, deviceVars, linkVars, clientVars, historyVars>>

\* table_changed -> report_binding_changed -> notify_table_info.
NotifyTableInfo ==
    /\ stage = "informing"
    /\ Notify(InfoMessage)
    /\ stage' = "none" /\ serving' = NoCommand
    /\ UNCHANGED <<tableVars, request, linkVars, clientVars, historyVars>>

\* Which thread runs the callback is the Bluetooth host's affair: it may come in
\* the middle of the command being handled.
Disconnected ==
    /\ link = "lost"
    /\ link' = "down" /\ request' = NoCommand
    /\ UNCHANGED <<tableVars, peer, serving, stage, air, clientVars, historyVars>>

\* The table starts over when the boot could not read it, and comes back when
\* that boot ends.
Boot ==
    /\ Table!Boot
    /\ restarted' = (restarted \/ unread')
    /\ UNCHANGED <<deviceVars, linkVars, air, clientVars, took, before, foreign>>

Crash ==
    /\ Table!Crash
    /\ restarted' = (restarted \/ unread)
    /\ link' = "down" /\ air' = <<>>
    /\ request' = NoCommand /\ serving' = NoCommand /\ stage' = "none"
    /\ UNCHANGED <<peer, clientVars, took, before, foreign>>

FlashDamage ==
    /\ Table!FlashDamage
    /\ restarted' = TRUE
    /\ UNCHANGED <<deviceVars, linkVars, air, clientVars, took, before, foreign>>

-----------------------------------------------------------------------------
(* The link, the client and the other phones.                              *)

LinkLost ==
    /\ link = "up"
    /\ link' = "lost" /\ air' = <<>>
    /\ UNCHANGED <<tableVars, peer, deviceVars, clientVars, historyVars>>

\* The RX thread runs `connected`, behind the command being handled.  Any paired
\* phone may take the only connection (CONFIG_BT_MAX_CONN, CONFIG_BT_MAX_PAIRED).
Connect(phone) ==
    /\ link = "down" /\ phase = "idle" /\ stage = "none"
    /\ link' = "up" /\ peer' = phone /\ fresh' = FALSE /\ reconnected' = TRUE
    /\ UNCHANGED <<tableVars, deviceVars, air, sent, status, known, verdict, historyVars>>

\* The link is up and nothing is on its way to the device.
MayWrite(phone) == link = "up" /\ peer = phone /\ request = NoCommand /\ stage = "none"

SendCommand(command) ==
    /\ MayWrite("client") /\ fresh /\ status # "waiting"
    /\ request' = command /\ sent' = command
    /\ status' = "waiting" /\ reconnected' = FALSE /\ verdict' = "none"
    /\ took' = 0 /\ before' = FALSE /\ foreign' = 0 /\ restarted' = FALSE
    /\ UNCHANGED <<tableVars, serving, stage, linkVars, air, known, fresh>>

\* "Connection lost: connect again, ..., then send unconfirmed commands again"
\* (docs/app-ble-retry-and-pairing.md:26, in Chinese).  A careful client goes by
\* table_seq instead: it sends again what changed nothing.
Resend ==
    /\ MayWrite("client") /\ fresh /\ status = "unconfirmed"
    /\ IF Careful THEN verdict = "not applied" ELSE reconnected
    /\ request' = sent
    /\ status' = "waiting" /\ reconnected' = FALSE /\ verdict' = "none"
    /\ before' = (before \/ took = 1) /\ took' = 0 /\ foreign' = 0
    /\ UNCHANGED <<tableVars, serving, stage, linkVars, air, sent, known, fresh, restarted>>

SendOther(command) ==
    /\ MayWrite("other")
    /\ status = "waiting" => foreign < MaxForeign
    /\ request' = command
    /\ UNCHANGED <<tableVars, serving, stage, linkVars, air, clientVars, historyVars>>

ReceiveStatus ==
    /\ air # <<>> /\ Head(air).kind = "status"
    /\ air' = Tail(air)
    /\ status' = Head(air).status
    /\ fresh' = (fresh /\ ~(status' = "OK" /\ Mutating(sent)))
    /\ UNCHANGED <<tableVars, deviceVars, linkVars, sent, known, reconnected, verdict, historyVars>>

\* A client without an answer keeps the table_seq it sent the command under.
ReceiveTableInfo ==
    /\ air # <<>> /\ Head(air).kind = "info"
    /\ air' = Tail(air)
    /\ IF status = "waiting" THEN UNCHANGED known /\ fresh' = FALSE
                             ELSE known' = Head(air).seq /\ fresh' = TRUE
    /\ UNCHANGED <<tableVars, deviceVars, linkVars, sent, status, reconnected, verdict, historyVars>>

\* The client takes the table_seq it reads, and judges an unanswered command by it.
TakeTableInfo ==
    /\ ~fresh \/ status = "waiting"
    /\ known' = seq /\ fresh' = TRUE
    /\ IF status = "waiting"
       THEN /\ status' = "unconfirmed"
            /\ verdict' = IF seq # known THEN "applied" ELSE "not applied"
       ELSE UNCHANGED <<status, verdict>>
    /\ UNCHANGED <<tableVars, deviceVars, linkVars, air, sent, reconnected, historyVars>>

\* Seeded bug: a read is served while the RX thread waits for the flash.
TableInfoReadDuringWrite ==
    /\ link = "up" /\ peer = "client" /\ request = NoCommand /\ air = <<>>
    /\ TakeTableInfo

\* table_info_read: in the RX thread too, after the command and its answers.
TableInfoRead == MayWrite("client") /\ air = <<>> /\ TakeTableInfo

-----------------------------------------------------------------------------
Device ==
    BindingCpWrite \/ CommitTable \/ NotifyBinding \/ NotifyTableInfo \/ Disconnected

Failure == Crash \/ FlashDamage \/ LinkLost

Client ==
    \/ Connect("client") \/ ReceiveStatus \/ ReceiveTableInfo \/ TableInfoRead \/ Resend
    \/ \E command \in ClientCommand : SendCommand(command)

Other == Connect("other") \/ \E command \in OtherCommand : SendOther(command)

Next == Device \/ Boot \/ Failure \/ Client \/ Other

Spec == Init /\ [][Next]_vars

-----------------------------------------------------------------------------
(* Properties.                                                             *)

InPlace(command) == command.op = "move" /\ command.from = command.to

\* An OK means that the command changed the stored table, once and for good,
\* and an error that it did not, whatever crash or disconnection followed
\* (commit_table returns before dispatch_mutating_status notifies).  Moving a
\* block onto itself is an OK without a change.
AnswerIsTrue ==
    Mutating(sent) =>
        /\ status = "OK" /\ ~InPlace(sent) => took = 1
        /\ status \in Answer \ {"OK"} => took = 0

\* "On success: 1. the status, 2. Table Info" (docs/app-ble-contract-v0.1.md,
\* order of notifications): Table Info comes only after the OK of a command that
\* changes the table, however many of the notifications were refused before.
InfoOnlyAfterOk ==
    \A i \in 1..Len(air) :
        air[i].kind = "info" =>
            /\ Mutating(sent) /\ status \in {"waiting", "OK"}
            /\ \A j \in 1..Len(air) :
                  air[j].kind = "status" => j < i /\ air[j].status = "OK"

\* A client that missed no confirmation knows the present table_seq: the number
\* in Table Info is that of the change just answered (notify_table_info).
KnownIsCurrent == link = "up" /\ fresh /\ status # "waiting" => known = seq

\* The answer to a command got lost with the link, the device or the
\* notification: table_seq tells the client whether it was carried out.  An
\* unchanged number means that it was not, other phones or not, and a changed one
\* that it was, unless another phone changed the table meanwhile.  Nothing can be
\* told when table_seq started over (commit_table, model_load, table_info_read).
SeqSettlesUnconfirmed ==
    verdict # "none" /\ ~restarted =>
        /\ verdict = "not applied" => took = 0
        /\ verdict = "applied" /\ foreign = 0 => took = 1

\* The commands whose effect depends on where the records are.
Shifting(command) == command.op \in {"insert", "remove", "move"}

\* INSERT_AT, REMOVE_AT and MOVE_BLOCK change the table once, however often their
\* answer is lost and the client sends them again ("connect again, ..., then send
\* unconfirmed commands again", docs/app-ble-retry-and-pairing.md:26): nothing in
\* dispatch_mutating_status recognises a command it has carried out already.
RetryActsOnce == Shifting(sent) /\ ~restarted => ~(before /\ took = 1)
=============================================================================
