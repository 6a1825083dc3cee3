------------------------------ MODULE ReadAll ------------------------------
(***************************************************************************)
(* READ_ALL: protocol/viberack_read_all_pacer.c, the delayable work item   *)
(* that paces it (firmware/nrf52/app/src/app_ble.c), and the client that   *)
(* mirrors the table from what it receives while the table may change.     *)
(*                                                                         *)
(* The frames of a stream are counted by the client: the record of a blank *)
(* slot carries slot 0, so only its position tells where it belongs.  A    *)
(* notification is handed over in the middle of process, where the other   *)
(* threads may run.  Records are modelled by the table_seq that last       *)
(* changed them.                                                           *)
(***************************************************************************)
EXTENDS Naturals, Sequences

CONSTANTS
    N,                \* VBRK_SLOT_COUNT
    RestartInNotify,  \* a new stream may be asked for while process is in a notification
    MaxChanges,       \* bound: table changes
    MaxErrors,        \* bound: notifications refused to a subscribed client
    MaxRequests       \* bound: READ_ALL requests

ASSUME ReadAllAssumption ==
    /\ N \in Nat \ {0}
    /\ RestartInNotify \in BOOLEAN
    /\ MaxChanges \in Nat /\ MaxErrors \in Nat /\ MaxRequests \in Nat

Slot == 1..N
EndMarker == N + 1    \* next_slot behind the last one stands for the end frame

VARIABLES
    active, nextSlot,          \* vbrk_read_all_pacer_t
    scheduled, canceling,      \* read_all_work: delayed or queued; cancelled while running
    pc, frame,                 \* process: where it is, and the frame in its locals
    table, seq, rx,            \* the binding table; is the RX thread writing flash
    link, subscribed,          \* current_conn and the client's notify subscription
    requested, got, done,      \* the client: asked, records received, end marker received
    startSeq,                  \* table_seq the client read when it asked
    errors, requests           \* how many so far

pacerVars == <<active, nextSlot>>
workVars == <<scheduled, canceling, pc, frame>>
tableVars == <<table, seq, rx>>
linkVars == <<link, subscribed>>
clientVars == <<requested, got, done, startSeq>>
vars == <<pacerVars, workVars, tableVars, linkVars, clientVars, errors, requests>>

Pc == {"idle", "notify", "sent", "failed"}
Link == {"down", "up", "lost"}
Frame == [slot : 1..EndMarker, version : Nat]

TypeOK ==
    /\ active \in BOOLEAN /\ nextSlot \in 1..EndMarker
    /\ scheduled \in BOOLEAN /\ canceling \in BOOLEAN
    /\ pc \in Pc /\ frame \in Frame
    /\ table \in [Slot -> Nat] /\ seq \in Nat /\ rx \in {"idle", "saving"}
    /\ link \in Link /\ subscribed \in BOOLEAN
    /\ requested \in BOOLEAN /\ got \in Seq(Frame) /\ done \in BOOLEAN /\ startSeq \in Nat
    /\ errors \in Nat /\ requests \in Nat

Init ==
    /\ active = FALSE /\ nextSlot = 1
    /\ scheduled = FALSE /\ canceling = FALSE
    /\ pc = "idle" /\ frame = [slot |-> 1, version |-> 0]
    /\ table = [i \in Slot |-> 0] /\ seq = 0 /\ rx = "idle"
    /\ link = "down" /\ subscribed = FALSE
    /\ requested = FALSE /\ got = <<>> /\ done = FALSE /\ startSeq = 0
    /\ errors = 0 /\ requests = 0

-----------------------------------------------------------------------------
(* k_work_delayable.                                                       *)

\* k_work_schedule: without effect on a pending item, refused while a cancelled
\* handler has not returned.
Schedule == scheduled' = (scheduled \/ ~canceling)

\* k_work_cancel_delayable does not wait for a running handler.
CancelWork == scheduled' = FALSE /\ canceling' = (pc # "idle")

-----------------------------------------------------------------------------
(* The Bluetooth RX thread and the connection callbacks.                   *)

MayRestart == RestartInNotify \/ pc = "idle"

\* connected: the client starts without a subscription and without a mirror.
Connected ==
    /\ link = "down" /\ MayRestart
    /\ link' = "up"
    /\ requested' = FALSE /\ got' = <<>> /\ done' = FALSE
    /\ UNCHANGED <<pacerVars, workVars, tableVars, subscribed, startSeq, errors, requests>>

Subscribe ==
    /\ link = "up"
    /\ subscribed' = ~subscribed
    /\ UNCHANGED <<pacerVars, workVars, tableVars, link, clientVars, errors, requests>>

\* Seeded bug: a restart continues where the previous stream stopped.
StartKeepsSlot ==
    /\ link = "up" /\ rx = "idle" /\ MayRestart /\ requests < MaxRequests
    /\ active' = TRUE
    /\ Schedule
    /\ requested' = TRUE /\ got' = <<>> /\ done' = FALSE /\ startSeq' = seq
    /\ requests' = requests + 1
    /\ UNCHANGED <<nextSlot, canceling, pc, frame, tableVars, linkVars, errors>>

\* binding_cp_write -> handle_read_all_async -> vbrk_read_all_pacer_start.  The
\* client has read table_seq and forgets what an earlier stream brought.
Start ==
    /\ link = "up" /\ rx = "idle" /\ MayRestart /\ requests < MaxRequests
    /\ active' = TRUE /\ nextSlot' = 1
    /\ Schedule
    /\ requested' = TRUE /\ got' = <<>> /\ done' = FALSE /\ startSeq' = seq
    /\ requests' = requests + 1
    /\ UNCHANGED <<canceling, pc, frame, tableVars, linkVars, errors>>

\* Another Binding Control Point write: the RX thread blocks in the flash write.
ChangeBegin ==
    /\ link = "up" /\ rx = "idle" /\ seq < MaxChanges
    /\ rx' = "saving"
    /\ UNCHANGED <<pacerVars, workVars, table, seq, linkVars, clientVars, errors, requests>>

\* Seeded bug: the records change and table_seq does not.
ChangeCommitKeepsSeq ==
    /\ rx = "saving"
    /\ rx' = "idle"
    /\ \/ \E changed \in SUBSET Slot :
              table' = [i \in Slot |-> IF i \in changed THEN seq + 1 ELSE table[i]]
       \/ UNCHANGED table
    /\ UNCHANGED <<seq, pacerVars, workVars, linkVars, clientVars, errors, requests>>

\* commit_table after the save callback, or its failure: any set of slots may
\* have moved or changed.
ChangeCommit ==
    /\ rx = "saving"
    /\ rx' = "idle"
    /\ \/ /\ seq' = seq + 1
          /\ \E changed \in SUBSET Slot :
                table' = [i \in Slot |-> IF i \in changed THEN seq' ELSE table[i]]
       \/ UNCHANGED <<table, seq>>
    /\ UNCHANGED <<pacerVars, workVars, linkVars, clientVars, errors, requests>>

\* The radio link is gone, the host has not noticed.
PeerLost ==
    /\ link = "up"
    /\ link' = "lost"
    /\ UNCHANGED <<pacerVars, workVars, tableVars, subscribed, clientVars, errors, requests>>

\* Seeded bug: a disconnection leaves the pacer running.
DisconnectedKeepsPacing ==
    /\ link \in {"up", "lost"}
    /\ link' = "down" /\ subscribed' = FALSE
    /\ UNCHANGED <<pacerVars, workVars, tableVars, clientVars, errors, requests>>

\* disconnected: vbrk_read_all_pacer_cancel, then the work item is cancelled.
Disconnected ==
    /\ link \in {"up", "lost"}
    /\ link' = "down" /\ subscribed' = FALSE
    /\ active' = FALSE
    /\ CancelWork
    /\ UNCHANGED <<nextSlot, pc, frame, tableVars, clientVars, errors, requests>>

-----------------------------------------------------------------------------
(* vbrk_read_all_pacer_process on the system workqueue.                    *)

\* Up to the notification: the inactive return, or the next frame.  read_one
\* cannot fail here, next_slot being in range.
ProcessFrame ==
    /\ pc = "idle" /\ scheduled
    /\ scheduled' = FALSE
    /\ IF active
       THEN /\ pc' = "notify"
            /\ frame' = [slot |-> nextSlot,
                         version |-> IF nextSlot > N THEN 0 ELSE table[nextSlot]]
       ELSE UNCHANGED <<pc, frame>>
    /\ UNCHANGED <<pacerVars, canceling, tableVars, linkVars, clientVars, errors, requests>>

\* bt_gatt_notify takes the frame; the client has it unless the link is gone.
Notify ==
    /\ pc = "notify" /\ link # "down" /\ subscribed
    /\ pc' = "sent"
    /\ IF link = "up"
       THEN IF frame.slot = EndMarker
            THEN done' = TRUE /\ UNCHANGED got
            ELSE got' = Append(got, frame) /\ UNCHANGED done
       ELSE UNCHANGED <<got, done>>
    /\ UNCHANGED <<pacerVars, scheduled, canceling, frame, tableVars, linkVars, requested,
                   startSeq, errors, requests>>

\* No connection, no subscription, or no buffer.
NotifyRefused ==
    /\ pc = "notify"
    /\ \/ (link = "down" \/ ~subscribed) /\ UNCHANGED errors
       \/ errors < MaxErrors /\ errors' = errors + 1
    /\ pc' = "failed"
    /\ UNCHANGED <<pacerVars, scheduled, canceling, frame, tableVars, linkVars, clientVars,
                   requests>>

\* Seeded bug: a refused frame is not tried again.
ProcessReturnNoRetry ==
    /\ pc \in {"sent", "failed"}
    /\ IF pc = "failed"
       THEN UNCHANGED <<scheduled, pacerVars>>
       ELSE IF frame.slot = EndMarker
            THEN active' = FALSE /\ UNCHANGED <<nextSlot, scheduled>>
            ELSE nextSlot' = nextSlot + 1 /\ UNCHANGED active /\ Schedule
    /\ pc' = "idle" /\ canceling' = FALSE
    /\ UNCHANGED <<frame, tableVars, linkVars, clientVars, errors, requests>>

\* Seeded bug: the end frame is followed by one more step.
ProcessReturnPastEnd ==
    /\ pc \in {"sent", "failed"}
    /\ IF pc = "failed"
       THEN UNCHANGED pacerVars
       ELSE nextSlot' = nextSlot + 1 /\ active' = (frame.slot # EndMarker)
    /\ Schedule
    /\ pc' = "idle" /\ canceling' = FALSE
    /\ UNCHANGED <<frame, tableVars, linkVars, clientVars, errors, requests>>

\* The rest of process: retry later, finish, or go on to the next slot.
ProcessReturn ==
    /\ pc \in {"sent", "failed"}
    /\ IF pc = "failed"
       THEN Schedule /\ UNCHANGED pacerVars
       ELSE IF frame.slot = EndMarker
            THEN active' = FALSE /\ UNCHANGED <<nextSlot, scheduled>>
            ELSE nextSlot' = nextSlot + 1 /\ UNCHANGED active /\ Schedule
    /\ pc' = "idle" /\ canceling' = FALSE
    /\ UNCHANGED <<frame, tableVars, linkVars, clientVars, errors, requests>>

Process == ProcessFrame \/ Notify \/ NotifyRefused \/ ProcessReturn

-----------------------------------------------------------------------------
Next ==
    \/ Process
    \/ Connected \/ Subscribe \/ Start \/ ChangeBegin \/ ChangeCommit
    \/ PeerLost \/ Disconnected

Spec == Init /\ [][Next]_vars

\* The workqueue keeps running; clients, flash and radio owe nothing.
FairSpec == Spec /\ WF_vars(Process)

-----------------------------------------------------------------------------
(* Properties.                                                             *)

\* An active stream always has its next step coming: the timer that start,
\* process and the retries share is never lost between them.
PacerNeverStalls == active => scheduled \/ pc # "idle"

\* The records a client has received since it asked are those of slots 1, 2, 3...
\* in this order, and the end marker comes after all N: nothing is skipped or
\* sent twice by a retry, a restart or a reconnection.
StreamInOrder ==
    /\ \A i \in 1..Len(got) : got[i].slot = i
    /\ done => Len(got) = N

\* A complete stream with table_seq unchanged from request to end is the table:
\* records of before and after a change are never mixed unnoticed.
SnapshotIfSeqUnchanged ==
    done /\ seq = startSeq =>
        /\ Len(got) = N
        /\ \A i \in Slot : got[i].version = table[i]

\* A client that has not asked for the table in its own session receives no frame
\* of it, whatever the previous client left running (disconnected cancels).
NoUnrequestedFrames == got # <<>> \/ done => requested

\* A subscribed client that stays gets the end marker, however often the stream
\* is restarted or a notification refused.
StreamEnds == requested /\ subscribed ~> done \/ ~subscribed \/ link # "up"
=============================================================================
