---------------------------- MODULE BleLifecycle ----------------------------
(***************************************************************************)
(* The advertising lifecycle: protocol/viberack_ble_lifecycle.c with the   *)
(* callbacks that drive it (firmware/nrf52/app/src/app_ble.c, nfc_wake.c)  *)
(* and the boot order of main.c.                                           *)
(*                                                                         *)
(* The lifecycle keeps a generation counter of everything the advertising  *)
(* payload shows.  Reports bump it from four contexts (Bluetooth RX        *)
(* thread, system workqueue, NFC interrupt, main thread); a work item      *)
(* rebuilds the payload until the applied generation catches up.  Every    *)
(* irq_lock section of the C code is one atomic step here; everything      *)
(* between two sections interleaves with the other contexts.               *)
(***************************************************************************)
EXTENDS Integers

CONSTANTS
    HasNfc,           \* the peripheral build: the vbrk-nfc-fd alias exists
    SessionInWindow,  \* a connection may open AND close within one advertising call
    MaxGen,           \* bound: no new outside event once gen has reached it
    MaxFaults         \* bound: advertising calls the controller may fail

ASSUME ParamsAssumption ==
    /\ HasNfc \in BOOLEAN
    /\ SessionInWindow \in BOOLEAN
    /\ MaxGen \in Nat
    /\ MaxFaults \in Nat

VARIABLES
    \* vbrk_ble_lifecycle_t
    ready, connected, running, pending, gen, applied,
    \* the k_work item: flagged but not yet submitted / on the system workqueue
    submitting, queued,
    \* the two contexts that apply advertising, and their local variables
    pc, attempt,
    \* the controller: advertising on air, and the link as seen by the radio
    advertising, link,
    \* what the payload shows: a table change being stored (its write handler runs),
    \* is the light lit, changes made and not reported,
    \* and whether adv_msd / the payload on air lag behind the data
    writing, lit, unreported, fillStale, airStale,
    \* history: the last attempt failed; calls failed so far
    gaveUp, faults

lifecycleVars == <<ready, connected, running, pending, gen, applied>>
workVars == <<submitting, queued>>
dataVars == <<writing, lit, unreported, fillStale, airStale>>
radioVars == <<advertising, link>>
vars == <<lifecycleVars, workVars, pc, attempt, radioVars, dataVars, gaveUp, faults>>

Actor == {"main", "worker"}
Applying == {"fill", "call", "commit"}
MainPc == {"armed", "enabling", "settings", "starting", "running", "fatal"} \cup Applying
WorkerPc == {"idle", "entered"} \cup Applying
Link == {"none", "coming", "up", "going"}
Source == {"binding", "light", "timeout"}      \* the handlers that change what is shown

TypeOK ==
    /\ ready \in BOOLEAN /\ connected \in BOOLEAN
    /\ running \in BOOLEAN /\ pending \in BOOLEAN
    /\ gen \in Nat /\ applied \in Nat
    /\ submitting \in BOOLEAN /\ queued \in BOOLEAN
    /\ pc \in [Actor -> MainPc \cup WorkerPc]
    /\ pc["main"] \in MainPc /\ pc["worker"] \in WorkerPc
    /\ attempt \in [Actor -> [restart : BOOLEAN, target : Nat, ok : BOOLEAN]]
    /\ advertising \in BOOLEAN /\ link \in Link
    /\ writing \in BOOLEAN /\ lit \in BOOLEAN /\ unreported \subseteq Source
    /\ fillStale \in BOOLEAN /\ airStale \in BOOLEAN
    /\ gaveUp \in BOOLEAN /\ faults \in Nat

\* Power-on: static storage is zero and nfc_wake_init has armed the interrupt.
Init ==
    /\ ready = FALSE /\ connected = FALSE /\ running = FALSE /\ pending = FALSE
    /\ gen = 0 /\ applied = 0
    /\ submitting = FALSE /\ queued = FALSE
    /\ pc = [a \in Actor |-> IF a = "main" THEN "armed" ELSE "idle"]
    /\ attempt = [a \in Actor |-> [restart |-> FALSE, target |-> 0, ok |-> FALSE]]
    /\ advertising = FALSE /\ link = "none"
    /\ writing = FALSE /\ lit = FALSE /\ unreported = {}
    /\ fillStale = FALSE /\ airStale = FALSE
    /\ gaveUp = FALSE /\ faults = 0

-----------------------------------------------------------------------------
(* Helpers of viberack_ble_lifecycle.c.                                    *)

Dirty == gen # applied

MarkDirty == gen' = gen + 1

\* schedule_locked, with the condition its callers put in front of it.  The
\* k_work_submit follows after the unlock (action Submit).
ScheduleLocked(wanted) ==
    IF wanted /\ ready /\ ~pending
    THEN pending' = TRUE /\ submitting' = TRUE
    ELSE UNCHANGED <<pending, submitting>>

\* schedule_if_needed -> k_work_submit: queueing a queued item is a no-op.
Submit ==
    /\ submitting
    /\ submitting' = FALSE
    /\ queued' = TRUE
    /\ UNCHANGED <<lifecycleVars, pc, attempt, radioVars, dataVars, gaveUp, faults>>

-----------------------------------------------------------------------------
(* Boot, in the main thread.                                               *)

MainGoto(from, to) ==
    /\ pc["main"] = from
    /\ pc' = [pc EXCEPT !["main"] = to]

\* Seeded bug: a sentinel below every generation instead of the memset's 0.
LifecycleInitSentinel ==
    /\ MainGoto("armed", "enabling")
    /\ ready' = FALSE /\ connected' = FALSE /\ running' = FALSE /\ pending' = FALSE
    /\ gen' = 0 /\ applied' = -1
    /\ submitting' = FALSE /\ queued' = FALSE
    /\ UNCHANGED <<attempt, radioVars, dataVars, gaveUp, faults>>

\* app_ble_init up to bt_enable: the memset forgets what was reported before.
LifecycleInit ==
    /\ MainGoto("armed", "enabling")
    /\ ready' = FALSE /\ connected' = FALSE /\ running' = FALSE /\ pending' = FALSE
    /\ gen' = 0 /\ applied' = 0
    /\ submitting' = FALSE /\ queued' = FALSE
    /\ UNCHANGED <<attempt, radioVars, dataVars, gaveUp, faults>>

\* bt_enable returns; bluetooth_initialized is written and never read.
BluetoothInitialized ==
    /\ \/ MainGoto("enabling", "settings")
       \/ MainGoto("enabling", "fatal")
    /\ UNCHANGED <<lifecycleVars, workVars, attempt, radioVars, dataVars, gaveUp, faults>>

SettingsLoad ==
    /\ \/ MainGoto("settings", "starting")
       \/ MainGoto("settings", "fatal")
    /\ UNCHANGED <<lifecycleVars, workVars, attempt, radioVars, dataVars, gaveUp, faults>>

\* Seeded bug: ready is set before the first payload has been applied.
StartSampleReadyEarly ==
    /\ MainGoto("starting", "fill")
    /\ IF Dirty THEN UNCHANGED gen ELSE MarkDirty
    /\ attempt' = [attempt EXCEPT !["main"] =
                       [restart |-> TRUE, target |-> gen', ok |-> FALSE]]
    /\ ready' = TRUE
    /\ UNCHANGED <<connected, running, pending, applied, workVars,
                   radioVars, dataVars, gaveUp, faults>>

\* vbrk_ble_lifecycle_start, first lock section.
StartSample ==
    /\ MainGoto("starting", "fill")
    /\ IF Dirty THEN UNCHANGED gen ELSE MarkDirty
    /\ attempt' = [attempt EXCEPT !["main"] =
                       [restart |-> TRUE, target |-> gen', ok |-> FALSE]]
    /\ UNCHANGED <<ready, connected, running, pending, applied, workVars,
                   radioVars, dataVars, gaveUp, faults>>

\* vbrk_ble_lifecycle_start, second lock section.  Unlike process it does not
\* look at the generation again.
StartCommit ==
    /\ pc["main"] = "commit"
    /\ IF attempt["main"].ok
       THEN /\ ready' = TRUE
            /\ running' = TRUE
            /\ applied' = attempt["main"].target
            /\ pc' = [pc EXCEPT !["main"] = "running"]
       ELSE /\ pc' = [pc EXCEPT !["main"] = "fatal"]
            /\ UNCHANGED <<ready, running, applied>>
    /\ UNCHANGED <<connected, pending, gen, workVars, attempt, radioVars, dataVars,
                   gaveUp, faults>>

-----------------------------------------------------------------------------
(* lifecycle_apply_advertising, called by start (main) and process (worker). *)

\* fill_adv_msd reads the table sequence, the light mode and the health bits.
FillAdvMsd(a) ==
    /\ pc[a] = "fill"
    /\ pc' = [pc EXCEPT ![a] = "call"]
    /\ fillStale' = FALSE
    /\ UNCHANGED <<lifecycleVars, workVars, attempt, radioVars, writing, lit, unreported,
                   airStale, gaveUp, faults>>

Return(a, success) ==
    /\ pc[a] = "call"
    /\ pc' = [pc EXCEPT ![a] = "commit"]
    /\ attempt' = [attempt EXCEPT ![a].ok = success]
    /\ UNCHANGED <<lifecycleVars, workVars, link, writing, lit, unreported, fillStale, gaveUp>>

\* bt_le_adv_start takes effect: not advertising yet and no connection object.
AdvStart(a) ==
    /\ attempt[a].restart /\ ~advertising /\ link = "none"
    /\ Return(a, TRUE)
    /\ advertising' = TRUE
    /\ airStale' = fillStale
    /\ UNCHANGED faults

\* bt_le_adv_update_data while the host believes it advertises; the data only
\* reaches the air if the controller has not just accepted a connection.
AdvUpdate(a) ==
    /\ ~attempt[a].restart /\ (advertising \/ link = "coming")
    /\ Return(a, TRUE)
    /\ airStale' = IF advertising THEN fillStale ELSE airStale
    /\ UNCHANGED <<advertising, faults>>

\* -EALREADY / -ENOMEM from start, -EAGAIN from update.
AdvRefused(a) ==
    /\ IF attempt[a].restart THEN advertising \/ link # "none" ELSE ~advertising
    /\ Return(a, FALSE)
    /\ UNCHANGED <<advertising, airStale, faults>>

\* Any other failure: a lost HCI response, no buffers.
AdvFault(a) ==
    /\ faults < MaxFaults
    /\ Return(a, FALSE)
    /\ faults' = faults + 1
    /\ UNCHANGED <<advertising, airStale>>

ApplyStep(a) == FillAdvMsd(a) \/ AdvStart(a) \/ AdvUpdate(a) \/ AdvRefused(a) \/ AdvFault(a)

-----------------------------------------------------------------------------
(* ble_lifecycle_work_handler on the system workqueue.                     *)

\* The queue takes the item, behind a light timeout it is still handling; an
\* interrupt can still run before process locks.
WorkerEnter ==
    /\ pc["worker"] = "idle" /\ queued /\ "timeout" \notin unreported
    /\ queued' = FALSE
    /\ pc' = [pc EXCEPT !["worker"] = "entered"]
    /\ UNCHANGED <<lifecycleVars, submitting, attempt, radioVars, dataVars, gaveUp, faults>>

\* Seeded bug: the early return leaves work_pending set.
ProcessSampleKeepsPending ==
    /\ pc["worker"] = "entered"
    /\ LET apply == ready /\ ~connected /\ Dirty
       IN  /\ pc' = [pc EXCEPT !["worker"] = IF apply THEN "fill" ELSE "idle"]
           /\ pending' = ~apply
    /\ attempt' = [attempt EXCEPT !["worker"] =
                       [restart |-> ~running, target |-> gen, ok |-> FALSE]]
    /\ gaveUp' = FALSE
    /\ UNCHANGED <<ready, connected, running, gen, applied, workVars, radioVars,
                   dataVars, faults>>

\* vbrk_ble_lifecycle_process, first lock section and the early return.
ProcessSample ==
    /\ pc["worker"] = "entered"
    /\ pending' = FALSE
    /\ attempt' = [attempt EXCEPT !["worker"] =
                       [restart |-> ~running, target |-> gen, ok |-> FALSE]]
    /\ pc' = [pc EXCEPT !["worker"] =
                  IF ready /\ ~connected /\ Dirty THEN "fill" ELSE "idle"]
    /\ gaveUp' = FALSE
    /\ UNCHANGED <<ready, connected, running, gen, applied, workVars, radioVars,
                   dataVars, faults>>

\* Seeded bug: the commit takes the present generation for the applied one.
ProcessCommitCurrent ==
    /\ pc["worker"] = "commit"
    /\ pc' = [pc EXCEPT !["worker"] = "idle"]
    /\ IF attempt["worker"].ok
       THEN running' = TRUE /\ applied' = gen /\ UNCHANGED gaveUp
       ELSE gaveUp' = TRUE /\ UNCHANGED <<running, applied>>
    /\ UNCHANGED <<ready, connected, pending, gen, workVars, attempt, radioVars,
                   dataVars, faults>>

\* vbrk_ble_lifecycle_process, second lock section: reschedule if reports came
\* in meanwhile, but only after a success.
ProcessCommit ==
    /\ pc["worker"] = "commit"
    /\ pc' = [pc EXCEPT !["worker"] = "idle"]
    /\ IF attempt["worker"].ok
       THEN /\ running' = TRUE
            /\ applied' = attempt["worker"].target
            /\ ScheduleLocked(~connected /\ gen # applied')
            /\ UNCHANGED gaveUp
       ELSE /\ gaveUp' = TRUE
            /\ UNCHANGED <<running, applied, pending, submitting>>
    /\ UNCHANGED <<ready, connected, gen, queued, attempt, radioVars, dataVars, faults>>

-----------------------------------------------------------------------------
(* The peer and the controller; the host sees them through its callbacks.  *)

\* The connectable advertising is one-shot: it ends with the connection.
PeerConnect ==
    /\ advertising /\ link = "none" /\ gen < MaxGen
    /\ advertising' = FALSE
    /\ link' = "coming"
    /\ UNCHANGED <<lifecycleVars, workVars, pc, attempt, dataVars, gaveUp, faults>>

InAdvCall == \E a \in Actor : pc[a] \in {"call", "commit"}

PeerDisconnect ==
    /\ link = "up"
    /\ SessionInWindow \/ ~InAdvCall
    /\ link' = "going"
    /\ UNCHANGED <<lifecycleVars, workVars, pc, attempt, advertising, dataVars, gaveUp, faults>>

\* connected(conn, 0) -> vbrk_ble_lifecycle_connected.
Connected ==
    /\ link = "coming"
    /\ link' = "up"
    /\ connected' = TRUE
    /\ running' = FALSE
    /\ UNCHANGED <<ready, pending, gen, applied, workVars, pc, attempt, advertising,
                   dataVars, gaveUp, faults>>

\* Seeded bug: only connected clears advertising_running.
DisconnectedKeepsRunning ==
    /\ link = "going"
    /\ link' = "none"
    /\ connected' = FALSE
    /\ MarkDirty
    /\ ScheduleLocked(TRUE)
    /\ UNCHANGED <<ready, running, applied, queued, pc, attempt, advertising, dataVars,
                   gaveUp, faults>>

\* Seeded bug: a disconnection does not make the payload dirty.
DisconnectedStaysClean ==
    /\ link = "going"
    /\ link' = "none"
    /\ connected' = FALSE
    /\ running' = FALSE
    /\ ScheduleLocked(TRUE)
    /\ UNCHANGED <<ready, gen, applied, queued, pc, attempt, advertising, dataVars,
                   gaveUp, faults>>

\* disconnected -> vbrk_ble_lifecycle_disconnected; the connection is released.
Disconnected ==
    /\ link = "going"
    /\ link' = "none"
    /\ connected' = FALSE
    /\ running' = FALSE
    /\ MarkDirty
    /\ ScheduleLocked(TRUE)
    /\ UNCHANGED <<ready, applied, queued, pc, attempt, advertising, dataVars, gaveUp, faults>>

-----------------------------------------------------------------------------
(* Reports.  A change and its report are two steps: the result             *)
(* notification, or a flash write, lies between them.                      *)

\* nfc_fd_handler, in the interrupt; which edges pass the 50 ms debounce is free.
ReportNfcFd ==
    /\ HasNfc /\ gen < MaxGen
    /\ MarkDirty
    /\ ScheduleLocked(TRUE)
    /\ UNCHANGED <<ready, connected, running, applied, queued, pc, attempt, radioVars,
                   dataVars, gaveUp, faults>>

Change(source) ==
    /\ source \notin unreported /\ gen < MaxGen
    /\ unreported' = unreported \cup {source}
    /\ fillStale' = TRUE /\ airStale' = TRUE
    /\ UNCHANGED <<lifecycleVars, workVars, pc, attempt, radioVars, gaveUp, faults>>

\* The RX thread handles one write at a time, up to its report.
RxFree == ~writing /\ {"binding", "light"} \cap unreported = {}

\* A Binding Control Point write, up to the flash write it waits for.
BindingCpWrite ==
    /\ link = "up" /\ RxFree
    /\ writing' = TRUE
    /\ UNCHANGED <<lifecycleVars, workVars, pc, attempt, radioVars, lit, unreported,
                   fillStale, airStale, gaveUp, faults>>

\* The flash write has failed: no change, no report.
SaveFailed ==
    /\ writing
    /\ writing' = FALSE
    /\ UNCHANGED <<lifecycleVars, workVars, pc, attempt, radioVars, lit, unreported,
                   fillStale, airStale, gaveUp, faults>>

\* It has succeeded and the table is taken over; the client, and with it the
\* connection, may have gone meanwhile.
ChangeBinding ==
    /\ writing
    /\ writing' = FALSE
    /\ Change("binding")
    /\ UNCHANGED lit

\* A Light Command; a timeout may be driving the strip meanwhile.
ChangeLight ==
    /\ link = "up" /\ RxFree
    /\ lit' \in BOOLEAN
    /\ Change("light")
    /\ UNCHANGED writing

\* off_work_handler, on the system workqueue like process; it needs no connection.
OffWork ==
    /\ lit /\ pc["worker"] = "idle"
    /\ lit' = FALSE
    /\ Change("timeout")
    /\ UNCHANGED writing

\* Seeded bug: a report leaves scheduling to the next disconnection.
ReportOnlyMarks(source) ==
    /\ source \in unreported
    /\ unreported' = unreported \ {source}
    /\ MarkDirty
    /\ UNCHANGED <<ready, connected, running, pending, applied, workVars, pc, attempt,
                   radioVars, writing, lit, fillStale, airStale, gaveUp, faults>>

\* report_binding_changed and report_light_changed have the same lock section;
\* while connected they only mark the payload dirty and notify the client.
Report(source) ==
    /\ source \in unreported
    /\ unreported' = unreported \ {source}
    /\ MarkDirty
    /\ ScheduleLocked(~connected)
    /\ UNCHANGED <<ready, connected, running, applied, queued, pc, attempt, radioVars,
                   writing, lit, fillStale, airStale, gaveUp, faults>>

-----------------------------------------------------------------------------
MainStep ==
    \/ LifecycleInit \/ BluetoothInitialized \/ SettingsLoad
    \/ StartSample \/ ApplyStep("main") \/ StartCommit

WorkerStep == WorkerEnter \/ ProcessSample \/ ApplyStep("worker") \/ ProcessCommit

HostStep == Connected \/ Disconnected

ReportStep == \E source \in Source : Report(source)

Next ==
    \/ MainStep \/ WorkerStep \/ Submit \/ HostStep \/ ReportStep
    \/ PeerConnect \/ PeerDisconnect
    \/ ReportNfcFd \/ BindingCpWrite \/ SaveFailed \/ ChangeBinding \/ ChangeLight \/ OffWork

Spec == Init /\ [][Next]_vars

\* The threads of the firmware run: the workqueue drains, a context that
\* flagged the work submits it, the host delivers its callbacks and a change is
\* reported by the handler that made it.  The peer, the reader at the NFC
\* antenna and the light timer owe nothing.
Fairness ==
    /\ WF_vars(WorkerStep)
    /\ WF_vars(Submit)
    /\ WF_vars(HostStep)
    /\ \A source \in Source : WF_vars(Report(source))

FairSpec == Spec /\ Fairness

-----------------------------------------------------------------------------
(* Properties.                                                             *)

\* work_pending says exactly that the work item will run once more before it
\* next reads the generation: set and cleared in different contexts, it never
\* drifts from the queue (schedule_locked, process lines 255-260).
PendingMatchesQueue ==
    pending <=> submitting \/ queued \/ pc["worker"] = "entered"

\* adv_msd has no lock of its own: start and process never build and hand over
\* the payload at the same time (fill_adv_msd, app_ble.c:86-99).
AdvBufferExclusive ==
    ~(pc["main"] \in Applying /\ pc["worker"] \in Applying)

\* When the lifecycle counts the payload as applied and every change has been
\* reported, the payload on air shows the present table and light state: the
\* generation is sampled before the data is read (process lines 255-272).
CleanMeansFresh ==
    ready /\ advertising /\ ~Dirty /\ unreported = {} => ~airStale

\* advertising_running tells the truth whenever no attempt is in flight and the
\* radio has no link, so process picks start or update rightly (lines 258, 272).
FlagTruth ==
    ready /\ link = "none" /\ pc["worker"] \notin Applying
        => (running <=> advertising)

\* A payload that is dirty while nobody is connected has an attempt coming or
\* under way, unless the last attempt failed (schedule_locked, start, process).
NoLostInvalidation ==
    ready /\ ~connected /\ Dirty
        => submitting \/ queued \/ pc["worker"] # "idle" \/ gaveUp

\* "Pending invalidations are processed after BLE becomes ready" (lifecycle
\* design, line 243), unless a client connects or the attempt fails.
InvalidationsApplied ==
    ready /\ Dirty ~> ~Dirty \/ connected \/ gaveUp

\* After a client has gone the rack advertises again, or an attempt to do so
\* has failed (disconnected and process).
ResumesUnlessGivenUp == link = "going" ~> advertising \/ gaveUp

\* The integration guide's unconditional promise (android-ble-integration-guide
\* line 48): after a disconnection the device resumes advertising.
ResumesAfterDisconnect == link = "going" ~> advertising
-----------------------------------------------------------------------------
(* The abstract lifecycle that this one implements.                        *)

OnAir == IF ~advertising THEN "silent" ELSE IF airStale THEN "stale" ELSE "fresh"

Contract == INSTANCE AdvertisingContract WITH
    air    <- OnAir,
    client <- link # "none",
    untold <- unreported,
    owed   <- ~ready \/ Dirty

\* In whatever order callbacks, reports and work items overlap, scanners see the
\* lifecycle of AdvertisingContract: a debt is forgotten only when the air shows
\* what was reported or a client is connected, a client's departure is always a
\* debt, and no call puts older data on air (start, process, disconnected and the
\* reports of viberack_ble_lifecycle.c over lifecycle_apply_advertising).
KeepsContract == Contract!Spec
=============================================================================
