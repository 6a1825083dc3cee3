---------------------------- MODULE LightControl ----------------------------
(***************************************************************************)
(* The lights: firmware/nrf52/app/src/light_control.c over                 *)
(* protocol/viberack_light_state.c, _light_policy.c and _light_frame.c.    *)
(*                                                                         *)
(* Two threads drive the same LED strip and the same power gate: the RX    *)
(* thread applies Light Commands, the system workqueue runs the timeout.   *)
(* Both are cooperative, so they interleave where one of them waits: in    *)
(* the transfer to the strip, and in the notification the RX thread sends. *)
(* A notification from the workqueue does not wait (external).  Time is    *)
(* counted in seconds, which may pass anywhere in a transfer.              *)
(***************************************************************************)
EXTENDS Naturals

CONSTANTS
    Lit,          \* the modes that light something: FIND, PICK, SORT, STOCK_IN, FX
    FX,           \* VBRK_LIGHT_FX, the last of them
    Off,          \* VBRK_LIGHT_OFF
    Unknown,      \* a mode byte above VBRK_LIGHT_FX
    Slot,         \* the slots, numbered as the bits of a mask
    Colour, Black,
    Commands,     \* the Light Commands of the clients
    DefaultTimeout, MaxTimeout, FxTimeout     \* 30, 300 and 10 seconds

Mode == Lit \cup {Off}

ASSUME LightAssumption ==
    /\ FX \in Lit /\ Off \notin Lit /\ Unknown \notin Mode /\ Black \in Colour
    /\ Commands \subseteq [mode : Mode \cup {Unknown}, maskA : SUBSET Nat, maskB : SUBSET Nat,
                         colorA : Colour, colorB : Colour, timeout : Nat]

ASSUME TimeoutAssumption ==
    /\ DefaultTimeout \in Nat /\ MaxTimeout \in Nat /\ FxTimeout \in Nat
    /\ 0 < FxTimeout /\ FxTimeout <= DefaultTimeout /\ DefaultTimeout <= MaxTimeout

VARIABLES
    mode, remaining,                   \* light_state: mode, seconds to expires_at_ms
    lightOutputsReady, ledStripReady,  \* what light_control_init could configure
    pixels, strip, power,              \* active_pixels; what the LEDs hold; the MOS gate
    timer, delay, canceling,           \* off_work
    pc, driving, sending,              \* per thread: where, what for, the transfer's data
    reported,                          \* the mode last passed to the lifecycle
    current, dropped                   \* history: last command; did the last transfer fail?

hardwareVars == <<lightOutputsReady, ledStripReady>>
lightVars == <<mode, remaining, current>>
stripVars == <<pixels, strip, sending, dropped>>
timerVars == <<timer, delay, canceling>>
threadVars == <<pc, driving>>
vars == <<lightVars, hardwareVars, stripVars, power, timerVars, threadVars, reported>>

Thread == {"rx", "worker"}
Pc == {"idle", "waiting", "transfer", "shown", "schedule"}
Picture == [Slot -> Colour]
NoCommand == [mode |-> Off, maskA |-> {}, maskB |-> {}, colorA |-> Black, colorB |-> Black,
              timeout |-> 0]

TypeOK ==
    /\ mode \in Mode /\ reported \in Mode /\ current \in Commands \cup {NoCommand}
    /\ remaining \in 0..MaxTimeout /\ delay \in 0..MaxTimeout
    /\ lightOutputsReady \in BOOLEAN /\ ledStripReady \in BOOLEAN
    /\ pixels \in Picture /\ strip \in Picture /\ sending \in [Thread -> Picture]
    /\ power \in BOOLEAN /\ dropped \in BOOLEAN
    /\ timer \in {"none", "delayed", "queued"} /\ canceling \in BOOLEAN
    /\ pc \in [Thread -> Pc] /\ driving \in [Thread -> Mode]

Dark == [slot \in Slot |-> Black]

\* light_control_init has run: a backend that could not be configured is done without.
Init ==
    /\ mode = Off /\ reported = Off /\ remaining = 0 /\ current = NoCommand
    /\ lightOutputsReady \in BOOLEAN /\ ledStripReady \in BOOLEAN
    /\ pixels = Dark /\ strip = Dark /\ sending = [t \in Thread |-> Dark]
    /\ power = FALSE /\ dropped = FALSE
    /\ timer = "none" /\ delay = 0 /\ canceling = FALSE
    /\ pc = [t \in Thread |-> "idle"] /\ driving = [t \in Thread |-> Off]

-----------------------------------------------------------------------------
(* What a command asks for.                                                *)

\* Seeded bug: the mode byte is not checked.
AcceptsAny(command) == TRUE

\* vbrk_light_policy_resolve: the mode.
Accepts(command) == command.mode \in Mode

\* command_timeout_s
CommandTimeout(command) ==
    IF command.timeout = 0 THEN DefaultTimeout
    ELSE IF command.timeout > MaxTimeout THEN MaxTimeout ELSE command.timeout

\* Seeded bug: the cap on FX is left to command_timeout_s, which has none.
ResolvedTimeoutUncapped(command) == IF command.mode = Off THEN 0 ELSE CommandTimeout(command)

\* vbrk_light_policy_resolve: the seconds, none for OFF.
ResolvedTimeout(command) ==
    IF command.mode = Off THEN 0
    ELSE IF command.mode = FX /\ CommandTimeout(command) > FxTimeout THEN FxTimeout
    ELSE CommandTimeout(command)

\* vbrk_light_frame_build: mask B is painted over mask A, bits of no slot are
\* ignored, OFF is dark whatever its masks say.
Frame(command) ==
    [slot \in Slot |->
        IF command.mode = Off THEN Black
        ELSE IF slot \in command.maskB THEN command.colorB
        ELSE IF slot \in command.maskA THEN command.colorA
        ELSE Black]

-----------------------------------------------------------------------------
(* Helpers.                                                                *)

SetLightOutputs(on) == power' = (on /\ lightOutputsReady)

\* A cooperative thread runs until it waits: in "shown" it keeps the processor.
MayRun(t) == \A u \in Thread \ {t} : pc[u] # "shown"

\* k_work_cancel_delayable: a running handler is only marked.
CancelOff == timer' = "none" /\ delay' = 0 /\ canceling' = (pc["worker"] # "idle")

\* vbrk_light_state_apply; resolved.timeout_s of an OFF command is 0.
StateApply(command) ==
    /\ mode' = command.mode
    /\ remaining' = ResolvedTimeout(command)
    /\ current' = command

BusFree == \A t \in Thread : pc[t] # "transfer"

\* show_active_pixels, up to the first wait: for the end of the own transfer, or
\* of the other thread's.  Without a strip there is none.
Show(t, what, picture) ==
    /\ pixels' = picture
    /\ driving' = [driving EXCEPT ![t] = what]
    /\ pc' = [pc EXCEPT ![t] = IF ~ledStripReady THEN "shown"
                              ELSE IF BusFree THEN "transfer" ELSE "waiting"]
    /\ sending' = [sending EXCEPT ![t] = picture]
    /\ UNCHANGED <<strip, dropped>>

-----------------------------------------------------------------------------
(* light_control_apply in the RX thread.                                   *)

\* Seeded bug: a pending timeout is left to run.
ApplyNoCancel(command) ==
    /\ pc["rx"] = "idle" /\ MayRun("rx") /\ Accepts(command)
    /\ StateApply(command)
    /\ Show("rx", command.mode, Frame(command))
    /\ IF command.mode = Off THEN UNCHANGED power ELSE SetLightOutputs(TRUE)
    /\ UNCHANGED <<hardwareVars, timerVars, reported>>

\* Seeded bug: an OFF command only resets the state.
ApplyOffStateOnly(command) ==
    /\ pc["rx"] = "idle" /\ MayRun("rx") /\ Accepts(command)
    /\ StateApply(command)
    /\ CancelOff
    /\ IF command.mode = Off
       THEN UNCHANGED <<power, stripVars, threadVars>>
       ELSE Show("rx", command.mode, Frame(command)) /\ SetLightOutputs(TRUE)
    /\ UNCHANGED <<hardwareVars, reported>>

\* The state, the old timeout, then the outputs; OFF switches the power only
\* after the strip (off_work_handler called directly).  A rejected command
\* returns before any of it.
Apply(command) ==
    /\ pc["rx"] = "idle" /\ MayRun("rx") /\ Accepts(command)
    /\ StateApply(command)
    /\ CancelOff
    /\ Show("rx", command.mode, Frame(command))
    /\ IF command.mode = Off THEN UNCHANGED power ELSE SetLightOutputs(TRUE)
    /\ UNCHANGED <<hardwareVars, reported>>

\* app_ble_report_light_changed; for OFF after the power is cut.
ApplyShown ==
    /\ pc["rx"] = "shown"
    /\ reported' = mode
    /\ IF driving["rx"] = Off
       THEN SetLightOutputs(FALSE) /\ pc' = [pc EXCEPT !["rx"] = "idle"]
       ELSE UNCHANGED power /\ pc' = [pc EXCEPT !["rx"] = "schedule"]
    /\ UNCHANGED <<lightVars, hardwareVars, stripVars, timerVars, driving>>

\* k_work_schedule(&off_work): refused while a cancelled handler runs on.
ApplySchedule ==
    /\ pc["rx"] = "schedule" /\ MayRun("rx")
    /\ pc' = [pc EXCEPT !["rx"] = "idle"]
    /\ IF timer = "none" /\ ~canceling
       THEN timer' = "delayed" /\ delay' = ResolvedTimeout(current)
       ELSE UNCHANGED <<timer, delay>>
    /\ UNCHANGED <<lightVars, hardwareVars, stripVars, power, canceling, driving, reported>>

-----------------------------------------------------------------------------
(* led_strip_update_rgb: one transfer at a time on the bus.                *)

TransferBegin(t) ==
    /\ pc[t] = "waiting" /\ MayRun(t) /\ BusFree
    /\ pc' = [pc EXCEPT ![t] = "transfer"]
    /\ sending' = [sending EXCEPT ![t] = pixels]
    /\ UNCHANGED <<lightVars, hardwareVars, pixels, strip, dropped, power, timerVars, driving,
                   reported>>

\* The driver's buffer is shared: a picture built meanwhile may get into it.  An
\* error is only logged.
TransferEnd(t) ==
    /\ pc[t] = "transfer"
    /\ pc' = [pc EXCEPT ![t] = "shown"]
    /\ \/ strip' \in {sending[t], pixels} /\ dropped' = FALSE
       \/ UNCHANGED strip /\ dropped' = TRUE
    /\ UNCHANGED <<lightVars, hardwareVars, pixels, sending, power, timerVars, driving, reported>>

-----------------------------------------------------------------------------
(* Time, and off_work_handler on the system workqueue.                     *)

Tick ==
    /\ remaining > 0 \/ delay > 0
    /\ remaining' = IF remaining > 0 THEN remaining - 1 ELSE 0
    /\ delay' = IF delay > 0 THEN delay - 1 ELSE 0
    /\ UNCHANGED <<mode, current, hardwareVars, stripVars, power, timer, canceling, threadVars,
                   reported>>

TimerExpires ==
    /\ timer = "delayed" /\ delay = 0
    /\ timer' = "queued"
    /\ UNCHANGED <<lightVars, hardwareVars, stripVars, power, delay, canceling, threadVars,
                   reported>>

\* Seeded bug: the timeout darkens the strip and leaves the mode.
OffBeginKeepsMode ==
    /\ pc["worker"] = "idle" /\ MayRun("worker") /\ timer = "queued"
    /\ timer' = "none"
    /\ Show("worker", Off, Dark)
    /\ UNCHANGED <<lightVars, hardwareVars, power, delay, canceling, reported>>

\* Seeded bug: the timeout cuts the power and leaves the picture in the strip.
OffBeginKeepsPixels ==
    /\ pc["worker"] = "idle" /\ MayRun("worker") /\ timer = "queued"
    /\ timer' = "none"
    /\ mode' = Off /\ remaining' = 0
    /\ pc' = [pc EXCEPT !["worker"] = "shown"]
    /\ UNCHANGED <<current, hardwareVars, stripVars, power, delay, canceling, driving, reported>>

\* vbrk_light_state_force_off, the empty frame and drive_leds_off's first half.
OffBegin ==
    /\ pc["worker"] = "idle" /\ MayRun("worker") /\ timer = "queued"
    /\ timer' = "none"
    /\ mode' = Off /\ remaining' = 0
    /\ Show("worker", Off, Dark)
    /\ UNCHANGED <<current, hardwareVars, power, delay, canceling, reported>>

\* Seeded bug: the timeout leaves the report to the next command.
OffShownNoReport ==
    /\ pc["worker"] = "shown"
    /\ SetLightOutputs(FALSE)
    /\ pc' = [pc EXCEPT !["worker"] = "idle"]
    /\ canceling' = FALSE
    /\ UNCHANGED <<lightVars, hardwareVars, stripVars, timer, delay, driving, reported>>

\* The power is cut, the present mode reported, and the handler returns.
OffShown ==
    /\ pc["worker"] = "shown"
    /\ SetLightOutputs(FALSE)
    /\ reported' = mode
    /\ pc' = [pc EXCEPT !["worker"] = "idle"]
    /\ canceling' = FALSE
    /\ UNCHANGED <<lightVars, hardwareVars, stripVars, timer, delay, driving>>

-----------------------------------------------------------------------------
RxStep == ApplyShown \/ ApplySchedule \/ TransferBegin("rx") \/ TransferEnd("rx")
WorkerStep == OffBegin \/ OffShown \/ TransferBegin("worker") \/ TransferEnd("worker")

Next ==
    \/ \E command \in Commands : Apply(command)
    \/ RxStep \/ WorkerStep \/ Tick \/ TimerExpires

Spec == Init /\ [][Next]_vars

\* Threads run, transfers end and the clock goes on; clients owe nothing.
FairSpec ==
    Spec /\ WF_vars(RxStep) /\ WF_vars(WorkerStep) /\ WF_vars(Tick) /\ WF_vars(TimerExpires)

-----------------------------------------------------------------------------
(* Properties.                                                             *)

Resting == \A t \in Thread : pc[t] = "idle"
Wanted == IF mode = Off THEN Dark ELSE Frame(current)

\* "The MOS conducts only while a light effect is active" (firmware/nrf52/
\* README.md:154): power without a lit mode is on its way to being cut.
PowerOnlyWhileLit ==
    power => mode # Off \/ \E t \in Thread : pc[t] # "idle" /\ driving[t] = Off

\* At rest the strip holds the frame of the latest command, or is dark after its
\* timeout, although either thread may have overwritten the other's buffer; only a
\* failed transfer leaves an older picture (drive_leds_off, _command).
StripShowsCommand == Resting /\ ledStripReady => dropped \/ strip = Wanted

\* A lit light at rest has a timeout pending, no later than its mode allows: FX 10
\* seconds, the others 300 (docs/firmware-quality-plan.md:18).  k_work_schedule does
\* not move a pending timeout, so the cancel before it must have worked.
LitHasOwnTimer ==
    Resting /\ mode # Off =>
        /\ timer # "none" /\ delay <= ResolvedTimeout(current)
        /\ delay <= IF mode = FX THEN FxTimeout ELSE MaxTimeout

\* A light ends by a command or after the seconds it was given, never by the
\* timeout of an earlier one: remaining_s has then counted down to 0.
NoEarlyOff ==
    [][mode # Off /\ mode' = Off => remaining = 0 \/ current'.mode = Off]_vars

\* At rest, advertising and client have been told the present mode.
ReportedIsMode == Resting => reported = mode

\* "Switches the lights off by timeout and closes the power gate" (docs/
\* milestones.md:15), whatever commands and timeouts overlap, once the clients send
\* no more.
LightTimesOut ==
    <>[][~\E command \in Commands : Apply(command)]_vars => (mode # Off ~> mode = Off /\ ~power)

\* The advertised bit "a light is lit" (docs/android-ble-integration-guide.md:170)
\* means that the strip has power, once no thread is driving it.
LitIsPowered == Resting /\ mode # Off /\ lightOutputsReady => power
=============================================================================
