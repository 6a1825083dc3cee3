---------------------------- MODULE DeviceHealth ----------------------------
(***************************************************************************)
(* Device health and the watchdog: firmware/nrf52/app/src/device_health.c, *)
(* protocol/viberack_device_health.c, the boot and the loop of main.c, and *)
(* the battery and fault fields of protocol/viberack_adv_payload.c.        *)
(*                                                                         *)
(* The battery is sampled by main, by the workqueue (advertising payload)  *)
(* and by the Bluetooth RX thread (Device Health read).  A sample waits    *)
(* for the ADC, so the samples of two threads overlap; what follows the    *)
(* wait is not preempted.  The watchdog's counter runs in hardware from    *)
(* wdt_setup to the next reset, and only main feeds it.  Time is counted   *)
(* in ticks of a second; a sleep of 200 ms counts as one.                  *)
(***************************************************************************)
EXTENDS Integers

CONSTANTS
    Readings,     \* millivolts an ADC read may give, negative ones included
    NoReading,    \* a sample that failed
    Cause,        \* reset causes of the SoC that stop the watchdog too
    BootLimit     \* ticks from wdt_setup to the main loop, at most

Timeout == 8       \* WATCHDOG_TIMEOUT_MS
LongSleep == 2     \* blink_status(&led_green, 1, 200, 1800)
ShortSleep == 1    \* k_msleep(200)
EmptyMv == 3000    \* BATTERY_EMPTY_MV
FullMv == 4200     \* BATTERY_FULL_MV

ASSUME ReadingAssumption == Readings \subseteq {mv \in Int : mv < 65536}

\* These resets leave the nRF52840's watchdog running.  The firmware asks for
\* neither, and they are not modelled.
WarmReset == {"software", "lockup"}

ASSUME HealthAssumption ==
    /\ NoReading \notin Int
    /\ {"power_on", "watchdog"} \subseteq Cause /\ Cause \cap WarmReset = {}
    /\ BootLimit \in Nat /\ BootLimit < Timeout

VARIABLES
    build,             \* the battery ADC's alias, CONFIG_VBRK_WATCHDOG_ENABLE
    main,              \* where main() is
    connected,         \* ble_connected
    due,               \* ticks of main's sleep left
    wdt,               \* ticks since the watchdog was fed, or Stopped (hardware)
    resetreas,         \* the reset cause register (hardware)
    battery_pct, reset_reason, watchdog_enabled, health_fault,
    sampling,          \* the threads that wait for an ADC read
    shown,             \* the last payload or Device Health value handed out
    cleared,           \* this boot has cleared the register    (the last three are
    last, fresh        \* last reset; had the boot before it cleared it?  for properties)

staticVars == <<battery_pct, reset_reason, watchdog_enabled, health_fault>>
hardwareVars == <<wdt, resetreas>>
resetVars == <<cleared, last, fresh>>
vars == <<build, main, connected, due, hardwareVars, staticVars, sampling, shown, resetVars>>

Build == [adc : BOOLEAN, watchdog : BOOLEAN]
Reader == {"main", "worker", "rx"}
Running == {"loop"}
Booting == {"radio", "start", "starting"}      \* after wdt_setup
Main == {"early", "dead", "reason", "sample", "watchdog", "fatal"} \cup Booting \cup Running

\* The causes map_reset_reason gives a bit of their own; the rest share one.
Named == {"power_on", "pin", "software", "watchdog", "lockup", "low_power_wake"}
MapResetReason(causes) ==
    (causes \cap Named) \cup (IF causes \subseteq Named THEN {} ELSE {"other"})

Unknown == {}
Stopped == -1
Nothing == [what |-> "nothing", pct |-> 0, low |-> FALSE, fault |-> FALSE, mv |-> NoReading]

Init ==
    /\ build \in Build
    /\ main = "early" /\ connected = FALSE /\ due = 0
    /\ wdt = Stopped /\ resetreas = {"power_on"}
    /\ battery_pct = 100 /\ reset_reason = Unknown
    /\ watchdog_enabled = FALSE /\ health_fault = FALSE
    /\ sampling = {} /\ shown = Nothing
    /\ cleared = FALSE /\ last = "power_on" /\ fresh = TRUE

-----------------------------------------------------------------------------
(* The battery.                                                            *)

\* Seeded bug: a voltage above the full battery is scaled like any other.
BatteryPercentUnbounded(mv) ==
    IF mv <= EmptyMv THEN 0
    ELSE ((mv - EmptyMv) * 100 + (FullMv - EmptyMv) \div 2) \div (FullMv - EmptyMv)

\* vbrk_battery_percent_from_mv: the nearest percent.
BatteryPercent(mv) ==
    IF mv <= EmptyMv THEN 0
    ELSE IF mv >= FullMv THEN 100
    ELSE ((mv - EmptyMv) * 100 + (FullMv - EmptyMv) \div 2) \div (FullMv - EmptyMv)

\* The cast of the converted millivolts.
Uint16(mv) == mv % 65536

\* Seeded bug: one of the five failures of a sample forgets the fault.
SampleBatteryQuiet(mv) ==
    /\ battery_pct' = IF mv = NoReading THEN battery_pct ELSE BatteryPercent(Uint16(mv))
    /\ UNCHANGED health_fault

\* sample_battery: the five checks that may fail, or (uint16_t)mv converted.
SampleBattery(mv) ==
    \/ /\ ~build.adc /\ mv = NoReading
       /\ battery_pct' = 100
       /\ UNCHANGED health_fault
    \/ /\ build.adc /\ mv = NoReading
       /\ health_fault' = TRUE
       /\ UNCHANGED battery_pct
    \/ /\ build.adc /\ mv \in Readings
       /\ battery_pct' = BatteryPercent(Uint16(mv))
       /\ UNCHANGED health_fault

\* vbrk_adv_payload_build, the fields that device health fills.
AdvPayload(pct, fault, mv) ==
    [what |-> "advertising", pct |-> IF pct > 100 THEN 100 ELSE pct,
     low |-> pct <= 15, fault |-> fault, mv |-> mv]

\* vbrk_device_health_encode, likewise.
HealthValue(pct, fault, mv) ==
    [what |-> "health", pct |-> IF pct > 100 THEN 100 ELSE pct,
     low |-> FALSE, fault |-> fault, mv |-> mv]

\* fill_adv_msd in process, and device_health_get in device_health_read, up to
\* the ADC read.  Neither runs before advertising has started.
Ask(reader) ==
    /\ main \in Running /\ reader \notin sampling
    /\ reader = "worker" \/ (reader = "rx" /\ connected)
    /\ sampling' = sampling \cup {reader}
    /\ UNCHANGED <<build, main, connected, due, hardwareVars, staticVars, shown, resetVars>>

\* The rest of fill_adv_msd: the fault flag is read after the sample.
FillAdvMsd ==
    /\ "worker" \in sampling
    /\ sampling' = sampling \ {"worker"}
    /\ \E mv \in Readings \cup {NoReading} :
          SampleBattery(mv) /\ shown' = AdvPayload(battery_pct', health_fault', mv)
    /\ UNCHANGED <<build, main, connected, due, hardwareVars, reset_reason, watchdog_enabled,
                   resetVars>>

\* The rest of device_health_get and device_health_read.
DeviceHealthRead ==
    /\ "rx" \in sampling
    /\ sampling' = sampling \ {"rx"}
    /\ \E mv \in Readings \cup {NoReading} :
          SampleBattery(mv) /\ shown' = HealthValue(battery_pct', health_fault', mv)
    /\ UNCHANGED <<build, main, connected, due, hardwareVars, reset_reason, watchdog_enabled,
                   resetVars>>

-----------------------------------------------------------------------------
(* Boot.                                                                   *)

\* binding_table_init and light_control_init, or one of their endless loops.
EarlyInit ==
    /\ main = "early"
    /\ main' \in {"reason", "dead"}
    /\ UNCHANGED <<build, connected, due, hardwareVars, staticVars, sampling, shown,
                   resetVars>>

\* Seeded bug: the captured causes are left in the register.
LoadResetReasonUncleared ==
    /\ main = "reason"
    /\ main' = "sample"
    /\ reset_reason' = MapResetReason(resetreas)
    /\ cleared' = TRUE
    /\ UNCHANGED <<build, connected, due, hardwareVars, battery_pct, watchdog_enabled, health_fault,
                   sampling, shown, last, fresh>>

\* load_reset_reason: get and clear may each fail.
LoadResetReason ==
    /\ main = "reason"
    /\ main' = "sample"
    /\ \/ health_fault' = TRUE /\ UNCHANGED <<reset_reason, resetreas, cleared>>
       \/ /\ reset_reason' = MapResetReason(resetreas)
          /\ \/ resetreas' = {} /\ cleared' = TRUE
             \/ UNCHANGED <<resetreas, cleared>>
          /\ UNCHANGED health_fault
    /\ UNCHANGED <<build, connected, due, wdt, battery_pct, watchdog_enabled, sampling, shown,
                   last, fresh>>

\* The first sample, in device_health_init.
FirstSample ==
    /\ main = "sample"
    /\ main' = "watchdog"
    /\ \E mv \in Readings \cup {NoReading} : SampleBattery(mv)
    /\ UNCHANGED <<build, connected, due, hardwareVars, reset_reason, watchdog_enabled, sampling,
                   shown, resetVars>>

\* Seeded bug: the watchdog is counted as enabled without wdt_setup.
InitWatchdogNoSetup ==
    /\ main = "watchdog"
    /\ main' = "radio"
    /\ watchdog_enabled' = build.watchdog
    /\ UNCHANGED <<build, connected, due, hardwareVars, battery_pct, reset_reason, health_fault,
                   sampling, shown, resetVars>>

\* init_watchdog: not ready, no channel, or wdt_setup refused leave it off.
InitWatchdog ==
    /\ main = "watchdog"
    /\ main' = "radio"
    /\ \/ ~build.watchdog /\ UNCHANGED <<watchdog_enabled, health_fault, wdt>>
       \/ build.watchdog /\ health_fault' = TRUE /\ UNCHANGED <<watchdog_enabled, wdt>>
       \/ build.watchdog /\ watchdog_enabled' = TRUE /\ wdt' = 0 /\ UNCHANGED health_fault
    /\ UNCHANGED <<build, connected, due, resetreas, battery_pct, reset_reason, sampling,
                   shown, resetVars>>

\* nfc_wake_init, app_ble_init and settings_load; an error ends in
\* fatal_ble_error, which never feeds the watchdog.
RadioInit ==
    /\ main = "radio"
    /\ main' \in {"start", "fatal"}
    /\ UNCHANGED <<build, connected, due, hardwareVars, staticVars, sampling, shown,
                   resetVars>>

\* The payload of app_ble_start.
FirstFill ==
    /\ main = "start"
    /\ main' = "starting"
    /\ \E mv \in Readings \cup {NoReading} :
          SampleBattery(mv) /\ shown' = AdvPayload(battery_pct', health_fault', mv)
    /\ UNCHANGED <<build, connected, due, hardwareVars, reset_reason, watchdog_enabled,
                   sampling, resetVars>>

AdvStart ==
    /\ main = "starting"
    /\ main' \in {"loop", "fatal"}
    /\ UNCHANGED <<build, connected, due, hardwareVars, staticVars, sampling, shown,
                   resetVars>>

-----------------------------------------------------------------------------
(* The main loop and time.                                                 *)

\* device_health_feed_watchdog; a refused wdt_feed leaves the counter running.
FeedWatchdog ==
    \/ ~watchdog_enabled /\ UNCHANGED <<wdt, health_fault>>
    \/ watchdog_enabled /\ wdt' = 0 /\ UNCHANGED health_fault
    \/ watchdog_enabled /\ health_fault' = TRUE /\ UNCHANGED wdt

\* Seeded bug: a connected device continues its loop before the feed.
MainLoopFeedsIdle ==
    /\ main = "loop" /\ due = 0
    /\ \/ connected /\ due' = ShortSleep /\ UNCHANGED <<wdt, health_fault>>
       \/ ~connected /\ due' = LongSleep /\ FeedWatchdog
    /\ UNCHANGED <<build, main, connected, resetreas, battery_pct, reset_reason, watchdog_enabled,
                   sampling, shown, resetVars>>

\* One turn of main's loop: feed, then sleep.
MainLoop ==
    /\ main = "loop" /\ due = 0
    /\ FeedWatchdog
    /\ due' = IF connected THEN ShortSleep ELSE LongSleep
    /\ UNCHANGED <<build, main, connected, resetreas, battery_pct, reset_reason, watchdog_enabled,
                   sampling, shown, resetVars>>

\* app_status_set_ble_connected, from the connection callbacks.
SetConnected ==
    /\ main \in Running
    /\ connected' = ~connected
    /\ UNCHANGED <<build, main, due, hardwareVars, staticVars, sampling, shown, resetVars>>

\* A second passes.  main is woken on time (the cooperative threads leave it the
\* processor), and a boot takes at most BootLimit from wdt_setup on.
Tick ==
    /\ main = "loop" => due > 0
    /\ main \in Booting => wdt < BootLimit
    /\ wdt < Timeout
    /\ due' = IF due > 0 THEN due - 1 ELSE 0
    /\ wdt' = IF wdt = Stopped THEN Stopped ELSE wdt + 1
    /\ UNCHANGED <<build, main, connected, resetreas, staticVars, sampling, shown, resetVars>>

\* Everything in RAM starts over and the watchdog stops; the register collects
\* causes until it is cleared or the power goes.
Reset(cause) ==
    /\ main' = "early" /\ connected' = FALSE /\ due' = 0
    /\ wdt' = Stopped
    /\ resetreas' = IF cause = "power_on" THEN {cause} ELSE resetreas \cup {cause}
    /\ battery_pct' = 100 /\ reset_reason' = Unknown
    /\ watchdog_enabled' = FALSE /\ health_fault' = FALSE
    /\ sampling' = {} /\ shown' = Nothing
    /\ UNCHANGED build
    /\ last' = cause /\ fresh' = (cause = "power_on" \/ cleared) /\ cleared' = FALSE

WatchdogReset == wdt = Timeout /\ Reset("watchdog")

ExternalReset == \E cause \in Cause \ {"watchdog"} : Reset(cause)

Boot == EarlyInit \/ LoadResetReason \/ FirstSample \/ InitWatchdog \/ RadioInit \/ FirstFill
        \/ AdvStart

Next ==
    \/ Boot \/ MainLoop \/ SetConnected \/ Tick
    \/ (\E reader \in Reader : Ask(reader)) \/ FillAdvMsd \/ DeviceHealthRead
    \/ WatchdogReset \/ ExternalReset

Spec == Init /\ [][Next]_vars

\* Time passes and the hardware counter acts; nothing is asked of the firmware.
FairSpec == Spec /\ WF_vars(Tick) /\ WF_vars(WatchdogReset)

-----------------------------------------------------------------------------
(* Properties.                                                             *)

Value == [what : {"nothing", "advertising", "health"}, pct : 0..100, low : BOOLEAN,
          fault : BOOLEAN, mv : Readings \cup {NoReading}]

TypeOK ==
    /\ build \in Build
    /\ main \in Main /\ connected \in BOOLEAN /\ due \in 0..LongSleep
    /\ wdt \in Stopped..Timeout /\ resetreas \subseteq Cause
    /\ battery_pct \in 0..100 /\ reset_reason \subseteq Cause \cup {"other"}
    /\ watchdog_enabled \in BOOLEAN /\ health_fault \in BOOLEAN
    /\ sampling \subseteq Reader /\ shown \in Value
    /\ cleared \in BOOLEAN /\ last \in Cause /\ fresh \in BOOLEAN

Clamped(mv) == IF mv < EmptyMv THEN EmptyMv ELSE IF mv > FullMv THEN FullMv ELSE mv

\* A level shown without the fault bit was measured for this very answer and is
\* the nearest percent of it, however samples of two threads overlap; advertising
\* flags a low battery below 15.5 % (sample_battery, whose failures leave the old
\* level in place, and its callers).  A negative reading is exempt: as a uint16_t
\* it is a full battery.
ShownLevelIsTrue ==
    build.adc /\ shown.what # "nothing" /\ ~shown.fault =>
        /\ shown.mv \in Readings
        /\ shown.mv >= 0 =>
              LET above == Clamped(shown.mv) - EmptyMv
                  twice == 2 * (FullMv - EmptyMv) * shown.pct - 200 * above
              IN  /\ -(FullMv - EmptyMv) <= twice /\ twice <= FullMv - EmptyMv
                  /\ shown.what = "advertising" => (shown.low <=> 2 * above < 372)

\* A reset reason other than unknown names the reset this boot began with, and no
\* other if the boot before managed to clear the register (load_reset_reason; the
\* protocol document calls it the value captured at this boot, line 147).
ReasonNamesLastReset ==
    LET name == IF last \in Named THEN last ELSE "other"
    IN  reset_reason # Unknown => name \in reset_reason /\ (fresh => reset_reason = {name})

\* The watchdog resets only a device that is stuck in fatal_ble_error or has
\* shown the fault bit of a refused feed: not one whose loop runs, connected or
\* not, nor one that boots ("in normal operation no false reset",
\* development-plan.md line 105).
WatchdogSparesTheLiving ==
    [][last' = "watchdog" /\ main' = "early" /\ main # "early"
          => main = "fatal" \/ health_fault]_vars

\* A device stuck in fatal_ble_error with the watchdog on starts over.
FatalGetsReset == main = "fatal" /\ watchdog_enabled ~> main = "early"
=============================================================================
