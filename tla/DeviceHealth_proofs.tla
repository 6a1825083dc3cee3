------------------------ MODULE DeviceHealth_proofs ------------------------
(***************************************************************************)
(* Machine-checked proofs about DeviceHealth, for every set of readings    *)
(* and reset causes and every boot time below the watchdog's timeout.      *)
(***************************************************************************)
EXTENDS DeviceHealth, TLAPS

-----------------------------------------------------------------------------
(* vbrk_battery_percent_from_mv.                                           *)

\* A percent for every voltage.
LEMMA PercentRange ==
    ASSUME NEW mv \in Nat PROVE BatteryPercent(mv) \in 0..100
<1>1. CASE mv <= EmptyMv \/ mv >= FullMv
  BY <1>1 DEF BatteryPercent, EmptyMv, FullMv
<1>2. CASE ~(mv <= EmptyMv) /\ ~(mv >= FullMv)
  <2> DEFINE above == mv - 3000
             pct == BatteryPercent(mv)
  <2>1. pct = (above * 100 + 600) \div 1200 /\ above \in 1..1199
    BY <1>2 DEF BatteryPercent, EmptyMv, FullMv
  <2>2. above * 100 + 600 \in Nat /\ above * 100 + 600 < 121200
    BY <2>1
  <2>3. \A n \in Nat : n \div 1200 \in Int /\ 1200 * (n \div 1200) <= n
                       /\ n < 1200 * (n \div 1200) + 1200
    OBVIOUS
  <2>4. pct \in Int /\ 1200 * pct < 121200 /\ 0 < 1200 * pct + 1200
    BY <2>1, <2>2, <2>3
  <2> HIDE DEF pct
  <2>5. pct \in 0..100
    BY <2>4
  <2> QED BY <2>5 DEF pct
<1> QED
  BY <1>1, <1>2

\* The nearest percent, and below 15.5 % a low one.
LEMMA PercentNearest ==
    ASSUME NEW mv \in Nat
    PROVE  LET above == Clamped(mv) - EmptyMv
               twice == 2 * (FullMv - EmptyMv) * BatteryPercent(mv) - 200 * above
           IN  /\ -(FullMv - EmptyMv) <= twice /\ twice <= FullMv - EmptyMv
               /\ BatteryPercent(mv) <= 15 <=> 2 * above < 372
<1>1. CASE mv <= EmptyMv \/ mv >= FullMv
  BY <1>1 DEF BatteryPercent, Clamped, EmptyMv, FullMv
<1>2. CASE ~(mv <= EmptyMv) /\ ~(mv >= FullMv)
  <2> DEFINE pct == BatteryPercent(mv)
             above == mv - 3000
  <2>1. pct = (above * 100 + 600) \div 1200 /\ above \in 1..1199
    BY <1>2 DEF BatteryPercent, EmptyMv, FullMv
  <2>2. \A n \in Nat : n \div 1200 \in Int /\ 1200 * (n \div 1200) <= n
                       /\ n < 1200 * (n \div 1200) + 1200
    OBVIOUS
  <2>3. pct \in Int /\ 1200 * pct <= above * 100 + 600 /\ above * 100 + 600 < 1200 * pct + 1200
    <3>1. above * 100 + 600 \in Nat
      BY <2>1
    <3> QED BY <2>1, <2>2, <3>1
  <2>4. Clamped(mv) - EmptyMv = above /\ FullMv - EmptyMv = 1200
    BY <1>2 DEF Clamped, EmptyMv, FullMv
  <2> HIDE DEF pct, above
  <2>5. -1200 <= 2 * 1200 * pct - 200 * above /\ 2 * 1200 * pct - 200 * above <= 1200
    BY <2>1, <2>3
  <2>6. pct <= 15 <=> 2 * above < 372
    BY <2>1, <2>3
  <2> QED BY <2>4, <2>5, <2>6 DEF pct
<1> QED
  BY <1>1, <1>2

-----------------------------------------------------------------------------
(* The inductive invariant.                                                *)

BeforeWatchdog == {"early", "dead", "reason", "sample", "watchdog"}
BeforeCapture == {"early", "dead", "reason"}

\* The counter runs exactly when the watchdog is enabled, within BootLimit until
\* the loop is reached; in the loop it cannot expire before main wakes, unless a
\* feed was refused.
CounterInv ==
    /\ watchdog_enabled <=> wdt # Stopped
    /\ main \in BeforeWatchdog => wdt = Stopped
    /\ main \in Booting => wdt <= BootLimit
    /\ main # "loop" => due = 0
    /\ main = "loop" => health_fault \/ wdt + due < Timeout

\* Until it is captured, the register holds the last reset, alone if it was
\* clear; it is clear once this boot has cleared it.
RegisterInv ==
    /\ cleared => resetreas = {}
    /\ main \in BeforeCapture =>
          /\ ~cleared /\ reset_reason = Unknown
          /\ last \in resetreas /\ (fresh => resetreas = {last})

IInv == TypeOK /\ CounterInv /\ RegisterInv /\ ReasonNamesLastReset /\ ShownLevelIsTrue

\* The moves of main and the callbacks that leave the variables of the watchdog,
\* the register and the battery alone.
Quiet ==
    /\ \/ main = "early" /\ main' \in {"reason", "dead"}
       \/ main = "radio" /\ main' \in {"start", "fatal"}
       \/ main = "starting" /\ main' \in {"loop", "fatal"}
       \/ main = "loop" /\ main' = "loop"
    /\ connected' \in BOOLEAN \/ UNCHANGED connected
    /\ sampling' \subseteq Reader \/ UNCHANGED sampling
    /\ UNCHANGED <<build, due, hardwareVars, staticVars, shown, resetVars>>

\* The numbers behind the definitions.
LEMMA NumberFacts ==
    /\ Timeout = 8 /\ LongSleep = 2 /\ ShortSleep = 1 /\ Stopped = -1
    /\ BootLimit \in Nat /\ BootLimit < 8
    /\ NoReading \notin Readings
<1>1. Timeout = 8 /\ LongSleep = 2 /\ ShortSleep = 1 /\ Stopped = -1
  BY DEF Timeout, LongSleep, ShortSleep, Stopped
<1>2. BootLimit \in Nat /\ BootLimit < 8
  BY HealthAssumption DEF Timeout
<1>3. NoReading \notin Readings
  <2>1. Readings \subseteq Int
    BY ReadingAssumption
  <2> QED BY <2>1, HealthAssumption
<1> QED
  BY <1>1, <1>2, <1>3

\* A reading as a uint16_t; one that is not negative stays what it is.
LEMMA ReadingFacts ==
    ASSUME NEW mv \in Readings
    PROVE  Uint16(mv) \in Nat /\ (mv >= 0 => mv \in Nat /\ Uint16(mv) = mv)
<1>1. Uint16(mv) \in Nat
  BY ReadingAssumption DEF Uint16
<1>2. ASSUME mv >= 0 PROVE mv \in Nat /\ Uint16(mv) = mv
  <2>1. mv \in Int /\ mv < 65536
    BY ReadingAssumption
  <2> QED BY <1>2, <2>1 DEF Uint16
<1> QED
  BY <1>1, <1>2

\* A sample yields a level in range, and no sample takes back a fault.
LEMMA SampleFacts ==
    ASSUME TypeOK, NEW mv \in Readings \cup {NoReading}, SampleBattery(mv)
    PROVE  battery_pct' \in 0..100 /\ (health_fault' = TRUE \/ health_fault' = health_fault)
<1>1. battery_pct \in 0..100
  BY DEF TypeOK
<1>2. CASE mv \in Readings /\ battery_pct' = BatteryPercent(Uint16(mv)) /\ UNCHANGED health_fault
  BY <1>2, ReadingFacts, PercentRange
<1>3. CASE battery_pct' = 100 /\ UNCHANGED health_fault
  BY <1>3
<1>4. CASE health_fault' = TRUE /\ UNCHANGED battery_pct
  BY <1>1, <1>4
<1>5. SampleBattery(mv) =>
          \/ battery_pct' = 100 /\ UNCHANGED health_fault
          \/ health_fault' = TRUE /\ UNCHANGED battery_pct
          \/ mv \in Readings /\ battery_pct' = BatteryPercent(Uint16(mv)) /\ UNCHANGED health_fault
  BY Zenon DEF SampleBattery
<1> QED
  BY <1>2, <1>3, <1>4, <1>5

\* The fields of the payload.
LEMMA AdvFacts ==
    ASSUME NEW pct \in 0..100, NEW fault \in BOOLEAN, NEW mv \in Readings \cup {NoReading}
    PROVE  LET payload == AdvPayload(pct, fault, mv)
           IN  /\ payload \in Value
               /\ payload.what = "advertising" /\ payload.pct = pct
               /\ payload.fault = fault /\ payload.mv = mv
               /\ payload.low <=> pct <= 15
<1>1. (IF pct > 100 THEN 100 ELSE pct) = pct
  OBVIOUS
<1>2. AdvPayload(pct, fault, mv).low <=> pct <= 15
  BY DEF AdvPayload
<1>3. (pct <= 15) \in BOOLEAN
  OBVIOUS
<1>4. AdvPayload(pct, fault, mv) =
          [what |-> "advertising", pct |-> pct, low |-> pct <= 15, fault |-> fault, mv |-> mv]
  BY <1>1, Zenon DEF AdvPayload
<1> DEFINE low == pct <= 15
<1>5. AdvPayload(pct, fault, mv) =
          [what |-> "advertising", pct |-> pct, low |-> low, fault |-> fault, mv |-> mv]
  BY <1>4
<1>6. low \in BOOLEAN
  BY <1>3
<1> HIDE DEF low
<1>7. AdvPayload(pct, fault, mv) \in Value
  BY <1>5, <1>6 DEF Value
<1> QED
  BY <1>2, <1>5, <1>7

\* The fields of the Device Health value.
LEMMA HealthFacts ==
    ASSUME NEW pct \in 0..100, NEW fault \in BOOLEAN, NEW mv \in Readings \cup {NoReading}
    PROVE  LET value == HealthValue(pct, fault, mv)
           IN  /\ value \in Value
               /\ value.what = "health" /\ value.pct = pct /\ value.fault = fault /\ value.mv = mv
<1>1. (IF pct > 100 THEN 100 ELSE pct) = pct
  OBVIOUS
<1>2. HealthValue(pct, fault, mv) =
          [what |-> "health", pct |-> pct, low |-> FALSE, fault |-> fault, mv |-> mv]
  BY <1>1 DEF HealthValue
<1>3. HealthValue(pct, fault, mv) \in Value
  BY <1>2 DEF Value
<1> QED
  BY <1>2, <1>3

\* What is handed out after a sample is true.
LEMMA ShowFacts ==
    ASSUME TypeOK, NEW mv \in Readings \cup {NoReading}, SampleBattery(mv),
           UNCHANGED build,
           \/ shown' = AdvPayload(battery_pct', health_fault', mv)
           \/ shown' = HealthValue(battery_pct', health_fault', mv)
    PROVE  ShownLevelIsTrue' /\ shown' \in Value
<1>1. battery_pct' \in 0..100 /\ health_fault' \in BOOLEAN
  <2>1. health_fault \in BOOLEAN
    BY DEF TypeOK
  <2> QED BY <2>1, SampleFacts
<1>2. /\ shown'.pct = battery_pct' /\ shown'.fault = health_fault' /\ shown'.mv = mv
      /\ shown'.what = "advertising" => (shown'.low <=> battery_pct' <= 15)
  <2>1. CASE shown' = AdvPayload(battery_pct', health_fault', mv)
    BY <1>1, <2>1, AdvFacts
  <2>2. CASE shown' = HealthValue(battery_pct', health_fault', mv)
    BY <1>1, <2>2, HealthFacts
  <2> QED BY <2>1, <2>2
<1>3. shown' \in Value
  <2>1. CASE shown' = AdvPayload(battery_pct', health_fault', mv)
    BY <1>1, <2>1, AdvFacts
  <2>2. CASE shown' = HealthValue(battery_pct', health_fault', mv)
    BY <1>1, <2>2, HealthFacts
  <2> QED BY <2>1, <2>2
<1>4. ASSUME build.adc, ~health_fault', mv >= 0, mv \in Readings
      PROVE  battery_pct' = BatteryPercent(mv) /\ mv \in Nat
  <2>1. Uint16(mv) = mv /\ mv \in Nat
    BY <1>4, ReadingFacts
  <2>2. battery_pct' = BatteryPercent(Uint16(mv))
    BY <1>4, NumberFacts DEF SampleBattery
  <2> QED BY <2>1, <2>2
<1>5. ASSUME build.adc, ~health_fault' PROVE mv \in Readings
  BY <1>5 DEF SampleBattery
<1>6. ShownLevelIsTrue'
  <2> SUFFICES ASSUME build'.adc, ~shown'.fault
               PROVE  /\ shown'.mv \in Readings
                      /\ shown'.mv >= 0 =>
                           LET above == Clamped(shown'.mv) - EmptyMv
                               twice == 2 * (FullMv - EmptyMv) * shown'.pct - 200 * above
                           IN  /\ -(FullMv - EmptyMv) <= twice /\ twice <= FullMv - EmptyMv
                               /\ shown'.what = "advertising" => (shown'.low <=> 2 * above < 372)
    BY DEF ShownLevelIsTrue
  <2>1. build.adc /\ ~health_fault'
    BY <1>2
  <2>2. mv \in Readings
    BY <1>5, <2>1
  <2>3. CASE mv >= 0
    <3>1. battery_pct' = BatteryPercent(mv) /\ mv \in Nat
      BY <1>4, <2>1, <2>2, <2>3
    <3> QED BY <1>2, <2>2, <3>1, PercentNearest
  <2> QED BY <1>2, <2>2, <2>3
<1> QED
  BY <1>3, <1>6

-----------------------------------------------------------------------------
(* Every step, sorted by what it touches.                                  *)

\* The steps that only move main, a connection or a pending sample.
LEMMA QuietSteps ==
    ASSUME TypeOK,
           EarlyInit \/ RadioInit \/ AdvStart \/ SetConnected \/ \E reader \in Reader : Ask(reader)
    PROVE  Quiet
<1>1. CASE EarlyInit
  BY <1>1 DEF EarlyInit, Quiet
<1>2. CASE RadioInit
  BY <1>2 DEF RadioInit, Quiet
<1>3. CASE AdvStart
  BY <1>3 DEF AdvStart, Quiet
<1>4. CASE SetConnected
  <2>1. main = "loop" /\ main' = "loop" /\ connected' \in BOOLEAN
    BY <1>4 DEF SetConnected, Running
  <2> QED BY <1>4, <2>1 DEF SetConnected, Quiet
<1>5. ASSUME NEW reader \in Reader, Ask(reader) PROVE Quiet
  <2>1. main = "loop" /\ main' = "loop"
    BY <1>5 DEF Ask, Running
  <2>2. sampling' \subseteq Reader
    BY <1>5 DEF Ask, TypeOK
  <2> QED BY <1>5, <2>1, <2>2 DEF Ask, Quiet
<1> QED
  BY <1>1, <1>2, <1>3, <1>4, <1>5

\* The steps that sample the battery: where main goes, and what is left alone.
Sampled ==
    /\ \/ main = "sample" /\ main' = "watchdog"
       \/ main = "start" /\ main' = "starting"
       \/ UNCHANGED main
    /\ sampling' \subseteq Reader
    /\ \E mv \in Readings \cup {NoReading} :
          /\ SampleBattery(mv)
          /\ \/ UNCHANGED shown
             \/ shown' = AdvPayload(battery_pct', health_fault', mv)
             \/ shown' = HealthValue(battery_pct', health_fault', mv)
    /\ UNCHANGED <<build, connected, due, hardwareVars, reset_reason, watchdog_enabled, resetVars>>

LEMMA SampleSteps ==
    ASSUME TypeOK, FirstSample \/ FirstFill \/ FillAdvMsd \/ DeviceHealthRead
    PROVE  Sampled
<1>1. CASE FirstSample
  BY <1>1 DEF FirstSample, Sampled, TypeOK
<1>2. CASE FirstFill
  BY <1>2 DEF FirstFill, Sampled, TypeOK
<1>3. CASE FillAdvMsd
  BY <1>3 DEF FillAdvMsd, Sampled, TypeOK
<1>4. CASE DeviceHealthRead
  BY <1>4 DEF DeviceHealthRead, Sampled, TypeOK
<1> QED
  BY <1>1, <1>2, <1>3, <1>4

\* What is left of Next beside the quiet steps and the samples.
LEMMA NextSteps ==
    ASSUME TypeOK, Next
    PROVE  \/ Quiet \/ Sampled \/ LoadResetReason \/ InitWatchdog \/ MainLoop \/ Tick
           \/ WatchdogReset \/ ExternalReset
BY QuietSteps, SampleSteps DEF Next, Boot

-----------------------------------------------------------------------------
(* The invariant holds at first and is kept.                               *)

LEMMA InitInv == Init => IInv
<1> SUFFICES ASSUME Init PROVE IInv
  OBVIOUS
<1>1. Nothing \in Value
  BY DEF Nothing, Value
<1>2. TypeOK
  <2>1. due \in 0..LongSleep /\ wdt \in Stopped..Timeout /\ battery_pct \in 0..100
    BY NumberFacts DEF Init
  <2>2. "power_on" \in Cause
    BY HealthAssumption
  <2> QED BY <1>1, <2>1, <2>2, Zenon DEF Init, TypeOK, Main, Unknown
<1>3. CounterInv
  BY NumberFacts DEF Init, CounterInv, BeforeWatchdog, Booting
<1>4. RegisterInv /\ ReasonNamesLastReset
  BY DEF Init, RegisterInv, ReasonNamesLastReset, BeforeCapture
<1>5. ShownLevelIsTrue
  BY DEF Init, ShownLevelIsTrue, Nothing
<1> QED
  BY <1>2, <1>3, <1>4, <1>5 DEF IInv

\* A reset's effect on the types.
LEMMA ResetTypes ==
    ASSUME TypeOK, NEW cause \in Cause, Reset(cause) PROVE TypeOK'
<1>1. Nothing \in Value
  BY DEF Nothing, Value
<1>2. resetreas' \subseteq Cause
  BY DEF TypeOK, Reset
<1>3. fresh' \in BOOLEAN
  BY Zenon DEF TypeOK, Reset
<1>4. due' \in 0..LongSleep /\ wdt' \in Stopped..Timeout /\ battery_pct' \in 0..100
  BY NumberFacts DEF Reset
<1>5. /\ build' \in Build /\ main' \in Main /\ reset_reason' \subseteq Cause \cup {"other"}
      /\ sampling' \subseteq Reader /\ shown' \in Value /\ last' \in Cause
  BY <1>1 DEF TypeOK, Reset, Main, Unknown
<1>6. connected' \in BOOLEAN /\ watchdog_enabled' \in BOOLEAN /\ health_fault' \in BOOLEAN
      /\ cleared' \in BOOLEAN
  BY DEF Reset
<1> QED
  BY <1>2, <1>3, <1>4, <1>5, <1>6, Zenon DEF TypeOK

LEMMA TypeStep == TypeOK /\ [Next]_vars => TypeOK'
<1> SUFFICES ASSUME TypeOK, [Next]_vars PROVE TypeOK'
  OBVIOUS
<1>1. CASE Quiet
  BY <1>1 DEF TypeOK, Quiet, Main, Booting, Running, staticVars, hardwareVars, resetVars
<1>2. CASE Sampled
  <2>1. PICK mv \in Readings \cup {NoReading} :
            /\ SampleBattery(mv)
            /\ \/ UNCHANGED shown
               \/ shown' = AdvPayload(battery_pct', health_fault', mv)
               \/ shown' = HealthValue(battery_pct', health_fault', mv)
    BY <1>2 DEF Sampled
  <2>2. battery_pct' \in 0..100 /\ health_fault' \in BOOLEAN
    <3>1. health_fault \in BOOLEAN
      BY DEF TypeOK
    <3> QED BY <2>1, <3>1, SampleFacts
  <2>3. shown' \in Value
    <3>1. UNCHANGED build
      BY <1>2 DEF Sampled
    <3>2. shown \in Value
      BY DEF TypeOK
    <3> QED BY <2>1, <3>1, <3>2, ShowFacts
  <2> QED BY <1>2, <2>2, <2>3
          DEF TypeOK, Sampled, Main, Booting, Running, hardwareVars, resetVars
<1>3. CASE LoadResetReason
  <2>1. MapResetReason(resetreas) \subseteq Cause \cup {"other"}
    BY DEF TypeOK, MapResetReason
  <2> QED BY <1>3, <2>1 DEF TypeOK, LoadResetReason, Main
<1>4. CASE InitWatchdog
  <2>1. wdt' \in Stopped..Timeout
    BY <1>4, NumberFacts DEF TypeOK, InitWatchdog
  <2>2. health_fault' \in BOOLEAN /\ watchdog_enabled' \in BOOLEAN
    BY <1>4, Zenon DEF TypeOK, InitWatchdog
  <2> QED BY <1>4, <2>1, <2>2 DEF TypeOK, InitWatchdog, Main, Booting, resetVars
<1>5. CASE MainLoop
  <2>1. due' \in 0..LongSleep /\ wdt' \in Stopped..Timeout
    BY <1>5, NumberFacts DEF TypeOK, MainLoop, FeedWatchdog
  <2>2. health_fault' \in BOOLEAN
    BY <1>5, Zenon DEF TypeOK, MainLoop, FeedWatchdog
  <2> QED BY <1>5, <2>1, <2>2 DEF TypeOK, MainLoop, resetVars
<1>6. CASE Tick
  BY <1>6, NumberFacts DEF TypeOK, Tick, staticVars, resetVars
<1>7. CASE WatchdogReset
  BY <1>7, ResetTypes, HealthAssumption DEF WatchdogReset
<1>8. CASE ExternalReset
  BY <1>8, ResetTypes DEF ExternalReset
<1>9. CASE UNCHANGED vars
  BY <1>9 DEF vars, TypeOK, staticVars, hardwareVars, resetVars
<1> QED
  BY <1>1, <1>2, <1>3, <1>4, <1>5, <1>6, <1>7, <1>8, <1>9, NextSteps

LEMMA CounterStep == TypeOK /\ CounterInv /\ [Next]_vars => CounterInv'
<1> SUFFICES ASSUME TypeOK, CounterInv, [Next]_vars PROVE CounterInv'
  OBVIOUS
<1> USE NumberFacts
<1>1. CASE Quiet
  BY <1>1 DEF TypeOK, CounterInv, Quiet, BeforeWatchdog, Booting, staticVars, hardwareVars
<1>2. CASE Sampled
  <2>1. health_fault' = TRUE \/ health_fault' = health_fault
    BY <1>2, SampleFacts DEF Sampled
  <2> QED BY <1>2, <2>1 DEF TypeOK, CounterInv, Sampled, BeforeWatchdog, Booting, hardwareVars
<1>3. CASE LoadResetReason
  BY <1>3 DEF TypeOK, CounterInv, LoadResetReason, BeforeWatchdog, Booting
<1>4. CASE InitWatchdog
  BY <1>4 DEF TypeOK, CounterInv, InitWatchdog, BeforeWatchdog, Booting
<1>5. CASE MainLoop
  BY <1>5 DEF TypeOK, CounterInv, MainLoop, FeedWatchdog, BeforeWatchdog, Booting
<1>6. CASE Tick
  BY <1>6 DEF TypeOK, CounterInv, Tick, BeforeWatchdog, Booting, staticVars
<1>7. ASSUME NEW cause, Reset(cause) PROVE CounterInv'
  BY <1>7 DEF CounterInv, Reset, BeforeWatchdog, Booting
<1>8. CASE UNCHANGED vars
  BY <1>8 DEF vars, CounterInv, staticVars, hardwareVars
<1> QED
  BY <1>1, <1>2, <1>3, <1>4, <1>5, <1>6, <1>7, <1>8, NextSteps DEF WatchdogReset, ExternalReset

LEMMA RegisterStep ==
    RegisterInv /\ ReasonNamesLastReset /\ TypeOK /\ [Next]_vars
        => RegisterInv' /\ ReasonNamesLastReset'
<1> SUFFICES ASSUME RegisterInv, ReasonNamesLastReset, TypeOK, [Next]_vars
             PROVE  RegisterInv' /\ ReasonNamesLastReset'
  OBVIOUS
\* Steps that leave the register and the reason alone, and do not go back.
<1>1. ASSUME main' \in BeforeCapture => main \in BeforeCapture,
             UNCHANGED <<resetreas, reset_reason, resetVars>>
      PROVE  RegisterInv' /\ ReasonNamesLastReset'
  BY <1>1 DEF RegisterInv, ReasonNamesLastReset, resetVars
<1>2. CASE Quiet
  BY <1>1, <1>2 DEF Quiet, BeforeCapture, staticVars, hardwareVars
<1>3. CASE Sampled
  BY <1>1, <1>3 DEF Sampled, BeforeCapture, hardwareVars
<1>4. CASE LoadResetReason
  <2>1. last \in resetreas /\ (fresh => resetreas = {last}) /\ reset_reason = Unknown
        /\ ~cleared
    BY <1>4 DEF LoadResetReason, RegisterInv, BeforeCapture
  <2>2. MapResetReason({last}) = {IF last \in Named THEN last ELSE "other"}
    BY DEF MapResetReason
  <2>3. (IF last \in Named THEN last ELSE "other") \in MapResetReason(resetreas)
    BY <2>1 DEF MapResetReason
  <2>4. ReasonNamesLastReset'
    BY <1>4, <2>1, <2>2, <2>3 DEF LoadResetReason, ReasonNamesLastReset
  <2>5. RegisterInv'
    BY <1>4, <2>1 DEF LoadResetReason, RegisterInv, BeforeCapture
  <2> QED BY <2>4, <2>5
<1>5. CASE InitWatchdog
  BY <1>1, <1>5 DEF InitWatchdog, BeforeCapture
<1>6. CASE MainLoop
  BY <1>1, <1>6 DEF MainLoop
<1>7. CASE Tick
  BY <1>1, <1>7 DEF Tick, staticVars
<1>8. ASSUME NEW cause, Reset(cause) PROVE RegisterInv' /\ ReasonNamesLastReset'
  <2>1. cause \in resetreas' /\ (fresh' => resetreas' = {cause})
    BY <1>8 DEF Reset, RegisterInv
  <2>2. reset_reason' = Unknown /\ last' = cause /\ ~cleared'
    BY <1>8 DEF Reset
  <2> QED BY <2>1, <2>2 DEF RegisterInv, ReasonNamesLastReset
<1>9. CASE UNCHANGED vars
  BY <1>1, <1>9 DEF vars, staticVars, hardwareVars
<1> QED
  BY <1>2, <1>3, <1>4, <1>5, <1>6, <1>7, <1>8, <1>9, NextSteps DEF WatchdogReset, ExternalReset

LEMMA ShownStep == TypeOK /\ ShownLevelIsTrue /\ [Next]_vars => ShownLevelIsTrue'
<1> SUFFICES ASSUME TypeOK, ShownLevelIsTrue, [Next]_vars PROVE ShownLevelIsTrue'
  OBVIOUS
<1>1. ASSUME UNCHANGED <<build, shown>> PROVE ShownLevelIsTrue'
  BY <1>1 DEF ShownLevelIsTrue
<1>2. CASE Sampled
  <2>1. PICK mv \in Readings \cup {NoReading} :
            /\ SampleBattery(mv)
            /\ \/ UNCHANGED shown
               \/ shown' = AdvPayload(battery_pct', health_fault', mv)
               \/ shown' = HealthValue(battery_pct', health_fault', mv)
    BY <1>2 DEF Sampled
  <2>2. UNCHANGED build
    BY <1>2 DEF Sampled
  <2> QED BY <1>1, <2>1, <2>2, ShowFacts
<1>3. ASSUME NEW cause, Reset(cause) PROVE ShownLevelIsTrue'
  BY <1>3 DEF Reset, ShownLevelIsTrue, Nothing
<1>4. CASE Quiet \/ LoadResetReason \/ InitWatchdog \/ MainLoop \/ Tick \/ UNCHANGED vars
  BY <1>1, <1>4 DEF Quiet, LoadResetReason, InitWatchdog, MainLoop, Tick, vars
<1> QED
  BY <1>2, <1>3, <1>4, NextSteps DEF WatchdogReset, ExternalReset

LEMMA Inductive == Spec => []IInv
<1>1. IInv /\ [Next]_vars => IInv'
  BY TypeStep, CounterStep, RegisterStep, ShownStep DEF IInv
<1> QED
  BY InitInv, <1>1, PTL DEF Spec

-----------------------------------------------------------------------------
(* The theorems.                                                           *)

\* The variables keep their types; the counter keeps within its timeout.
THEOREM TypeCorrect == Spec => []TypeOK
<1>1. IInv => TypeOK
  BY DEF IInv
<1> QED
  BY Inductive, <1>1, PTL

\* A level shown without the fault bit is the nearest percent of a measurement
\* made for it, for any readings of the ADC and any overlap of samples.
THEOREM LevelTrue == Spec => []ShownLevelIsTrue
<1>1. IInv => ShownLevelIsTrue
  BY DEF IInv
<1> QED
  BY Inductive, <1>1, PTL

\* The reset reason names this boot's reset, and alone if the boot before it
\* cleared the register.
THEOREM ReasonNamed == Spec => []ReasonNamesLastReset
<1>1. IInv => ReasonNamesLastReset
  BY DEF IInv
<1> QED
  BY Inductive, <1>1, PTL

\* The watchdog never resets a loop that runs unless a feed was refused and the
\* fault recorded, nor a boot that takes at most BootLimit.
THEOREM LivingSpared == Spec => WatchdogSparesTheLiving
<1>1. ASSUME IInv, [Next]_vars
      PROVE  [last' = "watchdog" /\ main' = "early" /\ main # "early"
                 => main = "fatal" \/ health_fault]_vars
  <2> USE NumberFacts
  <2>1. CASE WatchdogReset
    <3>1. main \in Main /\ wdt = 8 /\ due \in 0..2
      BY <1>1, <2>1 DEF IInv, TypeOK, WatchdogReset
    <3>2. main \notin BeforeWatchdog
      BY <1>1, <3>1 DEF IInv, CounterInv
    <3>3. main \notin Booting
      BY <1>1, <3>1 DEF IInv, CounterInv
    <3>4. main = "loop" => health_fault
      BY <1>1, <3>1 DEF IInv, CounterInv
    <3> QED BY <3>1, <3>2, <3>3, <3>4 DEF Main, Running, BeforeWatchdog
  <2>2. CASE ExternalReset
    BY <2>2 DEF ExternalReset, Reset
  <2>3. CASE \/ Quiet \/ Sampled \/ LoadResetReason \/ InitWatchdog \/ MainLoop \/ Tick
             \/ UNCHANGED vars
    <3>1. main' = "early" => main = "early"
      BY <2>3 DEF Quiet, Sampled, LoadResetReason, InitWatchdog, MainLoop, Tick, vars
    <3> QED BY <3>1
  <2>4. TypeOK
    BY <1>1 DEF IInv
  <2> QED BY <1>1, <2>1, <2>2, <2>3, <2>4, NextSteps
<1> QED
  BY Inductive, <1>1, PTL DEF Spec, WatchdogSparesTheLiving
=============================================================================
