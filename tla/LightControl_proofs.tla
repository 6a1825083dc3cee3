------------------------ MODULE LightControl_proofs ------------------------
(***************************************************************************)
(* Proofs about LightControl, for all slots, colours, commands and         *)
(* timeouts.  One inductive invariant carries them all: a pending timeout  *)
(* finds both threads idle, so the timeout handler never waits for the     *)
(* strip, and a command that overtakes it reaches the strip only when the  *)
(* handler has returned.                                                   *)
(***************************************************************************)
EXTENDS LightControl, TLAPS

\* The order of the threads around the strip.
Threads ==
    /\ pc["worker"] \in {"idle", "transfer", "shown"}
    /\ pc["rx"] \in {"transfer", "shown", "schedule"} => pc["worker"] = "idle"
    /\ pc["worker"] = "transfer" => ledStripReady
    /\ canceling => pc["worker"] # "idle"

\* The light is the current command's, or off.
Light ==
    /\ mode # Off => /\ current \in Commands /\ mode = current.mode
                     /\ remaining <= ResolvedTimeout(current)
    /\ mode = Off => remaining = 0

\* A pending timeout belongs to a light that is fully set up, and is not early.
Timer ==
    /\ timer # "none" => /\ pc["rx"] = "idle" /\ pc["worker"] = "idle" /\ mode # Off
                         /\ remaining <= delay /\ delay <= ResolvedTimeout(current)
    /\ timer = "queued" => delay = 0
    /\ mode # Off /\ timer = "none" => pc["rx"] # "idle"

\* What each thread drives, and who still has to cut the power.
Driving ==
    /\ pc["rx"] # "idle" => driving["rx"] = mode /\ pixels = Wanted
    /\ pc["rx"] = "schedule" => mode # Off
    /\ pc["worker"] # "idle" => driving["worker"] = Off

\* What the strip holds, or is about to.
Strip ==
    /\ pc["rx"] = "transfer" => sending["rx"] = pixels
    /\ pc["worker"] = "transfer" /\ pc["rx"] = "idle" =>
          sending["worker"] = Dark /\ pixels = Dark /\ mode = Off
    /\ ledStripReady /\ pc["worker"] # "transfer" /\ pc["rx"] \in {"idle", "shown", "schedule"}
          => dropped \/ strip = Wanted

Reported ==
    pc["worker"] = "idle" /\ pc["rx"] \in {"idle", "schedule"} => reported = mode

IInv == TypeOK /\ Threads /\ Light /\ Timer /\ Driving /\ Strip /\ Reported /\ PowerOnlyWhileLit

-----------------------------------------------------------------------------
(* What a command asks for.                                                *)

\* A picture for every command.
LEMMA FrameFacts ==
    /\ Dark \in Picture
    /\ \A command \in Commands : Frame(command) \in Picture
    /\ \A command : command.mode = Off => Frame(command) = Dark
BY LightAssumption DEF Dark, Picture, Frame

\* Seconds within the cap of the mode, and none for OFF only.
LEMMA TimeoutFacts ==
    /\ \A command : command.mode = Off => ResolvedTimeout(command) = 0
    /\ \A command \in Commands :
          /\ ResolvedTimeout(command) \in 0..MaxTimeout
          /\ command.mode = FX => ResolvedTimeout(command) <= FxTimeout
BY LightAssumption, TimeoutAssumption DEF ResolvedTimeout, CommandTimeout

\* Which commands are accepted.
LEMMA CommandFacts ==
    ASSUME NEW command \in Commands, Accepts(command) PROVE command.mode \in Mode
BY DEF Accepts

-----------------------------------------------------------------------------
(* The invariant holds at first and is kept.                               *)

\* The initial state, the lights off and both threads idle, satisfies IInv.
LEMMA InitInv == Init => IInv
<1> SUFFICES ASSUME Init PROVE IInv
  OBVIOUS
<1> USE DEF Init, Mode, Thread, Pc
<1>1. TypeOK
  <2>1. remaining \in 0..MaxTimeout /\ delay \in 0..MaxTimeout
    BY TimeoutAssumption
  <2>2. pixels \in Picture /\ strip \in Picture /\ sending \in [Thread -> Picture]
    BY FrameFacts
  <2> QED BY <2>1, <2>2 DEF TypeOK
<1>2. Threads /\ Light /\ Timer
  BY DEF Threads, Light, Timer
<1>3. Driving /\ Strip
  BY DEF Driving, Strip, Wanted
<1>4. Reported /\ PowerOnlyWhileLit
  BY DEF Reported, PowerOnlyWhileLit
<1> QED
  BY <1>1, <1>2, <1>3, <1>4 DEF IInv

\* An accepted command: the light is its own, whatever was pending is cancelled.
LEMMA ApplyInv ==
    ASSUME IInv, NEW command \in Commands, Apply(command) PROVE IInv'
<1> USE DEF IInv, Thread
<1>1. /\ mode' = command.mode /\ mode' \in Mode /\ current' = command
      /\ remaining' = ResolvedTimeout(command) /\ remaining' \in 0..MaxTimeout
      /\ mode' = Off => remaining' = 0
  BY CommandFacts, TimeoutFacts DEF Apply, StateApply
<1>2. timer' = "none" /\ delay' = 0 /\ canceling' = (pc["worker"] # "idle")
  BY DEF Apply, CancelOff
<1>3. /\ pixels' = Frame(command) /\ driving' = [driving EXCEPT !["rx"] = command.mode]
      /\ sending' = [sending EXCEPT !["rx"] = Frame(command)]
      /\ pc' = [pc EXCEPT !["rx"] = IF ~ledStripReady THEN "shown"
                                    ELSE IF BusFree THEN "transfer" ELSE "waiting"]
      /\ UNCHANGED <<strip, dropped, lightOutputsReady, ledStripReady, reported>>
      /\ pc["rx"] = "idle" /\ pc["worker"] # "shown"
  BY DEF Apply, Show, MayRun, hardwareVars
<1>4. power' = power \/ (mode' # Off /\ power' = lightOutputsReady)
  <2>1. CASE command.mode = Off
    BY <2>1 DEF Apply
  <2>2. CASE command.mode # Off
    <3>1. power' = (TRUE /\ lightOutputsReady)
      BY <2>2 DEF Apply, SetLightOutputs
    <3>2. lightOutputsReady \in BOOLEAN
      BY DEF TypeOK
    <3> QED BY <1>1, <2>2, <3>1, <3>2
  <2> QED BY <2>1, <2>2
<1>5. Frame(command) = Wanted'
  BY <1>1, FrameFacts DEF Wanted
<1>6. TypeOK'
  <2>1. pc' \in [Thread -> Pc] /\ driving' \in [Thread -> Mode] /\ sending' \in [Thread -> Picture]
        /\ pixels' \in Picture
    BY <1>1, <1>3, FrameFacts DEF TypeOK, Pc
  <2>2. power' \in BOOLEAN /\ canceling' \in BOOLEAN
    BY <1>2, <1>4 DEF TypeOK
  <2>3. delay' \in 0..MaxTimeout
    BY <1>2, TimeoutAssumption
  <2> QED BY <1>1, <1>2, <1>3, <2>1, <2>2, <2>3 DEF TypeOK
<1>7. Threads'
  BY <1>2, <1>3 DEF TypeOK, Threads, BusFree
<1>8. Light' /\ Timer'
  <2>1. remaining' <= ResolvedTimeout(current')
    BY <1>1
  <2> QED BY <1>1, <1>2, <1>3, <2>1 DEF TypeOK, Light, Timer, Threads
<1>9. Driving'
  BY <1>1, <1>3, <1>5 DEF TypeOK, Driving
<1>10. Strip'
  BY <1>1, <1>3, <1>5 DEF TypeOK, Strip, Threads, BusFree
<1>11. Reported'
  BY <1>3 DEF TypeOK, Reported
<1>12. PowerOnlyWhileLit'
  BY <1>1, <1>3, <1>4 DEF TypeOK, Driving, PowerOnlyWhileLit
<1> QED
  BY <1>6, <1>7, <1>8, <1>9, <1>10, <1>11, <1>12

\* Every step of either thread, of the strip and of the clock preserves IInv.
LEMMA StepInv == IInv /\ [Next]_vars => IInv'
<1> SUFFICES ASSUME IInv, [Next]_vars PROVE IInv'
  OBVIOUS
<1> USE LightAssumption, TimeoutAssumption
        DEF IInv, TypeOK, Threads, Light, Timer, Driving, Strip, Reported, PowerOnlyWhileLit,
        Mode, Thread, Pc, lightVars, hardwareVars, stripVars, timerVars, threadVars
<1>1. ASSUME NEW command \in Commands, Apply(command) PROVE IInv'
  BY <1>1, ApplyInv
<1>2. CASE ApplyShown
  BY <1>2 DEF ApplyShown, SetLightOutputs, Wanted
<1>3. CASE ApplySchedule
  BY <1>3, TimeoutFacts DEF ApplySchedule, MayRun, Wanted
<1>4. CASE TransferBegin("rx")
  BY <1>4 DEF TransferBegin, MayRun, BusFree, Wanted
<1>5. CASE TransferBegin("worker")
  BY <1>5 DEF TransferBegin, MayRun, BusFree
<1>6. CASE TransferEnd("rx")
  BY <1>6 DEF TransferEnd, Wanted
<1>7. CASE TransferEnd("worker")
  <2>1. TypeOK'
    BY <1>7 DEF TransferEnd
  <2>2. Threads'
    BY <1>7 DEF TransferEnd
  <2>3. Light' /\ Timer'
    BY <1>7 DEF TransferEnd
  <2>4. Driving'
    BY <1>7 DEF TransferEnd, Wanted
  <2>5. Strip'
    BY <1>7 DEF TransferEnd, Wanted
  <2>6. Reported'
    BY <1>7 DEF TransferEnd
  <2>7. PowerOnlyWhileLit'
    BY <1>7 DEF TransferEnd
  <2> QED
    BY <2>1, <2>2, <2>3, <2>4, <2>5, <2>6, <2>7
<1>8. CASE OffBegin
  BY <1>8, FrameFacts DEF OffBegin, MayRun, Show, BusFree, Wanted
<1>9. CASE OffShown
  BY <1>9 DEF OffShown, SetLightOutputs, Wanted
<1>10. CASE TimerExpires
  BY <1>10 DEF TimerExpires, Wanted
<1>11. CASE Tick
  <2>1. TypeOK'
    BY <1>11 DEF Tick
  <2>2. Threads' /\ Reported' /\ PowerOnlyWhileLit'
    BY <1>11 DEF Tick
  <2>3. Light' /\ Timer'
    <3>1. UNCHANGED ResolvedTimeout(current)
      BY <1>11 DEF Tick
    <3>2. ResolvedTimeout(current) \in Nat \/ mode = Off
      BY TimeoutFacts
    <3> QED BY <1>11, <3>1, <3>2 DEF Tick
  <2>4. Driving' /\ Strip'
    BY <1>11 DEF Tick, Wanted
  <2> QED BY <2>1, <2>2, <2>3, <2>4
<1>12. CASE UNCHANGED vars
  BY <1>12 DEF vars, Wanted
<1>13. QED
  BY <1>1, <1>2, <1>3, <1>4, <1>5, <1>6, <1>7, <1>8, <1>9, <1>10, <1>11, <1>12
     DEF Next, RxStep, WorkerStep

\* IInv holds in every reachable state.
LEMMA Invariance == Spec => []IInv
  BY InitInv, StepInv, PTL DEF Spec

-----------------------------------------------------------------------------
\* The types of the light state, the threads and the outputs hold for every set
\* of modes and every bound (light_control.c).
THEOREM TypeCorrect == Spec => []TypeOK
<1>1. IInv => TypeOK
  BY DEF IInv
<1> QED
  BY <1>1, Invariance, PTL

\* Power is on only for a lit mode, or while a thread is about to cut it
\* (set_light_outputs and its two callers).
THEOREM PowerSafe == Spec => []PowerOnlyWhileLit
<1>1. IInv => PowerOnlyWhileLit
  BY DEF IInv
<1> QED
  BY <1>1, Invariance, PTL

\* The strip ends up with the frame of the latest command, or dark after its
\* timeout, in every overlap of commands and timeouts, unless a transfer failed
\* (drive_leds_command and drive_leds_off).
THEOREM StripIsCommand == Spec => []StripShowsCommand
<1>1. IInv => StripShowsCommand
  BY DEF IInv, Strip, StripShowsCommand, Resting, Thread
<1> QED
  BY <1>1, Invariance, PTL

\* Every lit light at rest has a timeout pending, within the cap of its mode: the cancel in light_control_apply never makes k_work_schedule fail.
THEOREM OwnTimer == Spec => []LitHasOwnTimer
<1>1. IInv => LitHasOwnTimer
  BY TimeoutFacts, LightAssumption, TimeoutAssumption
     DEF IInv, TypeOK, Light, Timer, LitHasOwnTimer, Resting, Thread
<1> QED
  BY <1>1, Invariance, PTL

\* No timeout ends a light before the seconds of its own command are over.
THEOREM NeverEarly == Spec => NoEarlyOff
<1>1. IInv /\ [Next]_vars => [mode # Off /\ mode' = Off => remaining = 0 \/ current'.mode = Off]_vars
  <2> SUFFICES ASSUME IInv, Next PROVE mode # Off /\ mode' = Off => remaining = 0 \/ current'.mode = Off
    OBVIOUS
  <2>1. ASSUME NEW command \in Commands, Apply(command) PROVE mode' = current'.mode
    BY <2>1 DEF Apply, StateApply
  <2>2. CASE OffBegin
    BY <2>2 DEF OffBegin, IInv, TypeOK, Timer
  <2>3. CASE RxStep \/ OffShown \/ TransferBegin("worker") \/ TransferEnd("worker") \/ Tick
             \/ TimerExpires
    BY <2>3 DEF RxStep, ApplyShown, ApplySchedule, OffShown, TransferBegin, TransferEnd, Tick,
                TimerExpires, lightVars
  <2> QED BY <2>1, <2>2, <2>3 DEF Next, WorkerStep
<1> QED
  BY <1>1, Invariance, PTL DEF Spec, NoEarlyOff

\* At rest the last report carried the present mode (app_ble_report_light_changed
\* is the last step of a change in either thread).
THEOREM ReportTrue == Spec => []ReportedIsMode
<1>1. IInv => ReportedIsMode
  BY DEF IInv, Reported, ReportedIsMode, Resting, Thread
<1> QED
  BY <1>1, Invariance, PTL
=============================================================================
