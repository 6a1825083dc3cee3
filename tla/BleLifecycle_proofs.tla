------------------------- MODULE BleLifecycle_proofs -------------------------
(***************************************************************************)
(* Machine-checked proofs about BleLifecycle, for every value of its       *)
(* constants: the bounds MaxGen and MaxFaults play no part, so the results *)
(* hold for the unbounded system.                                          *)
(***************************************************************************)
EXTENDS BleLifecycle, TLAPS

-----------------------------------------------------------------------------
(* Type correctness.                                                       *)

\* Membership facts: the provers do best with the enumerated sets left opaque.
LEMMA PcFacts ==
    /\ {"armed", "enabling", "settings", "starting", "running", "fatal",
        "fill", "call", "commit"} \subseteq MainPc
    /\ {"idle", "entered", "fill", "call", "commit"} \subseteq WorkerPc
BY DEF MainPc, WorkerPc, Applying

\* There are two contexts that apply advertising.
LEMMA ActorFacts ==
    /\ "main" \in Actor /\ "worker" \in Actor
    /\ \A a \in Actor : a = "main" \/ a = "worker"
BY DEF Actor

\* The names of the link states.
LEMMA LinkFacts == {"none", "coming", "up", "going"} \subseteq Link
BY DEF Link

\* The names of the reporting handlers.
LEMMA SourceFacts == "binding" \in Source /\ "light" \in Source /\ "timeout" \in Source
BY DEF Source

\* Power-on state has the right types.
LEMMA TypeInit == Init => TypeOK
<1> SUFFICES ASSUME Init PROVE TypeOK
  OBVIOUS
<1>1. /\ pc \in [Actor -> MainPc \cup WorkerPc]
      /\ pc["main"] \in MainPc /\ pc["worker"] \in WorkerPc
  BY PcFacts, ActorFacts DEF Init
<1>2. attempt \in [Actor -> [restart : BOOLEAN, target : Nat, ok : BOOLEAN]]
  BY DEF Init
<1> QED
  BY <1>1, <1>2, LinkFacts, SourceFacts DEF Init, TypeOK

\* mark_dirty keeps the generation a number.
LEMMA MarkDirtyType == TypeOK /\ MarkDirty => gen' \in Nat
BY DEF TypeOK, MarkDirty

\* schedule_locked writes two flags only.
LEMMA ScheduleType ==
    ASSUME NEW wanted, TypeOK, ScheduleLocked(wanted)
    PROVE  pending' \in BOOLEAN /\ submitting' \in BOOLEAN
BY DEF TypeOK, ScheduleLocked

\* The two halves of TypeOK: the firmware and the controller, and the data.
ControlTypes ==
    /\ ready \in BOOLEAN /\ connected \in BOOLEAN
    /\ running \in BOOLEAN /\ pending \in BOOLEAN
    /\ gen \in Nat /\ applied \in Nat
    /\ submitting \in BOOLEAN /\ queued \in BOOLEAN
    /\ pc \in [Actor -> MainPc \cup WorkerPc]
    /\ pc["main"] \in MainPc /\ pc["worker"] \in WorkerPc
    /\ attempt \in [Actor -> [restart : BOOLEAN, target : Nat, ok : BOOLEAN]]
    /\ advertising \in BOOLEAN /\ link \in Link
    /\ gaveUp \in BOOLEAN /\ faults \in Nat

DataTypes ==
    /\ writing \in BOOLEAN /\ lit \in BOOLEAN /\ unreported \subseteq Source
    /\ fillStale \in BOOLEAN /\ airStale \in BOOLEAN

\* Every step keeps the types of the firmware and the controller.
LEMMA ControlStep == TypeOK /\ [Next]_vars => ControlTypes'
<1> SUFFICES ASSUME TypeOK, [Next]_vars PROVE ControlTypes'
  OBVIOUS
<1> USE PcFacts, ActorFacts, LinkFacts, SourceFacts
    DEF TypeOK, ControlTypes, lifecycleVars, workVars, radioVars, dataVars
<1>1. CASE LifecycleInit
  BY <1>1 DEF LifecycleInit, MainGoto
<1>2. CASE BluetoothInitialized
  BY <1>2 DEF BluetoothInitialized, MainGoto
<1>3. CASE SettingsLoad
  BY <1>3 DEF SettingsLoad, MainGoto
<1>4. CASE StartSample
  BY <1>4 DEF StartSample, MainGoto, MarkDirty
<1>5. ASSUME NEW a \in Actor, ApplyStep(a) PROVE ControlTypes'
  <2>1. CASE FillAdvMsd(a)
    BY <2>1 DEF FillAdvMsd
  <2>2. CASE AdvStart(a)
    BY <2>2 DEF AdvStart, Return
  <2>3. CASE AdvUpdate(a)
    BY <2>3 DEF AdvUpdate, Return
  <2>4. CASE AdvRefused(a)
    BY <2>4 DEF AdvRefused, Return
  <2>5. CASE AdvFault(a)
    <3>1. faults' \in Nat
      BY <2>5 DEF AdvFault
    <3> QED BY <2>5, <3>1 DEF AdvFault, Return
  <2> QED BY <1>5, <2>1, <2>2, <2>3, <2>4, <2>5 DEF ApplyStep
<1>6. CASE StartCommit
  BY <1>6 DEF StartCommit
<1>7. CASE WorkerEnter
  BY <1>7 DEF WorkerEnter
<1>8. CASE ProcessSample
  BY <1>8 DEF ProcessSample
<1>9. CASE ProcessCommit
  BY <1>9 DEF ProcessCommit, ScheduleLocked
<1>10. CASE Submit
  BY <1>10 DEF Submit
<1>11. CASE Connected
  BY <1>11 DEF Connected
<1>12. CASE Disconnected
  BY <1>12, MarkDirtyType, ScheduleType DEF Disconnected
<1>13. ASSUME NEW source \in Source, Report(source) PROVE ControlTypes'
  BY <1>13, MarkDirtyType, ScheduleType DEF Report
<1>14. CASE PeerConnect
  BY <1>14 DEF PeerConnect
<1>15. CASE PeerDisconnect
  BY <1>15 DEF PeerDisconnect
<1>16. CASE ReportNfcFd
  BY <1>16, MarkDirtyType, ScheduleType DEF ReportNfcFd
<1>17. CASE ChangeBinding
  BY <1>17 DEF ChangeBinding, Change
<1>18. CASE ChangeLight \/ OffWork
  BY <1>18 DEF ChangeLight, OffWork, Change
<1>19. CASE BindingCpWrite \/ SaveFailed
  BY <1>19 DEF BindingCpWrite, SaveFailed
<1>20. CASE UNCHANGED vars
  BY <1>20 DEF vars
<1> QED
  BY <1>1, <1>2, <1>3, <1>4, <1>5, <1>6, <1>7, <1>8, <1>9, <1>10, <1>11, <1>12,
     <1>13, <1>14, <1>15, <1>16, <1>17, <1>18, <1>19, <1>20
  DEF Next, MainStep, WorkerStep, HostStep, ReportStep

\* Every step keeps the types of the data.
LEMMA DataStep == TypeOK /\ [Next]_vars => DataTypes'
<1> SUFFICES ASSUME TypeOK, [Next]_vars PROVE DataTypes'
  OBVIOUS
<1>t. DataTypes
  BY DEF TypeOK, DataTypes
<1>a. ASSUME UNCHANGED dataVars PROVE DataTypes'
  BY <1>t, <1>a DEF DataTypes, dataVars
<1>1. CASE LifecycleInit \/ BluetoothInitialized \/ SettingsLoad
  BY <1>1, <1>a DEF LifecycleInit, BluetoothInitialized, SettingsLoad
<1>2. CASE StartSample \/ StartCommit
  BY <1>2, <1>a DEF StartSample, StartCommit
<1>3. ASSUME NEW a \in Actor, ApplyStep(a) PROVE DataTypes'
  <2>1. UNCHANGED <<writing, lit, unreported>>
    BY <1>3 DEF ApplyStep, FillAdvMsd, AdvStart, AdvUpdate, AdvRefused, AdvFault, Return
  <2>2. fillStale' \in {FALSE, fillStale} /\ airStale' \in {airStale, fillStale}
    BY <1>3 DEF ApplyStep, FillAdvMsd, AdvStart, AdvUpdate, AdvRefused, AdvFault, Return
  <2> QED BY <1>t, <2>1, <2>2 DEF DataTypes
<1>4. CASE WorkerEnter \/ ProcessSample \/ ProcessCommit \/ Submit
  BY <1>4, <1>a DEF WorkerEnter, ProcessSample, ProcessCommit, Submit
<1>5. CASE Connected \/ Disconnected \/ PeerConnect \/ PeerDisconnect \/ ReportNfcFd
  BY <1>5, <1>a DEF Connected, Disconnected, PeerConnect, PeerDisconnect, ReportNfcFd
<1>6. ASSUME NEW source \in Source, Report(source) PROVE DataTypes'
  <2>1. unreported' \subseteq unreported /\ UNCHANGED <<writing, lit, fillStale, airStale>>
    BY <1>6 DEF Report
  <2> QED BY <1>t, <2>1 DEF DataTypes
<1>7. CASE BindingCpWrite \/ SaveFailed
  BY <1>t, <1>7 DEF BindingCpWrite, SaveFailed, DataTypes
<1>8. CASE ChangeBinding \/ ChangeLight \/ OffWork
  <2>1. PICK source \in Source : Change(source)
    BY <1>8, SourceFacts DEF ChangeBinding, ChangeLight, OffWork
  <2>2. unreported' = unreported \cup {source} /\ fillStale' = TRUE /\ airStale' = TRUE
    BY <2>1 DEF Change
  <2>3. writing' \in BOOLEAN /\ lit' \in BOOLEAN
    BY <1>t, <1>8 DEF ChangeBinding, ChangeLight, OffWork, DataTypes
  <2> QED BY <1>t, <2>2, <2>3 DEF DataTypes
<1>9. CASE UNCHANGED vars
  BY <1>9, <1>a DEF vars
<1> QED
  BY <1>1, <1>2, <1>3, <1>4, <1>5, <1>6, <1>7, <1>8, <1>9, ActorFacts
  DEF Next, MainStep, WorkerStep, HostStep, ReportStep

\* Every step keeps the types.
LEMMA TypeStep == TypeOK /\ [Next]_vars => TypeOK'
<1>1. ControlTypes' /\ DataTypes' => TypeOK'
  BY DEF ControlTypes, DataTypes, TypeOK
<1> QED
  BY <1>1, ControlStep, DataStep

\* The lifecycle's state keeps its types: TypeOK holds in every reachable state.
THEOREM TypeCorrect == Spec => []TypeOK
BY TypeInit, TypeStep, PTL DEF Spec

-----------------------------------------------------------------------------
(* The work item, and who applies advertising when.                        *)

\* The inductive invariant: at most one of "flagged", "queued" and "taken" is
\* true, nothing is scheduled before start has succeeded, and only then does
\* the worker apply anything.
WorkInv ==
    /\ PendingMatchesQueue
    /\ ~(submitting /\ queued)
    /\ pc["worker"] = "entered" => ~submitting /\ ~queued
    /\ pending => ready
    /\ ready <=> pc["main"] = "running"
    /\ pc["worker"] \in Applying => ready

\* A context inside lifecycle_apply_advertising stays inside until its commit.
LEMMA ApplyStepMoves ==
    ASSUME TypeOK, NEW a \in Actor, ApplyStep(a)
    PROVE  /\ pc[a] \in {"fill", "call"}
           /\ \E to \in {"call", "commit"} : pc' = [pc EXCEPT ![a] = to]
           /\ UNCHANGED <<lifecycleVars, workVars>>
BY DEF ApplyStep, FillAdvMsd, AdvStart, AdvUpdate, AdvRefused, AdvFault, Return,
       lifecycleVars, workVars

\* At power-on nothing is scheduled and nothing applied.
LEMMA WorkInit == Init => WorkInv
BY ActorFacts DEF Init, WorkInv, PendingMatchesQueue, Applying

\* Every step keeps flag, queue and contexts in agreement.
LEMMA WorkStep == TypeOK /\ WorkInv /\ [Next]_vars => WorkInv'
<1> SUFFICES ASSUME TypeOK, WorkInv, [Next]_vars PROVE WorkInv'
  OBVIOUS
<1> USE ActorFacts DEF WorkInv, PendingMatchesQueue, Applying
<1>t. pc \in [Actor -> MainPc \cup WorkerPc]
  BY DEF TypeOK
<1>b. ready \in BOOLEAN /\ pending \in BOOLEAN /\ submitting \in BOOLEAN /\ queued \in BOOLEAN
  BY DEF TypeOK
<1> USE <1>t, <1>b DEF lifecycleVars, workVars
<1>1. CASE LifecycleInit
  BY <1>1 DEF LifecycleInit, MainGoto
<1>2. CASE BluetoothInitialized
  BY <1>2 DEF BluetoothInitialized, MainGoto
<1>3. CASE SettingsLoad
  BY <1>3 DEF SettingsLoad, MainGoto
<1>4. CASE StartSample
  BY <1>4 DEF StartSample, MainGoto
<1>5. ASSUME NEW a \in Actor, ApplyStep(a) PROVE WorkInv'
  BY <1>5, ApplyStepMoves
<1>6. CASE StartCommit
  BY <1>6 DEF StartCommit
<1>7. CASE WorkerEnter
  BY <1>7 DEF WorkerEnter
<1>8. CASE ProcessSample
  BY <1>8 DEF ProcessSample
<1>9. CASE ProcessCommit
  BY <1>9 DEF ProcessCommit, ScheduleLocked
<1>10. CASE Submit
  BY <1>10 DEF Submit
<1>11. CASE Connected
  BY <1>11 DEF Connected
<1>12. CASE Disconnected
  BY <1>12 DEF Disconnected, ScheduleLocked
<1>13. ASSUME NEW source \in Source, Report(source) PROVE WorkInv'
  BY <1>13 DEF Report, ScheduleLocked
<1>14. CASE PeerConnect
  BY <1>14 DEF PeerConnect
<1>15. CASE PeerDisconnect
  BY <1>15 DEF PeerDisconnect
<1>16. CASE ReportNfcFd
  BY <1>16 DEF ReportNfcFd, ScheduleLocked
<1>17. CASE ChangeBinding
  BY <1>17 DEF ChangeBinding, Change
<1>18. CASE ChangeLight \/ OffWork
  BY <1>18 DEF ChangeLight, OffWork, Change
<1>19. CASE BindingCpWrite \/ SaveFailed
  BY <1>19 DEF BindingCpWrite, SaveFailed
<1>20. CASE UNCHANGED vars
  BY <1>20 DEF vars
<1> QED
  BY <1>1, <1>2, <1>3, <1>4, <1>5, <1>6, <1>7, <1>8, <1>9, <1>10, <1>11, <1>12,
     <1>13, <1>14, <1>15, <1>16, <1>17, <1>18, <1>19, <1>20
  DEF Next, MainStep, WorkerStep, HostStep, ReportStep

\* WorkInv holds in every reachable state.
LEMMA WorkCorrect == Spec => []WorkInv
BY TypeCorrect, WorkInit, WorkStep, PTL DEF Spec

\* work_pending never drifts from the state of the work item: no report can be
\* swallowed by a flag whose work item is not on its way.
THEOREM PendingMatches == Spec => []PendingMatchesQueue
<1>1. WorkInv => PendingMatchesQueue
  BY DEF WorkInv
<1> QED BY <1>1, WorkCorrect, PTL

\* The two contexts that build adv_msd exclude each other although nothing locks
\* it: start runs only before ready is set, process only after.
THEOREM BufferExclusive == Spec => []AdvBufferExclusive
<1>1. WorkInv => AdvBufferExclusive
  BY DEF WorkInv, AdvBufferExclusive, Applying
<1> QED BY <1>1, WorkCorrect, PTL

-----------------------------------------------------------------------------
(* Freshness of the payload on air.                                        *)

\* Generations are only compared for equality; that this is enough rests on
\* targets and the applied generation never being ahead of gen.
GenInv ==
    /\ applied <= gen
    /\ \A a \in Actor : pc[a] \in Applying => attempt[a].target <= gen
    /\ pc["worker"] \in Applying => applied # gen

\* Data that changed after the payload was read is still to be reported, or its
\* report has already moved gen past the target: in the buffer while the call
\* is under way, on air until the commit, and on air after it.
FreshInv ==
    /\ \A a \in Actor : pc[a] = "call" /\ fillStale
          => unreported # {} \/ gen # attempt[a].target
    /\ \A a \in Actor : pc[a] = "commit" /\ attempt[a].ok /\ advertising /\ airStale
          => unreported # {} \/ gen # attempt[a].target
    /\ ready /\ advertising /\ airStale => unreported # {} \/ gen # applied

\* What a report contributes: the new generation differs from every old one.
LEMMA MarkDirtyMoves ==
    ASSUME TypeOK, GenInv, MarkDirty
    PROVE  /\ gen' \in Nat /\ gen <= gen'
           /\ applied <= gen' /\ gen' # applied
           /\ \A a \in Actor : pc[a] \in Applying
                 => attempt[a].target <= gen' /\ gen' # attempt[a].target
BY DEF TypeOK, GenInv, MarkDirty

\* At power-on both generations are zero.
LEMMA GenInit == Init => GenInv
BY ActorFacts DEF Init, GenInv, Applying

\* No step lets a sampled or applied generation overtake the counter.
LEMMA GenStep == TypeOK /\ WorkInv /\ GenInv /\ [Next]_vars => GenInv'
<1> SUFFICES ASSUME TypeOK, WorkInv, GenInv, [Next]_vars PROVE GenInv'
  OBVIOUS
<1> USE ActorFacts
<1>t. /\ pc \in [Actor -> MainPc \cup WorkerPc]
      /\ attempt \in [Actor -> [restart : BOOLEAN, target : Nat, ok : BOOLEAN]]
      /\ gen \in Nat /\ applied \in Nat
  BY DEF TypeOK
<1> USE <1>t DEF lifecycleVars, workVars
\* Steps that leave the generations and the applying contexts as they are.
<1>a. ASSUME UNCHANGED <<gen, applied, attempt>>,
             \A a \in Actor : pc'[a] \in Applying => pc[a] \in Applying
      PROVE  GenInv'
  BY <1>a DEF GenInv
\* Steps that mark the payload dirty and do nothing else to the counters.
<1>b. ASSUME MarkDirty, UNCHANGED <<applied, attempt, pc>> PROVE GenInv'
  BY <1>b, MarkDirtyMoves DEF GenInv
<1>1. CASE LifecycleInit
  <2>1. pc'["main"] = "enabling" /\ pc'["worker"] = pc["worker"]
    BY <1>1 DEF LifecycleInit, MainGoto
  <2>2. pc["worker"] \notin Applying
    BY <1>1 DEF LifecycleInit, MainGoto, WorkInv
  <2>3. gen' = 0 /\ applied' = 0
    BY <1>1 DEF LifecycleInit
  <2> QED BY <2>1, <2>2, <2>3 DEF GenInv, Applying
<1>2. CASE BluetoothInitialized
  BY <1>2, <1>a DEF BluetoothInitialized, MainGoto, Applying
<1>3. CASE SettingsLoad
  BY <1>3, <1>a DEF SettingsLoad, MainGoto, Applying
<1>4. CASE StartSample
  <2>1. pc'["main"] = "fill" /\ pc'["worker"] = pc["worker"] /\ pc["worker"] \notin Applying
    BY <1>4 DEF StartSample, MainGoto, WorkInv
  <2>2. gen' \in Nat /\ applied <= gen' /\ applied' = applied
    BY <1>4 DEF StartSample, MarkDirty, GenInv
  <2>3. attempt'["main"].target = gen'
    BY <1>4 DEF StartSample
  <2> QED BY <2>1, <2>2, <2>3 DEF GenInv
<1>5. ASSUME NEW a \in Actor, ApplyStep(a) PROVE GenInv'
  <2>1. UNCHANGED <<gen, applied>> /\ pc[a] \in Applying
    BY <1>5, ApplyStepMoves DEF Applying
  <2>2. \A b \in Actor : pc'[b] \in Applying => pc[b] \in Applying
    BY <1>5, ApplyStepMoves DEF Applying
  <2>3. \A b \in Actor : attempt'[b].target = attempt[b].target
    BY <1>5 DEF ApplyStep, FillAdvMsd, AdvStart, AdvUpdate, AdvRefused, AdvFault, Return
  <2> QED BY <2>1, <2>2, <2>3 DEF GenInv
<1>6. CASE StartCommit
  <2>1. pc'["main"] \notin Applying /\ pc'["worker"] = pc["worker"] /\ pc["worker"] \notin Applying
    BY <1>6 DEF StartCommit, WorkInv, Applying
  <2>2. gen' = gen /\ (applied' = applied \/ applied' = attempt["main"].target)
    BY <1>6 DEF StartCommit
  <2>3. attempt["main"].target <= gen
    BY <1>6 DEF StartCommit, GenInv, Applying
  <2> QED BY <2>1, <2>2, <2>3 DEF GenInv
<1>7. CASE WorkerEnter
  BY <1>7, <1>a DEF WorkerEnter, Applying
<1>8. CASE ProcessSample
  <2>1. UNCHANGED <<gen, applied>> /\ attempt'["main"] = attempt["main"] /\ pc'["main"] = pc["main"]
    BY <1>8 DEF ProcessSample
  <2>2. attempt'["worker"].target = gen
    BY <1>8 DEF ProcessSample
  <2>3. pc'["worker"] \in Applying => applied # gen
    BY <1>8 DEF ProcessSample, Dirty, Applying
  <2> QED BY <2>1, <2>2, <2>3 DEF GenInv
<1>9. CASE ProcessCommit
  <2>1. pc'["worker"] \notin Applying /\ pc'["main"] = pc["main"]
    BY <1>9 DEF ProcessCommit, Applying
  <2>2. UNCHANGED <<gen, attempt>> /\ (applied' = applied \/ applied' = attempt["worker"].target)
    BY <1>9 DEF ProcessCommit
  <2>3. attempt["worker"].target <= gen
    BY <1>9 DEF ProcessCommit, GenInv, Applying
  <2> QED BY <2>1, <2>2, <2>3 DEF GenInv
<1>10. CASE Submit
  BY <1>10, <1>a DEF Submit
<1>11. CASE Connected
  BY <1>11, <1>a DEF Connected
<1>12. CASE Disconnected
  BY <1>12, <1>b DEF Disconnected
<1>13. ASSUME NEW source \in Source, Report(source) PROVE GenInv'
  BY <1>13, <1>b DEF Report
<1>14. CASE PeerConnect
  BY <1>14, <1>a DEF PeerConnect
<1>15. CASE PeerDisconnect
  BY <1>15, <1>a DEF PeerDisconnect
<1>16. CASE ReportNfcFd
  BY <1>16, <1>b DEF ReportNfcFd
<1>17. CASE ChangeBinding
  BY <1>17, <1>a DEF ChangeBinding, Change
<1>18. CASE ChangeLight \/ OffWork
  BY <1>18, <1>a DEF ChangeLight, OffWork, Change
<1>19. CASE BindingCpWrite \/ SaveFailed
  BY <1>19, <1>a DEF BindingCpWrite, SaveFailed
<1>20. CASE UNCHANGED vars
  BY <1>20, <1>a DEF vars
<1> QED
  BY <1>1, <1>2, <1>3, <1>4, <1>5, <1>6, <1>7, <1>8, <1>9, <1>10, <1>11, <1>12,
     <1>13, <1>14, <1>15, <1>16, <1>17, <1>18, <1>19, <1>20
  DEF Next, MainStep, WorkerStep, HostStep, ReportStep

\* GenInv holds in every reachable state.
LEMMA GenCorrect == Spec => []GenInv
BY TypeCorrect, WorkCorrect, GenInit, GenStep, PTL DEF Spec

\* At power-on no payload is on air and nothing has changed.
LEMMA FreshInit == Init => FreshInv
BY ActorFacts DEF Init, FreshInv

\* Every step keeps a stale payload recognisable as dirty.
LEMMA FreshStep == TypeOK /\ WorkInv /\ GenInv /\ FreshInv /\ [Next]_vars => FreshInv'
<1> SUFFICES ASSUME TypeOK, WorkInv, GenInv, FreshInv, [Next]_vars PROVE FreshInv'
  OBVIOUS
<1> USE ActorFacts
<1>t. /\ pc \in [Actor -> MainPc \cup WorkerPc]
      /\ attempt \in [Actor -> [restart : BOOLEAN, target : Nat, ok : BOOLEAN]]
  BY DEF TypeOK
<1> USE <1>t DEF lifecycleVars, workVars, radioVars, dataVars
\* Only one context applies, and the main one only before ready.
<1>x. /\ pc["main"] \in Applying => ~ready
      /\ pc["worker"] \in Applying => ready /\ applied # gen /\ pc["main"] \notin Applying
  BY DEF WorkInv, GenInv, Applying
\* Steps that touch neither the payload nor the generations and put no context
\* into "call" or "commit".
<1>a. ASSUME UNCHANGED <<ready, gen, applied, attempt, advertising,
                         unreported, fillStale, airStale>>,
             \A a \in Actor : pc'[a] \in {"call", "commit"} => pc'[a] = pc[a]
      PROVE  FreshInv'
  BY <1>a DEF FreshInv
\* Steps that mark the payload dirty.
<1>b. ASSUME MarkDirty, UNCHANGED <<applied, attempt, pc>> PROVE FreshInv'
  BY <1>b, MarkDirtyMoves DEF FreshInv, Applying
<1>1. CASE LifecycleInit
  <2>1. pc'["main"] = "enabling" /\ pc'["worker"] = pc["worker"] /\ ~ready'
    BY <1>1 DEF LifecycleInit, MainGoto
  <2>2. pc["worker"] \notin Applying
    BY <1>1 DEF LifecycleInit, MainGoto, WorkInv
  <2> QED BY <2>1, <2>2 DEF FreshInv, Applying
<1>2. CASE BluetoothInitialized
  BY <1>2, <1>a DEF BluetoothInitialized, MainGoto
<1>3. CASE SettingsLoad
  BY <1>3, <1>a DEF SettingsLoad, MainGoto
<1>4. CASE StartSample
  <2>1. pc'["main"] = "fill" /\ pc'["worker"] = pc["worker"] /\ pc["worker"] \notin Applying
    BY <1>4 DEF StartSample, MainGoto, WorkInv
  <2>2. ~ready' 
    BY <1>4 DEF StartSample, MainGoto, WorkInv
  <2> QED BY <2>1, <2>2 DEF FreshInv, Applying
<1>5. ASSUME NEW a \in Actor, ApplyStep(a) PROVE FreshInv'
  <2>0. /\ pc[a] \in Applying
        /\ UNCHANGED <<ready, gen, applied, unreported>>
        /\ \A b \in Actor : b # a => pc'[b] = pc[b] /\ pc[b] \notin Applying
    <3>1. pc[a] \in Applying /\ UNCHANGED <<ready, gen, applied>>
      BY <1>5, ApplyStepMoves DEF Applying
    <3>2. \A b \in Actor : b # a => pc'[b] = pc[b] /\ pc[b] \notin Applying
      BY <1>5, <1>x, <3>1, ApplyStepMoves
    <3>3. UNCHANGED unreported
      BY <1>5 DEF ApplyStep, FillAdvMsd, AdvStart, AdvUpdate, AdvRefused, AdvFault, Return
    <3> QED BY <3>1, <3>2, <3>3
  <2>1. CASE FillAdvMsd(a)
    <3>1. pc'[a] = "call" /\ ~fillStale' /\ UNCHANGED <<advertising, airStale, attempt>>
      BY <2>1 DEF FillAdvMsd
    <3> QED BY <2>0, <3>1 DEF FreshInv, Applying
  <2>2. CASE AdvStart(a)
    <3>1. /\ pc[a] = "call" /\ pc'[a] = "commit" /\ airStale' = fillStale
          /\ attempt'[a].target = attempt[a].target
      BY <2>2 DEF AdvStart, Return
    <3>2. ready => applied # gen
      BY <1>x, <2>0
    <3> QED BY <2>0, <3>1, <3>2 DEF FreshInv, Applying
  <2>3. CASE AdvUpdate(a)
    <3>1. /\ pc[a] = "call" /\ pc'[a] = "commit" /\ UNCHANGED advertising
          /\ advertising => airStale' = fillStale
          /\ attempt'[a].target = attempt[a].target
      BY <2>3 DEF AdvUpdate, Return
    <3>2. ready => applied # gen
      BY <1>x, <2>0
    <3> QED BY <2>0, <3>1, <3>2 DEF FreshInv, Applying
  <2>4. ASSUME AdvRefused(a) \/ AdvFault(a) PROVE FreshInv'
    <3>1. /\ pc'[a] = "commit" /\ ~attempt'[a].ok /\ UNCHANGED <<advertising, airStale>>
      BY <2>4 DEF AdvRefused, AdvFault, Return
    <3>2. ready => applied # gen
      BY <1>x, <2>0
    <3> QED BY <2>0, <3>1, <3>2 DEF FreshInv, Applying
  <2> QED BY <1>5, <2>1, <2>2, <2>3, <2>4 DEF ApplyStep
<1>6. CASE StartCommit
  <2>1. /\ pc["main"] = "commit" /\ pc'["main"] \notin Applying
        /\ pc'["worker"] = pc["worker"] /\ pc["worker"] \notin Applying
    BY <1>6, <1>x DEF StartCommit, Applying
  <2>2. UNCHANGED <<gen, advertising, unreported, airStale>>
    BY <1>6 DEF StartCommit
  <2>3. ready' => attempt["main"].ok /\ applied' = attempt["main"].target
    BY <1>6, <1>x DEF StartCommit, Applying
  <2> QED BY <2>1, <2>2, <2>3 DEF FreshInv, Applying
<1>7. CASE WorkerEnter
  BY <1>7, <1>a DEF WorkerEnter
<1>8. CASE ProcessSample
  <2>1. /\ pc'["worker"] \notin {"call", "commit"} /\ pc'["main"] = pc["main"]
        /\ attempt'["main"] = attempt["main"]
    BY <1>8 DEF ProcessSample
  <2>2. UNCHANGED <<ready, gen, applied, advertising, unreported, fillStale, airStale>>
    BY <1>8 DEF ProcessSample
  <2> QED BY <2>1, <2>2 DEF FreshInv
<1>9. CASE ProcessCommit
  <2>1. /\ pc["worker"] = "commit" /\ pc'["worker"] = "idle"
        /\ pc'["main"] = pc["main"] /\ pc["main"] \notin Applying
    BY <1>9, <1>x DEF ProcessCommit, Applying
  <2>2. UNCHANGED <<ready, gen, advertising, unreported, airStale>>
    BY <1>9 DEF ProcessCommit
  <2>3. \/ applied' = applied
        \/ attempt["worker"].ok /\ applied' = attempt["worker"].target
    BY <1>9 DEF ProcessCommit
  <2> QED BY <2>1, <2>2, <2>3 DEF FreshInv, Applying
<1>10. CASE Submit
  BY <1>10, <1>a DEF Submit
<1>11. CASE Connected
  BY <1>11, <1>a DEF Connected
<1>12. CASE Disconnected
  BY <1>12, <1>b DEF Disconnected
<1>13. ASSUME NEW source \in Source, Report(source) PROVE FreshInv'
  BY <1>13, <1>b DEF Report
<1>14. CASE PeerConnect
  BY <1>14 DEF PeerConnect, FreshInv
<1>15. CASE PeerDisconnect
  BY <1>15, <1>a DEF PeerDisconnect
<1>16. CASE ReportNfcFd
  BY <1>16, <1>b DEF ReportNfcFd
<1>17. ASSUME NEW source \in Source, Change(source) PROVE FreshInv'
  <2>1. unreported' # {} 
    BY <1>17 DEF Change
  <2> QED BY <2>1 DEF FreshInv
<1>18. CASE ChangeBinding \/ ChangeLight \/ OffWork
  BY <1>17, <1>18, SourceFacts DEF ChangeBinding, ChangeLight, OffWork
<1>19. CASE BindingCpWrite \/ SaveFailed
  BY <1>19, <1>a DEF BindingCpWrite, SaveFailed
<1>20. CASE UNCHANGED vars
  BY <1>20, <1>a DEF vars
<1> QED
  BY <1>1, <1>2, <1>3, <1>4, <1>5, <1>6, <1>7, <1>8, <1>9, <1>10, <1>11, <1>12,
     <1>13, <1>14, <1>15, <1>16, <1>18, <1>19, <1>20
  DEF Next, MainStep, WorkerStep, HostStep, ReportStep

\* FreshInv holds in every reachable state.
LEMMA FreshCorrect == Spec => []FreshInv
BY TypeCorrect, WorkCorrect, GenCorrect, FreshInit, FreshStep, PTL DEF Spec

\* A payload the lifecycle counts as applied is the true one: when nothing is
\* left to report and the generations agree, the air shows the present data,
\* whatever reports, connections and failures came in between.
THEOREM CleanIsFresh == Spec => []CleanMeansFresh
<1>1. FreshInv => CleanMeansFresh
  BY DEF FreshInv, CleanMeansFresh, Dirty
<1> QED BY <1>1, FreshCorrect, PTL

-----------------------------------------------------------------------------
(* advertising_running, when no whole connection fits into one call.       *)

Booting == {"armed", "enabling", "settings", "starting"}

\* The flag can lag the radio only while a link exists or between the return of
\* a successful call and its commit.
FlagInv ==
    /\ pc["main"] \in Booting => link = "none" /\ ~advertising
    /\ connected <=> link \in {"up", "going"}
    /\ advertising => link = "none"
    /\ \A a \in Actor : pc[a] = "commit" /\ attempt[a].ok
          => advertising \/ link \in {"coming", "up"}
    /\ ready /\ link = "none" /\ ~(pc["worker"] = "commit" /\ attempt["worker"].ok)
          => (running <=> advertising)

\* At power-on nothing advertises and the flag is clear.
LEMMA FlagInit == Init => FlagInv
BY ActorFacts DEF Init, FlagInv

\* With no whole session inside an advertising call, every step keeps the
\* advertising flag and the radio in agreement.
LEMMA FlagStep ==
    ASSUME ~SessionInWindow
    PROVE  TypeOK /\ WorkInv /\ FlagInv /\ [Next]_vars => FlagInv'
<1> SUFFICES ASSUME TypeOK, WorkInv, FlagInv, [Next]_vars PROVE FlagInv'
  OBVIOUS
<1> USE ActorFacts
<1>t. /\ pc \in [Actor -> MainPc \cup WorkerPc]
      /\ attempt \in [Actor -> [restart : BOOLEAN, target : Nat, ok : BOOLEAN]]
      /\ ready \in BOOLEAN /\ connected \in BOOLEAN /\ running \in BOOLEAN
      /\ advertising \in BOOLEAN
  BY DEF TypeOK
<1> USE <1>t DEF lifecycleVars, workVars, radioVars, dataVars
<1>x. /\ pc["main"] \in Applying \cup Booting => ~ready
      /\ pc["worker"] \in Applying => ready /\ pc["main"] = "running"
  BY DEF WorkInv, Applying, Booting
\* Steps that change no part of what FlagInv speaks of.
<1>a. ASSUME UNCHANGED <<ready, connected, running, attempt, advertising, link>>,
             \A a \in Actor : pc'[a] = "commit" <=> pc[a] = "commit",
             pc'["main"] \in Booting => pc["main"] \in Booting
      PROVE  FlagInv'
  BY <1>a DEF FlagInv
<1>1. CASE LifecycleInit
  <2>1. /\ pc["main"] \in Booting /\ pc'["main"] = "enabling" /\ ~ready'
        /\ pc'["worker"] = pc["worker"] /\ pc["worker"] \notin Applying
    BY <1>1, <1>x DEF LifecycleInit, MainGoto, Booting
  <2>2. connected' = FALSE /\ UNCHANGED <<advertising, link>>
    BY <1>1 DEF LifecycleInit
  <2> QED BY <2>1, <2>2 DEF FlagInv, Applying
<1>2. CASE BluetoothInitialized
  BY <1>2, <1>a DEF BluetoothInitialized, MainGoto, Booting
<1>3. CASE SettingsLoad
  BY <1>3, <1>a DEF SettingsLoad, MainGoto, Booting
<1>4. CASE StartSample
  <2>1. /\ pc["main"] \in Booting /\ pc'["main"] = "fill" /\ ~ready'
        /\ pc'["worker"] = pc["worker"] /\ pc["worker"] \notin Applying
    BY <1>4, <1>x DEF StartSample, MainGoto, Booting
  <2>2. UNCHANGED <<connected, advertising, link>>
    BY <1>4 DEF StartSample
  <2> QED BY <2>1, <2>2 DEF FlagInv, Applying, Booting
<1>5. ASSUME NEW a \in Actor, ApplyStep(a) PROVE FlagInv'
  <2>0. /\ pc[a] \in {"fill", "call"} /\ pc'[a] \in {"call", "commit"}
        /\ UNCHANGED <<ready, connected, running, link>>
        /\ \A b \in Actor : b # a => pc'[b] = pc[b] /\ pc[b] \notin Applying
        /\ pc["main"] \notin Booting /\ pc'["main"] \notin Booting
    <3>1. /\ pc[a] \in {"fill", "call"} /\ pc'[a] \in {"call", "commit"}
          /\ UNCHANGED <<ready, connected, running>>
      BY <1>5, ApplyStepMoves
    <3>2. \A b \in Actor : b # a => pc'[b] = pc[b] /\ pc[b] \notin Applying
      BY <1>5, <1>x, <3>1, ApplyStepMoves DEF Applying
    <3>3. UNCHANGED link
      BY <1>5 DEF ApplyStep, FillAdvMsd, AdvStart, AdvUpdate, AdvRefused, AdvFault, Return
    <3>4. pc["main"] \notin Booting /\ pc'["main"] \notin Booting
      BY <1>x, <3>1, <3>2 DEF Applying, Booting
    <3> QED BY <3>1, <3>2, <3>3, <3>4
  <2>1. CASE FillAdvMsd(a)
    <3>1. pc'[a] = "call" /\ pc[a] = "fill" /\ UNCHANGED <<advertising, attempt>>
      BY <2>1 DEF FillAdvMsd
    <3> QED BY <2>0, <3>1 DEF FlagInv, Applying
  <2>2. CASE AdvStart(a)
    <3>1. pc'[a] = "commit" /\ advertising' /\ link = "none" /\ attempt'[a].ok
      BY <2>2 DEF AdvStart, Return
    <3>2. a = "main" => ~ready
      BY <1>x, <2>0 DEF Applying
    <3> QED BY <2>0, <3>1, <3>2 DEF FlagInv, Applying
  <2>3. CASE AdvUpdate(a)
    <3>1. /\ pc'[a] = "commit" /\ UNCHANGED advertising /\ attempt'[a].ok
          /\ advertising \/ link = "coming"
      BY <2>3 DEF AdvUpdate, Return
    <3>2. a = "main" => ~ready
      BY <1>x, <2>0 DEF Applying
    <3> QED BY <2>0, <3>1, <3>2 DEF FlagInv, Applying
  <2>4. ASSUME AdvRefused(a) \/ AdvFault(a) PROVE FlagInv'
    <3>1. pc[a] = "call" /\ pc'[a] = "commit" /\ ~attempt'[a].ok /\ UNCHANGED advertising
      BY <2>4 DEF AdvRefused, AdvFault, Return
    <3>2. a = "main" => ~ready
      BY <1>x, <2>0 DEF Applying
    <3> QED BY <2>0, <3>1, <3>2 DEF FlagInv, Applying
  <2> QED BY <1>5, <2>1, <2>2, <2>3, <2>4 DEF ApplyStep
<1>6. CASE StartCommit
  <2>1. /\ pc["main"] = "commit" /\ pc'["main"] \in {"running", "fatal"}
        /\ pc'["worker"] = pc["worker"] /\ pc["worker"] \notin Applying /\ ~ready
    BY <1>6, <1>x DEF StartCommit, Applying
  <2>2. UNCHANGED <<connected, attempt, advertising, link>>
    BY <1>6 DEF StartCommit
  <2>3. ready' => attempt["main"].ok /\ running'
    BY <1>6, <2>1 DEF StartCommit
  <2> QED BY <2>1, <2>2, <2>3 DEF FlagInv, Applying, Booting
<1>7. CASE WorkerEnter
  BY <1>7, <1>a DEF WorkerEnter
<1>8. CASE ProcessSample
  <2>1. /\ pc["worker"] = "entered" /\ pc'["worker"] # "commit" /\ pc'["main"] = pc["main"]
        /\ attempt'["main"] = attempt["main"]
        /\ UNCHANGED <<ready, connected, running, advertising, link>>
    BY <1>8 DEF ProcessSample
  <2> QED BY <2>1 DEF FlagInv
<1>9. CASE ProcessCommit
  <2>1. /\ pc["worker"] = "commit" /\ pc'["worker"] = "idle" /\ pc'["main"] = pc["main"]
        /\ UNCHANGED <<ready, connected, attempt, advertising, link>>
    BY <1>9 DEF ProcessCommit
  <2>2. IF attempt["worker"].ok THEN running' ELSE running' = running
    BY <1>9 DEF ProcessCommit
  <2> QED BY <2>1, <2>2 DEF FlagInv
<1>10. CASE Submit
  BY <1>10, <1>a DEF Submit
<1>11. CASE Connected
  BY <1>11 DEF Connected, FlagInv
<1>12. CASE Disconnected
  BY <1>12 DEF Disconnected, FlagInv
<1>13. ASSUME NEW source \in Source, Report(source) PROVE FlagInv'
  BY <1>13, <1>a DEF Report
<1>14. CASE PeerConnect
  BY <1>14 DEF PeerConnect, FlagInv
<1>15. CASE PeerDisconnect
  BY <1>15 DEF PeerDisconnect, FlagInv, InAdvCall
<1>16. CASE ReportNfcFd
  BY <1>16, <1>a DEF ReportNfcFd
<1>17. CASE ChangeBinding
  BY <1>17, <1>a DEF ChangeBinding, Change
<1>18. CASE ChangeLight \/ OffWork
  BY <1>18, <1>a DEF ChangeLight, OffWork, Change
<1>19. CASE BindingCpWrite \/ SaveFailed
  BY <1>19, <1>a DEF BindingCpWrite, SaveFailed
<1>20. CASE UNCHANGED vars
  BY <1>20, <1>a DEF vars
<1> QED
  BY <1>1, <1>2, <1>3, <1>4, <1>5, <1>6, <1>7, <1>8, <1>9, <1>10, <1>11, <1>12,
     <1>13, <1>14, <1>15, <1>16, <1>17, <1>18, <1>19, <1>20
  DEF Next, MainStep, WorkerStep, HostStep, ReportStep

\* FlagInv holds in every reachable state of that environment.
LEMMA FlagCorrect == ~SessionInWindow => (Spec => []FlagInv)
<1> SUFFICES ASSUME ~SessionInWindow PROVE Spec => []FlagInv
  OBVIOUS
<1>1. TypeOK /\ WorkInv /\ FlagInv /\ [Next]_vars => FlagInv'
  BY FlagStep
<1> QED BY <1>1, TypeCorrect, WorkCorrect, FlagInit, PTL DEF Spec

\* As long as no connection opens and closes within one advertising call,
\* advertising_running agrees with the radio whenever process is about to use it.
THEOREM FlagIsTrue == ~SessionInWindow => (Spec => []FlagTruth)
<1>1. FlagInv => FlagTruth
  BY DEF FlagInv, FlagTruth, Applying
<1> QED BY <1>1, FlagCorrect, PTL

-----------------------------------------------------------------------------
(* No invalidation is lost, on a board without the NFC interrupt.          *)

\* start commits without looking at the generation again, so what has to be
\* shown is that nothing can move it in between: until start has succeeded no
\* client connects and the light stays dark, and afterwards a change needs a
\* client that is still connected when start commits.
BareInv ==
    /\ ~ready /\ ~(pc["main"] = "commit" /\ attempt["main"].ok)
          => link = "none" /\ ~advertising /\ ~writing /\ ~lit /\ unreported = {}
    /\ pc["main"] = "commit" /\ attempt["main"].ok
          => link # "going" /\ (writing \/ lit \/ unreported # {} => link = "up")
    /\ pc["main"] \in Applying /\ ~connected => gen = attempt["main"].target
    /\ NoLostInvalidation

\* At power-on there is nothing to lose.
LEMMA BareInit == Init => BareInv
BY ActorFacts DEF Init, BareInv, NoLostInvalidation, Applying

\* On the bare board, every step keeps an attempt coming for a dirty payload.
LEMMA BareStep ==
    ASSUME ~SessionInWindow, ~HasNfc
    PROVE  TypeOK /\ WorkInv /\ FlagInv /\ BareInv /\ [Next]_vars => BareInv'
<1> SUFFICES ASSUME TypeOK, WorkInv, FlagInv, BareInv, [Next]_vars PROVE BareInv'
  OBVIOUS
<1> USE ActorFacts
<1>t. /\ pc \in [Actor -> MainPc \cup WorkerPc]
      /\ attempt \in [Actor -> [restart : BOOLEAN, target : Nat, ok : BOOLEAN]]
      /\ ready \in BOOLEAN /\ connected \in BOOLEAN /\ pending \in BOOLEAN
      /\ submitting \in BOOLEAN /\ queued \in BOOLEAN
      /\ advertising \in BOOLEAN /\ lit \in BOOLEAN /\ writing \in BOOLEAN /\ gaveUp \in BOOLEAN
  BY DEF TypeOK
<1> USE <1>t DEF lifecycleVars, workVars, radioVars, dataVars
<1>x. /\ pc["main"] \in Applying => ~ready
      /\ pc["worker"] \in Applying => ready /\ pc["main"] \notin Applying
      /\ pending => submitting \/ queued \/ pc["worker"] = "entered"
      /\ connected <=> link \in {"up", "going"}
  BY DEF WorkInv, FlagInv, PendingMatchesQueue, Applying
\* Steps that change no part of what BareInv speaks of, except to add work.
<1>a. ASSUME UNCHANGED <<ready, connected, gen, applied, attempt, advertising, link,
                         writing, lit, unreported, gaveUp>>,
             pc'["main"] \in Applying \/ pc["main"] \in Applying => pc'["main"] = pc["main"],
             submitting \/ queued \/ pc["worker"] # "idle"
                => submitting' \/ queued' \/ pc'["worker"] # "idle"
      PROVE  BareInv'
  BY <1>a DEF BareInv, NoLostInvalidation, Dirty, Applying
\* A scheduling attempt once start has succeeded leaves work on its way.
<1>s. ASSUME NEW wanted, ScheduleLocked(wanted), wanted, ready, UNCHANGED <<queued, pc>>
      PROVE  submitting' \/ queued' \/ pc'["worker"] # "idle"
  BY <1>s, <1>x DEF ScheduleLocked
<1>1. CASE LifecycleInit
  <2>1. ~ready' /\ pc'["main"] = "enabling" /\ pc["main"] = "armed" /\ ~ready
    BY <1>1 DEF LifecycleInit, MainGoto, WorkInv
  <2>2. UNCHANGED <<attempt, advertising, link, writing, lit, unreported>>
    BY <1>1 DEF LifecycleInit
  <2> QED BY <2>1, <2>2 DEF BareInv, NoLostInvalidation, Applying
<1>2. CASE BluetoothInitialized
  BY <1>2, <1>a DEF BluetoothInitialized, MainGoto, Applying
<1>3. CASE SettingsLoad
  BY <1>3, <1>a DEF SettingsLoad, MainGoto, Applying
<1>4. CASE StartSample
  <2>1. /\ pc["main"] = "starting" /\ pc'["main"] = "fill" /\ ~ready /\ ~ready'
        /\ attempt'["main"].target = gen'
    BY <1>4 DEF StartSample, MainGoto, WorkInv
  <2>2. UNCHANGED <<connected, advertising, link, writing, lit, unreported>>
    BY <1>4 DEF StartSample
  <2> QED BY <2>1, <2>2 DEF BareInv, NoLostInvalidation
<1>5. ASSUME NEW a \in Actor, ApplyStep(a) PROVE BareInv'
  <2>0. /\ pc[a] \in {"fill", "call"} /\ pc'[a] \in {"call", "commit"}
        /\ UNCHANGED <<ready, connected, gen, applied, queued, submitting,
                       link, writing, lit, unreported, gaveUp>>
        /\ \A b \in Actor : b # a => pc'[b] = pc[b] /\ attempt'[b] = attempt[b]
        /\ attempt'[a].target = attempt[a].target
    <3>1. /\ pc[a] \in {"fill", "call"} /\ pc'[a] \in {"call", "commit"}
          /\ UNCHANGED <<ready, connected, gen, applied, queued, submitting>>
          /\ \A b \in Actor : b # a => pc'[b] = pc[b]
      BY <1>5, ApplyStepMoves
    <3>2. /\ UNCHANGED <<link, writing, lit, unreported, gaveUp>>
          /\ \A b \in Actor : b # a => attempt'[b] = attempt[b]
          /\ attempt'[a].target = attempt[a].target
      BY <1>5 DEF ApplyStep, FillAdvMsd, AdvStart, AdvUpdate, AdvRefused, AdvFault, Return
    <3> QED BY <3>1, <3>2
  <2>1. CASE a = "worker"
    <3>1. ready /\ pc["main"] \notin Applying
      BY <1>x, <2>0, <2>1 DEF Applying
    <3> QED BY <2>0, <2>1, <3>1 DEF BareInv, NoLostInvalidation, Dirty, Applying
  <2>2. CASE a = "main"
    <3>1. ~ready /\ link = "none" /\ ~writing /\ ~lit /\ unreported = {} /\ ~advertising
      BY <1>x, <2>0, <2>2 DEF Applying, BareInv
    <3>2. (pc'["main"] = "commit" /\ attempt'["main"].ok) \/ advertising' = advertising
      BY <1>5, <2>2 DEF ApplyStep, FillAdvMsd, AdvStart, AdvUpdate, AdvRefused, AdvFault, Return
    <3> QED BY <2>0, <2>2, <3>1, <3>2 DEF BareInv, NoLostInvalidation, Applying
  <2> QED BY <2>1, <2>2
<1>6. CASE StartCommit
  <2>1. pc["main"] = "commit" /\ pc'["main"] \in {"running", "fatal"}
    BY <1>6 DEF StartCommit
  <2>2. UNCHANGED <<connected, gen, attempt, advertising, link, writing, lit, unreported>>
    BY <1>6 DEF StartCommit
  <2>3. IF attempt["main"].ok THEN ready' /\ applied' = attempt["main"].target
                              ELSE ready' = ready
    BY <1>6 DEF StartCommit
  <2> QED BY <2>1, <2>2, <2>3, <1>x DEF BareInv, NoLostInvalidation, Dirty, Applying
<1>7. CASE WorkerEnter
  BY <1>7, <1>a DEF WorkerEnter
<1>8. CASE ProcessSample
  <2>1. /\ pc'["main"] = pc["main"] /\ attempt'["main"] = attempt["main"]
        /\ UNCHANGED <<ready, connected, gen, applied, advertising, link, writing, lit, unreported>>
    BY <1>8 DEF ProcessSample
  <2>2. ready /\ ~connected /\ Dirty => pc'["worker"] = "fill"
    BY <1>8 DEF ProcessSample
  <2> QED BY <2>1, <2>2 DEF BareInv, NoLostInvalidation, Dirty
<1>9. CASE ProcessCommit
  <2>1. /\ ready /\ pc["main"] \notin Applying /\ pc'["main"] = pc["main"]
        /\ UNCHANGED <<ready, connected, gen, attempt, advertising, link, writing, lit, unreported>>
    BY <1>9, <1>x DEF ProcessCommit, Applying
  <2>2. CASE attempt["worker"].ok
    <3>1. ScheduleLocked(~connected /\ gen # applied') /\ queued' = queued
      BY <1>9, <2>2 DEF ProcessCommit
    <3>2. pc["worker"] # "entered"
      BY <1>9 DEF ProcessCommit
    <3>3. ~connected /\ gen # applied' => submitting' \/ queued'
      BY <3>1, <3>2, <2>1, <1>x DEF ScheduleLocked
    <3> QED BY <2>1, <3>3 DEF BareInv, NoLostInvalidation, Dirty, Applying
  <2>3. CASE ~attempt["worker"].ok
    <3>1. gaveUp'
      BY <1>9, <2>3 DEF ProcessCommit
    <3> QED BY <2>1, <3>1 DEF BareInv, NoLostInvalidation, Applying
  <2> QED BY <2>2, <2>3
<1>10. CASE Submit
  BY <1>10, <1>a DEF Submit
<1>11. CASE Connected
  <2>1. /\ link = "coming" /\ link' = "up" /\ connected'
        /\ UNCHANGED <<ready, gen, attempt, advertising, writing, lit, unreported, pc>>
    BY <1>11 DEF Connected
  <2> QED BY <2>1 DEF BareInv, NoLostInvalidation
<1>12. CASE Disconnected
  <2>1. /\ link = "going" /\ ready
        /\ UNCHANGED <<ready, attempt, advertising, writing, lit, unreported, pc, queued>>
    BY <1>12 DEF Disconnected, BareInv
  <2>2. submitting' \/ queued' \/ pc'["worker"] # "idle"
    BY <1>12, <1>s, <2>1 DEF Disconnected
  <2>3. pc["main"] \notin Applying
    BY <1>x, <2>1
  <2> QED BY <2>1, <2>2, <2>3 DEF BareInv, NoLostInvalidation, Applying
<1>13. ASSUME NEW source \in Source, Report(source) PROVE BareInv'
  <2>1. /\ unreported # {} /\ (unreported' # {} => unreported # {})
        /\ UNCHANGED <<ready, connected, attempt, advertising, link, writing, lit, pc, queued>>
    BY <1>13 DEF Report
  <2>2. pc["main"] \in Applying => connected
    BY <2>1, <1>x DEF BareInv
  <2>3. ready /\ ~connected => submitting' \/ queued' \/ pc'["worker"] # "idle"
    BY <1>13, <1>s, <2>1 DEF Report
  <2>4. unreported = {} => unreported' = {}
    BY <2>1
  <2> QED BY <2>1, <2>2, <2>3, <2>4 DEF BareInv, NoLostInvalidation
<1>14. CASE PeerConnect
  <2>1. /\ link = "none" /\ link' = "coming" /\ advertising
        /\ UNCHANGED <<ready, connected, gen, applied, attempt, pc, writing, lit, unreported,
                       submitting, queued, gaveUp>>
    BY <1>14 DEF PeerConnect
  <2> QED BY <2>1 DEF BareInv, NoLostInvalidation, Dirty
<1>15. CASE PeerDisconnect
  <2>1. /\ link = "up" /\ link' = "going"
        /\ pc["main"] # "commit"
        /\ UNCHANGED <<ready, connected, gen, applied, attempt, advertising, pc, writing, lit,
                       unreported, submitting, queued, gaveUp>>
    BY <1>15 DEF PeerDisconnect, InAdvCall
  <2> QED BY <2>1 DEF BareInv, NoLostInvalidation, Dirty
<1>16. CASE ReportNfcFd
  BY <1>16 DEF ReportNfcFd
<1>17. CASE ChangeBinding
  <2>1. /\ writing /\ ~writing'
        /\ UNCHANGED <<ready, connected, gen, applied, attempt, advertising, link, pc, lit,
                       submitting, queued, gaveUp>>
    BY <1>17 DEF ChangeBinding, Change
  <2> QED BY <2>1 DEF BareInv, NoLostInvalidation, Dirty
<1>18. CASE ChangeLight \/ OffWork
  <2>1. /\ link = "up" \/ lit
        /\ UNCHANGED <<ready, connected, gen, applied, attempt, advertising, link, pc, writing,
                       submitting, queued, gaveUp>>
    BY <1>18 DEF ChangeLight, OffWork, Change
  <2> QED BY <2>1 DEF BareInv, NoLostInvalidation, Dirty
<1>19. CASE BindingCpWrite \/ SaveFailed
  <2>1. /\ link = "up" \/ writing
        /\ UNCHANGED <<ready, connected, gen, applied, attempt, advertising, link, pc, lit,
                       unreported, submitting, queued, gaveUp>>
    BY <1>19 DEF BindingCpWrite, SaveFailed
  <2> QED BY <2>1 DEF BareInv, NoLostInvalidation, Dirty
<1>20. CASE UNCHANGED vars
  BY <1>20, <1>a DEF vars
<1> QED
  BY <1>1, <1>2, <1>3, <1>4, <1>5, <1>6, <1>7, <1>8, <1>9, <1>10, <1>11, <1>12,
     <1>13, <1>14, <1>15, <1>16, <1>17, <1>18, <1>19, <1>20
  DEF Next, MainStep, WorkerStep, HostStep, ReportStep

\* On a board without the NFC interrupt, where no whole connection fits into one
\* advertising call, a dirty payload always has an attempt on its way (or the
\* last one failed).  Both assumptions are needed: TLC refutes the property
\* with either of them dropped.
THEOREM NoInvalidationLost == ~SessionInWindow /\ ~HasNfc => (Spec => []NoLostInvalidation)
<1> SUFFICES ASSUME ~SessionInWindow, ~HasNfc PROVE Spec => []NoLostInvalidation
  OBVIOUS
<1>1. TypeOK /\ WorkInv /\ FlagInv /\ BareInv /\ [Next]_vars => BareInv'
  BY BareStep
<1>2. Spec => []FlagInv
  BY FlagCorrect
<1>3. BareInv => NoLostInvalidation
  BY DEF BareInv
<1> QED BY <1>1, <1>2, <1>3, TypeCorrect, WorkCorrect, BareInit, PTL DEF Spec
=============================================================================
