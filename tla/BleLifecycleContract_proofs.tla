-------------------- MODULE BleLifecycleContract_proofs --------------------
(***************************************************************************)
(* BleLifecycle implements AdvertisingContract, for every value of its     *)
(* constants: with and without the NFC interrupt, whatever fits into one   *)
(* advertising call, and without bounds on reports and failures.           *)
(***************************************************************************)
EXTENDS BleLifecycle_proofs

-----------------------------------------------------------------------------
(* The invariant of the refinement.                                        *)

\* Silence is accounted for: an attempt that succeeded has put something on air,
\* or a connection has ended it, or its target is no longer the generation.  And
\* what is on air is never newer than what is in the buffer.
AirInv ==
    /\ advertising => link = "none"
    /\ fillStale => airStale
    /\ \A a \in Actor : pc[a] = "commit" /\ attempt[a].ok /\ attempt[a].target = gen
          => advertising \/ link # "none"
    /\ ready /\ applied = gen => advertising \/ link # "none"

\* At power-on nothing is on air and start has not succeeded.
LEMMA AirInit == Init => AirInv
BY ActorFacts DEF Init, AirInv

\* Every step keeps silence accounted for.
LEMMA AirStep == TypeOK /\ WorkInv /\ GenInv /\ AirInv /\ [Next]_vars => AirInv'
<1> SUFFICES ASSUME TypeOK, WorkInv, GenInv, AirInv, [Next]_vars PROVE AirInv'
  OBVIOUS
<1> USE ActorFacts
<1>t. /\ pc \in [Actor -> MainPc \cup WorkerPc]
      /\ attempt \in [Actor -> [restart : BOOLEAN, target : Nat, ok : BOOLEAN]]
  BY DEF TypeOK
<1> USE <1>t DEF lifecycleVars, workVars, radioVars, dataVars
\* Only one context applies, and the main one only before ready.
<1>x. /\ pc["main"] \in Applying => ~ready
      /\ pc["worker"] \in Applying => ready /\ applied # gen /\ pc["main"] \notin Applying
  BY DEF WorkInv, GenInv, Applying
\* Steps that leave the radio, the payload and the generations as they are and
\* bring no context to its commit.
<1>a. ASSUME UNCHANGED <<ready, gen, applied, attempt, advertising, link, fillStale, airStale>>,
             \A a \in Actor : pc'[a] = "commit" => pc[a] = "commit"
      PROVE  AirInv'
  BY <1>a DEF AirInv
\* Steps that mark the payload dirty leave no attempt with the new generation.
<1>b. ASSUME MarkDirty, UNCHANGED <<applied, attempt, pc, advertising, fillStale, airStale>>,
             advertising => link' = "none"
      PROVE  AirInv'
  BY <1>b, MarkDirtyMoves DEF AirInv, Applying
<1>1. CASE LifecycleInit
  <2>1. pc'["main"] = "enabling" /\ pc'["worker"] = pc["worker"] /\ ~ready'
    BY <1>1 DEF LifecycleInit, MainGoto
  <2>2. pc["worker"] \notin Applying
    BY <1>1 DEF LifecycleInit, MainGoto, WorkInv
  <2>3. UNCHANGED <<advertising, link, fillStale, airStale>>
    BY <1>1 DEF LifecycleInit
  <2> QED BY <2>1, <2>2, <2>3 DEF AirInv, Applying
<1>2. CASE BluetoothInitialized
  BY <1>2, <1>a DEF BluetoothInitialized, MainGoto
<1>3. CASE SettingsLoad
  BY <1>3, <1>a DEF SettingsLoad, MainGoto
<1>4. CASE StartSample
  <2>1. pc'["main"] = "fill" /\ pc'["worker"] = pc["worker"] /\ pc["worker"] \notin Applying
    BY <1>4 DEF StartSample, MainGoto, WorkInv
  <2>2. ~ready' /\ UNCHANGED <<advertising, link, fillStale, airStale>>
    BY <1>4 DEF StartSample, MainGoto, WorkInv
  <2> QED BY <2>1, <2>2 DEF AirInv, Applying
<1>5. ASSUME NEW a \in Actor, ApplyStep(a) PROVE AirInv'
  <2>0. /\ pc[a] \in Applying /\ (ready => applied # gen)
        /\ UNCHANGED <<ready, gen, applied, link>>
        /\ \A b \in Actor : b # a => pc'[b] = pc[b] /\ pc[b] \notin Applying
    <3>1. pc[a] \in Applying /\ UNCHANGED <<ready, gen, applied>>
      BY <1>5, ApplyStepMoves DEF Applying
    <3>2. \A b \in Actor : b # a => pc'[b] = pc[b] /\ pc[b] \notin Applying
      BY <1>5, <1>x, <3>1, ApplyStepMoves
    <3>3. UNCHANGED link
      BY <1>5 DEF ApplyStep, FillAdvMsd, AdvStart, AdvUpdate, AdvRefused, AdvFault, Return
    <3> QED BY <1>x, <3>1, <3>2, <3>3
  <2>1. CASE FillAdvMsd(a)
    <3>1. pc'[a] = "call" /\ ~fillStale' /\ UNCHANGED advertising
      BY <2>1 DEF FillAdvMsd
    <3> QED BY <2>0, <3>1 DEF AirInv, Applying
  <2>2. CASE AdvStart(a)
    <3>1. advertising' /\ link = "none" /\ fillStale' = fillStale /\ airStale' = fillStale
      BY <2>2 DEF AdvStart, Return
    <3> QED BY <2>0, <3>1 DEF AirInv
  <2>3. CASE AdvUpdate(a)
    <3>1. /\ UNCHANGED <<advertising, fillStale>> /\ airStale' \in {fillStale, airStale}
          /\ advertising \/ link = "coming"
      BY <2>3 DEF AdvUpdate, Return
    <3> QED BY <2>0, <3>1 DEF AirInv
  <2>4. ASSUME AdvRefused(a) \/ AdvFault(a) PROVE AirInv'
    <3>1. ~attempt'[a].ok /\ UNCHANGED <<advertising, fillStale, airStale>>
      BY <2>4 DEF AdvRefused, AdvFault, Return
    <3> QED BY <2>0, <3>1 DEF AirInv, Applying
  <2> QED BY <1>5, <2>1, <2>2, <2>3, <2>4 DEF ApplyStep
<1>6. CASE StartCommit
  <2>1. /\ pc["main"] = "commit" /\ pc'["main"] \in {"running", "fatal"}
        /\ pc'["worker"] = pc["worker"] /\ pc["worker"] \notin Applying /\ ~ready
    BY <1>6, <1>x DEF StartCommit, Applying
  <2>2. UNCHANGED <<gen, advertising, link, fillStale, airStale>>
    BY <1>6 DEF StartCommit
  <2>3. ready' => attempt["main"].ok /\ applied' = attempt["main"].target
    BY <1>6, <2>1 DEF StartCommit
  <2> QED BY <2>1, <2>2, <2>3 DEF AirInv, Applying
<1>7. CASE WorkerEnter
  BY <1>7, <1>a DEF WorkerEnter
<1>8. CASE ProcessSample
  <2>1. /\ pc'["worker"] # "commit" /\ pc'["main"] = pc["main"]
        /\ attempt'["main"] = attempt["main"]
        /\ UNCHANGED <<ready, gen, applied, advertising, link, fillStale, airStale>>
    BY <1>8 DEF ProcessSample
  <2> QED BY <2>1 DEF AirInv
<1>9. CASE ProcessCommit
  <2>1. /\ pc["worker"] = "commit" /\ pc'["worker"] = "idle" /\ pc'["main"] = pc["main"]
        /\ UNCHANGED <<ready, gen, attempt, advertising, link, fillStale, airStale>>
    BY <1>9 DEF ProcessCommit
  <2>2. \/ applied' = applied
        \/ attempt["worker"].ok /\ applied' = attempt["worker"].target
    BY <1>9 DEF ProcessCommit
  <2> QED BY <2>1, <2>2 DEF AirInv
<1>10. CASE Submit
  BY <1>10, <1>a DEF Submit
<1>11. CASE Connected
  BY <1>11 DEF Connected, AirInv
<1>12. CASE Disconnected
  BY <1>12, <1>b DEF Disconnected
<1>13. ASSUME NEW source \in Source, Report(source) PROVE AirInv'
  BY <1>13, <1>b DEF Report, AirInv
<1>14. CASE PeerConnect
  BY <1>14 DEF PeerConnect, AirInv
<1>15. CASE PeerDisconnect
  BY <1>15 DEF PeerDisconnect, AirInv
<1>16. CASE ReportNfcFd
  BY <1>16, <1>b DEF ReportNfcFd, AirInv
<1>17. CASE ChangeBinding \/ ChangeLight \/ OffWork
  BY <1>17 DEF ChangeBinding, ChangeLight, OffWork, Change, AirInv
<1>18. CASE BindingCpWrite \/ SaveFailed
  BY <1>18, <1>a DEF BindingCpWrite, SaveFailed
<1>19. CASE UNCHANGED vars
  BY <1>19, <1>a DEF vars
<1> QED
  BY <1>1, <1>2, <1>3, <1>4, <1>5, <1>6, <1>7, <1>8, <1>9, <1>10, <1>11, <1>12,
     <1>13, <1>14, <1>15, <1>16, <1>17, <1>18, <1>19
  DEF Next, MainStep, WorkerStep, HostStep, ReportStep

\* AirInv holds in every reachable state.
LEMMA AirCorrect == Spec => []AirInv
BY TypeCorrect, WorkCorrect, GenCorrect, AirInit, AirStep, PTL DEF Spec

-----------------------------------------------------------------------------
(* The refinement, step by step.                                           *)

\* Power-on is the initial state of the contract.
LEMMA ContractInit == Init => Contract!Init
BY DEF Init, Contract!Init, OnAir

\* Every step of the lifecycle is a step of the contract or invisible to it.
LEMMA ContractStep ==
    TypeOK /\ WorkInv /\ GenInv /\ FreshInv /\ AirInv /\ [Next]_vars
        => [Contract!Next]_(Contract!vars)
<1> SUFFICES ASSUME TypeOK, WorkInv, GenInv, FreshInv, AirInv, [Next]_vars
             PROVE  [Contract!Next]_(Contract!vars)
  OBVIOUS
<1> USE ActorFacts DEF lifecycleVars, workVars, radioVars, dataVars
<1>t. /\ pc \in [Actor -> MainPc \cup WorkerPc]
      /\ ready \in BOOLEAN /\ advertising \in BOOLEAN /\ airStale \in BOOLEAN
      /\ fillStale \in BOOLEAN /\ unreported \subseteq Source
  BY DEF TypeOK
<1>x. /\ pc["main"] \in Applying => ~ready
      /\ pc["worker"] \in Applying => ready /\ applied # gen /\ pc["main"] \notin Applying
  BY DEF WorkInv, GenInv, Applying
<1>s. ASSUME UNCHANGED <<ready, gen, applied, advertising, link, airStale, unreported>>
      PROVE  UNCHANGED Contract!vars
  BY <1>s DEF Contract!vars, OnAir, Dirty
\* mark_dirty always leaves a debt.
<1>d. ASSUME MarkDirty, UNCHANGED <<ready, applied>> PROVE (~ready \/ Dirty)'
  BY <1>d, MarkDirtyMoves DEF Dirty
\* A change of the data.
<1>c. ASSUME NEW source \in Source, Change(source) PROVE Contract!Change(source)
  BY <1>c, <1>t DEF Change, Contract!Change, OnAir, Dirty
<1>1. CASE LifecycleInit
  <2>1. ~ready /\ ~ready' /\ UNCHANGED <<advertising, link, airStale, unreported>>
    BY <1>1 DEF LifecycleInit, MainGoto, WorkInv
  <2> QED BY <2>1 DEF Contract!vars, OnAir
<1>2. CASE BluetoothInitialized \/ SettingsLoad
  BY <1>2, <1>s DEF BluetoothInitialized, SettingsLoad
<1>3. CASE StartSample
  <2>1. ~ready /\ ~ready' /\ UNCHANGED <<advertising, link, airStale, unreported>>
    BY <1>3 DEF StartSample, MainGoto, WorkInv
  <2> QED BY <2>1 DEF Contract!vars, OnAir
<1>4. ASSUME NEW a \in Actor, ApplyStep(a) PROVE [Contract!Next]_(Contract!vars)
  <2>1. /\ pc[a] \in Applying /\ (~ready \/ Dirty)
        /\ UNCHANGED <<ready, gen, applied>> /\ UNCHANGED (~ready \/ Dirty)
    BY <1>4, <1>x, ApplyStepMoves DEF Applying, Dirty
  <2>2. UNCHANGED <<link, unreported>>
    BY <1>4 DEF ApplyStep, FillAdvMsd, AdvStart, AdvUpdate, AdvRefused, AdvFault, Return
  <2>3. CASE AdvStart(a)
    <3>1. link = "none" /\ ~advertising /\ advertising'
      BY <2>3 DEF AdvStart
    <3>2. OnAir = "silent" /\ OnAir' \in {"fresh", "stale"}
      BY <3>1 DEF OnAir
    <3>3. Contract!Begin
      BY <2>1, <2>2, <3>1, <3>2 DEF Contract!Begin
    <3> QED BY <3>3 DEF Contract!Next
  <2>4. CASE AdvUpdate(a)
    <3>1. UNCHANGED advertising /\ airStale' = IF advertising THEN fillStale ELSE airStale
      BY <2>4 DEF AdvUpdate
    <3>2. CASE advertising /\ airStale /\ ~fillStale
      <4>1. OnAir = "stale" /\ OnAir' = "fresh"
        BY <3>1, <3>2 DEF OnAir
      <4>2. Contract!Refresh
        BY <2>1, <2>2, <4>1 DEF Contract!Refresh
      <4> QED BY <4>2 DEF Contract!Next
    <3>3. CASE ~(advertising /\ airStale /\ ~fillStale)
      <4>1. airStale' = airStale
        BY <3>1, <3>3, <1>t DEF AirInv
      <4> QED BY <2>1, <2>2, <3>1, <4>1, <1>s
    <3> QED BY <3>2, <3>3
  <2>5. CASE FillAdvMsd(a) \/ AdvRefused(a) \/ AdvFault(a)
    <3>1. UNCHANGED <<advertising, airStale>>
      BY <2>5 DEF FillAdvMsd, AdvRefused, AdvFault
    <3> QED BY <2>1, <2>2, <3>1, <1>s
  <2> QED BY <1>4, <2>3, <2>4, <2>5 DEF ApplyStep
\* A commit: the debt is settled only if the air, or a client, explains it.
<1>5. ASSUME NEW a \in Actor, pc[a] = "commit",
             UNCHANGED <<gen, advertising, link, airStale, unreported>>,
             ~ready \/ Dirty,
             \/ UNCHANGED <<ready, applied>>
             \/ ready' /\ attempt[a].ok /\ applied' = attempt[a].target
      PROVE  [Contract!Next]_(Contract!vars)
  <2>1. UNCHANGED OnAir
    BY <1>5 DEF OnAir
  <2>2. CASE (~ready \/ Dirty)'
    BY <1>5, <2>1, <2>2 DEF Contract!vars
  <2>3. CASE ~(~ready \/ Dirty)'
    <3>1. ready' /\ gen' = applied'
      BY <2>3 DEF Dirty
    <3>2. attempt[a].ok /\ attempt[a].target = gen
      BY <1>5, <3>1 DEF Dirty
    <3>3. advertising \/ link # "none"
      BY <1>5, <3>2 DEF AirInv
    <3>4. advertising /\ airStale => unreported # {}
      BY <1>5, <3>2 DEF FreshInv
    <3>5. Contract!Justified
      BY <3>3, <3>4 DEF Contract!Justified, OnAir
    <3>6. Contract!Settle
      BY <1>5, <2>1, <2>3, <3>5 DEF Contract!Settle
    <3> QED BY <3>6 DEF Contract!Next
  <2> QED BY <2>2, <2>3
<1>6. CASE StartCommit
  <2>1. /\ pc["main"] = "commit" /\ ~ready
        /\ UNCHANGED <<gen, advertising, link, airStale, unreported>>
    BY <1>6, <1>x DEF StartCommit, Applying
  <2>2. \/ UNCHANGED <<ready, applied>>
        \/ ready' /\ attempt["main"].ok /\ applied' = attempt["main"].target
    BY <1>6 DEF StartCommit
  <2> QED BY <1>5, <2>1, <2>2
<1>7. CASE ProcessCommit
  <2>1. /\ pc["worker"] = "commit" /\ ready /\ Dirty
        /\ UNCHANGED <<ready, gen, advertising, link, airStale, unreported>>
    BY <1>7, <1>x DEF ProcessCommit, Applying, Dirty
  <2>2. applied' = applied \/ (attempt["worker"].ok /\ applied' = attempt["worker"].target)
    BY <1>7 DEF ProcessCommit
  <2> QED BY <1>5, <2>1, <2>2
<1>8. CASE WorkerEnter \/ ProcessSample \/ Submit
  BY <1>8, <1>s DEF WorkerEnter, ProcessSample, Submit
<1>9. CASE PeerConnect
  <2>1. advertising /\ ~advertising' /\ link = "none" /\ link' = "coming"
        /\ UNCHANGED <<ready, gen, applied, unreported>>
    BY <1>9 DEF PeerConnect
  <2>2. OnAir # "silent" /\ OnAir' = "silent" /\ UNCHANGED (~ready \/ Dirty)
    BY <2>1 DEF OnAir, Dirty
  <2>3. Contract!Connect
    BY <2>1, <2>2 DEF Contract!Connect
  <2> QED BY <2>3 DEF Contract!Next
<1>10. CASE Connected \/ PeerDisconnect
  <2>1. /\ link # "none" /\ link' # "none"
        /\ UNCHANGED <<ready, gen, applied, advertising, airStale, unreported>>
    BY <1>10 DEF Connected, PeerDisconnect
  <2> QED BY <2>1 DEF Contract!vars, OnAir, Dirty
<1>11. CASE Disconnected
  <2>1. /\ link = "going" /\ link' = "none" /\ MarkDirty
        /\ UNCHANGED <<ready, applied, advertising, airStale, unreported>>
    BY <1>11 DEF Disconnected
  <2>2. Contract!Leave
    BY <1>d, <2>1 DEF Contract!Leave, OnAir
  <2> QED BY <2>2 DEF Contract!Next
<1>12. ASSUME NEW source \in Source, Report(source) PROVE [Contract!Next]_(Contract!vars)
  <2>1. /\ source \in unreported /\ unreported' = unreported \ {source} /\ MarkDirty
        /\ UNCHANGED <<ready, applied, advertising, link, airStale>>
    BY <1>12 DEF Report
  <2>2. Contract!Report(source)
    BY <1>d, <2>1 DEF Contract!Report, OnAir
  <2> QED BY <2>2 DEF Contract!Next
<1>13. CASE ReportNfcFd
  <2>1. MarkDirty /\ UNCHANGED <<ready, applied, advertising, link, airStale, unreported>>
    BY <1>13 DEF ReportNfcFd
  <2>2. Contract!Request
    BY <1>d, <2>1 DEF Contract!Request, OnAir
  <2> QED BY <2>2 DEF Contract!Next
<1>14. CASE ChangeBinding \/ ChangeLight \/ OffWork
  <2>1. PICK source \in Source : Change(source)
    BY <1>14, SourceFacts DEF ChangeBinding, ChangeLight, OffWork
  <2> QED BY <1>c, <2>1 DEF Contract!Next
<1>15. CASE BindingCpWrite \/ SaveFailed
  BY <1>15, <1>s DEF BindingCpWrite, SaveFailed
<1>16. CASE UNCHANGED vars
  BY <1>16, <1>s DEF vars
<1> QED
  BY <1>1, <1>2, <1>3, <1>4, <1>6, <1>7, <1>8, <1>9, <1>10, <1>11, <1>12, <1>13,
     <1>14, <1>15, <1>16
  DEF Next, MainStep, WorkerStep, HostStep, ReportStep

\* The advertising lifecycle keeps its contract in every environment: the start
\* window, the stale advertising flag and failed calls can delay a debt for good,
\* but nothing makes the lifecycle forget one or show older data.
THEOREM ContractKept == Spec => KeepsContract
BY TypeCorrect, WorkCorrect, GenCorrect, FreshCorrect, AirCorrect, ContractInit,
   ContractStep, PTL
DEF Spec, KeepsContract, Contract!Spec

-----------------------------------------------------------------------------
(* What the contract gives a scanner.                                      *)

\* Every state of the contract keeps its promise.
LEMMA ContractPromises == Contract!Spec => []Contract!Promise
<1>1. Contract!Init => Contract!Promise
  BY DEF Contract!Init, Contract!Promise
<1>2. Contract!Promise /\ [Contract!Next]_(Contract!vars) => Contract!Promise'
  <2> SUFFICES ASSUME Contract!Promise, [Contract!Next]_(Contract!vars)
               PROVE  Contract!Promise'
    OBVIOUS
  <2> USE DEF Contract!Promise, Contract!Justified
  <2>1. ASSUME NEW source \in Source, Contract!Change(source) PROVE Contract!Promise'
    BY <2>1 DEF Contract!Change
  <2>2. ASSUME NEW source \in Source, Contract!Report(source) PROVE Contract!Promise'
    BY <2>2 DEF Contract!Report
  <2>3. CASE Contract!Request \/ Contract!Leave
    BY <2>3 DEF Contract!Request, Contract!Leave
  <2>4. CASE Contract!Begin \/ Contract!Refresh
    BY <2>4 DEF Contract!Begin, Contract!Refresh
  <2>5. CASE Contract!Settle
    BY <2>5 DEF Contract!Settle
  <2>6. CASE Contract!Connect
    BY <2>6 DEF Contract!Connect
  <2>7. CASE UNCHANGED Contract!vars
    BY <2>7 DEF Contract!vars
  <2> QED BY <2>1, <2>2, <2>3, <2>4, <2>5, <2>6, <2>7 DEF Contract!Next
<1> QED
  BY <1>1, <1>2, PTL DEF Contract!Spec

\* Once the generations agree, a rack that is silent has a client, and one that
\* shows old data has a handler about to report: no disconnection, failed call or
\* wiped report can leave it silent and satisfied.
THEOREM PromiseKept == Spec => []Contract!Promise
BY ContractKept, ContractPromises, PTL DEF KeepsContract
=============================================================================
