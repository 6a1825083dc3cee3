--------------------------- MODULE ReadAll_proofs ---------------------------
(***************************************************************************)
(* Machine-checked proofs about ReadAll, for every number of slots and     *)
(* without regard to the bounds MaxChanges, MaxErrors and MaxRequests.     *)
(***************************************************************************)
EXTENDS ReadAll, SequenceTheorems, TLAPS

\* The environment of the results below: no notification is still in process
\* when a new stream or a new connection begins.
Calm == RestartInNotify = FALSE

-----------------------------------------------------------------------------
(* The inductive invariant.                                                *)

\* The work item and the pacer's flag agree: an active stream has a next step
\* and a client that asked; a handler that is cancelled works for nobody.
WorkInv ==
    /\ active => scheduled \/ pc # "idle"
    /\ canceling => ~active /\ pc # "idle"
    /\ active => requested /\ link # "down"
    /\ pc # "idle" /\ link # "down" => active
    /\ got # <<>> \/ done => requested

\* Where the stream stands: the number of records the client has.
PosInv ==
    /\ pc # "idle" => frame.slot = nextSlot
    /\ active /\ link = "up" /\ pc # "sent" => Len(got) = nextSlot - 1 /\ ~done
    /\ active /\ link = "up" /\ pc = "sent" /\ frame.slot # EndMarker
           => Len(got) = nextSlot /\ ~done

OrderInv ==
    /\ Len(got) <= N
    /\ StreamInOrder

\* While table_seq has not moved since the request, the records received and the
\* one in process are those of the table.
SnapInv ==
    /\ startSeq <= seq
    /\ seq = startSeq => \A i \in 1..Len(got) : got[i].version = table[i]
    /\ seq = startSeq /\ pc # "idle" /\ active /\ frame.slot # EndMarker
           => frame.version = table[frame.slot]

IInv == TypeOK /\ WorkInv /\ PosInv /\ OrderInv /\ SnapInv

\* Slots and the end marker as numbers.
LEMMA ConstFacts ==
    /\ N \in Nat /\ N >= 1 /\ EndMarker = N + 1 /\ EndMarker \in Nat
    /\ \A i \in 1..EndMarker : i \in Nat /\ i >= 1 /\ i <= N + 1
    /\ \A i \in Nat : i >= 1 /\ i <= N + 1 => i \in 1..EndMarker
    /\ \A i \in 1..EndMarker : i # EndMarker => i \in Slot /\ i <= N
    /\ 1 \in 1..EndMarker
BY ReadAllAssumption DEF EndMarker, Slot

\* A client starts with the empty sequence of frames.
LEMMA EmptyFacts == <<>> \in Seq(Frame) /\ Len(<<>>) = 0
BY EmptySeq

\* The number of frames received is a natural number.
LEMMA GotFacts == TypeOK => Len(got) \in Nat
BY LenProperties DEF TypeOK

\* The idle pacer satisfies the invariant.
LEMMA IInit == Init => IInv
<1> SUFFICES ASSUME Init PROVE IInv
  OBVIOUS
<1> USE DEF Init
<1>1. TypeOK
  BY ConstFacts, EmptyFacts DEF TypeOK, Pc, Link, Frame
<1>2. WorkInv
  BY DEF WorkInv
<1>3. PosInv
  BY DEF PosInv
<1>4. OrderInv
  BY ConstFacts, EmptyFacts DEF OrderInv, StreamInOrder
<1>5. SnapInv
  BY EmptyFacts DEF SnapInv
<1> QED
  BY <1>1, <1>2, <1>3, <1>4, <1>5 DEF IInv

-----------------------------------------------------------------------------
(* Type correctness needs no assumption on the environment.                *)

\* A frame that is not the end marker was taken below the end of the table, and
\* a restart only lowers next_slot.
TypeInv ==
    /\ TypeOK
    /\ pc # "idle" /\ frame.slot # EndMarker => nextSlot # EndMarker

\* The names of the places in process.
LEMMA PcFacts == {"idle", "notify", "sent", "failed"} \subseteq Pc
BY DEF Pc

\* The names of the link states.
LEMMA LinkFacts == {"down", "up", "lost"} \subseteq Link
BY DEF Link

\* k_work_schedule leaves a flag.
LEMMA ScheduleType == TypeOK /\ Schedule => scheduled' \in BOOLEAN
BY DEF TypeOK, Schedule

\* Every step keeps the types.
LEMMA TypeStep == TypeInv /\ [Next]_vars => TypeInv'
<1> SUFFICES ASSUME TypeInv, [Next]_vars PROVE TypeInv'
  OBVIOUS
<1> USE ConstFacts, EmptyFacts, PcFacts, LinkFacts
    DEF TypeInv, TypeOK, pacerVars, workVars, tableVars, linkVars, clientVars
<1>1. CASE Connected
  BY <1>1 DEF Connected
<1>2. CASE Subscribe
  BY <1>2 DEF Subscribe
<1>3. CASE Start
  <2>1. scheduled' \in BOOLEAN
    BY <1>3, ScheduleType DEF Start
  <2>2. requests' \in Nat
    BY <1>3 DEF Start
  <2>3. nextSlot' \in 1..EndMarker /\ nextSlot' # EndMarker
    BY <1>3 DEF Start
  <2> QED BY <1>3, <2>1, <2>2, <2>3 DEF Start
<1>4. CASE ChangeBegin
  BY <1>4 DEF ChangeBegin
<1>5. CASE ChangeCommit
  <2>1. table' \in [Slot -> Nat] /\ seq' \in Nat
    <3>1. seq + 1 \in Nat
      OBVIOUS
    <3> QED BY <1>5, <3>1 DEF ChangeCommit
  <2> QED BY <1>5, <2>1 DEF ChangeCommit
<1>6. CASE PeerLost
  BY <1>6 DEF PeerLost
<1>7. CASE Disconnected
  <2>1. canceling' \in BOOLEAN
    BY <1>7 DEF Disconnected, CancelWork
  <2> QED BY <1>7, <2>1 DEF Disconnected, CancelWork
<1>8. CASE ProcessFrame
  <2>1. nextSlot > N <=> nextSlot = EndMarker
    OBVIOUS
  <2>2. nextSlot # EndMarker => nextSlot \in Slot /\ table[nextSlot] \in Nat
    OBVIOUS
  <2>3. frame' \in Frame /\ (pc' # "idle" /\ frame'.slot # EndMarker => nextSlot # EndMarker)
    BY <1>8, <2>1, <2>2 DEF ProcessFrame, Frame
  <2> QED BY <1>8, <2>3 DEF ProcessFrame
<1>9. CASE Notify
  <2>1. got' \in Seq(Frame)
    BY <1>9, AppendProperties DEF Notify
  <2> QED BY <1>9, <2>1 DEF Notify
<1>10. CASE NotifyRefused
  <2>1. errors' \in Nat
    BY <1>10 DEF NotifyRefused
  <2> QED BY <1>10, <2>1 DEF NotifyRefused
<1>11. CASE ProcessReturn
  <2>1. scheduled' \in BOOLEAN
    BY <1>11, ScheduleType DEF ProcessReturn
  <2>2. nextSlot' \in 1..EndMarker
    <3>1. nextSlot # EndMarker => nextSlot + 1 \in 1..EndMarker
      OBVIOUS
    <3> QED BY <1>11, <3>1 DEF ProcessReturn
  <2> QED BY <1>11, <2>1, <2>2 DEF ProcessReturn
<1>12. CASE UNCHANGED vars
  BY <1>12 DEF vars
<1> QED
  BY <1>1, <1>2, <1>3, <1>4, <1>5, <1>6, <1>7, <1>8, <1>9, <1>10, <1>11, <1>12
  DEF Next, Process

\* The pacer's next_slot stays between 1 and the end marker, also when a restart
\* falls into the middle of process.
THEOREM TypeCorrect == Spec => []TypeOK
<1>1. Init => TypeInv
  BY IInit DEF IInv, TypeInv, Init
<1>2. TypeInv => TypeOK
  BY DEF TypeInv
<1> QED
  BY <1>1, <1>2, TypeStep, PTL DEF Spec

-----------------------------------------------------------------------------
(* The other parts, step by step.                                          *)

\* Every step keeps the work item and the pacer's flag in agreement.
LEMMA WorkStep == Calm /\ TypeOK /\ WorkInv /\ [Next]_vars => WorkInv'
<1> SUFFICES ASSUME Calm, TypeOK, WorkInv, [Next]_vars PROVE WorkInv'
  OBVIOUS
<1> USE DEF WorkInv, TypeOK, Calm, MayRestart, Schedule, CancelWork,
            pacerVars, workVars, tableVars, linkVars, clientVars
<1>1. CASE Connected
  BY <1>1 DEF Connected
<1>2. CASE Subscribe
  BY <1>2 DEF Subscribe
<1>3. CASE Start
  BY <1>3 DEF Start
<1>4. CASE ChangeBegin
  BY <1>4 DEF ChangeBegin
<1>5. CASE ChangeCommit
  BY <1>5 DEF ChangeCommit
<1>6. CASE PeerLost
  BY <1>6 DEF PeerLost
<1>7. CASE Disconnected
  BY <1>7 DEF Disconnected
<1>8. CASE ProcessFrame
  BY <1>8 DEF ProcessFrame
<1>9. CASE Notify
  BY <1>9 DEF Notify
<1>10. CASE NotifyRefused
  BY <1>10 DEF NotifyRefused
<1>11. CASE ProcessReturn
  BY <1>11 DEF ProcessReturn
<1>12. CASE UNCHANGED vars
  BY <1>12 DEF vars
<1> QED
  BY <1>1, <1>2, <1>3, <1>4, <1>5, <1>6, <1>7, <1>8, <1>9, <1>10, <1>11, <1>12
  DEF Next, Process

\* A delivered record is appended.
LEMMA DeliverFacts ==
    ASSUME TypeOK
    PROVE  /\ Len(Append(got, frame)) = Len(got) + 1
           /\ \A i \in 1..Len(got) : Append(got, frame)[i] = got[i]
           /\ Append(got, frame)[Len(got) + 1] = frame
BY AppendProperties DEF TypeOK

\* Every step keeps the client's count and next_slot in agreement.
LEMMA PosStep == Calm /\ TypeOK /\ WorkInv /\ PosInv /\ [Next]_vars => PosInv'
<1> SUFFICES ASSUME Calm, TypeOK, WorkInv, PosInv, [Next]_vars PROVE PosInv'
  OBVIOUS
<1> USE ConstFacts, EmptyFacts, GotFacts
    DEF PosInv, Calm, MayRestart, pacerVars, workVars, tableVars, linkVars, clientVars
<1>1. CASE Connected
  BY <1>1 DEF Connected, WorkInv
<1>2. CASE Subscribe
  BY <1>2 DEF Subscribe
<1>3. CASE Start
  BY <1>3 DEF Start
<1>4. CASE ChangeBegin
  BY <1>4 DEF ChangeBegin
<1>5. CASE ChangeCommit
  BY <1>5 DEF ChangeCommit
<1>6. CASE PeerLost
  BY <1>6 DEF PeerLost
<1>7. CASE Disconnected
  BY <1>7 DEF Disconnected
<1>8. CASE ProcessFrame
  BY <1>8 DEF ProcessFrame
<1>9. CASE Notify
  <2>1. pc = "notify" /\ pc' = "sent" /\ UNCHANGED <<active, nextSlot, link, frame>>
    BY <1>9 DEF Notify
  <2>2. CASE link = "up" /\ frame.slot # EndMarker
    <3>1. got' = Append(got, frame) /\ done' = done
      BY <1>9, <2>2 DEF Notify
    <3>2. Len(got') = Len(got) + 1
      BY <3>1, DeliverFacts
    <3>3. active => Len(got') = nextSlot /\ ~done
      <4>1. active => Len(got) = nextSlot - 1 /\ ~done
        BY <2>1, <2>2
      <4>2. nextSlot \in Nat
        BY DEF TypeOK
      <4> QED BY <3>2, <4>1, <4>2
    <3> QED BY <2>1, <3>1, <3>3
  <2>3. CASE ~(link = "up" /\ frame.slot # EndMarker)
    BY <2>1, <2>3
  <2> QED BY <2>2, <2>3
<1>10. CASE NotifyRefused
  BY <1>10 DEF NotifyRefused
<1>11. CASE ProcessReturn
  <2>1. pc' = "idle" /\ UNCHANGED <<got, done, link>>
    BY <1>11 DEF ProcessReturn
  <2>2. CASE pc = "failed"
    BY <1>11, <2>1, <2>2 DEF ProcessReturn
  <2>3. CASE pc # "failed" /\ frame.slot = EndMarker
    BY <1>11, <2>1, <2>3 DEF ProcessReturn
  <2>4. CASE pc # "failed" /\ frame.slot # EndMarker
    <3>1. pc = "sent" /\ nextSlot' = nextSlot + 1 /\ active' = active
      BY <1>11, <2>4 DEF ProcessReturn
    <3>2. active /\ link = "up" => Len(got) = nextSlot /\ ~done
      BY <2>4, <3>1
    <3>3. nextSlot' - 1 = nextSlot
      BY <3>1 DEF TypeOK
    <3> QED BY <2>1, <3>1, <3>2, <3>3
  <2> QED BY <2>2, <2>3, <2>4
<1>12. CASE UNCHANGED vars
  BY <1>12 DEF vars
<1> QED
  BY <1>1, <1>2, <1>3, <1>4, <1>5, <1>6, <1>7, <1>8, <1>9, <1>10, <1>11, <1>12
  DEF Next, Process

\* Every step keeps the received frames in the order of the slots.
LEMMA OrderStep == TypeOK /\ WorkInv /\ PosInv /\ OrderInv /\ [Next]_vars => OrderInv'
<1> SUFFICES ASSUME TypeOK, WorkInv, PosInv, OrderInv, [Next]_vars PROVE OrderInv'
  OBVIOUS
<1> USE ConstFacts, GotFacts DEF OrderInv, StreamInOrder
<1>1. ASSUME UNCHANGED <<got, done>> PROVE OrderInv'
  BY <1>1
<1>2. ASSUME got' = <<>>, done' = FALSE PROVE OrderInv'
  BY <1>2, EmptyFacts
<1>3. CASE Notify
  <2>1. CASE link = "up" /\ frame.slot = EndMarker
    <3>1. got' = got /\ done' = TRUE
      BY <1>3, <2>1 DEF Notify
    <3>2. Len(got) = nextSlot - 1 /\ frame.slot = nextSlot
      BY <1>3, <2>1 DEF Notify, WorkInv, PosInv
    <3>3. Len(got) = N
      BY <2>1, <3>2
    <3> QED BY <3>1, <3>3
  <2>2. CASE link = "up" /\ frame.slot # EndMarker
    <3>1. got' = Append(got, frame) /\ done' = done
      BY <1>3, <2>2 DEF Notify
    <3>2. Len(got) = nextSlot - 1 /\ frame.slot = nextSlot /\ ~done
      BY <1>3, <2>2 DEF Notify, WorkInv, PosInv
    <3>3. nextSlot \in Nat /\ nextSlot <= N
      BY <2>2, <3>2 DEF TypeOK
    <3>4. Len(got') = nextSlot /\ got'[nextSlot] = frame
          /\ \A i \in 1..Len(got) : got'[i] = got[i]
      BY <3>1, <3>2, <3>3, DeliverFacts
    <3>5. ASSUME NEW i \in 1..Len(got') PROVE got'[i].slot = i
      <4>1. CASE i = nextSlot
        BY <3>2, <3>4, <4>1
      <4>2. CASE i # nextSlot
        <5>1. i \in 1..Len(got)
          BY <3>2, <3>3, <3>4, <4>2
        <5> QED BY <3>4, <5>1
      <4> QED BY <4>1, <4>2
    <3> QED BY <3>1, <3>2, <3>3, <3>4, <3>5
  <2>3. CASE link # "up"
    BY <1>1, <1>3, <2>3 DEF Notify
  <2> QED BY <2>1, <2>2, <2>3
<1>4. CASE Connected
  BY <1>2, <1>4 DEF Connected
<1>5. CASE Start
  BY <1>2, <1>5 DEF Start
<1> QED
  BY <1>1, <1>3, <1>4, <1>5 DEF Next, Process, Subscribe, ChangeBegin, ChangeCommit,
     PeerLost, Disconnected, ProcessFrame, NotifyRefused, ProcessReturn, vars, clientVars

\* Every step keeps the received records those of the table, as long as
\* table_seq has not moved.
LEMMA SnapStep ==
    Calm /\ TypeOK /\ WorkInv /\ PosInv /\ OrderInv /\ SnapInv /\ [Next]_vars => SnapInv'
<1> SUFFICES ASSUME Calm, TypeOK, WorkInv, PosInv, OrderInv, SnapInv, [Next]_vars
             PROVE  SnapInv'
  OBVIOUS
<1> USE ConstFacts, EmptyFacts, GotFacts
    DEF SnapInv, pacerVars, workVars, tableVars, linkVars, clientVars
<1>1. CASE Connected
  BY <1>1 DEF Connected
<1>2. CASE Subscribe
  BY <1>2 DEF Subscribe
<1>3. CASE Start
  <2>1. pc = "idle" /\ pc' = "idle" /\ got' = <<>> /\ startSeq' = seq /\ seq' = seq
    BY <1>3 DEF Start, Calm, MayRestart
  <2>2. seq <= seq
    BY DEF TypeOK
  <2> QED BY <2>1, <2>2
<1>4. CASE ChangeBegin
  BY <1>4 DEF ChangeBegin
<1>5. CASE ChangeCommit
  <2>1. CASE UNCHANGED <<table, seq>>
    BY <1>5, <2>1 DEF ChangeCommit
  <2>2. CASE seq' = seq + 1
    <3>1. startSeq' <= seq' /\ seq' # startSeq'
      BY <1>5, <2>2 DEF ChangeCommit, TypeOK
    <3> QED BY <3>1
  <2> QED BY <1>5, <2>1, <2>2 DEF ChangeCommit
<1>6. CASE PeerLost
  BY <1>6 DEF PeerLost
<1>7. CASE Disconnected
  BY <1>7 DEF Disconnected, CancelWork
<1>8. CASE ProcessFrame
  <2>1. UNCHANGED <<seq, startSeq, got, table>>
    BY <1>8 DEF ProcessFrame
  <2>2. pc' # "idle" /\ frame'.slot # EndMarker => frame'.version = table[frame'.slot]
    <3>1. CASE active
      <4>1. frame' = [slot |-> nextSlot,
                      version |-> IF nextSlot > N THEN 0 ELSE table[nextSlot]]
        BY <1>8, <3>1 DEF ProcessFrame
      <4>2. nextSlot # EndMarker => ~(nextSlot > N)
        BY DEF TypeOK
      <4> QED BY <4>1, <4>2
    <3>2. CASE ~active
      BY <1>8, <3>2 DEF ProcessFrame
    <3> QED BY <3>1, <3>2
  <2> QED BY <2>1, <2>2
<1>9. CASE Notify
  <2>1. UNCHANGED <<seq, startSeq, table, frame, active>> /\ pc = "notify"
    BY <1>9 DEF Notify
  <2>2. CASE link = "up" /\ frame.slot # EndMarker
    <3>1. got' = Append(got, frame) /\ active
      BY <1>9, <2>2 DEF Notify, WorkInv
    <3>2. Len(got) = nextSlot - 1 /\ frame.slot = nextSlot
      BY <2>1, <2>2, <3>1 DEF PosInv
    <3>3. nextSlot \in Nat
      BY DEF TypeOK
    <3>4. Len(got') = nextSlot /\ got'[nextSlot] = frame
          /\ \A i \in 1..Len(got) : got'[i] = got[i]
      BY <3>1, <3>2, <3>3, DeliverFacts
    <3>5. ASSUME seq = startSeq, NEW i \in 1..Len(got') PROVE got'[i].version = table[i]
      <4>1. CASE i = nextSlot
        BY <2>1, <2>2, <3>1, <3>2, <3>4, <3>5, <4>1
      <4>2. CASE i # nextSlot
        <5>1. i \in 1..Len(got)
          BY <3>2, <3>3, <3>4, <4>2
        <5> QED BY <3>4, <3>5, <5>1
      <4> QED BY <4>1, <4>2
    <3> QED BY <2>1, <3>5
  <2>3. CASE ~(link = "up" /\ frame.slot # EndMarker)
    <3>1. got' = got
      BY <1>9, <2>3 DEF Notify
    <3> QED BY <2>1, <3>1
  <2> QED BY <2>2, <2>3
<1>10. CASE NotifyRefused
  BY <1>10 DEF NotifyRefused
<1>11. CASE ProcessReturn
  BY <1>11 DEF ProcessReturn
<1>12. CASE UNCHANGED vars
  BY <1>12 DEF vars
<1> QED
  BY <1>1, <1>2, <1>3, <1>4, <1>5, <1>6, <1>7, <1>8, <1>9, <1>10, <1>11, <1>12
  DEF Next, Process

-----------------------------------------------------------------------------
(* Results.                                                                *)

\* The invariant holds in every reachable state of the calm environment.
LEMMA Invariance == Calm /\ Spec => []IInv
<1>1. Calm /\ IInv /\ [Next]_vars => IInv'
  <2> SUFFICES ASSUME Calm, IInv, [Next]_vars PROVE IInv'
    OBVIOUS
  <2>1. TypeInv
    BY ConstFacts DEF IInv, PosInv, TypeInv, TypeOK
  <2>2. TypeOK'
    BY <2>1, TypeStep DEF TypeInv
  <2> QED BY <2>2, WorkStep, PosStep, OrderStep, SnapStep DEF IInv
<1>2. Calm => []Calm
  <2>1. Calm => Calm'
    BY DEF Calm
  <2> QED BY <2>1, PTL
<1> QED
  BY <1>1, <1>2, IInit, PTL DEF Spec

\* start, the retries and the pacing delay share one work item, and no order of
\* them loses the next step of an active stream.
THEOREM NeverStalls == Calm /\ Spec => []PacerNeverStalls
<1>1. IInv => PacerNeverStalls
  BY DEF IInv, WorkInv, PacerNeverStalls
<1> QED
  BY <1>1, Invariance, PTL

\* A client counts to N records and the end marker, with nothing skipped or
\* repeated, for every number of slots and retries.
THEOREM InOrder == Calm /\ Spec => []StreamInOrder
<1>1. IInv => StreamInOrder
  BY DEF IInv, OrderInv
<1> QED
  BY <1>1, Invariance, PTL

\* A mirror completed under an unchanged table_seq is the table.
THEOREM SnapshotExact == Calm /\ Spec => []SnapshotIfSeqUnchanged
<1>1. IInv => SnapshotIfSeqUnchanged
  BY ConstFacts DEF IInv, OrderInv, StreamInOrder, SnapInv, SnapshotIfSeqUnchanged, Slot
<1> QED
  BY <1>1, Invariance, PTL

\* The frames of one client's stream never reach the next client.
THEOREM NoneUnrequested == Calm /\ Spec => []NoUnrequestedFrames
<1>1. IInv => NoUnrequestedFrames
  BY DEF IInv, WorkInv, NoUnrequestedFrames
<1> QED
  BY <1>1, Invariance, PTL
=============================================================================
