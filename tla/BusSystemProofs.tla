-------------------------- MODULE BusSystemProofs ---------------------------
(***************************************************************************)
(* The closed bus is called as BusProofs has it, so what is proved there   *)
(* holds of it, and its state is well typed.                               *)
(***************************************************************************)
EXTENDS BusSystem, BusProofs

\* The callers: subscriptions come and go, frames stay where they are.
Caller ==
    \/ \E k \in Sinks : Join(k) \/ Fail(k) \/ BeginClose(k) \/ CloseStep(k)
    \/ \E i \in SubIds : Bind(i) \/ Leave(i)

-----------------------------------------------------------------------------
(* Type correctness *)

LEMMA InitType == Init => TypeOK
<1> SUFFICES ASSUME Init PROVE TypeOK
    OBVIOUS
<1> USE DEF Init, BusInit, NoFrame, Frame
<1>1. sub \in [SubIds -> SubRecord]
    BY DEF SubRecord, Modes
<1>2. \A i \in SubIds : buf[i] = << >> /\ Len(buf[i]) <= BufferSize
    BY BufferSizeAssumption
<1>3. pump \in [SubIds -> [pc : PumpPlaces, hand : Frame, snap : Frame]]
    BY DEF PumpPlaces
<1> QED
    BY <1>1, <1>2, <1>3 DEF TypeOK

LEMMA CallerType == TypeOK /\ Caller => TypeOK'
<1> SUFFICES ASSUME TypeOK, Caller PROVE TypeOK'
    OBVIOUS
<1>1. ASSUME NEW k \in Sinks, Join(k) PROVE TypeOK'
  <2>1. PICK mode \in Modes, bound \in SessionIds \cup {None}, i \in Unused :
            Subscribe(i, mode, bound, None, k)
      BY <1>1 DEF Join
  <2>2. i \in SubIds
      BY DEF Unused
  <2>3. sub' \in [SubIds -> SubRecord]
      BY <2>1, <2>2 DEF Subscribe, TypeOK, SubRecord
  <2>4. pump' \in [SubIds -> [pc : PumpPlaces, hand : Frame, snap : Frame]]
      BY <2>1, <2>2 DEF Subscribe, TypeOK, PumpPlaces
  <2> QED
      BY <1>1, <2>1, <2>2, <2>3, <2>4 DEF Join, Subscribe, TypeOK, callerVars
<1>2. ASSUME NEW k \in Sinks, Fail(k) PROVE TypeOK'
    BY <1>2 DEF Fail, Break, TypeOK, callerVars
<1>3. ASSUME NEW k \in Sinks, BeginClose(k) PROVE TypeOK'
    BY <1>3 DEF BeginClose, Break, Writing, TypeOK
<1>4. ASSUME NEW k \in Sinks, RemoveDoomed(k) PROVE TypeOK'
    BY <1>4 DEF RemoveDoomed, Unsubscribe, TypeOK
<1>5. ASSUME NEW k \in Sinks, EndClose(k) PROVE TypeOK'
    BY <1>5 DEF EndClose, busVars, TypeOK
<1>6. ASSUME NEW i \in SubIds, Bind(i) PROVE TypeOK'
  <2>1. PICK id \in SessionIds : Rebind(i, id)
      BY <1>6 DEF Bind
  <2>2. [sub[i] EXCEPT !.bound = id] \in SubRecord
    <3>1. sub[i] \in SubRecord
        BY DEF TypeOK
    <3> QED
        BY <3>1 DEF SubRecord
  <2>3. sub' \in [SubIds -> SubRecord]
      BY <2>1, <2>2 DEF Rebind, TypeOK
  <2> QED
      BY <1>6, <2>1, <2>3 DEF Bind, Rebind, TypeOK, callerVars
<1>7. ASSUME NEW i \in SubIds, Leave(i) PROVE TypeOK'
    BY <1>7 DEF Leave, Unsubscribe, TypeOK, callerVars
<1> QED
    BY <1>1, <1>2, <1>3, <1>4, <1>5, <1>6, <1>7 DEF Caller, CloseStep

LEMMA PublishType == ASSUME TypeOK, NEW s \in SessionIds, PublishFor(s) PROVE TypeOK'
<1> USE BufferSizeAssumption DEF TypeOK
<1> DEFINE f == Announcement(s)
<1>1. f \in Frame /\ Publish(f)
    BY DEF PublishFor, Announcement, Frame
<1>2. \A i \in SubIds : \/ buf'[i] = buf[i]
                        \/ buf'[i] = Append(buf[i], f) /\ Len(buf[i]) # BufferSize /\ i \in registered
    BY <1>1 DEF Publish
<1>3. buf' \in [SubIds -> Seq(Frame)]
    BY <1>1 DEF Publish
<1>4. ASSUME NEW i \in SubIds PROVE Len(buf'[i]) <= BufferSize
  <2>1. Len(buf[i]) \in Nat /\ Len(buf[i]) <= BufferSize /\ buf[i] \in Seq(Frame)
      OBVIOUS
  <2>2. CASE buf'[i] = Append(buf[i], f) /\ Len(buf[i]) # BufferSize
    <3>1. Len(buf'[i]) = Len(buf[i]) + 1
        BY <1>1, <2>1, <2>2
    <3> QED
        BY <2>1, <2>2, <3>1
  <2> QED
      BY <1>2, <2>1, <2>2
<1>5. missed' \in [SubIds -> SUBSET Nat]
    BY <1>1 DEF Publish, Frame
<1>6. flagging' \subseteq SubIds
    BY <1>1 DEF Publish
<1> QED
    BY <1>1, <1>3, <1>4, <1>5, <1>6 DEF PublishFor, Publish, Frame

LEMMA PumpStepType ==
    ASSUME TypeOK, NEW i \in SubIds, PumpStep(i)
    PROVE  TypeOK'
<1> USE DEF TypeOK, nonPumpVars, callerVars
<1>0. ASSUME NEW place \in PumpPlaces, GoesTo(i, place)
      PROVE  pump' \in [SubIds -> [pc : PumpPlaces, hand : Frame, snap : Frame]]
    BY <1>0 DEF GoesTo
<1>1. CASE Receive(i) /\ UNCHANGED callerVars
  <2>1. buf[i] # << >> /\ buf[i] \in Seq(Frame)
      BY <1>1 DEF Receive
  <2>2. Head(buf[i]) \in Frame /\ Tail(buf[i]) \in Seq(Frame) /\ Len(Tail(buf[i])) = Len(buf[i]) - 1
      BY <2>1
  <2>3. buf' = [buf EXCEPT ![i] = Tail(buf[i])]
      BY <1>1 DEF Receive
  <2>4. ASSUME NEW j \in SubIds PROVE Len(buf'[j]) <= BufferSize
    <3>1. CASE j = i
      <4>1. Len(buf[i]) \in Nat /\ Len(buf[i]) <= BufferSize /\ BufferSize \in Nat
          BY <2>1, BufferSizeAssumption
      <4>2. buf'[j] = Tail(buf[i])
          BY <2>3, <3>1
      <4> QED
          BY <2>2, <4>1, <4>2
    <3>2. CASE j # i
        BY <2>3, <3>2
    <3> QED
        BY <3>1, <3>2
  <2>5. pump' \in [SubIds -> [pc : PumpPlaces, hand : Frame, snap : Frame]]
    <3>1. pump' = [pump EXCEPT ![i] = [@ EXCEPT !.pc = "check", !.hand = Head(buf[i])]]
        BY <1>1 DEF Receive
    <3>2. pump[i] \in [pc : PumpPlaces, hand : Frame, snap : Frame] /\ "check" \in PumpPlaces
        BY DEF PumpPlaces
    <3>3. [pump[i] EXCEPT !.pc = "check", !.hand = Head(buf[i])]
              \in [pc : PumpPlaces, hand : Frame, snap : Frame]
        BY <2>2, <3>2
    <3> QED
        BY <3>1, <3>3
  <2>6. buf' \in [SubIds -> Seq(Frame)]
      BY <2>2, <2>3
  <2> QED
      BY <1>1, <2>4, <2>5, <2>6 DEF Receive
<1>2. CASE CheckOverflow(i) /\ UNCHANGED callerVars
  <2>1. pump' \in [SubIds -> [pc : PumpPlaces, hand : Frame, snap : Frame]]
      BY <1>0, <1>2 DEF CheckOverflow, PumpPlaces
  <2>2. Unflagged(i) \subseteq Nat
      BY DEF Unflagged
  <2>3. missed' \in [SubIds -> SUBSET Nat]
      BY <1>2, <2>2 DEF CheckOverflow
  <2> QED
      BY <1>2, <2>1, <2>3 DEF CheckOverflow
<1>3. CASE (Stop(i) \/ Announce(i)) /\ UNCHANGED callerVars
  <2>1. pump' \in [SubIds -> [pc : PumpPlaces, hand : Frame, snap : Frame]]
      BY <1>0, <1>3 DEF Stop, Announce, PumpPlaces
  <2> QED
      BY <1>3, <2>1 DEF Stop, Announce
<1>4. CASE Resync(i, Current(i)) /\ UNCHANGED callerVars
  <2>1. /\ sub[i].bound \in SessionIds \cup {None} /\ published \in Nat
        /\ sub[i].bound \in SessionIds => latest[sub[i].bound] \in Nat
      BY DEF SubRecord
  <2>2. Current(i) \in Frame
      BY <2>1 DEF Current, Frame
  <2>3. pump' \in [SubIds -> [pc : PumpPlaces, hand : Frame, snap : Frame]]
    <3>1. pump' = [pump EXCEPT ![i] = [@ EXCEPT !.pc = "push", !.snap = Current(i)]]
        BY <1>4 DEF Resync
    <3>2. pump[i] \in [pc : PumpPlaces, hand : Frame, snap : Frame] /\ "push" \in PumpPlaces
        BY DEF PumpPlaces
    <3>3. [pump[i] EXCEPT !.pc = "push", !.snap = Current(i)]
              \in [pc : PumpPlaces, hand : Frame, snap : Frame]
        BY <2>2, <3>2
    <3> QED
        BY <3>1, <3>3
  <2> QED
      BY <1>4, <2>3 DEF Resync
<1>5. CASE Push(i) /\ Tell(i, pump[i].snap) /\ UNCHANGED <<conn, doomed, latest>>
  <2>1. view' \in [SubIds -> Nat]
      BY <1>5 DEF Tell, Frame
  <2>2. pump' \in [SubIds -> [pc : PumpPlaces, hand : Frame, snap : Frame]]
      BY <1>0, <1>5 DEF Push, PumpPlaces
  <2> QED
      BY <1>5, <2>1, <2>2 DEF Push
<1>6. CASE Write(i) /\ Tell(i, pump[i].hand) /\ UNCHANGED <<conn, doomed, latest>>
  <2>1. view' \in [SubIds -> Nat]
      BY <1>6 DEF Tell, Frame
  <2>2. NoFrame \in Frame
      BY DEF NoFrame, Frame
  <2>3. PICK place \in PumpPlaces :
            pump' = [pump EXCEPT ![i] = [@ EXCEPT !.pc = place, !.hand = NoFrame, !.snap = NoFrame]]
      BY <1>6 DEF Write, PumpPlaces
  <2>4. [pump[i] EXCEPT !.pc = place, !.hand = NoFrame, !.snap = NoFrame]
            \in [pc : PumpPlaces, hand : Frame, snap : Frame]
    <3>1. pump[i] \in [pc : PumpPlaces, hand : Frame, snap : Frame]
        OBVIOUS
    <3> QED
        BY <2>2, <3>1
  <2>5. pump' \in [SubIds -> [pc : PumpPlaces, hand : Frame, snap : Frame]]
      BY <2>3, <2>4
  <2> QED
      BY <1>6, <2>1, <2>5 DEF Write
<1> QED
    BY <1>1, <1>2, <1>3, <1>4, <1>5, <1>6 DEF PumpStep

LEMMA NextType == TypeOK /\ [Next]_vars => TypeOK'
<1> SUFFICES ASSUME TypeOK, [Next]_vars PROVE TypeOK'
    OBVIOUS
<1>1. CASE UNCHANGED vars
    BY <1>1 DEF vars, busVars, TypeOK
<1>2. CASE Next
  <2>1. CASE Caller
      BY <2>1, CallerType
  <2>2. ASSUME NEW i \in SubIds, PumpStep(i) PROVE TypeOK'
      BY <2>2, PumpStepType
  <2>3. ASSUME NEW s \in SessionIds, PublishFor(s) PROVE TypeOK'
      BY <2>3, PublishType
  <2>4. CASE FlagDrop
      BY <2>4 DEF FlagDrop, RaiseFlag, callerVars, TypeOK
  <2> QED
      BY <1>2, <2>1, <2>2, <2>3, <2>4 DEF Next, Caller
<1> QED
    BY <1>1, <1>2

-----------------------------------------------------------------------------
(* How the callers use the bus *)

\* What a closing connection has yet to remove was started.
DoomedWasStarted == \A k \in Sinks : doomed[k] \cap Unused = {}

SInv == TypeOK /\ BusInv /\ DoomedWasStarted

\* Every step of the system is a step of the bus, or leaves it alone.
LEMMA StepIsBusStep == SInv /\ [Next]_vars => [BusNext]_busVars
<1> SUFFICES ASSUME SInv, [Next]_vars PROVE [BusNext]_busVars
    OBVIOUS
<1>0. registered \cap Unused = {} /\ registered \subseteq SubIds
    BY DEF SInv, BusInv, BusTyped, Accounted, Unused
<1>1. ASSUME NEW k \in Sinks, Join(k) PROVE Calls
    BY <1>1 DEF Join, Calls
<1>2. ASSUME NEW k \in Sinks, Fail(k) \/ BeginClose(k) PROVE Calls
    BY <1>2 DEF Fail, BeginClose, Calls
<1>3. ASSUME NEW k \in Sinks, RemoveDoomed(k) PROVE Calls
  <2>1. PICK i \in doomed[k] : Unsubscribe(i)
      BY <1>3 DEF RemoveDoomed
  <2>2. i \in SubIds \ Unused
      BY <2>1 DEF SInv, TypeOK, DoomedWasStarted
  <2> QED
      BY <2>1, <2>2 DEF Calls
<1>4. ASSUME NEW k \in Sinks, EndClose(k) PROVE UNCHANGED busVars
    BY <1>4 DEF EndClose
<1>5. ASSUME NEW i \in SubIds, Bind(i) PROVE Calls
  <2>1. PICK id \in SessionIds : Rebind(i, id)
      BY <1>5 DEF Bind
  <2> QED
      BY <1>5, <2>1 DEF Bind, Calls
<1>6. ASSUME NEW i \in SubIds, Leave(i) PROVE Calls
    BY <1>0, <1>6 DEF Leave, Calls
<1>7. ASSUME NEW i \in SubIds, PumpStep(i)
      PROVE  Receive(i) \/ CheckOverflow(i) \/ Turns(i)
    BY <1>7 DEF PumpStep, Turns
<1>8. ASSUME NEW s \in SessionIds, PublishFor(s) PROVE \E f \in AnyFrame : Publish(f)
  <2>1. published + 1 \in Nat
      BY DEF SInv, TypeOK
  <2>2. Announcement(s) \in AnyFrame
      BY <2>1 DEF Announcement, AnyFrame
  <2> QED
      BY <1>8, <2>2 DEF PublishFor
<1>9. CASE UNCHANGED vars
    BY <1>9 DEF vars
<1>10. CASE FlagDrop
    BY <1>10 DEF FlagDrop, BusNext
<1> QED
    BY <1>1, <1>2, <1>3, <1>4, <1>5, <1>6, <1>7, <1>8, <1>9, <1>10 DEF Next, CloseStep, BusNext

LEMMA DoomedStep == SInv /\ [Next]_vars => DoomedWasStarted'
<1> SUFFICES ASSUME SInv, [Next]_vars, NEW k \in Sinks PROVE doomed'[k] \cap Unused' = {}
    BY DEF DoomedWasStarted
<1>1. Unused' \subseteq Unused /\ registered \cap Unused = {}
    BY StepIsBusStep, StartedStays DEF SInv
<1>2. doomed[k] \cap Unused = {} /\ doomed \in [Sinks -> SUBSET SubIds]
    BY DEF SInv, TypeOK, DoomedWasStarted
<1>3. CASE doomed'[k] \subseteq doomed[k] \cup registered
    BY <1>1, <1>2, <1>3
<1>4. ASSUME NEW j \in Sinks, Join(j) \/ Fail(j) \/ BeginClose(j) \/ CloseStep(j)
      PROVE  doomed'[k] \subseteq doomed[k] \cup registered
    BY <1>2, <1>4 DEF Join, Fail, BeginClose, CloseStep, RemoveDoomed, EndClose, Writing, callerVars
<1>5. ASSUME NEW i \in SubIds, Bind(i) \/ Leave(i) \/ PumpStep(i) PROVE doomed' = doomed
    BY <1>5 DEF Bind, Leave, PumpStep, callerVars
<1>6. ASSUME NEW s \in SessionIds, PublishFor(s) PROVE doomed' = doomed
    BY <1>6 DEF PublishFor
<1>7. CASE UNCHANGED vars
    BY <1>2, <1>3, <1>7 DEF vars
<1>8. CASE FlagDrop
    BY <1>2, <1>3, <1>8 DEF FlagDrop, callerVars
<1> QED
    BY <1>2, <1>3, <1>4, <1>5, <1>6, <1>7, <1>8 DEF Next

LEMMA SystemInvariant == Spec => []SInv
<1>1. Init => SInv
    BY InitType, BusInvInit DEF Init, SInv, DoomedWasStarted
<1>2. SInv /\ [Next]_vars => SInv'
    BY NextType, StepIsBusStep, BusInvStep, DoomedStep DEF SInv
<1> QED
    BY <1>1, <1>2, PTL DEF Spec

-----------------------------------------------------------------------------
(* The theorems *)

\* Every reachable state of the closed bus has the types the code gives its
\* parts, and no buffer outgrows its channel.
THEOREM TypeCorrect == Spec => []TypeOK
<1>1. SInv => TypeOK
    BY DEF SInv
<1> QED
    BY <1>1, SystemInvariant, PTL

\* Connections that subscribe, leave, fail and close, rebinding and publishing
\* call the bus as BusProofs assumes: what it proves holds here.
THEOREM SystemIsBus == Spec => BusSpec
<1>1. Init => BusInit
    BY DEF Init
<1> QED
    BY <1>1, SystemInvariant, StepIsBusStep, PTL DEF Spec, BusSpec

\* So here, too, no drop is without a flag or announced after a later frame,
\* frames come in order, nothing comes after a subscription's end, and a bound
\* subscriber hears its session.
THEOREM SystemKeepsBusPromises ==
    Spec => [](/\ DropsLeaveATrace /\ DropAnnouncedBeforeLaterFrames
               /\ DeliveredInOrder /\ NothingAfterRemoval /\ BoundHearsItsSession)
BY SystemIsBus, NoSilentDrop, NoticeComesFirst, OrderIsKept, RemovedHearsNothingNew,
   BoundHearsOnlyItsSession, PTL
=============================================================================
