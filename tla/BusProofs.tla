----------------------------- MODULE BusProofs ------------------------------
(***************************************************************************)
(* What a subscriber is written, for callers that do as they like with the *)
(* bus, any number of subscriptions, connections and publications and      *)
(* buffers of any size: nothing is dropped in silence or announced late,   *)
(* nothing comes after the unsubscription, and a bound subscriber hears    *)
(* its session. A system in which the bus is called as here, whatever else *)
(* it does, has these properties.                                          *)
(***************************************************************************)
EXTENDS Bus, TLAPS

-----------------------------------------------------------------------------
(* The bus with any callers *)

\* Frames as callers publish them, with the state they announce or without.
AnyFrame ==
    [n : Nat, session : SessionIds \cup {None}]
    \cup [n : Nat, session : SessionIds \cup {None}, state : States]

\* Subscriptions come and go, are bound, and lose their connections, but only
\* what Subscribe has returned is rebound or removed. The frames stay where
\* they are.
Calls ==
    \/ \E i \in Unused, mode \in Modes, bound \in SessionIds \cup {None},
          pane \in PaneIds \cup {None}, k \in Sinks : Subscribe(i, mode, bound, pane, k)
    \/ \E i \in SubIds \ Unused : \/ Unsubscribe(i)
                                 \/ \E id \in SessionIds \cup {None} : Rebind(i, id)
    \/ \E k \in Sinks : Break(k)

\* The pump's steps that leave the buffer and the flag alone; a snapshot may
\* say anything.
Turns(i) == Stop(i) \/ Announce(i) \/ (\E snap : Resync(i, snap)) \/ Push(i) \/ Write(i)

BusNext ==
    \/ Calls
    \/ \E frame \in AnyFrame : Publish(frame)
    \/ \E i \in SubIds : RaiseFlag(i) \/ Receive(i) \/ CheckOverflow(i) \/ Turns(i)

BusSpec == BusInit /\ [][BusNext]_busVars

-----------------------------------------------------------------------------
(* The invariant *)

\* The bus's variables have the shapes the code gives them; no buffer outgrows
\* its channel.
BusTyped ==
    /\ registered \subseteq SubIds
    /\ sub       \in [SubIds -> SubRecord]
    /\ buf       \in [SubIds -> Seq(AnyFrame)]
    /\ \A i \in SubIds : Len(buf[i]) <= BufferSize
    /\ overflow  \in [SubIds -> BOOLEAN]
    /\ flagging  \subseteq SubIds
    /\ done      \in [SubIds -> BOOLEAN]
    /\ DOMAIN pump = SubIds
    /\ \A i \in SubIds : /\ DOMAIN pump[i] = {"pc", "hand", "snap"}
                         /\ pump[i].pc \in PumpPlaces /\ pump[i].hand \in AnyFrame
    /\ published \in Nat
    /\ missed    \in [SubIds -> SUBSET Nat]
    /\ boundAt   \in [SubIds -> Nat]
    /\ removedAt \in [SubIds -> Nat]

Places(i) == 1..Len(buf[i])

\* A buffer holds publications in order, all later than the one in the pump's
\* hand, none later than the last.
InOrder ==
    \A i \in SubIds :
        /\ \A x, y \in Places(i) : x < y => buf[i][x].n < buf[i][y].n
        /\ \A x \in Places(i) : pump[i].hand.n < buf[i][x].n
AllPublished ==
    \A i \in SubIds :
        /\ pump[i].hand.n <= published
        /\ \A x \in Places(i) : buf[i][x].n <= published

\* A drop whose flag is still to come is the last publication, and all that the
\* Sub holds is older; without a flag no other drop is uncovered.
FlagsFollowDrops ==
    \A i \in SubIds :
        /\ overflow[i] => missed[i] # {}
        /\ ~overflow[i] => missed[i] = Unflagged(i)
        /\ Unflagged(i) \subseteq missed[i]
FlaggedIsLater ==
    \A i \in flagging :
        /\ pump[i].hand.n < published
        /\ \A x \in Places(i) : buf[i][x].n < published

\* From the check on, what was dropped and not announced is later than the
\* frame in the pump's hand.
MissedIsLater ==
    \A i \in SubIds :
        pump[i].pc \in {"announce", "resync", "push", "write"}
            => \A d \in missed[i] : d > pump[i].hand.n

\* A Sub is registered from its start until it is done.
Accounted ==
    /\ \A i \in SubIds : i \in registered <=> pump[i].pc # "off" /\ ~done[i]
    /\ \A i \in SubIds : done[i] => pump[i].pc # "off"

\* A removed Sub holds nothing published later.
RemovedHoldsOld ==
    \A i \in SubIds :
        done[i] => /\ pump[i].hand.n <= removedAt[i]
                   /\ \A x \in Places(i) : buf[i][x].n <= removedAt[i]

\* What a bound Sub may hold.
Allowed(i, frame) == frame.session = sub[i].bound \/ frame.n <= boundAt[i]

BoundHoldsItsSession ==
    \A i \in SubIds :
        (sub[i].mode # "any" /\ sub[i].bound # None)
            => /\ Allowed(i, pump[i].hand)
               /\ \A x \in Places(i) : Allowed(i, buf[i][x])

BusInv ==
    /\ BusTyped
    /\ InOrder
    /\ AllPublished
    /\ FlagsFollowDrops
    /\ FlaggedIsLater
    /\ MissedIsLater
    /\ Accounted
    /\ RemovedHoldsOld
    /\ BoundHoldsItsSession

-----------------------------------------------------------------------------
(* Type correctness *)

\* What a frame is made of.
LEMMA FrameParts ==
    ASSUME NEW f \in AnyFrame
    PROVE  f.n \in Nat /\ f.session \in SessionIds \cup {None}
BY DEF AnyFrame

LEMMA NoFrameIsFrame == NoFrame \in AnyFrame /\ NoFrame.n = 0
BY DEF NoFrame, AnyFrame

LEMMA BusTypeInit == BusInit => BusTyped
<1> SUFFICES ASSUME BusInit PROVE BusTyped
    OBVIOUS
<1> USE DEF BusInit
<1>1. sub \in [SubIds -> SubRecord]
    BY DEF SubRecord, Modes
<1>2. \A i \in SubIds : buf[i] = << >> /\ Len(buf[i]) <= BufferSize
    BY BufferSizeAssumption
<1>3. buf \in [SubIds -> Seq(AnyFrame)]
    OBVIOUS
<1>4. /\ DOMAIN pump = SubIds
      /\ \A i \in SubIds : /\ DOMAIN pump[i] = {"pc", "hand", "snap"}
                           /\ pump[i].pc \in PumpPlaces /\ pump[i].hand \in AnyFrame
    BY NoFrameIsFrame DEF PumpPlaces
<1> QED
    BY <1>1, <1>2, <1>3, <1>4 DEF BusTyped

LEMMA CallTyped == BusTyped /\ Calls => BusTyped'
<1> SUFFICES ASSUME BusTyped, Calls PROVE BusTyped'
    OBVIOUS
<1>1. ASSUME NEW i \in Unused, NEW mode \in Modes, NEW bound \in SessionIds \cup {None},
             NEW pane \in PaneIds \cup {None}, NEW k \in Sinks, Subscribe(i, mode, bound, pane, k)
      PROVE  BusTyped'
  <2>1. i \in SubIds
      BY DEF Unused
  <2>2. sub' \in [SubIds -> SubRecord]
      BY <1>1, <2>1 DEF Subscribe, BusTyped, SubRecord
  <2>3. pump' = [pump EXCEPT ![i].pc = "select"]
      BY <1>1 DEF Subscribe
  <2>4. /\ DOMAIN pump' = SubIds
        /\ \A j \in SubIds : /\ DOMAIN pump'[j] = {"pc", "hand", "snap"}
                             /\ pump'[j].pc \in PumpPlaces /\ pump'[j].hand \in AnyFrame
      BY <2>1, <2>3 DEF BusTyped, PumpPlaces
  <2>5. boundAt' \in [SubIds -> Nat]
      BY <1>1 DEF Subscribe, BusTyped
  <2> QED
      BY <1>1, <2>1, <2>2, <2>4, <2>5 DEF Subscribe, BusTyped
<1>2. ASSUME NEW k \in Sinks, Break(k) PROVE BusTyped'
    BY <1>2 DEF Break, BusTyped
<1>3. ASSUME NEW i \in SubIds, Unsubscribe(i) PROVE BusTyped'
    BY <1>3 DEF Unsubscribe, BusTyped
<1>4. ASSUME NEW i \in SubIds, NEW id \in SessionIds \cup {None}, Rebind(i, id) PROVE BusTyped'
  <2>1. [sub[i] EXCEPT !.bound = id] \in SubRecord
    <3>1. sub[i] \in SubRecord
        BY DEF BusTyped
    <3> QED
        BY <3>1 DEF SubRecord
  <2>2. sub' \in [SubIds -> SubRecord]
      BY <1>4, <2>1 DEF Rebind, BusTyped
  <2>3. boundAt' \in [SubIds -> Nat]
      BY <1>4 DEF Rebind, BusTyped
  <2> QED
      BY <1>4, <2>2, <2>3 DEF Rebind, BusTyped
<1> QED
    BY <1>1, <1>2, <1>3, <1>4 DEF Calls

LEMMA PublishTyped == ASSUME BusTyped, NEW f \in AnyFrame, Publish(f) PROVE BusTyped'
<1> USE BufferSizeAssumption DEF BusTyped
<1>1. f.n \in Nat
    BY FrameParts
<1>2. \A i \in SubIds : \/ buf'[i] = buf[i]
                        \/ buf'[i] = Append(buf[i], f) /\ Len(buf[i]) # BufferSize
    BY DEF Publish
<1>3. buf' \in [SubIds -> Seq(AnyFrame)]
    BY DEF Publish
<1>4. ASSUME NEW i \in SubIds PROVE Len(buf'[i]) <= BufferSize
  <2>1. Len(buf[i]) \in Nat /\ Len(buf[i]) <= BufferSize /\ buf[i] \in Seq(AnyFrame)
      OBVIOUS
  <2>2. CASE buf'[i] = Append(buf[i], f) /\ Len(buf[i]) # BufferSize
    <3>1. Len(buf'[i]) = Len(buf[i]) + 1
        BY <2>1, <2>2
    <3> QED
        BY <2>1, <2>2, <3>1
  <2> QED
      BY <1>2, <2>1, <2>2
<1>5. missed' \in [SubIds -> SUBSET Nat]
    BY <1>1 DEF Publish
<1>6. flagging' \subseteq SubIds
    BY DEF Publish
<1> QED
    BY <1>1, <1>3, <1>4, <1>5, <1>6 DEF Publish

LEMMA RaiseFlagTyped == ASSUME BusTyped, NEW i \in SubIds, RaiseFlag(i) PROVE BusTyped'
BY DEF RaiseFlag, BusTyped

\* A pump's step, where its place and its hand are of their types.
LEMMA PumpStepTyped ==
    ASSUME BusTyped, NEW i \in SubIds, Receive(i) \/ CheckOverflow(i) \/ Turns(i)
    PROVE  BusTyped'
<1> USE DEF BusTyped, nonPumpVars
<1> DEFINE HandsTyped ==
        /\ DOMAIN pump' = SubIds
        /\ \A j \in SubIds : /\ DOMAIN pump'[j] = {"pc", "hand", "snap"}
                             /\ pump'[j].pc \in PumpPlaces /\ pump'[j].hand \in AnyFrame
<1>0. ASSUME NEW place \in PumpPlaces, GoesTo(i, place) PROVE HandsTyped
    BY <1>0 DEF GoesTo
<1>1. CASE Receive(i)
  <2>1. buf[i] # << >> /\ buf[i] \in Seq(AnyFrame)
      BY <1>1 DEF Receive
  <2>2. Head(buf[i]) \in AnyFrame /\ Tail(buf[i]) \in Seq(AnyFrame) /\ Len(Tail(buf[i])) = Len(buf[i]) - 1
      BY <2>1
  <2>3. buf' = [buf EXCEPT ![i] = Tail(buf[i])]
      BY <1>1 DEF Receive
  <2>4. ASSUME NEW j \in SubIds PROVE Len(buf'[j]) <= BufferSize
    <3>1. CASE j = i
      <4>1. Len(buf[i]) \in Nat /\ Len(buf[i]) <= BufferSize /\ BufferSize \in Nat
          BY <2>1, BufferSizeAssumption
      <4>2. buf'[j] = Tail(buf[i])
          BY <2>3, <3>1
      <4> QED
          BY <2>2, <4>1, <4>2
    <3>2. CASE j # i
        BY <2>3, <3>2
    <3> QED
        BY <3>1, <3>2
  <2>5. HandsTyped
    <3>1. pump' = [pump EXCEPT ![i].pc = "check", ![i].hand = Head(buf[i])]
        BY <1>1 DEF Receive
    <3> QED
        BY <2>2, <3>1 DEF PumpPlaces
  <2>6. buf' \in [SubIds -> Seq(AnyFrame)]
      BY <2>2, <2>3
  <2> QED
      BY <1>1, <2>4, <2>5, <2>6 DEF Receive
<1>2. CASE CheckOverflow(i)
  <2>1. HandsTyped
      BY <1>0, <1>2 DEF CheckOverflow, PumpPlaces
  <2>2. Unflagged(i) \subseteq Nat
      BY DEF Unflagged
  <2>3. missed' \in [SubIds -> SUBSET Nat]
      BY <1>2, <2>2 DEF CheckOverflow
  <2> QED
      BY <1>2, <2>1, <2>3 DEF CheckOverflow
<1>3. CASE Stop(i) \/ Announce(i) \/ Push(i)
  <2>1. HandsTyped
      BY <1>0, <1>3 DEF Stop, Announce, Push, PumpPlaces
  <2> QED
      BY <1>3, <2>1 DEF Stop, Announce, Push
<1>4. ASSUME NEW snap, Resync(i, snap) PROVE BusTyped'
  <2>1. HandsTyped
    <3>1. pump' = [pump EXCEPT ![i].pc = "push", ![i].snap = snap]
        BY <1>4 DEF Resync
    <3> QED
        BY <3>1 DEF PumpPlaces
  <2> QED
      BY <1>4, <2>1 DEF Resync
<1>5. CASE Write(i)
  <2>1. PICK place \in {"select", "exited"} :
            pump' = [pump EXCEPT ![i].pc = place, ![i].hand = NoFrame, ![i].snap = NoFrame]
      BY <1>5 DEF Write
  <2>2. HandsTyped
      BY <2>1, NoFrameIsFrame DEF PumpPlaces
  <2> QED
      BY <1>5, <2>2 DEF Write
<1> QED
    BY <1>1, <1>2, <1>3, <1>4, <1>5 DEF Turns

LEMMA BusTypeStep == BusTyped /\ [BusNext]_busVars => BusTyped'
<1>1. BusTyped /\ UNCHANGED busVars => BusTyped'
    BY DEF busVars, BusTyped
<1> QED
    BY <1>1, CallTyped, PublishTyped, RaiseFlagTyped, PumpStepTyped DEF BusNext

-----------------------------------------------------------------------------
(* What each kind of step does to a Sub *)

LEMMA CallsEffect ==
    ASSUME BusTyped, Accounted, Calls
    PROVE  /\ UNCHANGED <<buf, overflow, flagging, missed, published>>
           /\ \A i \in SubIds :
                 /\ pump'[i].hand = pump[i].hand
                 /\ pump'[i].pc = pump[i].pc \/ (pump[i].pc = "off" /\ pump'[i].pc = "select")
                 /\ done[i] => removedAt'[i] = removedAt[i]
                 /\ ~done[i] /\ done'[i] => removedAt'[i] = published
                 /\ \/ sub'[i] = sub[i] /\ boundAt'[i] = boundAt[i]
                    \/ boundAt'[i] = published
<1> USE DEF BusTyped, Accounted
<1>1. CASE \E j \in Unused, mode \in Modes, bound \in SessionIds \cup {None},
              pane \in PaneIds \cup {None}, k \in Sinks : Subscribe(j, mode, bound, pane, k)
  <2>1. PICK j \in Unused, mode \in Modes, bound \in SessionIds \cup {None},
             pane \in PaneIds \cup {None}, k \in Sinks : Subscribe(j, mode, bound, pane, k)
      BY <1>1
  <2>2. j \in SubIds /\ pump[j].pc = "off"
      BY DEF Unused
  <2>3. \A i \in SubIds : /\ pump'[i].hand = pump[i].hand
                          /\ pump'[i].pc = IF i = j THEN "select" ELSE pump[i].pc
      BY <2>1, <2>2 DEF Subscribe
  <2>4. \A i \in SubIds : \/ sub'[i] = sub[i] /\ boundAt'[i] = boundAt[i]
                         \/ boundAt'[i] = published
      BY <2>1, <2>2 DEF Subscribe
  <2> QED
      BY <2>1, <2>2, <2>3, <2>4 DEF Subscribe
<1>2. CASE \E k \in Sinks : Break(k)
    BY <1>2 DEF Break
<1>3. ASSUME NEW j \in SubIds \ Unused, Unsubscribe(j)
      PROVE  /\ UNCHANGED <<buf, overflow, flagging, missed, published, sub, boundAt, pump>>
             /\ \A i \in SubIds : /\ done[i] => removedAt'[i] = removedAt[i]
                                  /\ (~done[i] /\ done'[i]) => removedAt'[i] = published
  <2>1. pump[j].pc # "off"
      BY DEF Unused
  <2> QED
      BY <1>3, <2>1 DEF Unsubscribe
<1>4. CASE \E i \in SubIds, id \in SessionIds \cup {None} : Rebind(i, id)
    BY <1>4 DEF Rebind
<1> QED
    BY <1>1, <1>2, <1>3, <1>4 DEF Calls

LEMMA PublishEffect ==
    ASSUME BusTyped, Accounted, NEW f \in AnyFrame, Publish(f), NEW i \in SubIds
    PROVE  /\ f.n = published + 1 /\ published' = published + 1 /\ flagging = {}
           /\ UNCHANGED <<registered, sub, overflow, done, pump, boundAt, removedAt>>
           /\ \/ /\ buf'[i] = buf[i] /\ missed'[i] = missed[i]
                 /\ i \notin flagging'
              \/ /\ buf'[i] = buf[i] /\ missed'[i] = missed[i] \cup {published + 1}
                 /\ i \in flagging'
              \/ /\ buf'[i] = Append(buf[i], f) /\ missed'[i] = missed[i]
                 /\ i \notin flagging'
                 /\ ~done[i] /\ Matches(i, f.session)
<1> DEFINE reached == {j \in registered : Matches(j, f.session)}
           full    == {j \in reached : Len(buf[j]) = BufferSize}
<1>1. /\ f.n = published + 1 /\ published' = published + 1 /\ flagging = {}
      /\ UNCHANGED <<registered, sub, overflow, done, pump, boundAt, removedAt>>
    BY DEF Publish, BusFree
<1>2. CASE i \in full
  <2>1. buf'[i] = buf[i] /\ missed'[i] = missed[i] \cup {published + 1} /\ i \in flagging'
      BY <1>1, <1>2 DEF Publish, BusTyped
  <2> QED
      BY <1>1, <2>1
<1>3. CASE i \notin full
  <2>1. missed'[i] = missed[i] /\ i \notin flagging'
      BY <1>3 DEF Publish, BusTyped
  <2>2. buf'[i] = IF i \in reached THEN Append(buf[i], f) ELSE buf[i]
      BY <1>3 DEF Publish, BusTyped
  <2>3. i \in reached => ~done[i] /\ Matches(i, f.session)
      BY DEF Accounted
  <2> QED
      BY <1>1, <2>1, <2>2, <2>3
<1> QED
    BY <1>2, <1>3

LEMMA RaiseFlagEffect ==
    ASSUME BusTyped, NEW i \in SubIds, RaiseFlag(i)
    PROVE  /\ UNCHANGED <<registered, sub, buf, done, pump, published, missed, boundAt, removedAt>>
           /\ i \in flagging /\ flagging' = flagging \ {i} /\ overflow'[i]
           /\ \A j \in SubIds : j # i => overflow'[j] = overflow[j]
BY DEF RaiseFlag, BusTyped

LEMMA ReceiveEffect ==
    ASSUME BusTyped, NEW i \in SubIds, Receive(i)
    PROVE  /\ UNCHANGED <<registered, sub, done, published, boundAt, removedAt,
                          overflow, flagging, missed>>
           /\ 1 \in Places(i)
           /\ pump[i].pc = "select" /\ pump'[i].pc = "check" /\ pump'[i].hand = buf[i][1]
           /\ \A x \in 1..Len(buf'[i]) : x + 1 \in Places(i) /\ buf'[i][x] = buf[i][x + 1]
           /\ \A j \in SubIds : j # i => pump'[j] = pump[j] /\ buf'[j] = buf[j]
<1>1. buf[i] # << >> /\ buf[i] \in Seq(AnyFrame) /\ buf'[i] = Tail(buf[i])
    BY DEF Receive, BusTyped
<1>2. pump[i].pc = "select" /\ pump'[i].pc = "check" /\ pump'[i].hand = Head(buf[i])
    BY DEF Receive, BusTyped, At
<1>3. Len(buf[i]) \in Nat /\ Len(buf[i]) # 0 /\ Len(buf'[i]) = Len(buf[i]) - 1
    BY <1>1
<1>4. \A x \in 1..Len(buf'[i]) : buf'[i][x] = buf[i][x + 1]
    BY <1>1, <1>3
<1>5. 1 \in Places(i) /\ \A x \in 1..Len(buf'[i]) : x + 1 \in Places(i)
    BY <1>3 DEF Places
<1>6. /\ UNCHANGED <<registered, sub, done, published, boundAt, removedAt,
                     overflow, flagging, missed>>
      /\ \A j \in SubIds : j # i => pump'[j] = pump[j] /\ buf'[j] = buf[j]
    BY DEF Receive, BusTyped, nonPumpVars
<1>7. Head(buf[i]) = buf[i][1]
    BY <1>1
<1> QED
    BY <1>2, <1>4, <1>5, <1>6, <1>7

LEMMA CheckEffect ==
    ASSUME BusTyped, FlagsFollowDrops, NEW i \in SubIds, CheckOverflow(i)
    PROVE  /\ UNCHANGED <<registered, sub, buf, flagging, done, published, boundAt, removedAt>>
           /\ pump[i].pc = "check" /\ pump'[i].pc \in {"announce", "write"}
           /\ missed'[i] = Unflagged(i) /\ ~overflow'[i]
           /\ \A j \in SubIds : pump'[j].hand = pump[j].hand
           /\ \A j \in SubIds : j # i => /\ pump'[j].pc = pump[j].pc
                                       /\ missed'[j] = missed[j] /\ overflow'[j] = overflow[j]
<1>1. missed'[i] = Unflagged(i) /\ ~overflow'[i]
    BY DEF CheckOverflow, BusTyped, FlagsFollowDrops
<1>2. pump[i].pc = "check" /\ pump'[i].pc \in {"announce", "write"}
    BY DEF CheckOverflow, BusTyped, At, GoesTo
<1> QED
    BY <1>1, <1>2 DEF CheckOverflow, GoesTo, BusTyped, nonPumpVars

LEMMA TurnsEffect ==
    ASSUME BusTyped, NEW i \in SubIds, Turns(i)
    PROVE  /\ UNCHANGED <<registered, sub, buf, done, published, boundAt, removedAt,
                          overflow, flagging, missed>>
           /\ pump[i].pc \notin {"off", "check"} /\ pump'[i].pc # "off"
           /\ pump'[i].hand = pump[i].hand \/ pump'[i].hand = NoFrame
           /\ pump'[i].pc \in {"announce", "resync", "push", "write"}
                 => /\ pump[i].pc \in {"announce", "resync", "push", "write"}
                    /\ pump'[i].hand = pump[i].hand
           /\ \A j \in SubIds : j # i => pump'[j] = pump[j]
<1> USE DEF BusTyped, At, GoesTo, nonPumpVars
<1>2. CASE Stop(i)
    BY <1>2 DEF Stop
<1>3. CASE Announce(i)
    BY <1>3 DEF Announce
<1>4. ASSUME NEW snap, Resync(i, snap)
      PROVE  /\ UNCHANGED <<registered, sub, buf, done, published, boundAt, removedAt,
                            overflow, flagging, missed>>
             /\ pump[i].pc = "resync" /\ pump'[i].pc = "push" /\ pump'[i].hand = pump[i].hand
             /\ \A j \in SubIds : j # i => pump'[j] = pump[j]
    BY <1>4 DEF Resync
<1>5. CASE Push(i)
    BY <1>5 DEF Push
<1>6. CASE Write(i)
    BY <1>6 DEF Write
<1> QED
    BY <1>2, <1>3, <1>4, <1>5, <1>6 DEF Turns

\* In terms of hands: kept, or emptied.
LEMMA TurnsHands ==
    ASSUME BusTyped, NEW i \in SubIds, Turns(i)
    PROVE  /\ UNCHANGED <<sub, buf, flagging, done, published, boundAt, removedAt>>
           /\ \A j \in SubIds : pump'[j].hand = pump[j].hand \/ pump'[j].hand.n = 0
<1>1. /\ UNCHANGED <<sub, buf, flagging, done, published, boundAt, removedAt>>
      /\ pump'[i].hand = pump[i].hand \/ pump'[i].hand = NoFrame
      /\ \A j \in SubIds : j # i => pump'[j] = pump[j]
    BY TurnsEffect
<1> QED
    BY <1>1 DEF NoFrame

\* The ghosts' numbers are natural numbers.
LEMMA Numbers ==
    ASSUME BusTyped, NEW i \in SubIds
    PROVE  /\ published \in Nat /\ removedAt[i] \in Nat /\ boundAt[i] \in Nat
           /\ pump[i].hand.n \in Nat
           /\ Len(buf[i]) \in Nat /\ buf[i] \in Seq(AnyFrame)
           /\ \A x \in Places(i) : buf[i][x].n \in Nat
           /\ missed[i] \subseteq Nat
<1>1. pump[i].hand \in AnyFrame /\ buf[i] \in Seq(AnyFrame) /\ Len(buf[i]) \in Nat
    BY DEF BusTyped
<1>2. \A x \in Places(i) : buf[i][x] \in AnyFrame
    BY <1>1 DEF Places
<1>3. /\ published \in Nat /\ removedAt[i] \in Nat /\ boundAt[i] \in Nat
      /\ missed[i] \subseteq Nat
    BY DEF BusTyped
<1> QED
    BY <1>1, <1>2, <1>3, FrameParts

\* What Append does, in terms of places.
LEMMA Appended ==
    ASSUME BusTyped, NEW i \in SubIds, NEW f \in AnyFrame, f.n = published + 1,
           buf'[i] = Append(buf[i], f)
    PROVE  \A x \in Places(i)' :
               \/ x \in Places(i) /\ buf'[i][x] = buf[i][x]
               \/ /\ \A y \in Places(i) : y < x
                  /\ x = Len(buf'[i])
                  /\ buf'[i][x].n = published + 1 /\ buf'[i][x].session = f.session
<1>1. buf[i] \in Seq(AnyFrame)
    BY DEF BusTyped
<1>2. Len(buf'[i]) = Len(buf[i]) + 1 /\ Len(buf[i]) \in Nat
    BY <1>1
<1>3. \A x \in Places(i) : buf'[i][x] = buf[i][x]
    BY <1>1 DEF Places
<1>4. buf'[i][Len(buf[i]) + 1] = f
    BY <1>1
<1> QED
    BY <1>2, <1>3, <1>4 DEF Places

-----------------------------------------------------------------------------
(* Each part of the invariant is kept *)

LEMMA BusInvInit == BusInit => BusInv
<1> SUFFICES ASSUME BusInit PROVE BusInv
    OBVIOUS
<1>1. BusTyped
    BY BusTypeInit
<1>2. \A i \in SubIds : Places(i) = {} /\ pump[i].hand = NoFrame /\ NoFrame.n = 0
    BY DEF BusInit, Places, NoFrame
<1>3. InOrder /\ AllPublished /\ RemovedHoldsOld
    BY <1>2 DEF BusInit, InOrder, AllPublished, RemovedHoldsOld
<1>4. FlagsFollowDrops /\ FlaggedIsLater /\ MissedIsLater /\ Accounted
    BY DEF BusInit, FlagsFollowDrops, FlaggedIsLater, Unflagged, MissedIsLater, Accounted
<1>5. BoundHoldsItsSession
    BY DEF BusInit, BoundHoldsItsSession
<1> QED
    BY <1>1, <1>3, <1>4, <1>5 DEF BusInv

LEMMA AccountedStep == BusInv /\ [BusNext]_busVars => Accounted'
<1> SUFFICES ASSUME BusInv, [BusNext]_busVars PROVE Accounted'
    OBVIOUS
<1> USE DEF Accounted
<1>0. BusTyped /\ Accounted /\ FlagsFollowDrops
    BY DEF BusInv
<1>1. CASE Calls
  <2>1. ASSUME NEW j \in Unused, NEW mode \in Modes, NEW bound \in SessionIds \cup {None},
               NEW pane \in PaneIds \cup {None}, NEW k \in Sinks,
               Subscribe(j, mode, bound, pane, k)
        PROVE  Accounted'
    <3>1. j \in SubIds /\ pump[j].pc = "off"
        BY DEF Unused
    <3>2. ~done[j]
        BY <1>0, <3>1
    <3>3. \A i \in SubIds : pump'[i].pc = IF i = j THEN "select" ELSE pump[i].pc
        BY <1>0, <2>1, <3>1 DEF Subscribe, BusTyped
    <3>4. registered' = registered \cup {j} /\ done' = done
        BY <2>1 DEF Subscribe
    <3> QED
        BY <1>0, <3>1, <3>2, <3>3, <3>4 DEF BusTyped
  <2>2. ASSUME NEW k \in Sinks, Break(k) PROVE Accounted'
      BY <1>0, <2>2 DEF Break
  <2>3. ASSUME NEW i \in SubIds \ Unused, Unsubscribe(i) PROVE Accounted'
      BY <1>0, <2>3 DEF Unsubscribe, BusTyped, Unused
  <2>4. ASSUME NEW i \in SubIds, NEW id, Rebind(i, id) PROVE Accounted'
      BY <1>0, <2>4 DEF Rebind
  <2> QED
      BY <1>1, <2>1, <2>2, <2>3, <2>4 DEF Calls
<1>2. ASSUME NEW f \in AnyFrame, Publish(f) PROVE Accounted'
    BY <1>0, <1>2 DEF Publish
<1>3. ASSUME NEW i \in SubIds, Receive(i) PROVE Accounted'
  <2>1. /\ \A j \in SubIds : pump'[j].pc # "off" <=> pump[j].pc # "off"
        /\ UNCHANGED <<registered, done>>
      BY <1>0, <1>3, ReceiveEffect
  <2> QED
      BY <1>0, <2>1 DEF BusTyped
<1>4. ASSUME NEW i \in SubIds, CheckOverflow(i) PROVE Accounted'
  <2>1. /\ \A j \in SubIds : pump'[j].pc # "off" <=> pump[j].pc # "off"
        /\ UNCHANGED <<registered, done>>
      BY <1>0, <1>4, CheckEffect
  <2> QED
      BY <1>0, <2>1 DEF BusTyped
<1>5. ASSUME NEW i \in SubIds, Turns(i) PROVE Accounted'
  <2>1. /\ \A j \in SubIds : pump'[j].pc # "off" <=> pump[j].pc # "off"
        /\ UNCHANGED <<registered, done>>
      BY <1>0, <1>5, TurnsEffect
  <2> QED
      BY <1>0, <2>1 DEF BusTyped
<1>6. CASE UNCHANGED busVars
    BY <1>0, <1>6 DEF busVars
<1>7. ASSUME NEW i \in SubIds, RaiseFlag(i) PROVE Accounted'
    BY <1>0, <1>7, RaiseFlagEffect DEF Places
<1> QED
    BY <1>1, <1>2, <1>3, <1>4, <1>5, <1>6, <1>7 DEF BusNext

LEMMA InOrderStep == BusInv /\ [BusNext]_busVars => InOrder'
<1> SUFFICES ASSUME BusInv, [BusNext]_busVars PROVE InOrder'
    OBVIOUS
<1>0. BusTyped /\ Accounted /\ InOrder
    BY DEF BusInv
<1> USE DEF InOrder
<1>1. CASE Calls
    BY <1>0, <1>1, CallsEffect DEF Places
<1>2. ASSUME NEW f \in AnyFrame, Publish(f) PROVE InOrder'
  <2> SUFFICES ASSUME NEW i \in SubIds
               PROVE  /\ \A x, y \in Places(i)' : x < y => buf'[i][x].n < buf'[i][y].n
                      /\ \A x \in Places(i)' : pump'[i].hand.n < buf'[i][x].n
      OBVIOUS
  <2>1. pump' = pump /\ f.n = published + 1 /\ (buf'[i] = buf[i] \/ buf'[i] = Append(buf[i], f))
      BY <1>0, <1>2, PublishEffect
  <2>2. CASE buf'[i] = buf[i]
      BY <1>0, <2>1, <2>2 DEF Places
  <2>3. CASE buf'[i] = Append(buf[i], f)
    <3>1. \A x \in Places(i) : buf[i][x].n < published + 1
        BY <1>0, Numbers DEF BusInv, AllPublished
    <3>2. pump[i].hand.n < published + 1
        BY <1>0, Numbers DEF BusInv, AllPublished
    <3>3. \A x \in Places(i)' :
              \/ x \in Places(i) /\ buf'[i][x] = buf[i][x]
              \/ (\A y \in Places(i) : y < x) /\ x = Len(buf'[i]) /\ buf'[i][x].n = published + 1
        BY <1>0, <2>1, <2>3, Appended
    <3>4. Len(buf[i]) \in Nat /\ \A x \in Places(i)' : x <= Len(buf'[i])
        BY <1>0, Numbers DEF Places
    <3>5. \A x \in Places(i)' : pump'[i].hand.n < buf'[i][x].n
        BY <1>0, <2>1, <3>2, <3>3
    <3>6. ASSUME NEW x \in Places(i)', NEW y \in Places(i)', x < y
          PROVE  buf'[i][x].n < buf'[i][y].n
      <4>1. x \in Places(i) /\ buf'[i][x] = buf[i][x]
          BY <3>3, <3>4, <3>6 DEF Places
      <4> QED
          BY <1>0, <3>1, <3>3, <3>6, <4>1
    <3> QED
        BY <3>5, <3>6
  <2> QED
      BY <2>1, <2>2, <2>3
<1>3. ASSUME NEW i \in SubIds, Receive(i) PROVE InOrder'
  <2>1. ASSUME NEW x \in Places(i)' PROVE pump'[i].hand.n < buf'[i][x].n
    <3>1. x + 1 \in Places(i) /\ 1 \in Places(i) /\ 1 < x + 1
        BY <1>0, <1>3, ReceiveEffect DEF Places
    <3> QED
        BY <1>0, <1>3, <3>1, ReceiveEffect DEF Places
  <2>2. ASSUME NEW x \in Places(i)', NEW y \in Places(i)', x < y
        PROVE  buf'[i][x].n < buf'[i][y].n
    <3>1. x + 1 \in Places(i) /\ y + 1 \in Places(i) /\ x + 1 < y + 1
        BY <1>0, <1>3, <2>2, ReceiveEffect DEF Places
    <3> QED
        BY <1>0, <1>3, <3>1, ReceiveEffect DEF Places
  <2>3. \A j \in SubIds : j # i => pump'[j] = pump[j] /\ buf'[j] = buf[j]
      BY <1>0, <1>3, ReceiveEffect
  <2> QED
      BY <1>0, <2>1, <2>2, <2>3 DEF Places
<1>4. ASSUME NEW i \in SubIds, CheckOverflow(i) PROVE InOrder'
    BY <1>0, <1>4, CheckEffect DEF BusInv, Places
<1>5. ASSUME NEW i \in SubIds, Turns(i) PROVE InOrder'
  <2>1. buf' = buf /\ \A j \in SubIds : pump'[j].hand = pump[j].hand \/ pump'[j].hand.n = 0
      BY <1>0, <1>5, TurnsHands
  <2>2. \A j \in SubIds : \A x \in Places(j) : buf[j][x].n > 0
      BY <1>0, Numbers
  <2> QED
      BY <1>0, <2>1, <2>2 DEF Places
<1>6. CASE UNCHANGED busVars
    BY <1>0, <1>6 DEF busVars, Places
<1>7. ASSUME NEW i \in SubIds, RaiseFlag(i) PROVE InOrder'
    BY <1>0, <1>7, RaiseFlagEffect DEF Places
<1> QED
    BY <1>1, <1>2, <1>3, <1>4, <1>5, <1>6, <1>7 DEF BusNext

LEMMA AllPublishedStep == BusInv /\ [BusNext]_busVars => AllPublished'
<1> SUFFICES ASSUME BusInv, [BusNext]_busVars PROVE AllPublished'
    OBVIOUS
<1>0. BusTyped /\ Accounted /\ AllPublished
    BY DEF BusInv
<1> USE DEF AllPublished
<1>1. CASE Calls
    BY <1>0, <1>1, CallsEffect DEF Places
<1>2. ASSUME NEW f \in AnyFrame, Publish(f) PROVE AllPublished'
  <2> SUFFICES ASSUME NEW i \in SubIds
               PROVE  /\ pump'[i].hand.n <= published'
                      /\ \A x \in Places(i)' : buf'[i][x].n <= published'
      OBVIOUS
  <2>1. /\ pump' = pump /\ f.n = published + 1 /\ published' = published + 1
        /\ buf'[i] = buf[i] \/ buf'[i] = Append(buf[i], f)
      BY <1>0, <1>2, PublishEffect
  <2>2. CASE buf'[i] = buf[i]
      BY <1>0, <2>1, <2>2, Numbers DEF Places
  <2>3. CASE buf'[i] = Append(buf[i], f)
    <3>1. \A x \in Places(i)' : \/ x \in Places(i) /\ buf'[i][x] = buf[i][x]
                               \/ buf'[i][x].n = published + 1
        BY <1>0, <2>1, <2>3, Appended DEF Places
    <3> QED
        BY <1>0, <2>1, <3>1, Numbers
  <2> QED
      BY <2>1, <2>2, <2>3
<1>3. ASSUME NEW i \in SubIds, Receive(i) PROVE AllPublished'
    BY <1>0, <1>3, ReceiveEffect DEF Places
<1>4. ASSUME NEW i \in SubIds, CheckOverflow(i) PROVE AllPublished'
    BY <1>0, <1>4, CheckEffect DEF BusInv, Places
<1>5. ASSUME NEW i \in SubIds, Turns(i) PROVE AllPublished'
  <2>1. /\ UNCHANGED <<buf, published>>
        /\ \A j \in SubIds : pump'[j].hand = pump[j].hand \/ pump'[j].hand.n = 0
      BY <1>0, <1>5, TurnsHands
  <2>2. published >= 0
      BY <1>0 DEF BusTyped
  <2> QED
      BY <1>0, <2>1, <2>2 DEF Places
<1>6. CASE UNCHANGED busVars
    BY <1>0, <1>6 DEF busVars, Places
<1>7. ASSUME NEW i \in SubIds, RaiseFlag(i) PROVE AllPublished'
    BY <1>0, <1>7, RaiseFlagEffect DEF Places
<1> QED
    BY <1>1, <1>2, <1>3, <1>4, <1>5, <1>6, <1>7 DEF BusNext

LEMMA FlagsFollowDropsStep == BusInv /\ [BusNext]_busVars => FlagsFollowDrops'
<1> SUFFICES ASSUME BusInv, [BusNext]_busVars PROVE FlagsFollowDrops'
    OBVIOUS
<1>0. BusTyped /\ Accounted /\ FlagsFollowDrops
    BY DEF BusInv
<1> USE DEF FlagsFollowDrops, Unflagged
<1>1. CASE Calls
    BY <1>0, <1>1, CallsEffect
<1>2. ASSUME NEW f \in AnyFrame, Publish(f) PROVE FlagsFollowDrops'
    BY <1>0, <1>2, PublishEffect
<1>3. ASSUME NEW i \in SubIds, Receive(i) PROVE FlagsFollowDrops'
  <2>1. UNCHANGED <<overflow, flagging, missed, published>>
      BY <1>0, <1>3, ReceiveEffect
  <2> QED
      BY <1>0, <2>1
<1>4. ASSUME NEW i \in SubIds, CheckOverflow(i) PROVE FlagsFollowDrops'
    BY <1>0, <1>4, CheckEffect
<1>5. ASSUME NEW i \in SubIds, Turns(i) PROVE FlagsFollowDrops'
    BY <1>0, <1>5, TurnsEffect
<1>6. CASE UNCHANGED busVars
    BY <1>0, <1>6 DEF busVars
<1>7. ASSUME NEW i \in SubIds, RaiseFlag(i) PROVE FlagsFollowDrops'
    BY <1>0, <1>7, RaiseFlagEffect
<1> QED
    BY <1>1, <1>2, <1>3, <1>4, <1>5, <1>6, <1>7 DEF BusNext

LEMMA FlaggedIsLaterStep == BusInv /\ [BusNext]_busVars => FlaggedIsLater'
<1> SUFFICES ASSUME BusInv, [BusNext]_busVars PROVE FlaggedIsLater'
    OBVIOUS
<1>0. BusTyped /\ Accounted /\ FlagsFollowDrops /\ FlaggedIsLater /\ flagging \subseteq SubIds
    BY DEF BusInv, BusTyped
<1> USE DEF FlaggedIsLater
<1>1. CASE Calls
    BY <1>0, <1>1, CallsEffect DEF Places
<1>2. ASSUME NEW f \in AnyFrame, Publish(f) PROVE FlaggedIsLater'
  <2> SUFFICES ASSUME NEW i \in flagging'
               PROVE  /\ pump'[i].hand.n < published'
                      /\ \A x \in Places(i)' : buf'[i][x].n < published'
      OBVIOUS
  <2>1. i \in SubIds
      BY <1>2 DEF Publish, BusInv, BusTyped
  <2>2. pump' = pump /\ buf'[i] = buf[i] /\ published' = published + 1
      BY <1>0, <1>2, <2>1, PublishEffect
  <2>3. pump[i].hand.n <= published /\ \A x \in Places(i) : buf[i][x].n <= published
      BY <2>1 DEF BusInv, AllPublished
  <2> QED
      BY <1>0, <2>1, <2>2, <2>3, Numbers DEF Places
<1>3. ASSUME NEW i \in SubIds, Receive(i) PROVE FlaggedIsLater'
    BY <1>0, <1>3, ReceiveEffect DEF Places
<1>4. ASSUME NEW i \in SubIds, CheckOverflow(i) PROVE FlaggedIsLater'
    BY <1>0, <1>4, CheckEffect DEF Places
<1>5. ASSUME NEW i \in SubIds, Turns(i) PROVE FlaggedIsLater'
  <2>1. /\ UNCHANGED <<buf, flagging, published>>
        /\ \A j \in SubIds : pump'[j].hand = pump[j].hand \/ pump'[j].hand.n = 0
      BY <1>0, <1>5, TurnsHands
  <2>2. \A j \in flagging : 0 < published
      BY <1>0, Numbers
  <2> QED
      BY <1>0, <2>1, <2>2 DEF Places
<1>6. CASE UNCHANGED busVars
    BY <1>0, <1>6 DEF busVars, Places
<1>7. ASSUME NEW i \in SubIds, RaiseFlag(i) PROVE FlaggedIsLater'
    BY <1>0, <1>7, RaiseFlagEffect DEF Places
<1> QED
    BY <1>1, <1>2, <1>3, <1>4, <1>5, <1>6, <1>7 DEF BusNext

LEMMA MissedIsLaterStep == BusInv /\ [BusNext]_busVars => MissedIsLater'
<1> SUFFICES ASSUME BusInv, [BusNext]_busVars PROVE MissedIsLater'
    OBVIOUS
<1>0. BusTyped /\ Accounted /\ MissedIsLater
    BY DEF BusInv
<1> USE DEF MissedIsLater
<1>1. CASE Calls
    BY <1>0, <1>1, CallsEffect
<1>2. ASSUME NEW f \in AnyFrame, Publish(f) PROVE MissedIsLater'
  <2> SUFFICES ASSUME NEW i \in SubIds, NEW d \in missed'[i],
                      pump[i].pc \in {"announce", "resync", "push", "write"}
               PROVE  d > pump[i].hand.n
      BY <1>0, <1>2, PublishEffect
  <2>1. d \in missed[i] \/ d = published + 1
      BY <1>0, <1>2, PublishEffect
  <2>2. pump[i].hand.n <= published
      BY DEF BusInv, AllPublished
  <2> QED
      BY <1>0, <2>1, <2>2, Numbers
<1>3. ASSUME NEW i \in SubIds, Receive(i) PROVE MissedIsLater'
    BY <1>0, <1>3, ReceiveEffect
<1>4. ASSUME NEW i \in SubIds, CheckOverflow(i) PROVE MissedIsLater'
  <2>1. missed'[i] = Unflagged(i) /\ pump'[i].hand = pump[i].hand
      BY <1>0, <1>4, CheckEffect DEF BusInv
  <2>2. \A d \in Unflagged(i) : d > pump[i].hand.n
      BY <1>0, Numbers DEF BusInv, FlaggedIsLater, Unflagged
  <2> QED
      BY <1>0, <1>4, <2>1, <2>2, CheckEffect DEF BusInv
<1>5. ASSUME NEW i \in SubIds, Turns(i) PROVE MissedIsLater'
    BY <1>0, <1>5, TurnsEffect
<1>6. CASE UNCHANGED busVars
    BY <1>0, <1>6 DEF busVars
<1>7. ASSUME NEW i \in SubIds, RaiseFlag(i) PROVE MissedIsLater'
    BY <1>0, <1>7, RaiseFlagEffect DEF Places
<1> QED
    BY <1>1, <1>2, <1>3, <1>4, <1>5, <1>6, <1>7 DEF BusNext

LEMMA RemovedHoldsOldStep == BusInv /\ [BusNext]_busVars => RemovedHoldsOld'
<1> SUFFICES ASSUME BusInv, [BusNext]_busVars PROVE RemovedHoldsOld'
    OBVIOUS
<1>0. BusTyped /\ Accounted /\ RemovedHoldsOld
    BY DEF BusInv
<1> USE DEF RemovedHoldsOld
<1>1. CASE Calls
  <2> SUFFICES ASSUME NEW i \in SubIds, done'[i]
               PROVE  /\ pump'[i].hand.n <= removedAt'[i]
                      /\ \A x \in Places(i)' : buf'[i][x].n <= removedAt'[i]
      OBVIOUS
  <2>1. buf' = buf /\ pump'[i].hand = pump[i].hand
      BY <1>0, <1>1, CallsEffect
  <2>2. CASE done[i]
      BY <1>0, <1>1, <2>1, <2>2, CallsEffect DEF Places
  <2>3. CASE ~done[i]
    <3>1. removedAt'[i] = published
        BY <1>0, <1>1, <2>3, CallsEffect
    <3> QED
        BY <2>1, <3>1 DEF BusInv, AllPublished, Places
  <2> QED
      BY <2>2, <2>3
<1>2. ASSUME NEW f \in AnyFrame, Publish(f) PROVE RemovedHoldsOld'
  <2>1. UNCHANGED <<done, pump, removedAt>>
      BY <1>2 DEF Publish
  <2>2. \A i \in SubIds : done[i] => buf'[i] = buf[i]
      BY <1>0, <1>2, PublishEffect
  <2> QED
      BY <1>0, <2>1, <2>2 DEF Places
<1>3. ASSUME NEW i \in SubIds, Receive(i) PROVE RemovedHoldsOld'
    BY <1>0, <1>3, ReceiveEffect DEF Places
<1>4. ASSUME NEW i \in SubIds, CheckOverflow(i) PROVE RemovedHoldsOld'
    BY <1>0, <1>4, CheckEffect DEF BusInv, Places
<1>5. ASSUME NEW i \in SubIds, Turns(i) PROVE RemovedHoldsOld'
  <2>1. /\ UNCHANGED <<buf, done, removedAt>>
        /\ \A j \in SubIds : pump'[j].hand = pump[j].hand \/ pump'[j].hand.n = 0
      BY <1>0, <1>5, TurnsHands
  <2>2. \A j \in SubIds : removedAt[j] >= 0
      BY <1>0 DEF BusTyped
  <2> QED
      BY <1>0, <2>1, <2>2 DEF Places
<1>6. CASE UNCHANGED busVars
    BY <1>0, <1>6 DEF busVars, Places
<1>7. ASSUME NEW i \in SubIds, RaiseFlag(i) PROVE RemovedHoldsOld'
    BY <1>0, <1>7, RaiseFlagEffect DEF Places
<1> QED
    BY <1>1, <1>2, <1>3, <1>4, <1>5, <1>6, <1>7 DEF BusNext

LEMMA BoundHoldsItsSessionStep == BusInv /\ [BusNext]_busVars => BoundHoldsItsSession'
<1> SUFFICES ASSUME BusInv, [BusNext]_busVars PROVE BoundHoldsItsSession'
    OBVIOUS
<1>0. BusTyped /\ Accounted /\ BoundHoldsItsSession
    BY DEF BusInv
<1> USE DEF BoundHoldsItsSession
<1> USE DEF Allowed
<1>1. CASE Calls
  <2> SUFFICES ASSUME NEW i \in SubIds, sub'[i].mode # "any", sub'[i].bound # None
               PROVE  /\ Allowed(i, pump[i].hand)'
                      /\ \A x \in Places(i) : Allowed(i, buf[i][x])'
      BY <1>0, <1>1, CallsEffect DEF Places
  <2>1. buf' = buf /\ pump'[i].hand = pump[i].hand
      BY <1>0, <1>1, CallsEffect
  <2>2. CASE sub'[i] = sub[i] /\ boundAt'[i] = boundAt[i]
      BY <1>0, <2>1, <2>2
  <2>3. CASE boundAt'[i] = published
      BY <2>1, <2>3 DEF BusInv, AllPublished
  <2> QED
      BY <1>0, <1>1, <2>2, <2>3, CallsEffect
<1>2. ASSUME NEW f \in AnyFrame, Publish(f) PROVE BoundHoldsItsSession'
  <2>1. f.n = published + 1 /\ UNCHANGED <<sub, pump, boundAt>>
      BY <1>2 DEF Publish
  <2> SUFFICES ASSUME NEW i \in SubIds, sub[i].mode # "any", sub[i].bound # None
               PROVE  \A x \in Places(i)' : Allowed(i, buf'[i][x])
      BY <1>0, <2>1
  <2>2. CASE buf'[i] = buf[i]
      BY <1>0, <2>2 DEF Places
  <2>3. CASE buf'[i] = Append(buf[i], f) /\ Matches(i, f.session)
    <3>1. sub[i].bound = f.session
        BY <2>3 DEF Matches
    <3> QED
        BY <1>0, <2>1, <2>3, <3>1, Appended DEF Places
  <2>4. buf'[i] = buf[i] \/ (buf'[i] = Append(buf[i], f) /\ Matches(i, f.session))
      BY <1>0, <1>2, PublishEffect
  <2> QED
      BY <2>2, <2>3, <2>4
<1>3. ASSUME NEW i \in SubIds, Receive(i) PROVE BoundHoldsItsSession'
  <2>1. UNCHANGED <<sub, boundAt>> /\ 1 \in Places(i) /\ pump'[i].hand = buf[i][1]
      BY <1>0, <1>3, ReceiveEffect
  <2>2. \A x \in Places(i)' : x + 1 \in Places(i) /\ buf'[i][x] = buf[i][x + 1]
      BY <1>0, <1>3, ReceiveEffect DEF Places
  <2>3. \A j \in SubIds : j # i => pump'[j] = pump[j] /\ buf'[j] = buf[j]
      BY <1>0, <1>3, ReceiveEffect
  <2>4. ASSUME NEW j \in SubIds, j # i, sub'[j].mode # "any", sub'[j].bound # None
        PROVE  /\ Allowed(j, pump[j].hand)'
               /\ \A x \in Places(j)' : Allowed(j, buf[j][x])'
      BY <1>0, <2>1, <2>3, <2>4 DEF Places
  <2>5. ASSUME sub'[i].mode # "any", sub'[i].bound # None
        PROVE  /\ Allowed(i, pump[i].hand)'
               /\ \A x \in Places(i)' : Allowed(i, buf[i][x])'
    <3>1. Allowed(i, pump[i].hand)'
        BY <1>0, <2>1, <2>5
    <3>2. \A x \in Places(i)' : Allowed(i, buf[i][x])'
        BY <1>0, <2>1, <2>2, <2>5
    <3> QED
        BY <3>1, <3>2
  <2> QED
      BY <2>4, <2>5
<1>4. ASSUME NEW i \in SubIds, CheckOverflow(i) PROVE BoundHoldsItsSession'
    BY <1>0, <1>4, CheckEffect DEF BusInv, Places
<1>5. ASSUME NEW i \in SubIds, Turns(i) PROVE BoundHoldsItsSession'
  <2>1. /\ UNCHANGED <<sub, buf, boundAt>>
        /\ \A j \in SubIds : pump'[j].hand = pump[j].hand \/ pump'[j].hand.n = 0
      BY <1>0, <1>5, TurnsHands
  <2>2. ASSUME NEW j \in SubIds, sub[j].mode # "any", sub[j].bound # None
        PROVE  Allowed(j, pump'[j].hand) /\ \A x \in Places(j) : Allowed(j, buf[j][x])
    <3>1. boundAt[j] \in Nat
        BY <1>0, Numbers
    <3>2. pump'[j].hand.n = 0 => Allowed(j, pump'[j].hand)
        BY <3>1
    <3>3. Allowed(j, pump[j].hand) /\ \A x \in Places(j) : Allowed(j, buf[j][x])
        BY <1>0, <2>2
    <3> QED
        BY <2>1, <3>2, <3>3
  <2> QED
      BY <2>1, <2>2 DEF Places
<1>6. CASE UNCHANGED busVars
    BY <1>0, <1>6 DEF busVars, Places
<1>7. ASSUME NEW i \in SubIds, RaiseFlag(i) PROVE BoundHoldsItsSession'
    BY <1>0, <1>7, RaiseFlagEffect DEF Places
<1> QED
    BY <1>1, <1>2, <1>3, <1>4, <1>5, <1>6, <1>7 DEF BusNext

LEMMA BusInvStep == BusInv /\ [BusNext]_busVars => BusInv'
BY BusTypeStep, AccountedStep, InOrderStep, AllPublishedStep, FlagsFollowDropsStep,
   FlaggedIsLaterStep, MissedIsLaterStep, RemovedHoldsOldStep, BoundHoldsItsSessionStep DEF BusInv

LEMMA BusInvariant == BusSpec => []BusInv
BY BusInvInit, BusInvStep, PTL DEF BusSpec

\* What is registered was started, and nothing undoes a start.
LEMMA StartedStays ==
    ASSUME BusInv, [BusNext]_busVars
    PROVE  Unused' \subseteq Unused /\ registered \cap Unused = {}
<1>0. BusTyped /\ Accounted /\ FlagsFollowDrops
    BY DEF BusInv
<1>1. registered \cap Unused = {}
    BY <1>0 DEF Accounted, Unused
<1>2. ASSUME \A i \in SubIds : pump'[i].pc = "off" => pump[i].pc = "off"
      PROVE  Unused' \subseteq Unused
    BY <1>2 DEF Unused
<1>3. CASE Calls
  <2>1. \A i \in SubIds : pump'[i].pc = pump[i].pc \/ pump'[i].pc = "select"
      BY <1>0, <1>3, CallsEffect
  <2> QED
      BY <1>1, <1>2, <2>1
<1>4. ASSUME NEW f \in AnyFrame, Publish(f) PROVE Unused' \subseteq Unused
    BY <1>4 DEF Publish, Unused
<1>5. ASSUME NEW i \in SubIds, Receive(i) PROVE Unused' \subseteq Unused
  <2>1. pump'[i].pc = "check" /\ \A j \in SubIds : j # i => pump'[j] = pump[j]
      BY <1>0, <1>5, ReceiveEffect
  <2> QED
      BY <1>2, <2>1
<1>6. ASSUME NEW i \in SubIds, CheckOverflow(i) PROVE Unused' \subseteq Unused
  <2>1. pump'[i].pc # "off" /\ \A j \in SubIds : j # i => pump'[j].pc = pump[j].pc
      BY <1>0, <1>6, CheckEffect
  <2> QED
      BY <1>2, <2>1
<1>7. ASSUME NEW i \in SubIds, Turns(i) PROVE Unused' \subseteq Unused
  <2>1. pump'[i].pc # "off" /\ \A j \in SubIds : j # i => pump'[j] = pump[j]
      BY <1>0, <1>7, TurnsEffect
  <2> QED
      BY <1>2, <2>1
<1>8. CASE UNCHANGED busVars
    BY <1>1, <1>2, <1>8 DEF busVars
<1>9. ASSUME NEW i \in SubIds, RaiseFlag(i) PROVE Unused' \subseteq Unused
    BY <1>0, <1>9, RaiseFlagEffect DEF Unused
<1> QED
    BY <1>1, <1>3, <1>4, <1>5, <1>6, <1>7, <1>8, <1>9 DEF BusNext

-----------------------------------------------------------------------------
(* The theorems *)

\* A dropped frame is uncovered exactly while its Sub's flag is up or about to be
\* raised: no silent drop, and no notice without one.
LEMMA TraceFollows == BusInv => DropsLeaveATrace
<1> SUFFICES ASSUME BusInv, NEW i \in SubIds
             PROVE  missed[i] # {} <=> overflow[i] \/ i \in flagging
    BY DEF DropsLeaveATrace
<1>1. /\ overflow[i] => missed[i] # {}
      /\ ~overflow[i] => missed[i] = Unflagged(i)
      /\ Unflagged(i) \subseteq missed[i]
    BY DEF BusInv, FlagsFollowDrops
<1> QED
    BY <1>1 DEF Unflagged

THEOREM NoSilentDrop == BusSpec => []DropsLeaveATrace
BY TraceFollows, BusInvariant, PTL

\* The notice of a drop precedes every frame published after it.
THEOREM NoticeComesFirst == BusSpec => []DropAnnouncedBeforeLaterFrames
<1>1. BusInv => DropAnnouncedBeforeLaterFrames
    BY DEF BusInv, MissedIsLater, DropAnnouncedBeforeLaterFrames, At
<1> QED
    BY <1>1, BusInvariant, PTL

\* What is written is older than what waits.
THEOREM OrderIsKept == BusSpec => []DeliveredInOrder
<1>1. BusInv => DeliveredInOrder
    BY DEF BusInv, InOrder, Places, DeliveredInOrder
<1> QED
    BY <1>1, BusInvariant, PTL

\* What is published after a subscription ended does not reach its client.
THEOREM RemovedHearsNothingNew == BusSpec => []NothingAfterRemoval
<1>1. BusInv => NothingAfterRemoval
    BY DEF BusInv, RemovedHoldsOld, NothingAfterRemoval
<1> QED
    BY <1>1, BusInvariant, PTL

\* A bound subscriber is not written another session's later frames.
THEOREM BoundHearsOnlyItsSession == BusSpec => []BoundHearsItsSession
<1>1. BusInv => BoundHearsItsSession
    BY DEF BusInv, BoundHoldsItsSession, Allowed, BoundHearsItsSession
<1> QED
    BY <1>1, BusInvariant, PTL
=============================================================================
