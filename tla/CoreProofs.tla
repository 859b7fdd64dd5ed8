----------------------------- MODULE CoreProofs -----------------------------
(***************************************************************************)
(* What the handler promises for any scenarios whatever: the types, that   *)
(* the last state wins the focus, that a connection that is closed leaves  *)
(* nothing behind and that a binding stays; and, for the scenarios named   *)
(* in the theorems, that unsubscribing ends the service, that an auto      *)
(* activity is bound within its tmux window and that an activity ends up   *)
(* with the state of the session it follows.                               *)
(***************************************************************************)
EXTENDS Core, BusProofs

EmitFields == {"pc", "from", "to", "work", "target", "listing", "sid", "snap", "pane"}
ConnFields == {"pc", "todo", "listing", "sid", "sub", "snap", "doomed"}
SubFields  == {"mode", "bound", "pane", "sink"}

\* As much of the variables' types as the focus, the closing and the bindings need.
Shape ==
    /\ scenario \in Scenarios
    /\ DOMAIN sessions \subseteq SessionIds
    /\ \A s \in DOMAIN sessions : "state" \in DOMAIN sessions[s]
    /\ DOMAIN emit = EmitIds /\ \A e \in EmitIds : DOMAIN emit[e] = EmitFields
    /\ \A e \in EmitIds : emit[e].pc # "unsent" => e \in DOMAIN Msg
    /\ DOMAIN conn = Sinks /\ \A k \in Sinks : DOMAIN conn[k] = ConnFields
    /\ DOMAIN sub = SubIds /\ \A i \in SubIds : DOMAIN sub[i] = SubFields
    /\ registered \subseteq SubIds
    /\ DOMAIN decided = SessionIds

\* Emit e has changed its session's state and may yet decide the focus.
Pending == {"publish", "flag", "collect", "rebind", "resolve", "bind", "look", "tell", "focus"}

Owes(e, s) ==
    /\ Msg[e].session = s /\ emit[e].pc \in Pending
    /\ emit[e].from # emit[e].to /\ emit[e].to = sessions[s].state

\* A session's state has been acted on, or the emit it comes from is yet to act.
FocusIsDue ==
    HasTmux =>
        \A s \in DOMAIN sessions :
            sessions[s].state # Unknown =>
                decided[s] = sessions[s].state \/ \E e \in EmitIds : Owes(e, s)

\* What a closing connection still has in the bus it has collected for removal.
ClosingKnows ==
    \A k \in Sinks : ConnAt(k, "closing") => Writing(k) \subseteq conn[k].doomed

FInv == Shape /\ FocusIsDue
CInv == Shape /\ ClosingKnows /\ ClosedLeavesNothing

-----------------------------------------------------------------------------
(* The steps, by what they touch *)

\* The connections', the bus's and the clients' part of the state.
busPart == <<conn, subs, registered, sub>>

\* The registry's, the emits' and the focus's.
focusPart == <<scenario, sessions, emit, decided>>

\* Steps of an emit's goroutine on its way to the focus, which it may reach,
\* without a say in what the focus will be.
Plods(e) ==
    \/ PublishChange(e) \/ FlagForChange(e) \/ CollectUnbound(e) \/ ListForRebind(e)
    \/ ResolveForRebind(e) \/ BindUnbound(e) \/ LookForRebound(e) \/ TellRebound(e)

LEMMA PlodsEffect ==
    ASSUME Shape, NEW e \in EmitIds, Plods(e)
    PROVE  /\ UNCHANGED <<scenario, sessions, decided, conn, subs>>
           /\ emit[e].pc \in Pending /\ emit'[e].pc \in Pending
           /\ emit'[e].from = emit[e].from /\ emit'[e].to = emit[e].to
           /\ DOMAIN emit' = EmitIds /\ DOMAIN emit'[e] = EmitFields
           /\ \A d \in EmitIds : d # e => emit'[d] = emit[d]
<1> USE DEF Shape, EmitFields, Pending, EmitAt, notEmit, registryVars
<1>1. CASE PublishChange(e) \/ FlagForChange(e)
    BY <1>1 DEF PublishChange, FlagForChange
<1>2. CASE CollectUnbound(e)
    BY <1>2 DEF CollectUnbound
<1>3. CASE ListForRebind(e)
  <2>1. PICK w \in emit[e].work : \E listing \in Listings(sub[w.sub].pane, Msg[e].socket) :
            emit' = [emit EXCEPT ![e].work = @ \ {w}, ![e].target = w,
                                 ![e].listing = listing, ![e].pc = "resolve"]
      BY <1>3 DEF ListForRebind
  <2>2. PICK listing : emit' = [emit EXCEPT ![e].work = @ \ {w}, ![e].target = w,
                                            ![e].listing = listing, ![e].pc = "resolve"]
      BY <2>1
  <2>3. \A d \in EmitIds : d # e => emit'[d] = emit[d]
      BY <2>2
  <2>4. /\ emit'[e].pc = "resolve" /\ DOMAIN emit'[e] = EmitFields
        /\ emit'[e].from = emit[e].from /\ emit'[e].to = emit[e].to
      BY <2>2
  <2>5. DOMAIN emit' = EmitIds
      BY <2>2
  <2> QED
      BY <1>3, <2>3, <2>4, <2>5 DEF ListForRebind
<1>4. CASE ResolveForRebind(e)
  <2>1. PICK place \in {"rebind", "bind"} : \E sid :
            emit' = [emit EXCEPT ![e].sid = sid, ![e].listing = NoListing, ![e].pc = place]
      BY <1>4 DEF ResolveForRebind
  <2> QED
      BY <1>4, <2>1 DEF ResolveForRebind
<1>5. CASE BindUnbound(e)
    BY <1>5 DEF BindUnbound
<1>6. CASE LookForRebound(e)
  <2>1. PICK snap : emit' = [emit EXCEPT ![e].snap = snap, ![e].pc = "tell"]
      BY <1>6 DEF LookForRebound
  <2> QED
      BY <1>6, <2>1 DEF LookForRebound
<1>7. CASE TellRebound(e)
    BY <1>7 DEF TellRebound
<1> QED
    BY <1>1, <1>2, <1>3, <1>4, <1>5, <1>6, <1>7 DEF Plods

\* Every other step leaves the registry, the emits and the focus alone, but for
\* the janitor's, which reaps.
LEMMA FocusCases ==
    ASSUME [Next]_vars
    PROVE  \/ \E e \in EmitIds : \/ Arrive(e) \/ ApplyEmit(e) \/ Plods(e) \/ EndRebind(e)
                                 \/ DecideFocus(e) \/ PickPane(e) \/ SwitchFocus(e)
           \/ \E s \in SessionIds : ProbeSession(s)
           \/ UNCHANGED focusPart
<1> USE DEF focusPart, registryVars
<1>1. ASSUME Environment
      PROVE  UNCHANGED focusPart \/ \E e \in EmitIds : Arrive(e)
    BY <1>1 DEF Environment, Hangup, GoIdle, ClosePane, notConn
<1>2. ASSUME NEW k \in Sinks, ConnStep(k) PROVE UNCHANGED focusPart
    BY <1>2 DEF ConnStep, ReadSubscribe, ResolveForSubscribe, JoinBus, RecordSub,
                LookForSubscriber, TellSubscriber, ReadUnsubscribe, LeaveBus,
                ReadFocusRequest, RemoveDoomed, ForgetConn, notConn
<1>3. ASSUME NEW a \in asks, DecideAsked(a) \/ SwitchAsked(a) PROVE UNCHANGED focusPart
    BY <1>3 DEF DecideAsked, SwitchAsked
<1>4. ASSUME NEW i \in SubIds, PumpStep(i) PROVE UNCHANGED focusPart
    BY <1>4 DEF PumpStep, notPump
<1>5. ASSUME BeginSweep \/ JanitorStep
      PROVE  UNCHANGED focusPart \/ \E s \in SessionIds : ProbeSession(s)
    BY <1>5 DEF BeginSweep, JanitorStep, EndGC, ListUnknown, FlagForUnknown, EndSweep, PublishUnknown, notJanitor
<1>6. ASSUME NEW e \in EmitIds, ServeEmit(e) \/ AfterEmit(e)
      PROVE  \/ ApplyEmit(e) \/ Plods(e) \/ EndRebind(e)
             \/ DecideFocus(e) \/ PickPane(e) \/ SwitchFocus(e)
    BY <1>6 DEF ServeEmit, AfterEmit, Plods
<1>7. CASE UNCHANGED vars
    BY <1>7 DEF vars
<1> QED
    BY <1>1, <1>2, <1>3, <1>4, <1>5, <1>6, <1>7 DEF Next

\* The steps that touch the connections and what the bus has registered.
LEMMA BusCases ==
    ASSUME [Next]_vars
    PROVE  \/ \E k \in Sinks : ConnStep(k) \/ Hangup(k)
           \/ \E e \in EmitIds : BindUnbound(e)
           \/ UNCHANGED busPart
<1> USE DEF busPart, busVars, Publish, RaiseFlag
<1>1. ASSUME Environment
      PROVE  UNCHANGED busPart \/ \E k \in Sinks : Hangup(k)
    BY <1>1 DEF Environment, Arrive, GoIdle, ClosePane, notEmit
<1>2. ASSUME NEW e \in EmitIds, ServeEmit(e) \/ AfterEmit(e)
      PROVE  UNCHANGED busPart \/ BindUnbound(e)
    BY <1>2 DEF ServeEmit, AfterEmit, ApplyEmit, PublishChange, FlagForChange, CollectUnbound, ListForRebind,
                ResolveForRebind, LookForRebound, TellRebound, EndRebind, DecideFocus,
                PickPane, SwitchFocus, notEmit
<1>3. ASSUME NEW a \in asks, DecideAsked(a) \/ SwitchAsked(a) PROVE UNCHANGED busPart
    BY <1>3 DEF DecideAsked, SwitchAsked
<1>4. ASSUME NEW i \in SubIds, PumpStep(i) PROVE UNCHANGED busPart
    BY <1>4 DEF PumpStep, Stop, Receive, CheckOverflow, Announce, Resync, Push, Write,
                nonPumpVars, notPump
<1>5. ASSUME BeginSweep \/ JanitorStep PROVE UNCHANGED busPart
    BY <1>5 DEF BeginSweep, JanitorStep, EndGC, ListUnknown, FlagForUnknown, EndSweep, PublishUnknown,
                ProbeSession, notJanitor
<1>6. CASE UNCHANGED vars
    BY <1>6 DEF vars
<1> QED
    BY <1>1, <1>2, <1>3, <1>4, <1>5, <1>6 DEF Next

-----------------------------------------------------------------------------
(* The focus *)

\* What Apply does to the registry, as far as the focus is concerned.
LEMMA ApplyEffect ==
    ASSUME Shape, NEW e \in EmitIds, ApplyEmit(e)
    PROVE  /\ UNCHANGED <<scenario, decided, conn, subs, registered, sub>>
           /\ e \in DOMAIN Msg
           /\ DOMAIN sessions' \subseteq SessionIds
           /\ \A s \in DOMAIN sessions' : "state" \in DOMAIN sessions'[s]
           /\ DOMAIN emit' = EmitIds /\ DOMAIN emit'[e] = EmitFields
           /\ \A d \in EmitIds : d # e => emit'[d] = emit[d]
           /\ emit[e].pc = "received"
           /\ \A s \in DOMAIN sessions' :
                 \/ s \in DOMAIN sessions /\ sessions'[s].state = sessions[s].state
                 \/ sessions'[s].state = Unknown
                 \/ Owes(e, s)'
<1> USE DEF Shape, EmitFields, EmitAt, notEmit
<1>1. /\ UNCHANGED <<scenario, decided, conn, subs, registered, sub>>
      /\ emit[e].pc = "received" /\ e \in DOMAIN Msg
    BY DEF ApplyEmit, busVars
<1>2. CASE ~IsEvent(Msg[e].event)
    BY <1>1, <1>2 DEF ApplyEmit, registryVars
<1>3. CASE IsEvent(Msg[e].event)
  <2> DEFINE m     == Msg[e]
             found == Lookup(sessions, m.session, clock + 1)
             after == ApplyTo(sessions, m, clock + 1)
  <2>1. m.session \in SessionIds
      BY <1>1, ScenariosAssumption DEF Scenario, Msg, EmitMessage
  <2>2. /\ DOMAIN after = DOMAIN sessions \cup {m.session}
        /\ \A s \in DOMAIN sessions : s # m.session => after[s] = sessions[s]
      BY DEF ApplyTo
  <2>3. "state" \in DOMAIN found
      BY DEF Lookup, FreshSession
  <2>4. "state" \in DOMAIN after[m.session]
      BY <2>3 DEF ApplyTo, Fold
  <2>5. m.session \in DOMAIN sessions \/ found.state = Unknown
      BY DEF Lookup, FreshSession
  <2>6. m.session \in DOMAIN sessions => found = sessions[m.session]
      BY DEF Lookup
  <2>7. /\ sessions' = after
        /\ emit' = [emit EXCEPT
              ![e].from = found.state,
              ![e].to   = after[m.session].state,
              ![e].pc   = IF found.state # after[m.session].state THEN "publish" ELSE "collect"]
      BY <1>3 DEF ApplyEmit
  <2> HIDE DEF found, after
  <2>8. /\ emit'[e].from = found.state /\ emit'[e].to = after[m.session].state
        /\ found.state # after[m.session].state => emit'[e].pc = "publish"
        /\ DOMAIN emit'[e] = EmitFields
      BY <2>7
  <2>9. DOMAIN emit' = EmitIds /\ \A d \in EmitIds : d # e => emit'[d] = emit[d]
      BY <2>7
  <2>10. Msg' = Msg
      BY <1>1 DEF Msg
  <2>11. found.state # after[m.session].state => Owes(e, m.session)'
      BY <2>7, <2>8, <2>10 DEF Owes, Pending
  <2>12. ASSUME NEW s \in DOMAIN sessions'
         PROVE  /\ "state" \in DOMAIN sessions'[s]
                /\ \/ s \in DOMAIN sessions /\ sessions'[s].state = sessions[s].state
                   \/ sessions'[s].state = Unknown
                   \/ Owes(e, s)'
    <3>1. CASE s = m.session
      <4>1. CASE found.state # after[m.session].state
          BY <2>4, <2>7, <2>10, <2>11, <3>1, <4>1 DEF Owes
      <4>2. CASE found.state = after[m.session].state
          BY <2>4, <2>5, <2>6, <2>7, <3>1, <4>2
      <4> QED
          BY <4>1, <4>2
    <3>2. CASE s # m.session
        BY <2>2, <2>7, <3>2
    <3> QED
        BY <3>1, <3>2
  <2>13. DOMAIN sessions' \subseteq SessionIds
      BY <2>1, <2>2, <2>7
  <2> QED
      BY <1>1, <2>9, <2>8, <2>12, <2>13
<1> QED
    BY <1>2, <1>3

\* The end of an emit's goroutine: it is done, or goes on towards the focus.
LEMMA EndEffect ==
    ASSUME Shape, NEW e \in EmitIds, EndRebind(e) \/ PickPane(e) \/ SwitchFocus(e)
    PROVE  /\ UNCHANGED <<scenario, sessions, decided, conn, subs>>
           /\ emit[e].pc # "unsent" /\ emit'[e].pc # "unsent"
           /\ DOMAIN emit' = EmitIds /\ DOMAIN emit'[e] = EmitFields
           /\ \A d \in EmitIds : d # e => emit'[d] = emit[d]
           /\ HasTmux /\ emit[e].pc \in Pending /\ emit[e].from # emit[e].to
                 => /\ emit'[e].pc \in Pending
                    /\ emit'[e].from = emit[e].from /\ emit'[e].to = emit[e].to
<1> USE DEF Shape, EmitFields, Pending, EmitAt, notEmit, registryVars, Finished, NewEmit
<1>1. CASE EndRebind(e)
    BY <1>1 DEF EndRebind
<1>2. CASE PickPane(e)
  <2>1. CASE Finished(e)
      BY <1>2, <2>1 DEF PickPane
  <2>2. CASE \E p : emit' = [emit EXCEPT ![e].pane = p, ![e].pc = "switch"]
    <3>1. PICK p : emit' = [emit EXCEPT ![e].pane = p, ![e].pc = "switch"]
        BY <2>2
    <3>2. /\ EmitAt(e, "pick")
          /\ UNCHANGED <<scenario, sessions, decided, conn, subs>>
        BY <1>2 DEF PickPane
    <3> QED
        BY <3>1, <3>2
  <2> QED
      BY <1>2, <2>1, <2>2 DEF PickPane
<1>3. CASE SwitchFocus(e)
    BY <1>3 DEF SwitchFocus
<1> QED
    BY <1>1, <1>2, <1>3

\* applyFocus acts on the state the emit declared, or leaves it to another.
LEMMA DecideEffect ==
    ASSUME Shape, NEW e \in EmitIds, DecideFocus(e)
    PROVE  /\ UNCHANGED <<scenario, sessions, conn, subs>>
           /\ emit[e].pc = "focus" /\ emit'[e].pc # "unsent" /\ e \in DOMAIN Msg
           /\ DOMAIN emit' = EmitIds /\ DOMAIN emit'[e] = EmitFields
           /\ \A d \in EmitIds : d # e => emit'[d] = emit[d]
           /\ DOMAIN decided' = SessionIds
           /\ \A s \in SessionIds : s # Msg[e].session => decided'[s] = decided[s]
           /\ \/ decided'[Msg[e].session] = sessions[Msg[e].session].state
              \/ decided' = decided /\ emit[e].to # sessions[Msg[e].session].state
<1> USE DEF Shape, EmitFields, EmitAt, notEmit, registryVars, Finished, NewEmit
<1>1. emit[e].pc = "focus" /\ e \in DOMAIN Msg
    BY DEF DecideFocus
<1>2. Msg[e].session \in SessionIds
    BY <1>1, ScenariosAssumption DEF Scenario, Msg, EmitMessage
<1>3. CASE sessions[Msg[e].session].state = emit[e].to
  <2>1. /\ decided' = [decided EXCEPT ![Msg[e].session] = emit[e].to]
        /\ emit' = [emit EXCEPT ![e].pane = sessions[Msg[e].session].pane, ![e].pc = "pick"]
      BY <1>3 DEF DecideFocus
  <2> QED
      BY <1>1, <1>2, <1>3, <2>1 DEF DecideFocus
<1>4. CASE sessions[Msg[e].session].state # emit[e].to
    BY <1>1, <1>4 DEF DecideFocus
<1> QED
    BY <1>3, <1>4

LEMMA FocusInit == Init => FInv
<1> SUFFICES ASSUME Init PROVE FInv
    OBVIOUS
<1>1. Shape
    BY DEF Init, BusInit, Shape, NewEmit, NewConn, EmitFields, ConnFields, SubFields
<1>2. FocusIsDue
    BY DEF Init, FocusIsDue
<1> QED
    BY <1>1, <1>2 DEF FInv

LEMMA FocusStep == ASSUME Shape, FocusIsDue, [Next]_vars PROVE FocusIsDue'
<1> SUFFICES ASSUME HasTmux, NEW s \in DOMAIN sessions', sessions'[s].state # Unknown
             PROVE  decided'[s] = sessions'[s].state \/ \E e \in EmitIds : Owes(e, s)'
    BY DEF FocusIsDue
<1>1. ASSUME NEW e \in EmitIds, Arrive(e)
      PROVE  decided'[s] = sessions'[s].state \/ \E d \in EmitIds : Owes(d, s)'
  <2>1. UNCHANGED <<sessions, decided, Msg>> /\ emit[e].pc = "unsent"
      BY <1>1 DEF Arrive, registryVars, notEmit, EmitAt, Msg
  <2>2. \A d \in EmitIds : d # e => emit'[d] = emit[d]
      BY <1>1 DEF Arrive, Shape
  <2> QED
      BY <2>1, <2>2 DEF FocusIsDue, Owes, Pending
<1>2. ASSUME NEW e \in EmitIds, ApplyEmit(e)
      PROVE  decided'[s] = sessions'[s].state \/ \E d \in EmitIds : Owes(d, s)'
  <2>1. CASE Owes(e, s)'
      BY <2>1
  <2>2. CASE s \in DOMAIN sessions /\ sessions'[s].state = sessions[s].state
    <3>1. /\ UNCHANGED <<decided, Msg>> /\ emit[e].pc = "received"
          /\ \A d \in EmitIds : d # e => emit'[d] = emit[d]
        BY <1>2, ApplyEffect DEF Msg
    <3> QED
        BY <2>2, <3>1 DEF FocusIsDue, Owes, Pending
  <2> QED
      BY <1>2, <2>1, <2>2, ApplyEffect
<1>3. ASSUME NEW e \in EmitIds, Plods(e)
      PROVE  decided'[s] = sessions'[s].state \/ \E d \in EmitIds : Owes(d, s)'
  <2>1. UNCHANGED <<sessions, decided, Msg>>
      BY <1>3, PlodsEffect DEF Msg
  <2>2. \A d \in EmitIds : Owes(d, s) => Owes(d, s)'
      BY <1>3, <2>1, PlodsEffect DEF Owes
  <2> QED
      BY <2>1, <2>2 DEF FocusIsDue
<1>4. ASSUME NEW e \in EmitIds, EndRebind(e) \/ PickPane(e) \/ SwitchFocus(e)
      PROVE  decided'[s] = sessions'[s].state \/ \E d \in EmitIds : Owes(d, s)'
  <2>1. UNCHANGED <<sessions, decided, Msg>>
      BY <1>4, EndEffect DEF Msg
  <2>2. \A d \in EmitIds : Owes(d, s) => Owes(d, s)'
      BY <1>4, <2>1, EndEffect DEF Owes
  <2> QED
      BY <2>1, <2>2 DEF FocusIsDue
<1>5. ASSUME NEW e \in EmitIds, DecideFocus(e)
      PROVE  decided'[s] = sessions'[s].state \/ \E d \in EmitIds : Owes(d, s)'
  <2>1. UNCHANGED <<sessions, Msg>>
      BY <1>5, DecideEffect DEF Msg
  <2>2. CASE s = Msg[e].session /\ decided'[s] = sessions[s].state
      BY <2>1, <2>2
  <2>3. CASE s # Msg[e].session \/ (decided' = decided /\ emit[e].to # sessions[s].state)
    <3>1. decided'[s] = decided[s]
        BY <1>5, <2>1, <2>3, DecideEffect DEF Shape
    <3>2. \A d \in EmitIds : Owes(d, s) => Owes(d, s)'
        BY <1>5, <2>1, <2>3, DecideEffect DEF Owes
    <3> QED
        BY <2>1, <3>1, <3>2 DEF FocusIsDue
  <2> QED
      BY <1>5, <2>2, <2>3, DecideEffect
<1>6. ASSUME NEW t \in SessionIds, ProbeSession(t)
      PROVE  decided'[s] = sessions'[s].state \/ \E d \in EmitIds : Owes(d, s)'
  <2>1. UNCHANGED <<decided, emit, Msg>>
      BY <1>6 DEF ProbeSession, notJanitor, Msg
  <2>2. sessions' = sessions \/ sessions' = [sessions EXCEPT ![t].state = Unknown]
      BY <1>6 DEF ProbeSession
  <2>3. s \in DOMAIN sessions /\ sessions'[s].state = sessions[s].state
      BY <2>2 DEF Shape
  <2> QED
      BY <2>1, <2>3 DEF FocusIsDue, Owes
<1>7. CASE UNCHANGED focusPart
    BY <1>7 DEF focusPart, FocusIsDue, Owes, Msg
<1> QED
    BY <1>1, <1>2, <1>3, <1>4, <1>5, <1>6, <1>7, FocusCases

-----------------------------------------------------------------------------
(* Connections and the bus *)

\* A request's step that leaves the bus alone, and other connections.
Talks(k) ==
    \/ ReadSubscribe(k) \/ ResolveForSubscribe(k) \/ RecordSub(k) \/ LookForSubscriber(k)
    \/ TellSubscriber(k) \/ ReadUnsubscribe(k) \/ ReadFocusRequest(k)

OthersStay(c) ==
    \A k \in Sinks \ {c} :
        /\ conn'[k] = conn[k]
        /\ k \in DOMAIN subs' <=> k \in DOMAIN subs
        /\ k \in DOMAIN subs => subs'[k] = subs[k]

LEMMA TalksEffect ==
    ASSUME Shape, NEW k \in Sinks, Talks(k)
    PROVE  /\ UNCHANGED <<registered, sub>>
           /\ DOMAIN conn' = Sinks /\ DOMAIN conn'[k] = ConnFields
           /\ conn'[k].pc \notin {"closing", "closed"}
           /\ OthersStay(k)
<1> USE DEF OthersStay, Shape, ConnFields, ConnAt, notConn, busVars, NextRequest, NewConn, Reads
<1>1. CASE ReadSubscribe(k)
  <2>0. UNCHANGED <<registered, sub, subs>>
      BY <1>1 DEF ReadSubscribe
  <2>1. CASE conn' = [conn EXCEPT ![k] = NextRequest(k)]
      BY <2>0, <2>1
  <2>2. CASE \E listing : conn' = [conn EXCEPT ![k].listing = listing, ![k].pc = "resolve"]
    <3>1. PICK listing : conn' = [conn EXCEPT ![k].listing = listing, ![k].pc = "resolve"]
        BY <2>2
    <3> QED
        BY <2>0, <3>1
  <2>3. CASE \E sid : conn' = [conn EXCEPT ![k].sid = sid, ![k].pc = "join"]
    <3>1. PICK sid : conn' = [conn EXCEPT ![k].sid = sid, ![k].pc = "join"]
        BY <2>3
    <3> QED
        BY <2>0, <3>1
  <2> QED
      BY <1>1, <2>1, <2>2, <2>3 DEF ReadSubscribe
<1>2. CASE ResolveForSubscribe(k)
  <2>1. PICK sid : conn' = [conn EXCEPT ![k].sid = sid, ![k].listing = NoListing, ![k].pc = "join"]
      BY <1>2 DEF ResolveForSubscribe
  <2> QED
      BY <1>2, <2>1 DEF ResolveForSubscribe
<1>3. CASE RecordSub(k)
    BY <1>3 DEF RecordSub
<1>4. CASE LookForSubscriber(k)
  <2>1. PICK snap : conn' = [conn EXCEPT ![k].snap = snap, ![k].pc = "tell"]
      BY <1>4 DEF LookForSubscriber
  <2> QED
      BY <1>4, <2>1 DEF LookForSubscriber
<1>5. CASE TellSubscriber(k)
    BY <1>5 DEF TellSubscriber
<1>6. CASE ReadUnsubscribe(k)
    BY <1>6 DEF ReadUnsubscribe, Without
<1>7. CASE ReadFocusRequest(k)
    BY <1>7 DEF ReadFocusRequest
<1> QED
    BY <1>1, <1>2, <1>3, <1>4, <1>5, <1>6, <1>7 DEF Talks

\* A connection's step leaves the others alone, and itself somewhere in its run
\* or nearer to its end.
Spares(c) ==
    OthersStay(c) /\ \A k \in Sinks \ {c} : Writing(k)' \subseteq Writing(k)

Approaches(c) ==
    \/ conn'[c].pc \notin {"closing", "closed"}
    \/ conn'[c].pc = "closing" /\ Writing(c)' \subseteq conn'[c].doomed
    \/ /\ conn[c].pc = "closing" /\ conn'[c].pc = "closing"
       /\ \E i \in conn[c].doomed : /\ conn'[c].doomed = conn[c].doomed \ {i}
                                   /\ Writing(c)' \subseteq Writing(c) \ {i}
    \/ /\ conn[c].pc = "closing" /\ conn[c].doomed = {}
       /\ conn'[c].pc = "closed" /\ c \notin DOMAIN subs'
       /\ Writing(c)' = Writing(c)

ConnShape ==
    /\ DOMAIN conn = Sinks /\ \A k \in Sinks : DOMAIN conn[k] = ConnFields
    /\ DOMAIN sub = SubIds /\ \A i \in SubIds : DOMAIN sub[i] = SubFields
    /\ registered \subseteq SubIds

LEMMA ConnEffect ==
    ASSUME Shape, NEW c \in Sinks, ConnStep(c) \/ Hangup(c)
    PROVE  ConnShape' /\ Spares(c) /\ Approaches(c)
<1>1. CASE Talks(c)
  <2>1. /\ UNCHANGED <<registered, sub>>
        /\ DOMAIN conn' = Sinks /\ DOMAIN conn'[c] = ConnFields
        /\ conn'[c].pc \notin {"closing", "closed"}
      BY <1>1, TalksEffect
  <2>2. OthersStay(c)
      BY <1>1, TalksEffect
  <2>3. ConnShape'
      BY <2>1, <2>2 DEF OthersStay, Shape, ConnShape
  <2> QED
      BY <2>1, <2>2, <2>3 DEF Spares, Approaches, Writing
<1> USE DEF Shape, ConnFields, SubFields, ConnAt, notConn, NextRequest, NewConn, Writing,
            ConnShape, OthersStay, Spares, Approaches
<1>2. CASE JoinBus(c)
  <2>1. PICK i \in Unused : \E mode, bound, pane : Subscribe(i, mode, bound, pane, c)
      BY <1>2 DEF JoinBus
  <2>2. i \in SubIds
      BY DEF Unused
  <2>3. /\ DOMAIN sub' = SubIds /\ \A j \in SubIds : DOMAIN sub'[j] = SubFields
        /\ sub'[i].sink = c /\ \A j \in SubIds : j # i => sub'[j] = sub[j]
        /\ registered' = registered \cup {i}
      BY <2>1, <2>2 DEF Subscribe
  <2>4. /\ subs' = subs /\ DOMAIN conn' = Sinks /\ DOMAIN conn'[c] = ConnFields
        /\ conn'[c].pc = "record" /\ \A j \in Sinks \ {c} : conn'[j] = conn[j]
      BY <1>2 DEF JoinBus
  <2> QED
      BY <2>2, <2>3, <2>4
<1>3. CASE LeaveBus(c)
  <2>1. registered' \subseteq registered /\ sub' = sub /\ subs' = subs
      BY <1>3 DEF LeaveBus, Unsubscribe
  <2>2. conn' = [conn EXCEPT ![c] = NextRequest(c)]
      BY <1>3 DEF LeaveBus
  <2>3. /\ DOMAIN conn' = Sinks /\ DOMAIN conn'[c] = ConnFields
        /\ conn'[c].pc = "read" /\ \A j \in Sinks \ {c} : conn'[j] = conn[j]
      BY <2>2
  <2> QED
      BY <2>1, <2>3
<1>4. CASE RemoveDoomed(c)
  <2>1. PICK i \in conn[c].doomed :
            Unsubscribe(i) /\ conn' = [conn EXCEPT ![c].doomed = @ \ {i}]
      BY <1>4 DEF RemoveDoomed
  <2>2. registered' = registered \ {i} /\ sub' = sub /\ subs' = subs /\ conn[c].pc = "closing"
      BY <1>4, <2>1 DEF RemoveDoomed, Unsubscribe
  <2>3. /\ DOMAIN conn' = Sinks /\ DOMAIN conn'[c] = ConnFields
        /\ conn'[c].pc = conn[c].pc /\ conn'[c].doomed = conn[c].doomed \ {i}
        /\ \A j \in Sinks \ {c} : conn'[j] = conn[j]
      BY <2>1
  <2> QED
      BY <2>2, <2>3
<1>5. CASE ForgetConn(c)
  <2>1. registered' = registered /\ sub' = sub
      BY <1>5 DEF ForgetConn, busVars
  <2> QED
      BY <1>5, <2>1 DEF ForgetConn, Without
<1>6. CASE Hangup(c)
  <2>1. registered' = registered /\ sub' = sub /\ subs' = subs
      BY <1>6 DEF Hangup, Break
  <2>2. conn' = [conn EXCEPT ![c] = [NewConn EXCEPT !.pc = "closing", !.doomed = Writing(c)]]
      BY <1>6 DEF Hangup
  <2>3. /\ DOMAIN conn' = Sinks /\ DOMAIN conn'[c] = ConnFields
        /\ conn'[c].pc = "closing" /\ conn'[c].doomed = Writing(c)
        /\ \A j \in Sinks \ {c} : conn'[j] = conn[j]
      BY <2>2
  <2> QED
      BY <2>1, <2>3
<1> QED
    BY <1>1, <1>2, <1>3, <1>4, <1>5, <1>6 DEF ConnStep, Talks

LEMMA RebindEffect ==
    ASSUME Shape, NEW e \in EmitIds, BindUnbound(e)
    PROVE  /\ UNCHANGED <<conn, subs, registered>>
           /\ DOMAIN sub' = SubIds
           /\ \A i \in SubIds : DOMAIN sub'[i] = SubFields /\ sub'[i].sink = sub[i].sink
           /\ \A i \in SubIds : sub[i].bound # None => sub'[i] = sub[i]
BY DEF BindUnbound, Rebind, Shape, SubFields, notEmit

LEMMA ShapeStep == Shape /\ [Next]_vars => Shape'
<1> SUFFICES ASSUME Shape, [Next]_vars PROVE Shape'
    OBVIOUS
<1>1. /\ scenario' \in Scenarios
      /\ DOMAIN sessions' \subseteq SessionIds
      /\ \A s \in DOMAIN sessions' : "state" \in DOMAIN sessions'[s]
      /\ DOMAIN emit' = EmitIds /\ \A e \in EmitIds : DOMAIN emit'[e] = EmitFields
      /\ \A e \in EmitIds : emit'[e].pc # "unsent" => e \in DOMAIN Msg'
      /\ DOMAIN decided' = SessionIds
  <2> DEFINE G == /\ scenario' \in Scenarios
                  /\ DOMAIN sessions' \subseteq SessionIds
                  /\ \A s \in DOMAIN sessions' : "state" \in DOMAIN sessions'[s]
                  /\ DOMAIN emit' = EmitIds /\ \A e \in EmitIds : DOMAIN emit'[e] = EmitFields
                  /\ \A e \in EmitIds : emit'[e].pc # "unsent" => e \in DOMAIN Msg'
                  /\ DOMAIN decided' = SessionIds
  <2>1. ASSUME NEW e \in EmitIds, Arrive(e) PROVE G
      BY <2>1 DEF Arrive, Shape, EmitFields, registryVars, notEmit, Msg
  <2>2. ASSUME NEW e \in EmitIds, ApplyEmit(e) PROVE G
      BY <2>2, ApplyEffect DEF Shape, Msg
  <2>3. ASSUME NEW e \in EmitIds, Plods(e) PROVE G
      BY <2>3, PlodsEffect DEF Shape, Msg, Pending
  <2>4. ASSUME NEW e \in EmitIds, EndRebind(e) \/ PickPane(e) \/ SwitchFocus(e) PROVE G
      BY <2>4, EndEffect DEF Shape, Msg
  <2>5. ASSUME NEW e \in EmitIds, DecideFocus(e) PROVE G
      BY <2>5, DecideEffect DEF Shape, Msg
  <2>6. ASSUME NEW t \in SessionIds, ProbeSession(t) PROVE G
    <3>1. sessions' = sessions \/ sessions' = [sessions EXCEPT ![t].state = Unknown]
        BY <2>6 DEF ProbeSession
    <3> QED
        BY <2>6, <3>1 DEF ProbeSession, Shape, notJanitor, Msg
  <2>7. CASE UNCHANGED focusPart
      BY <2>7 DEF focusPart, Shape, Msg
  <2> QED
      BY <2>1, <2>2, <2>3, <2>4, <2>5, <2>6, <2>7, FocusCases
<1>2. ConnShape'
  <2>1. ASSUME NEW k \in Sinks, ConnStep(k) \/ Hangup(k) PROVE ConnShape'
      BY <2>1, ConnEffect
  <2>2. ASSUME NEW e \in EmitIds, BindUnbound(e) PROVE ConnShape'
      BY <2>2, RebindEffect DEF Shape, ConnShape
  <2>3. CASE UNCHANGED busPart
      BY <2>3 DEF busPart, Shape, ConnShape
  <2> QED
      BY <2>1, <2>2, <2>3, BusCases
<1> QED
    BY <1>1, <1>2 DEF Shape, ConnShape

LEMMA ClosingStep == CInv /\ [Next]_vars => (ClosingKnows /\ ClosedLeavesNothing)'
<1> SUFFICES ASSUME CInv, [Next]_vars,
                    NEW k \in Sinks
             PROVE  /\ conn'[k].pc = "closing" => Writing(k)' \subseteq conn'[k].doomed
                    /\ conn'[k].pc = "closed" => k \notin DOMAIN subs' /\ Writing(k)' = {}
    BY DEF ClosingKnows, ClosedLeavesNothing, ConnAt, Writing
<1>0. /\ Shape
      /\ conn[k].pc = "closing" => Writing(k) \subseteq conn[k].doomed
      /\ conn[k].pc = "closed" => k \notin DOMAIN subs /\ Writing(k) = {}
    BY DEF CInv, ClosingKnows, ClosedLeavesNothing, ConnAt, Writing
<1>1. ASSUME ConnStep(k) \/ Hangup(k)
      PROVE  /\ conn'[k].pc = "closing" => Writing(k)' \subseteq conn'[k].doomed
             /\ conn'[k].pc = "closed" => k \notin DOMAIN subs' /\ Writing(k)' = {}
  <2>1. Approaches(k)
      BY <1>0, <1>1, ConnEffect
  <2> QED
      BY <1>0, <2>1 DEF Approaches
<1>2. ASSUME NEW c \in Sinks, c # k, ConnStep(c) \/ Hangup(c)
      PROVE  /\ conn'[k].pc = "closing" => Writing(k)' \subseteq conn'[k].doomed
             /\ conn'[k].pc = "closed" => k \notin DOMAIN subs' /\ Writing(k)' = {}
  <2>1. Spares(c)
      BY <1>0, <1>2, ConnEffect
  <2>2. /\ conn'[k] = conn[k] /\ (k \in DOMAIN subs' <=> k \in DOMAIN subs)
        /\ Writing(k)' \subseteq Writing(k)
      BY <1>2, <2>1 DEF Spares, OthersStay
  <2> QED
      BY <1>0, <2>2
<1>3. ASSUME NEW e \in EmitIds, BindUnbound(e)
      PROVE  UNCHANGED <<conn, subs>> /\ Writing(k)' = Writing(k)
    BY <1>0, <1>3, RebindEffect DEF Shape, Writing
<1>4. CASE UNCHANGED busPart
    BY <1>0, <1>4 DEF busPart, Writing
<1> QED
    BY <1>0, <1>1, <1>2, <1>3, <1>4, BusCases

LEMMA StickyStep ==
    ASSUME Shape, [Next]_vars, NEW i \in SubIds \ Unused, sub[i].bound # None
    PROVE  sub'[i].bound = sub[i].bound
<1>1. ASSUME NEW k \in Sinks, JoinBus(k) PROVE sub'[i] = sub[i]
  <2>1. PICK j \in Unused : \E mode, bound, pane : Subscribe(j, mode, bound, pane, k)
      BY <1>1 DEF JoinBus
  <2> QED
      BY <2>1 DEF Subscribe, Shape, Unused
<1>2. ASSUME NEW k \in Sinks, (ConnStep(k) /\ ~JoinBus(k)) \/ Hangup(k) PROVE sub' = sub
  <2>1. CASE Talks(k)
      BY <2>1, TalksEffect
  <2>2. CASE LeaveBus(k) \/ RemoveDoomed(k) \/ ForgetConn(k) \/ Hangup(k)
      BY <2>2 DEF LeaveBus, RemoveDoomed, ForgetConn, Hangup, Unsubscribe, Break, busVars
  <2> QED
      BY <1>2, <2>1, <2>2 DEF ConnStep, Talks
<1>3. ASSUME NEW e \in EmitIds, BindUnbound(e) PROVE sub'[i] = sub[i]
    BY <1>3, RebindEffect
<1>4. CASE UNCHANGED busPart
    BY <1>4 DEF busPart
<1> QED
    BY <1>1, <1>2, <1>3, <1>4, BusCases

-----------------------------------------------------------------------------
(* The types: what the locals of the goroutines hold, and where             *)

ToldSet     == [session : SessionIds \cup {None}, state : States]
StateFrames == [n : Nat, session : SessionIds \cup {None}, state : States]

\* The subscriptions there are, or have been.
Started == SubIds \ Unused

RegistryTyped ==
    /\ IsRegistry(sessions) /\ clock \in Nat /\ idle \subseteq DOMAIN sessions
    /\ decided \in [SessionIds -> States]
    /\ DOMAIN janitor = {"pc", "todo", "reaped"}
    /\ janitor.todo \cup janitor.reaped \subseteq SessionIds

PumpTyped(p) ==
    /\ DOMAIN p = {"pc", "hand", "snap"} /\ p.pc \in PumpPlaces
    /\ p.pc \in {"check", "announce", "resync", "push", "write"} => p.hand \in StateFrames
    /\ p.pc = "push" => p.snap \in ToldSet

BuffersTyped ==
    /\ published \in Nat
    /\ buf \in [SubIds -> Seq(StateFrames)] /\ \A i \in SubIds : Len(buf[i]) <= BufferSize
    /\ DOMAIN pump = SubIds /\ \A i \in SubIds : PumpTyped(pump[i])
    /\ view \in [Sinks -> ToldSet]

SubsTyped ==
    /\ registered \subseteq Started /\ sub \in [SubIds -> SubRecord]
    /\ DOMAIN subs \subseteq Sinks
    /\ \A k \in DOMAIN subs : subs[k] \in Started /\ sub[subs[k]].sink = k

EmitTyped(e) ==
    /\ {emit[e].from, emit[e].to} \subseteq States
    /\ emit[e].work \subseteq [sink : Sinks, sub : Started]
    /\ emit[e].sid \in SessionIds \cup {None} /\ emit[e].snap \in ToldSet

ConnTyped(k) ==
    /\ conn[k].todo \in Seq(Requests)
    /\ conn[k].sid \in SessionIds \cup {None} /\ conn[k].snap \in ToldSet
    /\ conn[k].pc \in {"resolve", "join", "record", "look", "tell", "leave"} => conn[k].todo # << >>
    /\ conn[k].pc \in {"resolve", "join", "record", "look", "tell"} => Accepted(Request(k))
    /\ conn[k].pc = "record" => conn[k].sub \in Started /\ sub[conn[k].sub].sink = k

TInv ==
    /\ Shape /\ RegistryTyped /\ BuffersTyped /\ SubsTyped
    /\ \A e \in EmitIds : EmitTyped(e)
    /\ \A k \in Sinks : ConnTyped(k)

\* Looking a session up, folding an emit in, reading for a snapshot, resolving.
LEMMA ApplyToType ==
    ASSUME NEW reg, IsRegistry(reg), NEW m \in EmitMessage, IsEvent(m.event), NEW time \in Nat
    PROVE  /\ IsRegistry(ApplyTo(reg, m, time)) /\ Lookup(reg, m.session, time) \in Session
           /\ DOMAIN ApplyTo(reg, m, time) = DOMAIN reg \cup {m.session}
<1> DEFINE s == Lookup(reg, m.session, time)
<1>1. s \in Session
    BY DEF IsRegistry, Lookup, FreshSession, Session, States, Unknown
<1>2. StateForEvent[m.event] \in {Working, NeedsAttention}
    BY DEF IsEvent, StateForEvent
<1>3. Fold(s, m, time) \in Session
    BY <1>1, <1>2 DEF Fold, Session, EmitMessage, States, Working, NeedsAttention
<1>4. m.session \in SessionIds
    BY DEF EmitMessage
<1> QED
    BY <1>1, <1>3, <1>4 DEF IsRegistry, ApplyTo

LEMMA SnapshotsType ==
    ASSUME IsRegistry(sessions), NEW bound \in SessionIds \cup {None}
    PROVE  Snapshots(bound) \subseteq ToldSet
<1>1. \A s \in DOMAIN sessions : s \in SessionIds /\ sessions[s].state \in States
    BY DEF IsRegistry, Session
<1>2. MostRecent(sessions) \subseteq DOMAIN sessions
    BY DEF MostRecent
<1>3. Unknown \in States
    BY DEF States
<1> QED
    BY <1>1, <1>2, <1>3 DEF Snapshots, ToldSet, Told, Untold

LEMMA ResolvedType ==
    ASSUME IsRegistry(sessions), NEW listing, NEW sid \in Resolved(listing)
    PROVE  sid \in SessionIds \cup {None}
<1> DEFINE candidates == {s \in DOMAIN sessions : listing.ok => sessions[s].pane \in listing.near}
<1>1. MostRecent([s \in candidates |-> sessions[s]]) \subseteq candidates
    BY DEF MostRecent
<1> QED
    BY <1>1 DEF Resolved, IsRegistry

\* The scenario's emits and requests are of the types the code reads.
LEMMA ScenarioType ==
    ASSUME scenario \in Scenarios
    PROVE  /\ \A e \in DOMAIN Msg : Msg[e] \in EmitMessage
           /\ \A k \in Sinks : Script[k] \in Seq(Requests)
BY ScenariosAssumption DEF Scenario, Msg, Script

-----------------------------------------------------------------------------
(* The steps again, by the other things they touch *)

registryPart == <<registryVars, decided, janitor>>

Sweeps == BeginSweep \/ EndGC \/ ListUnknown \/ FlagForUnknown \/ EndSweep

LEMMA RegistryCases ==
    ASSUME [Next]_vars
    PROVE  \/ \E e \in EmitIds : ApplyEmit(e) \/ DecideFocus(e)
           \/ \E s \in SessionIds : ProbeSession(s) \/ PublishUnknown(s) \/ GoIdle(s)
           \/ Sweeps
           \/ UNCHANGED registryPart
<1> USE DEF registryPart, registryVars
<1>1. ASSUME Environment
      PROVE  UNCHANGED registryPart \/ \E s \in SessionIds : GoIdle(s)
    BY <1>1 DEF Environment, Arrive, Hangup, ClosePane, notEmit, notConn
<1>2. ASSUME NEW k \in Sinks, ConnStep(k) PROVE UNCHANGED registryPart
    BY <1>2 DEF ConnStep, ReadSubscribe, ResolveForSubscribe, JoinBus, RecordSub,
                LookForSubscriber, TellSubscriber, ReadUnsubscribe, LeaveBus,
                ReadFocusRequest, RemoveDoomed, ForgetConn, notConn
<1>3. ASSUME NEW a \in asks, DecideAsked(a) \/ SwitchAsked(a) PROVE UNCHANGED registryPart
    BY <1>3 DEF DecideAsked, SwitchAsked
<1>4. ASSUME NEW i \in SubIds, PumpStep(i) PROVE UNCHANGED registryPart
    BY <1>4 DEF PumpStep, notPump
<1>5. ASSUME NEW e \in EmitIds, ServeEmit(e) \/ AfterEmit(e)
      PROVE  ApplyEmit(e) \/ DecideFocus(e) \/ UNCHANGED registryPart
    BY <1>5 DEF ServeEmit, AfterEmit, PublishChange, FlagForChange, CollectUnbound, ListForRebind,
                ResolveForRebind, BindUnbound, LookForRebound, TellRebound, EndRebind,
                PickPane, SwitchFocus, notEmit
<1>6. CASE UNCHANGED vars
    BY <1>6 DEF vars
<1> QED
    BY <1>1, <1>2, <1>3, <1>4, <1>5, <1>6 DEF Next, JanitorStep, Sweeps

buffersPart == <<buf, pump, published, view>>

LEMMA BuffersCases ==
    ASSUME [Next]_vars
    PROVE  \/ \E e \in EmitIds : PublishChange(e) \/ TellRebound(e)
           \/ \E s \in SessionIds : PublishUnknown(s)
           \/ \E k \in Sinks : JoinBus(k) \/ TellSubscriber(k)
           \/ \E i \in SubIds : PumpStep(i)
           \/ UNCHANGED buffersPart
<1> USE DEF buffersPart, busVars, RaiseFlag
<1>1. ASSUME Environment PROVE UNCHANGED buffersPart
    BY <1>1 DEF Environment, Arrive, Hangup, GoIdle, ClosePane, Break, notEmit, notConn
<1>2. ASSUME NEW k \in Sinks, ConnStep(k)
      PROVE  JoinBus(k) \/ TellSubscriber(k) \/ UNCHANGED buffersPart
    BY <1>2 DEF ConnStep, ReadSubscribe, ResolveForSubscribe, RecordSub, LookForSubscriber,
                ReadUnsubscribe, LeaveBus, ReadFocusRequest, RemoveDoomed, ForgetConn,
                Unsubscribe, notConn
<1>3. ASSUME NEW a \in asks, DecideAsked(a) \/ SwitchAsked(a) PROVE UNCHANGED buffersPart
    BY <1>3 DEF DecideAsked, SwitchAsked
<1>4. ASSUME BeginSweep \/ JanitorStep
      PROVE  UNCHANGED buffersPart \/ \E s \in SessionIds : PublishUnknown(s)
    BY <1>4 DEF BeginSweep, JanitorStep, EndGC, ListUnknown, FlagForUnknown, EndSweep, ProbeSession, notJanitor
<1>5. ASSUME NEW e \in EmitIds, ServeEmit(e) \/ AfterEmit(e)
      PROVE  PublishChange(e) \/ TellRebound(e) \/ UNCHANGED buffersPart
    BY <1>5 DEF ServeEmit, AfterEmit, ApplyEmit, FlagForChange, CollectUnbound, ListForRebind,
                ResolveForRebind, BindUnbound, Rebind, LookForRebound, EndRebind,
                DecideFocus, PickPane, SwitchFocus, notEmit
<1>6. CASE UNCHANGED vars
    BY <1>6 DEF vars
<1> QED
    BY <1>1, <1>2, <1>3, <1>4, <1>5, <1>6 DEF Next

LEMMA RegistryStep == TInv /\ [Next]_vars => RegistryTyped'
<1> SUFFICES ASSUME TInv, [Next]_vars PROVE RegistryTyped'
    OBVIOUS
<1>0. /\ Shape /\ RegistryTyped /\ \A e \in EmitIds : EmitTyped(e)
      /\ \A s \in DOMAIN sessions : sessions[s] \in Session
    BY DEF TInv, RegistryTyped, IsRegistry
<1>1. ASSUME NEW e \in EmitIds, ApplyEmit(e) PROVE RegistryTyped'
  <2>1. UNCHANGED <<decided, janitor>>
      BY <1>1 DEF ApplyEmit, notEmit
  <2>2. CASE IsEvent(Msg[e].event)
    <3>1. Msg[e] \in EmitMessage
        BY <1>0, <1>1, ScenarioType DEF Shape, ApplyEmit, EmitAt
    <3>2. clock + 1 \in Nat
        BY <1>0 DEF RegistryTyped
    <3>3. IsRegistry(sessions)
        BY <1>0 DEF RegistryTyped
    <3>5. /\ IsRegistry(ApplyTo(sessions, Msg[e], clock + 1))
          /\ DOMAIN ApplyTo(sessions, Msg[e], clock + 1) = DOMAIN sessions \cup {Msg[e].session}
        BY <2>2, <3>1, <3>2, <3>3, ApplyToType
    <3>4. /\ sessions' = ApplyTo(sessions, Msg[e], clock + 1) /\ clock' = clock + 1
          /\ idle' \subseteq idle
        BY <1>1, <2>2 DEF ApplyEmit
    <3> QED
        BY <1>0, <2>1, <3>2, <3>4, <3>5 DEF RegistryTyped
  <2>3. CASE ~IsEvent(Msg[e].event)
      BY <1>0, <1>1, <2>1, <2>3 DEF ApplyEmit, registryVars, RegistryTyped
  <2> QED
      BY <2>2, <2>3
<1>2. ASSUME NEW e \in EmitIds, DecideFocus(e) PROVE RegistryTyped'
  <2>1. decided' = decided \/ decided' = [decided EXCEPT ![Msg[e].session] = emit[e].to]
      BY <1>2 DEF DecideFocus
  <2>2. emit[e].to \in States
      BY <1>0 DEF EmitTyped
  <2>3. decided' \in [SessionIds -> States]
      BY <1>0, <2>1, <2>2 DEF RegistryTyped
  <2> QED
      BY <1>0, <1>2, <2>3 DEF DecideFocus, registryVars, notEmit, RegistryTyped
<1>3. ASSUME NEW s \in SessionIds, ProbeSession(s) PROVE RegistryTyped'
  <2>1. sessions' = sessions \/ sessions' = [sessions EXCEPT ![s].state = Unknown]
      BY <1>3 DEF ProbeSession
  <2>2. s \in DOMAIN sessions => [sessions[s] EXCEPT !.state = Unknown] \in Session
      BY <1>0 DEF Session, States
  <2>3. IsRegistry(sessions') /\ DOMAIN sessions' = DOMAIN sessions
      BY <1>0, <2>1, <2>2 DEF RegistryTyped, IsRegistry
  <2>4. PICK reaped \in SUBSET SessionIds :
            janitor' = [janitor EXCEPT !.todo = @ \ {s}, !.reaped = reaped]
    <3>1. janitor.reaped \cup {s} \in SUBSET SessionIds /\ janitor.reaped \in SUBSET SessionIds
        BY <1>0 DEF RegistryTyped
    <3> QED
        BY <1>3, <3>1 DEF ProbeSession
  <2>5. DOMAIN janitor' = {"pc", "todo", "reaped"} /\ janitor'.todo \cup janitor'.reaped \subseteq SessionIds
      BY <1>0, <2>4 DEF RegistryTyped
  <2> QED
      BY <1>0, <1>3, <2>3, <2>5 DEF ProbeSession, notJanitor, RegistryTyped
<1>4. ASSUME NEW s \in SessionIds, PublishUnknown(s) PROVE RegistryTyped'
    BY <1>0, <1>4 DEF PublishUnknown, registryVars, notJanitor, RegistryTyped
<1>5. ASSUME NEW s \in SessionIds, GoIdle(s) PROVE RegistryTyped'
    BY <1>0, <1>5 DEF GoIdle, RegistryTyped
<1>6. CASE Sweeps
    BY <1>0, <1>6 DEF Sweeps, BeginSweep, EndGC, ListUnknown, FlagForUnknown, EndSweep, registryVars, notJanitor,
                      RegistryTyped, Shape
<1>7. CASE UNCHANGED registryPart
    BY <1>0, <1>7 DEF registryPart, registryVars, RegistryTyped
<1> QED
    BY <1>1, <1>2, <1>3, <1>4, <1>5, <1>6, <1>7, RegistryCases

\* What each step of a pump does to it, and to what is in its buffer.
LEMMA PumpEffect ==
    ASSUME TInv, NEW i \in SubIds, PumpStep(i)
    PROVE  BuffersTyped' /\ pump[i].pc # "off" /\ pump'[i].pc # "off"
           /\ \A j \in SubIds : j # i => pump'[j] = pump[j]
<1>0. /\ BuffersTyped /\ PumpTyped(pump[i]) /\ RegistryTyped
      /\ sub[i] \in SubRecord
    BY DEF TInv, BuffersTyped, SubsTyped
<1> DEFINE Fine == /\ PumpTyped(pump'[i]) /\ pump[i].pc # "off" /\ pump'[i].pc # "off"
                   /\ DOMAIN pump' = SubIds /\ \A j \in SubIds : j # i => pump'[j] = pump[j]
<1>1. ASSUME Stop(i) \/ CheckOverflow(i) \/ Announce(i) \/ Push(i) PROVE Fine
  <2>1. /\ pump[i].pc # "off"
        /\ \/ pump' = [pump EXCEPT ![i].pc = "exited"]
           \/ /\ pump[i].pc \in {"check", "announce", "push"}
              /\ \E place \in {"announce", "write", "resync"} : pump' = [pump EXCEPT ![i].pc = place]
      BY <1>1 DEF Stop, CheckOverflow, Announce, Push, GoesTo, At
  <2>2. PICK place \in {"exited", "announce", "write", "resync"} : pump' = [pump EXCEPT ![i].pc = place]
      BY <2>1
  <2> QED
      BY <1>0, <2>1, <2>2 DEF PumpTyped, BuffersTyped, PumpPlaces
<1>2. ASSUME Receive(i) PROVE Fine /\ buf' \in [SubIds -> Seq(StateFrames)] /\ Len(buf'[i]) <= BufferSize
  <2>1. buf[i] \in Seq(StateFrames) /\ buf[i] # << >> /\ Len(buf[i]) <= BufferSize
      BY <1>0, <1>2 DEF Receive, BuffersTyped
  <2>2. /\ Head(buf[i]) \in StateFrames /\ Tail(buf[i]) \in Seq(StateFrames)
        /\ Len(Tail(buf[i])) <= BufferSize
      BY <2>1, BufferSizeAssumption
  <2>3. /\ pump' = [pump EXCEPT ![i] = [@ EXCEPT !.pc = "check", !.hand = Head(buf[i])]]
        /\ pump[i].pc = "select" /\ buf' = [buf EXCEPT ![i] = Tail(buf[i])]
      BY <1>2 DEF Receive, At
  <2> QED
      BY <1>0, <2>2, <2>3 DEF PumpTyped, BuffersTyped, PumpPlaces
<1>3. ASSUME NEW snap \in ToldSet, Resync(i, snap) PROVE Fine
  <2>1. /\ pump' = [pump EXCEPT ![i] = [@ EXCEPT !.pc = "push", !.snap = snap]]
        /\ pump[i].pc = "resync"
      BY <1>3 DEF Resync, At
  <2> QED
      BY <1>0, <2>1 DEF PumpTyped, BuffersTyped, PumpPlaces
<1>4. ASSUME Write(i) PROVE Fine
  <2>1. PICK place \in {"select", "exited"} :
            pump' = [pump EXCEPT ![i] = [@ EXCEPT !.pc = place, !.hand = NoFrame, !.snap = NoFrame]]
      BY <1>4 DEF Write
  <2> QED
      BY <1>0, <1>4, <2>1 DEF Write, At, PumpTyped, BuffersTyped, PumpPlaces
<1>5. ASSUME NEW k, NEW told, Tell(k, told), told.session \in SessionIds \cup {None}, told.state \in States
      PROVE  view' \in [Sinks -> ToldSet]
    BY <1>0, <1>5 DEF Tell, Told, ToldSet, BuffersTyped
<1>6. \A snap \in Snapshots(sub[i].bound) : snap \in ToldSet
    BY <1>0, SnapshotsType DEF SubRecord, RegistryTyped
<1>7. CASE (Stop(i) \/ CheckOverflow(i) \/ Announce(i)) /\ UNCHANGED view
    BY <1>0, <1>1, <1>7 DEF Stop, CheckOverflow, Announce, nonPumpVars, BuffersTyped
<1>8. CASE Receive(i) /\ UNCHANGED view
    BY <1>0, <1>2, <1>8 DEF Receive, nonPumpVars, BuffersTyped
<1>9. CASE \E snap \in Snapshots(sub[i].bound) : Resync(i, snap) /\ UNCHANGED view
    BY <1>0, <1>3, <1>6, <1>9 DEF Resync, nonPumpVars, BuffersTyped
<1>10. CASE Push(i) /\ Tell(sub[i].sink, pump[i].snap)
  <2>1. pump[i].snap \in ToldSet
      BY <1>0, <1>10 DEF Push, At, PumpTyped
  <2>2. view' \in [Sinks -> ToldSet]
      BY <1>5, <1>10, <2>1 DEF ToldSet
  <2> QED
      BY <1>0, <1>1, <1>10, <2>2 DEF Push, nonPumpVars, BuffersTyped
<1>11. CASE Write(i) /\ Tell(sub[i].sink, pump[i].hand)
  <2>1. pump[i].hand \in StateFrames
      BY <1>0, <1>11 DEF Write, At, PumpTyped
  <2>2. view' \in [Sinks -> ToldSet]
      BY <1>5, <1>11, <2>1 DEF StateFrames
  <2> QED
      BY <1>0, <1>4, <1>11, <2>2 DEF Write, nonPumpVars, BuffersTyped
<1> QED
    BY <1>7, <1>8, <1>9, <1>10, <1>11 DEF PumpStep

\* Publish keeps the buffers within their bound and touches no pump.
LEMMA PublishType ==
    ASSUME BuffersTyped, NEW s \in SessionIds, NEW state \in States,
           Publish([n |-> published + 1, session |-> s, state |-> state]), UNCHANGED view
    PROVE  BuffersTyped' /\ pump' = pump
<1> DEFINE frame == [n |-> published + 1, session |-> s, state |-> state]
<1>1. frame \in StateFrames
    BY DEF StateFrames, BuffersTyped
<1>2. \A i \in SubIds : /\ buf[i] \in Seq(StateFrames) /\ Len(buf[i]) <= BufferSize
                        /\ Append(buf[i], frame) \in Seq(StateFrames)
                        /\ Len(buf[i]) # BufferSize => Len(Append(buf[i], frame)) <= BufferSize
    BY <1>1, BufferSizeAssumption DEF BuffersTyped
<1> HIDE DEF frame
<1>3. /\ published' = published + 1 /\ pump' = pump
      /\ DOMAIN buf' = SubIds
      /\ buf' = [i \in SubIds |-> buf'[i]]
      /\ \A i \in SubIds : \/ buf'[i] = buf[i]
                           \/ Len(buf[i]) # BufferSize /\ buf'[i] = Append(buf[i], frame)
    BY DEF Publish, frame
<1>4. \A i \in SubIds : buf'[i] \in Seq(StateFrames) /\ Len(buf'[i]) <= BufferSize
    BY <1>2, <1>3
<1>5. buf' \in [SubIds -> Seq(StateFrames)]
    BY <1>3, <1>4
<1> QED
    BY <1>3, <1>4, <1>5 DEF BuffersTyped

LEMMA TellType ==
    ASSUME view \in [Sinks -> ToldSet], NEW k, NEW told \in ToldSet, Tell(k, told)
    PROVE  view' \in [Sinks -> ToldSet]
BY DEF Tell, Told, ToldSet

\* No pump goes back to where it has not been started.
LEMMA BuffersStep ==
    ASSUME TInv, [Next]_vars
    PROVE  BuffersTyped' /\ Started \subseteq Started'
<1>0. /\ Shape /\ BuffersTyped /\ RegistryTyped
      /\ \A e \in EmitIds : EmitTyped(e)
      /\ \A k \in Sinks : ConnTyped(k)
    BY DEF TInv
<1> DEFINE Goal == BuffersTyped' /\ \A i \in SubIds : pump[i].pc # "off" => pump'[i].pc # "off"
<1>1. ASSUME NEW e \in EmitIds, PublishChange(e) PROVE Goal
  <2>1. Msg[e].session \in SessionIds
      BY <1>0, <1>1, ScenarioType DEF Shape, PublishChange, EmitAt, EmitMessage
  <2>2. emit[e].to \in States
      BY <1>0 DEF EmitTyped
  <2> QED
      BY <1>0, <1>1, <2>1, <2>2, PublishType DEF PublishChange
<1>2. ASSUME NEW s \in SessionIds, PublishUnknown(s) PROVE Goal
  <2>1. Unknown \in States
      BY DEF States
  <2> QED
      BY <1>0, <1>2, <2>1, PublishType DEF PublishUnknown, notJanitor
<1>3. ASSUME NEW e \in EmitIds, TellRebound(e) PROVE Goal
  <2>1. view' \in [Sinks -> ToldSet]
      BY <1>0, <1>3, TellType DEF TellRebound, EmitTyped, BuffersTyped
  <2> QED
      BY <1>0, <1>3, <2>1 DEF TellRebound, busVars, BuffersTyped
<1>4. ASSUME NEW k \in Sinks, TellSubscriber(k) PROVE Goal
  <2>1. view' \in [Sinks -> ToldSet]
      BY <1>0, <1>4, TellType DEF TellSubscriber, ConnTyped, BuffersTyped
  <2> QED
      BY <1>0, <1>4, <2>1 DEF TellSubscriber, busVars, BuffersTyped
<1>5. ASSUME NEW k \in Sinks, JoinBus(k) PROVE Goal
  <2>1. PICK i \in Unused : \E mode, bound, pane : Subscribe(i, mode, bound, pane, k)
      BY <1>5 DEF JoinBus
  <2>2. /\ pump' = [pump EXCEPT ![i].pc = "select"] /\ UNCHANGED <<buf, published>>
      BY <2>1 DEF Subscribe
  <2>3. UNCHANGED view
      BY <1>5 DEF JoinBus
  <2>4. \A j \in SubIds : PumpTyped(pump'[j]) /\ (pump[j].pc # "off" => pump'[j].pc # "off")
      BY <1>0, <2>2 DEF BuffersTyped, PumpTyped, PumpPlaces
  <2> QED
      BY <1>0, <2>2, <2>3, <2>4 DEF BuffersTyped
<1>6. ASSUME NEW i \in SubIds, PumpStep(i) PROVE Goal
    BY <1>6, PumpEffect
<1>7. ASSUME UNCHANGED buffersPart PROVE Goal
    BY <1>0, <1>7 DEF buffersPart, BuffersTyped
<1>8. Goal
    BY <1>1, <1>2, <1>3, <1>4, <1>5, <1>6, <1>7, BuffersCases
<1> QED
    BY <1>8 DEF Started, Unused

\* The connections' and the rebindings' effect on the subscriptions.
LEMMA SubsStep ==
    ASSUME TInv, [Next]_vars
    PROVE  SubsTyped' /\ \A i \in Started : sub'[i] = [sub[i] EXCEPT !.bound = sub'[i].bound]
<1>0. /\ Shape /\ SubsTyped /\ RegistryTyped /\ Started \subseteq Started'
      /\ \A e \in EmitIds : EmitTyped(e)
      /\ \A k \in Sinks : ConnTyped(k)
      /\ \A i \in SubIds : sub[i] = [sub[i] EXCEPT !.bound = sub[i].bound]
    BY BuffersStep DEF TInv, SubsTyped, SubRecord
<1> DEFINE Goal == SubsTyped' /\ \A i \in Started : sub'[i] = [sub[i] EXCEPT !.bound = sub'[i].bound]
<1>1. ASSUME NEW e \in EmitIds, BindUnbound(e) PROVE Goal
  <2>1. sub' = sub \/ sub' = [sub EXCEPT ![emit[e].target.sub].bound = emit[e].sid]
      BY <1>1 DEF BindUnbound, Rebind
  <2>2. emit[e].sid \in SessionIds \cup {None}
      BY <1>0 DEF EmitTyped
  <2>3. sub' \in [SubIds -> SubRecord]
      BY <1>0, <2>1, <2>2 DEF SubsTyped, SubRecord
  <2>4. \A i \in SubIds : sub'[i] = [sub[i] EXCEPT !.bound = sub'[i].bound]
      BY <1>0, <2>1, <2>3 DEF SubsTyped, SubRecord
  <2>5. \A i \in SubIds : sub'[i].sink = sub[i].sink
      BY <1>0, <1>1, RebindEffect
  <2>6. UNCHANGED <<registered, subs>>
      BY <1>0, <1>1, RebindEffect
  <2> QED
      BY <1>0, <2>3, <2>4, <2>5, <2>6 DEF SubsTyped, Started
<1>2. ASSUME NEW k \in Sinks, JoinBus(k) PROVE Goal
  <2>1. PICK i \in Unused : Subscribe(i, ModeOf(Request(k)), conn[k].sid, Request(k).pane, k)
      BY <1>2 DEF JoinBus
  <2>2. /\ registered' = registered \cup {i} /\ subs' = subs /\ i \in SubIds
        /\ sub' = [sub EXCEPT ![i] = [mode |-> ModeOf(Request(k)), bound |-> conn[k].sid,
                                      pane |-> Request(k).pane, sink |-> k]]
        /\ pump' = [pump EXCEPT ![i].pc = "select"]
      BY <1>2, <2>1 DEF JoinBus, Subscribe, Unused
  <2>3. conn[k].todo # << >> /\ conn[k].todo \in Seq(Requests) /\ Accepted(Request(k))
      BY <1>0, <1>2 DEF JoinBus, ConnAt, ConnTyped
  <2>4. Request(k) \in Requests
      BY <2>3 DEF Request
  <2>5. ModeOf(Request(k)) \in Modes /\ Request(k).pane \in PaneIds \cup {None}
      BY <2>3, <2>4 DEF Accepted, Requests
  <2>6. conn[k].sid \in SessionIds \cup {None}
      BY <1>0 DEF ConnTyped
  <2>7. sub' \in [SubIds -> SubRecord] /\ \A j \in SubIds : j # i => sub'[j] = sub[j]
      BY <1>0, <2>2, <2>5, <2>6 DEF SubsTyped, SubRecord
  <2>8. pump'[i].pc # "off"
      BY <2>2 DEF TInv, BuffersTyped, PumpTyped
  <2> QED
      BY <1>0, <2>1, <2>2, <2>7, <2>8 DEF SubsTyped, Started, Unused
<1>3. ASSUME NEW k \in Sinks, Talks(k) \/ LeaveBus(k) \/ RemoveDoomed(k) \/ ForgetConn(k) \/ Hangup(k)
      PROVE  Goal
  <2>1. registered' \subseteq registered /\ sub' = sub
    <3>1. CASE Talks(k)
        BY <1>0, <3>1, TalksEffect
    <3>2. CASE LeaveBus(k) \/ RemoveDoomed(k) \/ ForgetConn(k) \/ Hangup(k)
        BY <3>2 DEF LeaveBus, RemoveDoomed, ForgetConn, Hangup, Unsubscribe, Break, busVars
    <3> QED
        BY <1>3, <3>1, <3>2
  <2>2. /\ DOMAIN subs' \subseteq Sinks
        /\ \A j \in DOMAIN subs' : subs'[j] \in Started /\ sub[subs'[j]].sink = j
    <3>1. CASE RecordSub(k)
      <4>1. conn[k].sub \in Started /\ sub[conn[k].sub].sink = k
          BY <1>0, <3>1 DEF RecordSub, ConnAt, ConnTyped
      <4> QED
          BY <1>0, <3>1, <4>1 DEF RecordSub, SubsTyped
    <3>2. CASE ReadUnsubscribe(k) \/ ForgetConn(k)
        BY <1>0, <3>2 DEF ReadUnsubscribe, ForgetConn, Without, SubsTyped
    <3>3. CASE ~(RecordSub(k) \/ ReadUnsubscribe(k) \/ ForgetConn(k))
      <4>1. subs' = subs
          BY <1>3, <3>3 DEF Talks, ReadSubscribe, ResolveForSubscribe, LookForSubscriber,
                            TellSubscriber, ReadFocusRequest, LeaveBus, RemoveDoomed, Hangup
      <4> QED
          BY <1>0, <4>1 DEF SubsTyped
    <3> QED
        BY <3>1, <3>2, <3>3
  <2> QED
      BY <1>0, <2>1, <2>2 DEF SubsTyped, Started
<1>4. CASE UNCHANGED busPart
    BY <1>0, <1>4 DEF busPart, SubsTyped, Started
<1>5. Goal
  <2>1. ASSUME NEW k \in Sinks, ConnStep(k) \/ Hangup(k) PROVE Goal
      BY <1>2, <1>3, <2>1 DEF ConnStep, Talks
  <2> QED
      BY <1>1, <1>4, <2>1, BusCases
<1> QED
    BY <1>5

\* An emit's step leaves the other emits alone.
LEMMA EmitsApart ==
    ASSUME Shape, NEW e \in EmitIds, [Next]_vars
    PROVE  \/ emit'[e] = emit[e]
           \/ Arrive(e) \/ ApplyEmit(e) \/ Plods(e) \/ EndRebind(e)
           \/ DecideFocus(e) \/ PickPane(e) \/ SwitchFocus(e)
<1>1. ASSUME NEW d \in EmitIds, d # e, Arrive(d) PROVE emit'[e] = emit[e]
    BY <1>1 DEF Arrive, Shape
<1>2. ASSUME NEW d \in EmitIds, d # e, ApplyEmit(d) PROVE emit'[e] = emit[e]
    BY <1>2, ApplyEffect
<1>3. ASSUME NEW d \in EmitIds, d # e, Plods(d) PROVE emit'[e] = emit[e]
    BY <1>3, PlodsEffect
<1>4. ASSUME NEW d \in EmitIds, d # e, EndRebind(d) \/ PickPane(d) \/ SwitchFocus(d)
      PROVE  emit'[e] = emit[e]
    BY <1>4, EndEffect
<1>5. ASSUME NEW d \in EmitIds, d # e, DecideFocus(d) PROVE emit'[e] = emit[e]
    BY <1>5, DecideEffect
<1>6. ASSUME (\E s \in SessionIds : ProbeSession(s)) \/ UNCHANGED focusPart
      PROVE  emit'[e] = emit[e]
    BY <1>6 DEF ProbeSession, notJanitor, focusPart
<1> QED
    BY <1>1, <1>2, <1>3, <1>4, <1>5, <1>6, FocusCases

\* The locals of an emit's goroutine.
LEMMA EmitTypeStep ==
    ASSUME TInv, [Next]_vars, NEW e \in EmitIds
    PROVE  EmitTyped(e)'
<1>0. /\ Shape /\ RegistryTyped /\ SubsTyped /\ EmitTyped(e)
      /\ DOMAIN emit[e] = EmitFields /\ DOMAIN emit = EmitIds
      /\ emit[e].work \subseteq [sink : Sinks, sub : Started']
    BY BuffersStep DEF TInv, Shape, EmitTyped
<1>1. ASSUME emit'[e] = emit[e] PROVE EmitTyped(e)'
    BY <1>0, <1>1 DEF EmitTyped, Started
<1>2. ASSUME emit'[e] = [NewEmit EXCEPT !.pc = "done"] PROVE EmitTyped(e)'
    BY <1>2 DEF EmitTyped, NewEmit, Untold, Told, ToldSet, States
<1>3. CASE Arrive(e) \/ PublishChange(e) \/ FlagForChange(e) \/ BindUnbound(e)
  <2>1. \E place : emit' = [emit EXCEPT ![e] = [@ EXCEPT !.pc = place]]
      BY <1>3 DEF Arrive, PublishChange, FlagForChange, BindUnbound
  <2> QED
      BY <1>0, <2>1 DEF EmitTyped, EmitFields, Started
<1>4. CASE ApplyEmit(e)
  <2> DEFINE found == Lookup(sessions, Msg[e].session, clock + 1)
             after == ApplyTo(sessions, Msg[e], clock + 1)
  <2>1. CASE IsEvent(Msg[e].event)
    <3>1. Msg[e] \in EmitMessage /\ Msg[e].session \in SessionIds
        BY <1>0, <1>4, ScenarioType DEF Shape, ApplyEmit, EmitAt, EmitMessage
    <3>2. IsRegistry(sessions) /\ clock + 1 \in Nat
        BY <1>0 DEF RegistryTyped
    <3>3. IsRegistry(after) /\ found \in Session /\ Msg[e].session \in DOMAIN after
      <4>1. PICK m \in EmitMessage : m = Msg[e] /\ IsEvent(m.event)
          BY <2>1, <3>1
      <4>2. /\ IsRegistry(ApplyTo(sessions, m, clock + 1)) /\ Lookup(sessions, m.session, clock + 1) \in Session
            /\ DOMAIN ApplyTo(sessions, m, clock + 1) = DOMAIN sessions \cup {m.session}
          BY <3>2, <4>1, ApplyToType
      <4> QED
          BY <4>1, <4>2
    <3>4. found.state \in States /\ after[Msg[e].session].state \in States
        BY <3>3 DEF IsRegistry, Session
    <3> HIDE DEF found, after
    <3>5. PICK place : emit' = [emit EXCEPT ![e] = [@ EXCEPT !.from = found.state,
                                  !.to = after[Msg[e].session].state, !.pc = place]]
        BY <1>4, <2>1 DEF ApplyEmit, found, after
    <3> QED
        BY <1>0, <3>4, <3>5 DEF EmitTyped, EmitFields, Started
  <2>2. CASE ~IsEvent(Msg[e].event)
      BY <1>0, <1>4, <2>2 DEF ApplyEmit, EmitTyped, EmitFields, Started
  <2> QED
      BY <2>1, <2>2
<1>5. CASE CollectUnbound(e)
  <2>1. PICK work \in SUBSET [sink : Sinks, sub : Started] :
            emit' = [emit EXCEPT ![e] = [@ EXCEPT !.work = work, !.pc = "rebind"]]
    <3> DEFINE unbound == {k \in DOMAIN subs : sub[subs[k]].mode = "auto" /\ sub[subs[k]].bound = None}
    <3>1. {[sink |-> k, sub |-> subs[k]] : k \in unbound} \in SUBSET [sink : Sinks, sub : Started]
        BY <1>0 DEF SubsTyped
    <3> QED
        BY <1>5, <3>1 DEF CollectUnbound
  <2> QED
      BY <1>0, <2>1, BuffersStep DEF EmitTyped, EmitFields, Started
<1>6. CASE ListForRebind(e)
  <2>1. PICK w \in emit[e].work : \E listing \in Listings(sub[w.sub].pane, Msg[e].socket) :
            emit' = [emit EXCEPT ![e].work = @ \ {w}, ![e].target = w,
                                 ![e].listing = listing, ![e].pc = "resolve"]
      BY <1>6 DEF ListForRebind
  <2>2. PICK listing : emit' = [emit EXCEPT ![e] = [@ EXCEPT !.work = emit[e].work \ {w}, !.target = w,
                                                            !.listing = listing, !.pc = "resolve"]]
      BY <2>1
  <2> QED
      BY <1>0, <2>2 DEF EmitTyped, EmitFields, Started
<1>7. CASE ResolveForRebind(e)
  <2>1. PICK sid \in SessionIds \cup {None} : \E place :
            emit' = [emit EXCEPT ![e] = [@ EXCEPT !.sid = sid, !.listing = NoListing, !.pc = place]]
    <3>1. PICK sid \in Resolved(emit[e].listing) :
              emit' = [emit EXCEPT ![e].sid = sid, ![e].listing = NoListing,
                                   ![e].pc = IF sid = None THEN "rebind" ELSE "bind"]
        BY <1>7 DEF ResolveForRebind
    <3>2. sid \in SessionIds \cup {None}
        BY <1>0, ResolvedType DEF RegistryTyped
    <3> QED
        BY <3>1, <3>2
  <2> QED
      BY <1>0, <2>1 DEF EmitTyped, EmitFields, Started
<1>8. CASE LookForRebound(e)
  <2>1. Snapshots(emit[e].sid) \subseteq ToldSet
      BY <1>0, SnapshotsType DEF RegistryTyped, EmitTyped
  <2>2. PICK snap \in ToldSet : emit' = [emit EXCEPT ![e] = [@ EXCEPT !.snap = snap, !.pc = "tell"]]
      BY <1>8, <2>1 DEF LookForRebound
  <2> QED
      BY <1>0, <2>2 DEF EmitTyped, EmitFields, Started
<1>9. CASE TellRebound(e)
    BY <1>0, <1>9 DEF TellRebound, EmitTyped, EmitFields, Started, Untold, Told, ToldSet, States
<1>10. CASE EndRebind(e) \/ DecideFocus(e) \/ PickPane(e) \/ SwitchFocus(e)
  <2>1. CASE Finished(e)
      BY <1>0, <1>2, <2>1 DEF Finished
  <2>2. CASE \E p, place : emit' = [emit EXCEPT ![e] = [@ EXCEPT !.pane = p, !.pc = place]]
      BY <1>0, <2>2 DEF EmitTyped, EmitFields, Started
  <2>3. CASE emit' = [emit EXCEPT ![e].pc = "focus"]
      BY <1>0, <2>3 DEF EmitTyped, EmitFields, Started
  <2>4. CASE EndRebind(e)
      BY <2>1, <2>3, <2>4 DEF EndRebind
  <2>5. CASE DecideFocus(e)
    <3>1. CASE sessions[Msg[e].session].state = emit[e].to
      <4>1. emit' = [emit EXCEPT ![e] = [@ EXCEPT !.pane = sessions[Msg[e].session].pane, !.pc = "pick"]]
          BY <2>5, <3>1 DEF DecideFocus
      <4> QED
          BY <2>2, <4>1
    <3>2. CASE sessions[Msg[e].session].state # emit[e].to
        BY <2>1, <2>5, <3>2 DEF DecideFocus
    <3> QED
        BY <3>1, <3>2
  <2>6. CASE PickPane(e)
    <3>1. CASE \E p : emit' = [emit EXCEPT ![e].pane = p, ![e].pc = "switch"]
      <4>1. PICK p : emit' = [emit EXCEPT ![e].pane = p, ![e].pc = "switch"]
          BY <3>1
      <4>2. emit' = [emit EXCEPT ![e] = [@ EXCEPT !.pane = p, !.pc = "switch"]]
          BY <4>1
      <4> QED
          BY <2>2, <4>2
    <3> QED
        BY <2>1, <2>6, <3>1 DEF PickPane
  <2>7. CASE SwitchFocus(e)
      BY <2>1, <2>7 DEF SwitchFocus
  <2> QED
      BY <1>10, <2>4, <2>5, <2>6, <2>7
<1> QED
    BY <1>1, <1>3, <1>4, <1>5, <1>6, <1>7, <1>8, <1>9, <1>10, <1>0, EmitsApart DEF Plods

\* The locals of a connection's goroutine.
LEMMA ConnTypeStep ==
    ASSUME TInv, [Next]_vars, NEW k \in Sinks
    PROVE  ConnTyped(k)'
<1>0. /\ Shape /\ RegistryTyped /\ SubsTyped /\ ConnTyped(k)
      /\ DOMAIN conn[k] = ConnFields /\ DOMAIN conn = Sinks
      /\ Started \subseteq Started' /\ \A i \in Started : sub'[i].sink = sub[i].sink
  <2>1. \A i \in Started : sub'[i].sink = [sub[i] EXCEPT !.bound = sub'[i].bound].sink /\ sub[i] \in SubRecord
      BY SubsStep DEF TInv, SubsTyped, Started
  <2> QED
      BY <2>1, BuffersStep DEF TInv, Shape, SubRecord
<1>1. ASSUME conn'[k] = conn[k] PROVE ConnTyped(k)'
    BY <1>0, <1>1 DEF ConnTyped, Request
<1>2. ASSUME conn[k].todo # << >>, conn'[k] = NextRequest(k) PROVE ConnTyped(k)'
  <2>1. Tail(conn[k].todo) \in Seq(Requests)
      BY <1>0, <1>2 DEF ConnTyped
  <2> QED
      BY <1>2, <2>1 DEF ConnTyped, NextRequest, NewConn, Untold, Told, ToldSet, States
<1>3. CASE ReadSubscribe(k)
  <2>1. conn[k].todo # << >> /\ Request(k).type = "subscribe"
      BY <1>3 DEF ReadSubscribe, Reads
  <2>2. Request(k) \in Requests
      BY <1>0, <2>1 DEF ConnTyped, Request
  <2>3. CASE conn' = [conn EXCEPT ![k] = NextRequest(k)]
      BY <1>0, <1>2, <2>1, <2>3
  <2>4. CASE ModeOf(Request(k)) = "auto" /\ \E listing :
                conn' = [conn EXCEPT ![k] = [@ EXCEPT !.listing = listing, !.pc = "resolve"]]
      BY <1>0, <2>1, <2>4 DEF ConnTyped, ConnFields, Request, Accepted, Modes
  <2>5. CASE /\ ModeOf(Request(k)) \in Modes \ {"auto"}
             /\ conn' = [conn EXCEPT ![k] = [@ EXCEPT !.sid = Request(k).session, !.pc = "join"]]
    <3>1. Request(k).session \in SessionIds \cup {None}
        BY <2>1, <2>2 DEF Requests
    <3> QED
        BY <1>0, <2>1, <2>5, <3>1 DEF ConnTyped, ConnFields, Request, Accepted
  <2> QED
      BY <1>3, <2>3, <2>4, <2>5 DEF ReadSubscribe
<1>4. CASE ResolveForSubscribe(k)
  <2>1. PICK sid \in SessionIds \cup {None} :
            conn' = [conn EXCEPT ![k] = [@ EXCEPT !.sid = sid, !.listing = NoListing, !.pc = "join"]]
      BY <1>0, <1>4, ResolvedType DEF ResolveForSubscribe, RegistryTyped
  <2> QED
      BY <1>0, <1>4, <2>1 DEF ResolveForSubscribe, ConnAt, ConnTyped, ConnFields, Request
<1>5. CASE JoinBus(k)
  <2>1. PICK i \in Unused : /\ Subscribe(i, ModeOf(Request(k)), conn[k].sid, Request(k).pane, k)
                            /\ conn' = [conn EXCEPT ![k] = [@ EXCEPT !.sub = i, !.pc = "record"]]
      BY <1>5 DEF JoinBus
  <2>2. i \in Started' /\ sub'[i].sink = k
      BY <2>1 DEF Subscribe, Started, Unused, TInv, BuffersTyped, PumpTyped, SubsTyped
  <2> QED
      BY <1>0, <1>5, <2>1, <2>2 DEF JoinBus, ConnAt, ConnTyped, ConnFields, Request
<1>6. CASE RecordSub(k)
    BY <1>0, <1>6 DEF RecordSub, ConnAt, ConnTyped, ConnFields, Request
<1>7. CASE LookForSubscriber(k)
  <2>1. Snapshots(conn[k].sid) \subseteq ToldSet
      BY <1>0, SnapshotsType DEF RegistryTyped, ConnTyped
  <2>2. PICK snap \in ToldSet : conn' = [conn EXCEPT ![k] = [@ EXCEPT !.snap = snap, !.pc = "tell"]]
      BY <1>7, <2>1 DEF LookForSubscriber
  <2> QED
      BY <1>0, <1>7, <2>2 DEF LookForSubscriber, ConnAt, ConnTyped, ConnFields, Request
<1>8. CASE TellSubscriber(k) \/ ReadFocusRequest(k)
    BY <1>0, <1>2, <1>8 DEF TellSubscriber, ReadFocusRequest, Reads, ConnAt, ConnTyped
<1>9. CASE ReadUnsubscribe(k)
  <2>1. CASE conn' = [conn EXCEPT ![k] = NextRequest(k)]
      BY <1>0, <1>2, <1>9, <2>1 DEF ReadUnsubscribe, Reads
  <2>2. CASE conn' = [conn EXCEPT ![k] = [@ EXCEPT !.sub = subs[k], !.pc = "leave"]]
      BY <1>0, <1>9, <2>2 DEF ReadUnsubscribe, Reads, ConnTyped, ConnFields, Request
  <2> QED
      BY <1>9, <2>1, <2>2 DEF ReadUnsubscribe
<1>10. CASE Hangup(k)
    BY <1>0, <1>10 DEF Hangup, NewConn, ConnTyped, Untold, Told, ToldSet, States
<1>11. CASE RemoveDoomed(k)
  <2>1. PICK i : conn' = [conn EXCEPT ![k].doomed = @ \ {i}]
      BY <1>11 DEF RemoveDoomed
  <2> QED
      BY <1>0, <1>11, <2>1 DEF RemoveDoomed, ConnAt, ConnTyped, ConnFields, Request
<1>12. CASE ForgetConn(k)
    BY <1>0, <1>12 DEF ForgetConn, ConnTyped, ConnFields, Request
<1>13. CASE LeaveBus(k)
    BY <1>0, <1>2, <1>13 DEF LeaveBus, ConnAt, ConnTyped
<1>14. ASSUME NEW c \in Sinks \ {k}, ConnStep(c) \/ Hangup(c) PROVE conn'[k] = conn[k]
    BY <1>0, <1>14, ConnEffect DEF Spares, OthersStay
<1>15. ASSUME (\E e \in EmitIds : BindUnbound(e)) \/ UNCHANGED busPart PROVE conn'[k] = conn[k]
    BY <1>15 DEF BindUnbound, notEmit, busPart
<1> QED
    BY <1>1, <1>3, <1>4, <1>5, <1>6, <1>7, <1>8, <1>9, <1>10, <1>11, <1>12, <1>13, <1>14, <1>15,
       BusCases DEF ConnStep

LEMMA TypeInit == Init => TInv
<1> SUFFICES ASSUME Init PROVE TInv
    OBVIOUS
<1>1. Shape
    BY FocusInit DEF FInv
<1>2. RegistryTyped /\ SubsTyped
    BY DEF Init, BusInit, RegistryTyped, SubsTyped, IsRegistry, SubRecord, Modes, States
<1>3. BuffersTyped
    BY BufferSizeAssumption
    DEF Init, BusInit, BuffersTyped, PumpTyped, PumpPlaces, ToldSet, Untold, Told, States
<1>4. \A e \in EmitIds : EmitTyped(e)
    BY DEF Init, EmitTyped, NewEmit, ToldSet, Untold, Told, States
<1>5. ASSUME NEW k \in Sinks PROVE ConnTyped(k)
  <2>1. conn[k] = [NewConn EXCEPT !.todo = Script[k]] /\ scenario \in Scenarios
      BY DEF Init
  <2>2. Script[k] \in Seq(Requests)
      BY <2>1, ScenarioType
  <2> QED
      BY <2>1, <2>2 DEF ConnTyped, NewConn, ToldSet, Untold, Told, States
<1> QED
    BY <1>1, <1>2, <1>3, <1>4, <1>5 DEF TInv

LEMMA TypeStep == TInv /\ [Next]_vars => TInv'
BY ShapeStep, RegistryStep, BuffersStep, SubsStep, EmitTypeStep, ConnTypeStep DEF TInv

LEMMA TypeInvariant == Spec => []TInv
BY TypeInit, TypeStep, PTL DEF Spec

-----------------------------------------------------------------------------
(* Unsubscribing *)

\* There is an unsubscribe before the first subscribe that Core accepts.
LeavesFirst(requests) ==
    \A y \in 1..Len(requests) :
        Accepted(requests[y])
            => \E z \in 1..Len(requests) : z < y /\ requests[z].type = "unsubscribe"

\* No activity subscribes again on a connection before it has unsubscribed.
OneSubscriptionAtATime ==
    \A play \in Scenarios : \A k \in Sinks : OneByOne(play.script[k])

\* What the bus has of a connection is what Core has of it, and what the
\* connection is just recording or removing.
Subscribed(k) ==
    /\ OneByOne(conn[k].todo)
    /\ ConnAt(k, "read") /\ k \in DOMAIN subs => LeavesFirst(conn[k].todo)
    /\ conn[k].pc \in {"resolve", "join", "record", "leave"} => k \notin DOMAIN subs
    /\ \A i \in Writing(k) : \/ conn[k].pc \in {"closing", "closed"}
                             \/ k \in DOMAIN subs /\ i = subs[k]
                             \/ conn[k].pc \in {"record", "leave"} /\ i = conn[k].sub

UInv == TInv /\ \A k \in Sinks : Subscribed(k)

\* A script that is not over, and what is left of it after a request.
LEMMA ScriptParts ==
    ASSUME NEW todo \in Seq(Requests), todo # << >>
    PROVE  /\ Len(todo) \in Nat /\ Len(Tail(todo)) = Len(todo) - 1 /\ Head(todo) = todo[1]
           /\ \A x \in 1..Len(Tail(todo)) : x + 1 \in 1..Len(todo) /\ Tail(todo)[x] = todo[x + 1]
           /\ \A z \in 1..Len(todo) :
                 z > 1 => z - 1 \in 1..Len(Tail(todo)) /\ Tail(todo)[z - 1] = todo[z]
           /\ 1 \in 1..Len(todo)
OBVIOUS

\* What handling a request leaves of the script.
LEMMA TailFacts ==
    ASSUME NEW todo \in Seq(Requests), todo # << >>, OneByOne(todo)
    PROVE  /\ OneByOne(Tail(todo))
           /\ LeavesFirst(todo) /\ Head(todo).type # "unsubscribe" => LeavesFirst(Tail(todo))
           /\ Accepted(Head(todo)) => LeavesFirst(Tail(todo)) /\ ~LeavesFirst(todo)
<1>1. /\ Len(todo) \in Nat /\ Len(Tail(todo)) = Len(todo) - 1 /\ Head(todo) = todo[1]
      /\ \A x \in 1..Len(Tail(todo)) : x + 1 \in 1..Len(todo) /\ Tail(todo)[x] = todo[x + 1]
      /\ \A z \in 1..Len(todo) : z > 1 => z - 1 \in 1..Len(Tail(todo)) /\ Tail(todo)[z - 1] = todo[z]
      /\ 1 \in 1..Len(todo)
    BY ScriptParts
<1>2. OneByOne(Tail(todo))
  <2> SUFFICES ASSUME NEW x \in 1..Len(Tail(todo)), NEW y \in 1..Len(Tail(todo)), x < y,
                      Accepted(todo[x + 1]), Accepted(todo[y + 1])
               PROVE  \E z \in 1..Len(Tail(todo)) : x < z /\ z < y /\ Tail(todo)[z].type = "unsubscribe"
      BY <1>1 DEF OneByOne
  <2>1. x + 1 < y + 1
      BY <1>1
  <2>2. PICK z \in 1..Len(todo) : x + 1 < z /\ z < y + 1 /\ todo[z].type = "unsubscribe"
      BY <1>1, <2>1 DEF OneByOne
  <2>3. z > 1 /\ x < z - 1 /\ z - 1 < y
      BY <1>1, <2>2
  <2> QED
      BY <1>1, <2>2, <2>3
<1>3. ASSUME LeavesFirst(todo), Head(todo).type # "unsubscribe"
      PROVE  LeavesFirst(Tail(todo))
  <2> SUFFICES ASSUME NEW y \in 1..Len(Tail(todo)), Accepted(todo[y + 1])
               PROVE  \E z \in 1..Len(Tail(todo)) : z < y /\ Tail(todo)[z].type = "unsubscribe"
      BY <1>1 DEF LeavesFirst
  <2>1. PICK z \in 1..Len(todo) : z < y + 1 /\ todo[z].type = "unsubscribe"
      BY <1>1, <1>3 DEF LeavesFirst
  <2>2. z > 1 /\ z - 1 < y
      BY <1>1, <1>3, <2>1
  <2> QED
      BY <1>1, <2>1, <2>2
<1>4. ASSUME Accepted(Head(todo))
      PROVE  LeavesFirst(Tail(todo))
  <2> SUFFICES ASSUME NEW y \in 1..Len(Tail(todo)), Accepted(todo[y + 1])
               PROVE  \E z \in 1..Len(Tail(todo)) : z < y /\ Tail(todo)[z].type = "unsubscribe"
      BY <1>1 DEF LeavesFirst
  <2>1. 1 < y + 1
      BY <1>1
  <2>2. PICK z \in 1..Len(todo) : 1 < z /\ z < y + 1 /\ todo[z].type = "unsubscribe"
      BY <1>1, <1>4, <2>1 DEF OneByOne
  <2>3. z > 1 /\ z - 1 < y
      BY <1>1, <2>2
  <2> QED
      BY <1>1, <2>2, <2>3
<1>5. ASSUME Accepted(Head(todo)), LeavesFirst(todo)
      PROVE  FALSE
    BY <1>1, <1>5 DEF LeavesFirst
<1> QED
    BY <1>2, <1>3, <1>4, <1>5

LEMMA SubscribedStep ==
    ASSUME TInv, NEW k \in Sinks, Subscribed(k), [Next]_vars
    PROVE  Subscribed(k)'
<1>0. /\ Shape /\ SubsTyped /\ ConnTyped(k) /\ conn[k].todo \in Seq(Requests)
      /\ DOMAIN conn[k] = ConnFields /\ DOMAIN conn = Sinks
    BY DEF TInv, Shape, ConnTyped
<1> USE DEF ConnAt, ConnFields
<1>1. CASE conn'[k] = conn[k] /\ Writing(k)' \subseteq Writing(k) /\ (k \in DOMAIN subs' <=> k \in DOMAIN subs)
           /\ (k \in DOMAIN subs => subs'[k] = subs[k])
    BY <1>1 DEF Subscribed
<1>2. CASE Talks(k)
  <2>1. Writing(k)' = Writing(k)
      BY <1>0, <1>2, TalksEffect DEF Writing
  <2>2. CASE ReadSubscribe(k)
    <3>1. conn[k].todo # << >> /\ conn[k].pc = "read" /\ Request(k).type = "subscribe" /\ subs' = subs
        BY <2>2 DEF ReadSubscribe, Reads
    <3>2. CASE ModeOf(Request(k)) \notin Modes
      <4>1. conn' = [conn EXCEPT ![k] = NextRequest(k)]
          BY <2>2, <3>2 DEF ReadSubscribe, Modes
      <4>2. conn'[k].todo = Tail(conn[k].todo) /\ conn'[k].pc = "read"
          BY <1>0, <4>1 DEF NextRequest, NewConn
      <4> QED
          BY <1>0, <2>1, <3>1, <4>2, TailFacts DEF Subscribed, Request
    <3>3. CASE ModeOf(Request(k)) \in Modes
      <4>1. /\ conn'[k].todo = conn[k].todo /\ conn'[k].pc \in {"resolve", "join"}
        <5>1. CASE ModeOf(Request(k)) = "auto"
          <6>1. PICK listing : conn' = [conn EXCEPT ![k].listing = listing, ![k].pc = "resolve"]
              BY <2>2, <5>1 DEF ReadSubscribe, Modes
          <6> QED
              BY <1>0, <6>1
        <5>2. CASE ModeOf(Request(k)) # "auto"
            BY <1>0, <2>2, <3>3, <5>2 DEF ReadSubscribe
        <5> QED
            BY <5>1, <5>2
      <4>2. k \notin DOMAIN subs
          BY <1>0, <3>1, <3>3, TailFacts DEF Subscribed, Accepted, Request
      <4> QED
          BY <2>1, <3>1, <4>1, <4>2 DEF Subscribed
    <3> QED
        BY <3>2, <3>3
  <2>3. CASE ResolveForSubscribe(k)
    <3>1. PICK sid : conn' = [conn EXCEPT ![k].sid = sid, ![k].listing = NoListing, ![k].pc = "join"]
        BY <2>3 DEF ResolveForSubscribe
    <3>2. conn'[k].todo = conn[k].todo /\ conn'[k].pc = "join" /\ conn[k].pc = "resolve" /\ subs' = subs
        BY <1>0, <2>3, <3>1 DEF ResolveForSubscribe
    <3> QED
        BY <2>1, <3>2 DEF Subscribed
  <2>4. CASE RecordSub(k)
    <3>1. /\ conn'[k].todo = conn[k].todo /\ conn[k].pc = "record" /\ conn'[k].pc = "look"
          /\ k \in DOMAIN subs' /\ subs'[k] = conn[k].sub
        BY <1>0, <2>4 DEF RecordSub
    <3> QED
        BY <2>1, <3>1 DEF Subscribed
  <2>5. CASE LookForSubscriber(k)
    <3>1. PICK snap : conn' = [conn EXCEPT ![k].snap = snap, ![k].pc = "tell"]
        BY <2>5 DEF LookForSubscriber
    <3>2. conn'[k].todo = conn[k].todo /\ conn'[k].pc = "tell" /\ conn[k].pc = "look" /\ subs' = subs
        BY <1>0, <2>5, <3>1 DEF LookForSubscriber
    <3> QED
        BY <2>1, <3>2 DEF Subscribed
  <2>6. CASE TellSubscriber(k)
    <3>1. conn'[k].todo = Tail(conn[k].todo) /\ conn'[k].pc = "read" /\ conn[k].pc = "tell" /\ subs' = subs
        BY <1>0, <2>6 DEF TellSubscriber, NextRequest, NewConn
    <3>2. conn[k].todo # << >> /\ Accepted(Head(conn[k].todo))
        BY <1>0, <3>1 DEF ConnTyped, Request
    <3> QED
        BY <1>0, <2>1, <3>1, <3>2, TailFacts DEF Subscribed
  <2>7. CASE ReadUnsubscribe(k)
    <3>1. k \notin DOMAIN subs' /\ conn[k].pc = "read" /\ conn[k].todo # << >>
        BY <2>7 DEF ReadUnsubscribe, Without, Reads
    <3>2. CASE k \in DOMAIN subs
      <4>1. conn'[k].todo = conn[k].todo /\ conn'[k].pc = "leave" /\ conn'[k].sub = subs[k]
          BY <1>0, <2>7, <3>2 DEF ReadUnsubscribe
      <4> QED
          BY <2>1, <3>1, <4>1 DEF Subscribed
    <3>3. CASE k \notin DOMAIN subs
      <4>1. conn'[k].todo = Tail(conn[k].todo) /\ conn'[k].pc = "read"
          BY <1>0, <2>7, <3>3 DEF ReadUnsubscribe, NextRequest, NewConn
      <4> QED
          BY <1>0, <2>1, <3>1, <3>3, <4>1, TailFacts DEF Subscribed
    <3> QED
        BY <3>2, <3>3
  <2>8. CASE ReadFocusRequest(k)
    <3>1. /\ conn'[k].todo = Tail(conn[k].todo) /\ conn'[k].pc = "read" /\ subs' = subs
          /\ conn[k].pc = "read" /\ conn[k].todo # << >> /\ Head(conn[k].todo).type = "focus_request"
        BY <1>0, <2>8 DEF ReadFocusRequest, NextRequest, NewConn, Reads, Request
    <3> QED
        BY <1>0, <2>1, <3>1, TailFacts DEF Subscribed
  <2> QED
      BY <1>2, <2>2, <2>3, <2>4, <2>5, <2>6, <2>7, <2>8 DEF Talks
<1>3. CASE JoinBus(k)
  <2>1. PICK i \in Unused : /\ \E mode, bound, pane : Subscribe(i, mode, bound, pane, k)
                            /\ conn' = [conn EXCEPT ![k].sub = i, ![k].pc = "record"]
      BY <1>3 DEF JoinBus
  <2>2. /\ conn'[k].todo = conn[k].todo /\ conn'[k].pc = "record" /\ conn'[k].sub = i
        /\ conn[k].pc = "join" /\ subs' = subs
      BY <1>0, <1>3, <2>1 DEF JoinBus
  <2>3. Writing(k) = {}
      BY <2>2 DEF Subscribed
  <2>4. \A j \in Writing(k)' : j = i
      BY <1>0, <2>1, <2>3 DEF Writing, Subscribe, SubsTyped, Started
  <2> QED
      BY <2>2, <2>4 DEF Subscribed
<1>4. CASE LeaveBus(k)
  <2>1. /\ conn'[k].todo = Tail(conn[k].todo) /\ conn'[k].pc = "read" /\ conn[k].pc = "leave" /\ subs' = subs
        /\ sub' = sub /\ registered' = registered \ {conn[k].sub}
      BY <1>0, <1>4 DEF LeaveBus, Unsubscribe, NextRequest, NewConn
  <2>2. Writing(k)' = {}
      BY <2>1 DEF Subscribed, Writing
  <2>3. conn[k].todo # << >>
      BY <1>0, <2>1 DEF ConnTyped
  <2> QED
      BY <1>0, <2>1, <2>2, <2>3, TailFacts DEF Subscribed
<1>5. CASE Hangup(k) \/ RemoveDoomed(k) \/ ForgetConn(k)
  <2>1. conn'[k].pc \in {"closing", "closed"}
    <3>1. CASE Hangup(k)
        BY <1>0, <3>1 DEF Hangup, NewConn
    <3>2. CASE RemoveDoomed(k)
      <4>1. PICK i : conn' = [conn EXCEPT ![k].doomed = @ \ {i}]
          BY <3>2 DEF RemoveDoomed
      <4> QED
          BY <1>0, <3>2, <4>1 DEF RemoveDoomed
    <3>3. CASE ForgetConn(k)
        BY <1>0, <3>3 DEF ForgetConn
    <3> QED
        BY <1>5, <3>1, <3>2, <3>3
  <2>2. OneByOne(conn'[k].todo)
    <3>1. CASE Hangup(k)
        BY <1>0, <3>1 DEF Hangup, NewConn, OneByOne
    <3>2. CASE RemoveDoomed(k)
      <4>1. PICK i : conn' = [conn EXCEPT ![k].doomed = @ \ {i}]
          BY <3>2 DEF RemoveDoomed
      <4> QED
          BY <1>0, <4>1 DEF Subscribed
    <3>3. CASE ForgetConn(k)
        BY <1>0, <3>3 DEF ForgetConn, Subscribed
    <3> QED
        BY <1>5, <3>1, <3>2, <3>3
  <2> QED
      BY <2>1, <2>2 DEF Subscribed
<1>6. ASSUME NEW c \in Sinks \ {k}, ConnStep(c) \/ Hangup(c) PROVE Subscribed(k)'
    BY <1>0, <1>1, <1>6, ConnEffect DEF Spares, OthersStay
<1>7. ASSUME NEW e \in EmitIds, BindUnbound(e) PROVE Subscribed(k)'
    BY <1>0, <1>1, <1>7, RebindEffect DEF Writing, Shape
<1>8. CASE UNCHANGED busPart
    BY <1>1, <1>8 DEF busPart, Writing
<1> QED
    BY <1>2, <1>3, <1>4, <1>5, <1>6, <1>7, <1>8, BusCases DEF ConnStep, Talks

-----------------------------------------------------------------------------
(* The window *)

\* All of a scenario's emits and activities are on one tmux server.
OneTmuxServer ==
    \A play \in Scenarios : \E server \in Sockets \cup {None} : OnServer(play, server)

Server == CHOOSE server \in Sockets \cup {None} : OnServer(scenario, server)

SameWindow(p, q) == {p, q} \subseteq DOMAIN Layout[Server] /\ Layout[Server][p] = Layout[Server][q]

TmuxAnswers == ~May("failing tmux")

\* A listing for an activity's pane names its window only; a session resolved
\* for it is in that window.
Sees(listing, pane) == pane # None => listing.ok /\ \A p \in listing.near : SameWindow(p, pane)

Fits(pane, s) ==
    pane # None /\ s # None =>
        s \in DOMAIN sessions /\ sessions[s].socket = Server /\ SameWindow(sessions[s].pane, pane)

\* Panes close and do nothing else.
LayoutShrinks ==
    /\ DOMAIN layout = DOMAIN Layout
    /\ \A socket \in DOMAIN layout : \A p \in DOMAIN layout[socket] :
          p \in DOMAIN Layout[socket] /\ layout[socket][p] = Layout[socket][p]

\* A session's pane is one that an emit of it has named.
SessionPlaced(s) ==
    /\ sessions[s].socket \in {None, Server}
    /\ sessions[s].pane # None =>
          /\ sessions[s].socket = Server
          /\ \E e \in DOMAIN Msg : Msg[e].session = s /\ Msg[e].pane = sessions[s].pane

EmitPlaced(e) ==
    LET i == emit[e].target.sub
    IN  /\ emit[e].pc \in {"resolve", "bind"} => i \in Started
        /\ emit[e].pc = "resolve" => Sees(emit[e].listing, sub[i].pane)
        /\ emit[e].pc = "bind" => Fits(sub[i].pane, emit[e].sid)

ConnPlaced(k) ==
    /\ conn[k].todo # << >> => Script[k] # << >>
    /\ SubscribesOn(conn[k].todo, Server)
    /\ conn[k].pc = "resolve" => Sees(conn[k].listing, Request(k).pane)
    /\ conn[k].pc = "join" /\ ModeOf(Request(k)) = "auto" => Fits(Request(k).pane, conn[k].sid)

SubPlaced(i) ==
    Script[sub[i].sink] # << >> /\ (sub[i].mode = "auto" => Fits(sub[i].pane, sub[i].bound))

Placed ==
    /\ LayoutShrinks
    /\ \A s \in DOMAIN sessions : SessionPlaced(s)
    /\ \A e \in EmitIds : EmitPlaced(e)
    /\ \A k \in Sinks : ConnPlaced(k)
    /\ \A i \in Started : SubPlaced(i)

\* All this unless tmux fails, when the code takes the most recent session.
WInv == TInv /\ (TmuxAnswers => Placed)

LEMMA ServerFacts ==
    ASSUME OneTmuxServer, scenario \in Scenarios
    PROVE  /\ OnServer(scenario, Server) /\ Server \in Sockets \cup {None}
           /\ DOMAIN Layout = Sockets \cup {None}
           /\ DOMAIN Layout[Server] \subseteq PaneIds
<1>1. /\ DOMAIN Layout = Sockets \cup {None}
      /\ \A socket \in DOMAIN Layout : DOMAIN Layout[socket] \subseteq PaneIds
    BY ScenariosAssumption DEF Scenario, Layout
<1>2. OnServer(scenario, Server) /\ Server \in Sockets \cup {None}
    BY DEF OneTmuxServer, Server
<1> QED
    BY <1>1, <1>2

LEMMA ScenarioStays == ASSUME Shape, [Next]_vars PROVE scenario' = scenario
<1>1. ASSUME NEW e \in EmitIds, Arrive(e) PROVE scenario' = scenario
    BY <1>1 DEF Arrive, notEmit
<1>2. ASSUME NEW s \in SessionIds, ProbeSession(s) PROVE scenario' = scenario
    BY <1>2 DEF ProbeSession, notJanitor
<1> QED
    BY <1>1, <1>2, FocusCases, ApplyEffect, PlodsEffect, EndEffect, DecideEffect DEF focusPart

\* What any step does to the panes.
OnlyClosing ==
    /\ DOMAIN layout' = DOMAIN layout
    /\ \A socket \in DOMAIN layout : \A p \in DOMAIN layout'[socket] :
          p \in DOMAIN layout[socket] /\ layout'[socket][p] = layout[socket][p]

LEMMA PanesClose == ASSUME [Next]_vars PROVE OnlyClosing
<1>1. CASE UNCHANGED layout
    BY <1>1 DEF OnlyClosing
<1>2. ASSUME NEW socket \in DOMAIN layout, NEW p \in PaneIds, ClosePane(socket, p)
      PROVE  OnlyClosing
  <2>1. layout' = [layout EXCEPT ![socket] = Without(layout[socket], p)]
      BY <1>2 DEF ClosePane
  <2>2. /\ DOMAIN Without(layout[socket], p) \subseteq DOMAIN layout[socket]
        /\ \A q \in DOMAIN Without(layout[socket], p) : Without(layout[socket], p)[q] = layout[socket][q]
      BY DEF Without
  <2>3. DOMAIN layout' = DOMAIN layout
      BY <2>1
  <2>4. ASSUME NEW s \in DOMAIN layout', NEW q \in DOMAIN layout'[s]
        PROVE  q \in DOMAIN layout[s] /\ layout'[s][q] = layout[s][q]
    <3>1. layout'[s] = IF s = socket THEN Without(layout[socket], p) ELSE layout[s]
        BY <2>1, <2>3
    <3> QED
        BY <2>2, <2>4, <3>1
  <2> QED
      BY <2>3, <2>4 DEF OnlyClosing
<1>3. ASSUME NEW k \in Sinks, ConnStep(k) PROVE UNCHANGED layout
    BY <1>3 DEF ConnStep, ReadSubscribe, ResolveForSubscribe, JoinBus, RecordSub,
                LookForSubscriber, TellSubscriber, ReadUnsubscribe, LeaveBus,
                ReadFocusRequest, RemoveDoomed, ForgetConn, notConn
<1>4. ASSUME NEW e \in EmitIds, Arrive(e) \/ ServeEmit(e) \/ AfterEmit(e) PROVE UNCHANGED layout
    BY <1>4 DEF Arrive, ServeEmit, AfterEmit, ApplyEmit, PublishChange, FlagForChange, CollectUnbound,
                ListForRebind, ResolveForRebind, BindUnbound, LookForRebound, TellRebound,
                EndRebind, DecideFocus, PickPane, SwitchFocus, notEmit
<1>5. ASSUME BeginSweep \/ JanitorStep PROVE UNCHANGED layout
    BY <1>5 DEF BeginSweep, JanitorStep, EndGC, ListUnknown, FlagForUnknown, EndSweep, ProbeSession,
                PublishUnknown, notJanitor
<1>6. ASSUME NEW i \in SubIds, PumpStep(i) PROVE UNCHANGED layout
    BY <1>6 DEF PumpStep, notPump
<1>7. ASSUME \/ \E k \in Sinks : Hangup(k)
             \/ \E s \in SessionIds : GoIdle(s)
             \/ \E a \in asks : DecideAsked(a) \/ SwitchAsked(a)
      PROVE  UNCHANGED layout
    BY <1>7 DEF Hangup, GoIdle, DecideAsked, SwitchAsked, notConn
<1> QED
    BY <1>1, <1>2, <1>3, <1>4, <1>5, <1>6, <1>7 DEF Next, Environment, vars

LEMMA LayoutStep ==
    ASSUME Shape, LayoutShrinks, [Next]_vars
    PROVE  LayoutShrinks'
BY ScenarioStays, PanesClose DEF LayoutShrinks, Layout, OnlyClosing

\* Folding an emit in leaves a session in its window.
LEMMA PlaceStep ==
    ASSUME TInv, OneTmuxServer, \A s \in DOMAIN sessions : SessionPlaced(s), [Next]_vars
    PROVE  /\ \A s \in DOMAIN sessions' : SessionPlaced(s)'
           /\ \A pane, s : Fits(pane, s) => Fits(pane, s)'
<1>0. /\ Shape /\ RegistryTyped /\ OnServer(scenario, Server)
      /\ UNCHANGED <<Layout, Server, Msg>>
      /\ DOMAIN Layout[Server] \subseteq PaneIds
    BY ServerFacts, ScenarioStays DEF TInv, Shape, Layout, Server, Msg
<1> DEFINE Moves(s) ==
        /\ s \in DOMAIN sessions' /\ SessionPlaced(s)'
        /\ s \in DOMAIN sessions /\ sessions[s].socket = Server /\ sessions[s].pane # None
              => /\ sessions'[s].socket = Server
                 /\ \/ sessions'[s].pane = sessions[s].pane
                    \/ SameWindow(sessions'[s].pane, sessions[s].pane)
<1>1. ASSUME NEW s \in DOMAIN sessions,
             s \in DOMAIN sessions', sessions'[s].pane = sessions[s].pane,
             sessions'[s].socket = sessions[s].socket
      PROVE  Moves(s)
    BY <1>0, <1>1 DEF SessionPlaced
<1>2. ASSUME NEW e \in EmitIds, ApplyEmit(e), NEW s \in DOMAIN sessions' \cup DOMAIN sessions
      PROVE  Moves(s)
  <2> DEFINE m     == Msg[e]
             found == Lookup(sessions, m.session, clock + 1)
  <2>1. CASE ~IsEvent(m.event)
    <3>1. sessions' = sessions
        BY <1>2, <2>1 DEF ApplyEmit, registryVars
    <3> QED
        BY <1>1, <1>2, <3>1
  <2>2. CASE IsEvent(m.event)
    <3>1. e \in DOMAIN Msg /\ m \in EmitMessage
        BY <1>0, <1>2, ScenarioType DEF Shape, ApplyEmit, EmitAt
    <3>2. sessions' = ApplyTo(sessions, m, clock + 1)
        BY <1>2, <2>2 DEF ApplyEmit
    <3>3. CASE s # m.session
      <4>1. s \in DOMAIN sessions /\ s \in DOMAIN sessions' /\ sessions'[s] = sessions[s]
          BY <1>2, <3>2, <3>3 DEF ApplyTo
      <4> QED
          BY <1>1, <4>1
    <3>4. CASE s = m.session
      <4>1. /\ s \in DOMAIN sessions'
            /\ sessions'[s] = found \/ sessions'[s] = Fold(found, m, clock + 1)
          BY <3>2, <3>4 DEF ApplyTo
      <4>2. /\ found.socket \in {None, Server}
            /\ found.pane # None =>
                  found.socket = Server /\ \E d \in DOMAIN Msg : Msg[d].session = s /\ Msg[d].pane = found.pane
            /\ s \in DOMAIN sessions => found = sessions[s]
          BY <3>4 DEF Lookup, FreshSession, SessionPlaced
      <4>3. m.socket = Server
          BY <1>0, <3>1 DEF OnServer, Msg
      <4>4. /\ sessions'[s].pane = found.pane \/ (m.pane # None /\ sessions'[s].pane = m.pane)
            /\ sessions'[s].socket = found.socket \/ sessions'[s].socket = Server
            /\ sessions'[s].pane # found.pane => sessions'[s].socket = Server
          BY <4>1, <4>2, <4>3 DEF Fold
      <4>5. SessionPlaced(s)'
          BY <1>0, <3>1, <3>4, <4>2, <4>4 DEF SessionPlaced
      <4>6. ASSUME s \in DOMAIN sessions, sessions[s].socket = Server, sessions[s].pane # None,
                   sessions'[s].pane # sessions[s].pane
            PROVE  SameWindow(sessions'[s].pane, sessions[s].pane)
        <5>1. PICK d \in DOMAIN Msg : Msg[d].session = s /\ Msg[d].pane = sessions[s].pane
            BY <4>2, <4>6
        <5>2. sessions'[s].pane = m.pane /\ m.pane # None
            BY <4>2, <4>4, <4>6
        <5> QED
            BY <1>0, <3>1, <3>4, <4>6, <5>1, <5>2 DEF OnServer, Msg, Layout, SameWindow
      <4> QED
          BY <4>1, <4>2, <4>4, <4>5, <4>6
    <3> QED
        BY <3>3, <3>4
  <2> QED
      BY <2>1, <2>2
<1>3. ASSUME NEW t \in SessionIds, ProbeSession(t), NEW s \in DOMAIN sessions' \cup DOMAIN sessions
      PROVE  Moves(s)
  <2>1. sessions' = sessions \/ sessions' = [sessions EXCEPT ![t].state = Unknown]
      BY <1>3 DEF ProbeSession
  <2>2. \A r \in DOMAIN sessions : sessions[r] \in Session
      BY <1>0 DEF RegistryTyped, IsRegistry
  <2>3. /\ s \in DOMAIN sessions /\ s \in DOMAIN sessions'
        /\ sessions'[s].pane = sessions[s].pane /\ sessions'[s].socket = sessions[s].socket
      BY <1>3, <2>1, <2>2 DEF Session
  <2> QED
      BY <1>1, <2>3
<1>4. ASSUME UNCHANGED sessions, NEW s \in DOMAIN sessions' \cup DOMAIN sessions
      PROVE  Moves(s)
    BY <1>1, <1>4
<1>5. ASSUME \/ \E e \in EmitIds : DecideFocus(e)
             \/ \E s \in SessionIds : PublishUnknown(s) \/ GoIdle(s)
             \/ Sweeps \/ UNCHANGED registryPart
      PROVE  UNCHANGED sessions
    BY <1>5 DEF DecideFocus, PublishUnknown, GoIdle, Sweeps, BeginSweep, EndGC, ListUnknown, FlagForUnknown, EndSweep,
                registryVars, registryPart
<1>6. ASSUME NEW s \in DOMAIN sessions' \cup DOMAIN sessions PROVE Moves(s)
    BY <1>2, <1>3, <1>4, <1>5, RegistryCases
<1>7. ASSUME NEW pane, NEW s, Fits(pane, s) PROVE Fits(pane, s)'
  <2> SUFFICES ASSUME pane # None, s # None PROVE Fits(pane, s)'
      BY DEF Fits
  <2>1. s \in DOMAIN sessions /\ sessions[s].socket = Server /\ SameWindow(sessions[s].pane, pane)
      BY <1>7 DEF Fits
  <2>2. sessions[s].pane # None
      BY <1>0, <2>1, NoPaneAssumption DEF SameWindow
  <2>3. /\ s \in DOMAIN sessions' /\ sessions'[s].socket = Server
        /\ sessions'[s].pane = sessions[s].pane \/ SameWindow(sessions'[s].pane, sessions[s].pane)
      BY <1>6, <2>1, <2>2
  <2> QED
      BY <1>0, <2>1, <2>3 DEF Fits, SameWindow
<1> QED
    BY <1>6, <1>7

\* A listing that does not fail shows the activity's window; a session resolved
\* from it is there.
LEMMA ListingSees ==
    ASSUME HasTmux, OneTmuxServer, TInv, LayoutShrinks, TmuxAnswers,
           NEW pane, NEW listing \in Listings(pane, Server)
    PROVE  Sees(listing, pane)
<1>1. Server \in DOMAIN layout
    BY ServerFacts DEF TInv, Shape, LayoutShrinks
<1>2. CASE pane = None
    BY <1>2 DEF Sees
<1>3. CASE pane # None
  <2> DEFINE near == {p \in DOMAIN layout[Server] :
                        pane \in DOMAIN layout[Server] /\ layout[Server][p] = layout[Server][pane]}
  <2>1. listing = [ok |-> TRUE, near |-> near]
      BY <1>3 DEF Listings, TmuxAnswers
  <2>2. \A p \in near : SameWindow(p, pane)
      BY <1>1 DEF LayoutShrinks, SameWindow
  <2> QED
      BY <2>1, <2>2 DEF Sees
<1> QED
    BY <1>2, <1>3

LEMMA ResolvesInWindow ==
    ASSUME OneTmuxServer, TInv, \A s \in DOMAIN sessions : SessionPlaced(s),
           NEW pane, NEW listing, Sees(listing, pane), NEW sid \in Resolved(listing)
    PROVE  Fits(pane, sid)
<1> SUFFICES ASSUME pane # None, sid # None PROVE Fits(pane, sid)
    BY DEF Fits
<1> DEFINE candidates == {s \in DOMAIN sessions : listing.ok => sessions[s].pane \in listing.near}
<1>1. MostRecent([s \in candidates |-> sessions[s]]) \subseteq candidates
    BY DEF MostRecent
<1>2. sid \in candidates
    BY <1>1 DEF Resolved
<1>3. SameWindow(sessions[sid].pane, pane)
    BY <1>2 DEF Sees
<1>4. sessions[sid].pane # None
    BY <1>3, ServerFacts, NoPaneAssumption DEF SameWindow, TInv, Shape
<1> QED
    BY <1>2, <1>3, <1>4 DEF Fits, SessionPlaced

LEMMA EmitPlacedStep ==
    ASSUME HasTmux, OneTmuxServer, TInv, Placed, TmuxAnswers, [Next]_vars, NEW e \in EmitIds
    PROVE  EmitPlaced(e)'
<1>0. /\ Shape /\ EmitPlaced(e) /\ EmitTyped(e)
      /\ DOMAIN emit[e] = EmitFields /\ DOMAIN emit = EmitIds
      /\ Started \subseteq Started' /\ \A i \in Started : sub'[i].pane = sub[i].pane
      /\ Server' = Server /\ Layout' = Layout
      /\ \A pane, s : Fits(pane, s) => Fits(pane, s)'
      /\ \A listing, pane : Sees(listing, pane) => Sees(listing, pane)'
  <2>2. \A listing, pane : Sees(listing, pane) => Sees(listing, pane)'
      BY ScenarioStays DEF TInv, Sees, SameWindow, Server, Layout
  <2>1. \A i \in Started : /\ sub'[i] = [sub[i] EXCEPT !.bound = sub'[i].bound]
                           /\ sub[i] \in SubRecord
      BY SubsStep DEF TInv, SubsTyped, Started
  <2> QED
      BY <2>1, <2>2, BuffersStep, ScenarioStays, PlaceStep DEF TInv, Shape, Placed, SubRecord, Server, Layout
<1> DEFINE Safe == \/ emit'[e] = emit[e]
                   \/ emit'[e].pc \notin {"resolve", "bind"}
<1>1. ASSUME emit'[e] = emit[e] PROVE EmitPlaced(e)'
    BY <1>0, <1>1 DEF EmitPlaced
<1>2. ASSUME emit'[e].pc \notin {"resolve", "bind"} PROVE EmitPlaced(e)'
    BY <1>2 DEF EmitPlaced
<1>3. CASE ListForRebind(e)
  <2>1. PICK w \in emit[e].work : \E listing \in Listings(sub[w.sub].pane, Msg[e].socket) :
            emit' = [emit EXCEPT ![e].work = @ \ {w}, ![e].target = w,
                                 ![e].listing = listing, ![e].pc = "resolve"]
      BY <1>3 DEF ListForRebind
  <2>2. Msg[e].socket = Server
      BY <1>0, <1>3, ServerFacts DEF Shape, ListForRebind, EmitAt, OnServer, Msg
  <2>3. PICK listing \in Listings(sub[w.sub].pane, Msg[e].socket) :
            emit' = [emit EXCEPT ![e].work = @ \ {w}, ![e].target = w,
                                 ![e].listing = listing, ![e].pc = "resolve"]
      BY <2>1
  <2>4. /\ emit'[e].pc = "resolve" /\ emit'[e].target = w /\ emit'[e].listing = listing
      BY <1>0, <2>3 DEF EmitFields
  <2>5. w.sub \in Started
      BY <1>0 DEF EmitTyped
  <2>6. Sees(listing, sub[w.sub].pane)
      BY <2>2, ListingSees DEF Placed
  <2> QED
      BY <1>0, <2>4, <2>5, <2>6 DEF EmitPlaced
<1>4. CASE ResolveForRebind(e)
  <2>1. PICK sid \in Resolved(emit[e].listing) :
            emit' = [emit EXCEPT ![e].sid = sid, ![e].listing = NoListing,
                                 ![e].pc = IF sid = None THEN "rebind" ELSE "bind"]
      BY <1>4 DEF ResolveForRebind
  <2>2. /\ emit'[e].target = emit[e].target /\ emit'[e].sid = sid /\ emit'[e].pc \in {"rebind", "bind"}
      BY <1>0, <2>1 DEF EmitFields
  <2>3. /\ emit[e].target.sub \in Started /\ Sees(emit[e].listing, sub[emit[e].target.sub].pane)
      BY <1>0, <1>4 DEF ResolveForRebind, EmitAt, EmitPlaced
  <2>4. Fits(sub[emit[e].target.sub].pane, sid)
      BY <2>3, ResolvesInWindow DEF Placed
  <2> QED
      BY <1>0, <2>2, <2>3, <2>4 DEF EmitPlaced
<1>5. CASE Arrive(e) \/ PublishChange(e) \/ FlagForChange(e) \/ BindUnbound(e) \/ TellRebound(e)
  <2>1. CASE Arrive(e)
      BY <1>0, <1>2, <2>1 DEF Arrive, EmitFields
  <2>2. CASE PublishChange(e) \/ FlagForChange(e)
    <3>1. PICK place \in {"flag", "collect"} : emit' = [emit EXCEPT ![e].pc = place]
        BY <2>2 DEF PublishChange, FlagForChange
    <3> QED
        BY <1>0, <1>2, <3>1 DEF EmitFields
  <2>3. CASE BindUnbound(e)
      BY <1>0, <1>2, <2>3 DEF BindUnbound, EmitFields
  <2>4. CASE TellRebound(e)
      BY <1>0, <1>2, <2>4 DEF TellRebound, EmitFields
  <2> QED
      BY <1>5, <2>1, <2>2, <2>3, <2>4
<1>6. CASE ApplyEmit(e)
  <2>1. CASE ~IsEvent(Msg[e].event)
      BY <1>0, <1>2, <1>6, <2>1 DEF ApplyEmit, EmitFields
  <2>2. CASE IsEvent(Msg[e].event)
    <3> DEFINE from == Lookup(sessions, Msg[e].session, clock + 1).state
               to   == ApplyTo(sessions, Msg[e], clock + 1)[Msg[e].session].state
    <3>1. PICK place \in {"publish", "collect"} :
              emit' = [emit EXCEPT ![e].from = from, ![e].to = to, ![e].pc = place]
        BY <1>6, <2>2 DEF ApplyEmit
    <3> QED
        BY <1>0, <1>2, <3>1 DEF EmitFields
  <2> QED
      BY <2>1, <2>2
<1>7. CASE CollectUnbound(e)
  <2>1. PICK work : emit' = [emit EXCEPT ![e].work = work, ![e].pc = "rebind"]
      BY <1>7 DEF CollectUnbound
  <2> QED
      BY <1>0, <1>2, <2>1 DEF EmitFields
<1>8. CASE LookForRebound(e)
  <2>1. PICK snap : emit' = [emit EXCEPT ![e].snap = snap, ![e].pc = "tell"]
      BY <1>8 DEF LookForRebound
  <2> QED
      BY <1>0, <1>2, <2>1 DEF EmitFields
<1>9. CASE EndRebind(e) \/ DecideFocus(e) \/ PickPane(e) \/ SwitchFocus(e)
  <2>1. CASE Finished(e)
      BY <1>0, <1>2, <2>1 DEF Finished, NewEmit
  <2>2. CASE \E p : \E place \in {"pick", "switch"} : emit' = [emit EXCEPT ![e].pane = p, ![e].pc = place]
      BY <1>0, <1>2, <2>2 DEF EmitFields
  <2>3. CASE emit' = [emit EXCEPT ![e].pc = "focus"]
      BY <1>0, <1>2, <2>3 DEF EmitFields
  <2>4. CASE EndRebind(e)
      BY <2>1, <2>3, <2>4 DEF EndRebind
  <2>5. CASE DecideFocus(e)
    <3>1. CASE sessions[Msg[e].session].state = emit[e].to
      <4>1. emit' = [emit EXCEPT ![e].pane = sessions[Msg[e].session].pane, ![e].pc = "pick"]
          BY <2>5, <3>1 DEF DecideFocus
      <4> QED
          BY <2>2, <4>1
    <3>2. CASE sessions[Msg[e].session].state # emit[e].to
        BY <2>1, <2>5, <3>2 DEF DecideFocus
    <3> QED
        BY <3>1, <3>2
  <2>6. CASE PickPane(e)
      BY <2>1, <2>2, <2>6 DEF PickPane
  <2>7. CASE SwitchFocus(e)
      BY <2>1, <2>7 DEF SwitchFocus
  <2> QED
      BY <1>9, <2>4, <2>5, <2>6, <2>7
<1> QED
    BY <1>0, <1>1, <1>3, <1>4, <1>5, <1>6, <1>7, <1>8, <1>9, EmitsApart DEF Plods

LEMMA SubscribesOnTail ==
    ASSUME NEW server, NEW todo \in Seq(Requests), todo # << >>, SubscribesOn(todo, server)
    PROVE  /\ SubscribesOn(Tail(todo), server)
           /\ Head(todo).type = "subscribe" => Head(todo).socket = server
<1>1. ASSUME NEW x \in 1..Len(Tail(todo)), Tail(todo)[x].type = "subscribe"
      PROVE  Tail(todo)[x].socket = server
  <2>1. x + 1 \in 1..Len(todo) /\ Tail(todo)[x] = todo[x + 1]
      BY ScriptParts
  <2> QED
      BY <1>1, <2>1 DEF SubscribesOn
<1>2. 1 \in 1..Len(todo) /\ Head(todo) = todo[1]
    BY ScriptParts
<1> QED
    BY <1>1, <1>2 DEF SubscribesOn

LEMMA ConnPlacedStep ==
    ASSUME HasTmux, OneTmuxServer, TInv, Placed, TmuxAnswers, [Next]_vars, NEW k \in Sinks
    PROVE  ConnPlaced(k)'
<1>0. /\ Shape /\ ConnPlaced(k) /\ ConnTyped(k) /\ conn[k].todo \in Seq(Requests)
      /\ DOMAIN conn[k] = ConnFields /\ DOMAIN conn = Sinks
      /\ Server' = Server /\ Script' = Script
      /\ \A pane, s : Fits(pane, s) => Fits(pane, s)'
      /\ \A listing, pane : Sees(listing, pane) => Sees(listing, pane)'
  <2>1. \A listing, pane : Sees(listing, pane) => Sees(listing, pane)'
      BY ScenarioStays DEF TInv, Sees, SameWindow, Server, Layout
  <2> QED
      BY <2>1, ScenarioStays, PlaceStep DEF TInv, Shape, Placed, ConnTyped, Server, Script
<1>1. ASSUME conn'[k] = conn[k] PROVE ConnPlaced(k)'
    BY <1>0, <1>1 DEF ConnPlaced, Request
<1>2. ASSUME conn'[k].todo = conn[k].todo, conn'[k].pc \notin {"resolve", "join"} PROVE ConnPlaced(k)'
    BY <1>0, <1>2 DEF ConnPlaced
<1>3. ASSUME conn[k].todo # << >>, conn' = [conn EXCEPT ![k] = NextRequest(k)] PROVE ConnPlaced(k)'
  <2>1. conn'[k].todo = Tail(conn[k].todo) /\ conn'[k].pc = "read"
      BY <1>0, <1>3 DEF NextRequest, NewConn
  <2>2. SubscribesOn(Tail(conn[k].todo), Server)
      BY <1>0, <1>3, SubscribesOnTail DEF ConnPlaced
  <2> QED
      BY <1>0, <1>3, <2>1, <2>2 DEF ConnPlaced
<1>4. CASE ReadSubscribe(k)
  <2>1. conn[k].todo # << >> /\ Request(k).type = "subscribe"
      BY <1>4 DEF ReadSubscribe, Reads
  <2>2. Request(k).socket = Server
      BY <1>0, <2>1, SubscribesOnTail DEF ConnPlaced, Request
  <2>3. CASE conn' = [conn EXCEPT ![k] = NextRequest(k)]
      BY <1>3, <2>1, <2>3
  <2>4. CASE \E listing \in Listings(Request(k).pane, Request(k).socket) :
                conn' = [conn EXCEPT ![k].listing = listing, ![k].pc = "resolve"]
    <3>1. PICK listing \in Listings(Request(k).pane, Server) :
                conn' = [conn EXCEPT ![k].listing = listing, ![k].pc = "resolve"]
        BY <2>2, <2>4
    <3>2. conn'[k].todo = conn[k].todo /\ conn'[k].listing = listing /\ conn'[k].pc = "resolve"
        BY <1>0, <3>1 DEF ConnFields
    <3>3. Sees(listing, Request(k).pane)
        BY ListingSees DEF Placed
    <3> QED
        BY <1>0, <3>2, <3>3 DEF ConnPlaced, Request
  <2>5. CASE /\ ModeOf(Request(k)) \in Modes \ {"auto"}
             /\ conn' = [conn EXCEPT ![k].sid = Request(k).session, ![k].pc = "join"]
    <3>1. conn'[k].todo = conn[k].todo /\ conn'[k].pc = "join"
        BY <1>0, <2>5 DEF ConnFields
    <3> QED
        BY <1>0, <2>5, <3>1 DEF ConnPlaced, Request
  <2> QED
      BY <1>4, <2>3, <2>4, <2>5 DEF ReadSubscribe
<1>5. CASE ResolveForSubscribe(k)
  <2>1. PICK sid \in Resolved(conn[k].listing) :
            conn' = [conn EXCEPT ![k].sid = sid, ![k].listing = NoListing, ![k].pc = "join"]
      BY <1>5 DEF ResolveForSubscribe
  <2>2. conn'[k].todo = conn[k].todo /\ conn'[k].sid = sid /\ conn'[k].pc = "join"
      BY <1>0, <2>1 DEF ConnFields
  <2>3. Sees(conn[k].listing, Request(k).pane)
      BY <1>0, <1>5 DEF ResolveForSubscribe, ConnAt, ConnPlaced
  <2>4. Fits(Request(k).pane, sid)
      BY <2>3, ResolvesInWindow DEF Placed
  <2> QED
      BY <1>0, <2>2, <2>4 DEF ConnPlaced, Request
<1>6. CASE TellSubscriber(k) \/ ReadFocusRequest(k) \/ LeaveBus(k)
    BY <1>0, <1>3, <1>6 DEF TellSubscriber, ReadFocusRequest, LeaveBus, Reads, ConnAt, ConnTyped
<1>7. CASE JoinBus(k)
  <2>1. PICK i : conn' = [conn EXCEPT ![k].sub = i, ![k].pc = "record"]
      BY <1>7 DEF JoinBus
  <2> QED
      BY <1>0, <1>2, <2>1 DEF ConnFields
<1>8. CASE RecordSub(k)
    BY <1>0, <1>2, <1>8 DEF RecordSub, ConnFields
<1>9. CASE LookForSubscriber(k)
  <2>1. PICK snap : conn' = [conn EXCEPT ![k].snap = snap, ![k].pc = "tell"]
      BY <1>9 DEF LookForSubscriber
  <2> QED
      BY <1>0, <1>2, <2>1 DEF ConnFields
<1>10. CASE ReadUnsubscribe(k)
  <2>1. CASE conn' = [conn EXCEPT ![k] = NextRequest(k)]
      BY <1>3, <1>10, <2>1 DEF ReadUnsubscribe, Reads
  <2>2. CASE conn' = [conn EXCEPT ![k].sub = subs[k], ![k].pc = "leave"]
      BY <1>0, <1>2, <2>2 DEF ConnFields
  <2> QED
      BY <1>10, <2>1, <2>2 DEF ReadUnsubscribe
<1>11. CASE Hangup(k)
  <2>1. conn'[k].todo = << >> /\ conn'[k].pc = "closing"
      BY <1>0, <1>11 DEF Hangup, NewConn
  <2>2. SubscribesOn(<< >>, Server)
      BY DEF SubscribesOn
  <2> QED
      BY <1>0, <2>1, <2>2 DEF ConnPlaced
<1>12. CASE RemoveDoomed(k)
  <2>1. PICK i : conn' = [conn EXCEPT ![k].doomed = @ \ {i}]
      BY <1>12 DEF RemoveDoomed
  <2> QED
      BY <1>0, <1>2, <1>12, <2>1 DEF RemoveDoomed, ConnAt, ConnFields
<1>13. CASE ForgetConn(k)
    BY <1>0, <1>2, <1>13 DEF ForgetConn, ConnFields
<1>14. ASSUME NEW c \in Sinks \ {k}, ConnStep(c) \/ Hangup(c) PROVE conn'[k] = conn[k]
    BY <1>0, <1>14, ConnEffect DEF Spares, OthersStay
<1>15. ASSUME (\E e \in EmitIds : BindUnbound(e)) \/ UNCHANGED busPart PROVE conn'[k] = conn[k]
    BY <1>15 DEF BindUnbound, notEmit, busPart
<1> QED
    BY <1>1, <1>4, <1>5, <1>6, <1>7, <1>8, <1>9, <1>10, <1>11, <1>12, <1>13, <1>14, <1>15,
       BusCases DEF ConnStep

LEMMA SubPlacedStep ==
    ASSUME HasTmux, OneTmuxServer, TInv, Placed, TmuxAnswers, [Next]_vars, NEW i \in Started'
    PROVE  SubPlaced(i)'
<1>0. /\ Shape /\ SubsTyped /\ Script' = Script /\ i \in SubIds
      /\ \A pane, s : Fits(pane, s) => Fits(pane, s)'
    BY ScenarioStays, PlaceStep DEF TInv, Shape, Placed, Script, Started
<1>1. ASSUME i \in Started, sub'[i] = sub[i] PROVE SubPlaced(i)'
    BY <1>0, <1>1 DEF Placed, SubPlaced
<1>2. ASSUME NEW k \in Sinks, JoinBus(k), i \notin Started PROVE SubPlaced(i)'
  <2>1. PICK mode, bound, pane :
            mode = ModeOf(Request(k)) /\ bound = conn[k].sid /\ pane = Request(k).pane
      OBVIOUS
  <2>2. Script[k] # << >> /\ (mode = "auto" => Fits(pane, bound))
      BY <1>2, <2>1 DEF JoinBus, ConnAt, Placed, ConnPlaced, TInv, ConnTyped
  <2>3. PICK j \in Unused : Subscribe(j, mode, bound, pane, k)
      BY <1>2, <2>1 DEF JoinBus
  <2>4. /\ sub' = [sub EXCEPT ![j] = [mode |-> mode, bound |-> bound, pane |-> pane, sink |-> k]]
        /\ pump' = [pump EXCEPT ![j].pc = "select"]
      BY <2>3 DEF Subscribe
  <2>5. i = j
      BY <1>0, <1>2, <2>4 DEF Started, Unused, TInv, BuffersTyped
  <2>7. mode = "auto" => Fits(pane, bound)'
      BY <1>0, <2>2
  <2>6. sub'[i].mode = mode /\ sub'[i].bound = bound /\ sub'[i].pane = pane /\ sub'[i].sink = k
      BY <1>0, <2>4, <2>5 DEF Shape
  <2>8. sub'[i].mode = "auto" => Fits(sub[i].pane, sub[i].bound)'
      BY <2>6, <2>7
  <2> QED
      BY <1>0, <2>2, <2>6, <2>8 DEF SubPlaced
<1>3. ASSUME ~\E k \in Sinks : JoinBus(k) PROVE i \in Started
  <2>1. ASSUME NEW j \in SubIds, PumpStep(j) PROVE i \in Started
      BY <1>0, <2>1, PumpEffect DEF Started, Unused
  <2>2. ASSUME UNCHANGED pump PROVE i \in Started
      BY <2>2 DEF Started, Unused
  <2>3. ASSUME \/ \E e \in EmitIds : PublishChange(e) \/ TellRebound(e)
               \/ \E s \in SessionIds : PublishUnknown(s)
               \/ \E k \in Sinks : TellSubscriber(k)
               \/ UNCHANGED buffersPart
        PROVE  UNCHANGED pump
      BY <2>3 DEF PublishChange, TellRebound, PublishUnknown, TellSubscriber, Publish, busVars, buffersPart
  <2> QED
      BY <1>3, <2>1, <2>2, <2>3, BuffersCases
<1>4. ASSUME NEW e \in EmitIds, BindUnbound(e), i \in Started PROVE SubPlaced(i)'
  <2> DEFINE j == emit[e].target.sub
  <2>1. j \in Started /\ Fits(sub[j].pane, emit[e].sid)
      BY <1>4 DEF BindUnbound, EmitAt, Placed, EmitPlaced
  <2>2. sub' = sub \/ sub' = [sub EXCEPT ![j].bound = emit[e].sid]
      BY <1>4 DEF BindUnbound, Rebind
  <2>3. CASE i = j /\ sub' = [sub EXCEPT ![j].bound = emit[e].sid]
    <3>1. sub'[i].pane = sub[j].pane /\ sub'[i].bound = emit[e].sid /\ sub'[i].sink = sub[i].sink
        BY <1>0, <2>3 DEF Shape, SubFields
    <3>2. Script[sub[i].sink] # << >>
        BY <1>4 DEF Placed, SubPlaced
    <3> QED
        BY <1>0, <2>1, <3>1, <3>2 DEF SubPlaced
  <2>4. CASE i # j \/ sub' = sub
      BY <1>0, <1>1, <1>4, <2>2, <2>4 DEF Shape
  <2> QED
      BY <2>2, <2>3, <2>4
<1>5. ASSUME NEW k \in Sinks, ConnStep(k) \/ Hangup(k), i \in Started PROVE sub'[i] = sub[i]
  <2>1. CASE Talks(k)
      BY <1>0, <2>1, TalksEffect
  <2>2. CASE LeaveBus(k) \/ RemoveDoomed(k) \/ ForgetConn(k) \/ Hangup(k)
      BY <2>2 DEF LeaveBus, RemoveDoomed, ForgetConn, Hangup, Unsubscribe, Break, busVars
  <2>3. CASE JoinBus(k)
    <3>1. PICK j \in Unused : \E mode, bound, pane : Subscribe(j, mode, bound, pane, k)
        BY <2>3 DEF JoinBus
    <3> QED
        BY <1>0, <1>5, <3>1 DEF Subscribe, Shape, Started
  <2> QED
      BY <1>5, <2>1, <2>2, <2>3 DEF ConnStep, Talks
<1>6. ASSUME UNCHANGED busPart PROVE sub'[i] = sub[i]
    BY <1>6 DEF busPart
<1>7. ASSUME i \in Started PROVE SubPlaced(i)'
    BY <1>1, <1>4, <1>5, <1>6, <1>7, BusCases
<1> QED
    BY <1>2, <1>3, <1>7

\* The variables have the shapes the code gives them, and no buffer outgrows its
\* bound.
THEOREM TypeCorrect == Spec => []TypeOK
<1>1. TInv => TypeOK
  <2> SUFFICES ASSUME TInv PROVE TypeOK
      OBVIOUS
  <2>1. /\ RegistryTyped /\ BuffersTyped /\ SubsTyped /\ \A e \in EmitIds : EmitTyped(e)
        /\ \A i \in SubIds : PumpTyped(pump[i])
      BY DEF TInv, BuffersTyped
  <2> QED
      BY <2>1 DEF RegistryTyped, BuffersTyped, SubsTyped, EmitTyped, PumpTyped, Started, ToldSet, TypeOK
<1> QED
    BY <1>1, TypeInvariant, PTL

\* Where no activity subscribes again before it has unsubscribed, a connection
\* that Core holds no subscription for is served by none.
THEOREM UnsubscribeEnds ==
    ASSUME OneSubscriptionAtATime
    PROVE  Spec => []UnsubscribeStopsDelivery
<1>1. Init => UInv
  <2> SUFFICES ASSUME Init PROVE UInv
      OBVIOUS
  <2>1. ASSUME NEW k \in Sinks PROVE Subscribed(k)
    <3>1. OneByOne(Script[k])
        BY DEF Init, OneSubscriptionAtATime, Script
    <3> QED
        BY <3>1 DEF Init, BusInit, NewConn, Subscribed, ConnAt, Writing
  <2> QED
      BY <2>1, TypeInit DEF UInv
<1>2. UInv /\ [Next]_vars => UInv'
    BY TypeStep, SubscribedStep DEF UInv
<1>3. UInv => UnsubscribeStopsDelivery
    BY DEF UInv, Subscribed, UnsubscribeStopsDelivery, ConnAt, Writing
<1> QED
    BY <1>1, <1>2, <1>3, PTL DEF Spec

\* Where everything is on one tmux server and a session stays in its window, an
\* auto activity is bound to a session of its window only, unless tmux fails:
\* whatever is resolved from a listing already made when another session comes
\* or a pane closes.
THEOREM AutoBindsInWindow ==
    ASSUME HasTmux, OneTmuxServer
    PROVE  Spec => []BoundInWindow
<1>1. Init => WInv
  <2> SUFFICES ASSUME Init PROVE Placed
      BY TypeInit DEF WInv
  <2>1. OnServer(scenario, Server) /\ layout = Layout /\ Started = {} /\ DOMAIN sessions = {}
      BY ServerFacts DEF Init, BusInit, Started, Unused
  <2>2. ASSUME NEW k \in Sinks PROVE ConnPlaced(k)
      BY <2>1 DEF Init, NewConn, ConnPlaced, OnServer, Script
  <2>3. ASSUME NEW e \in EmitIds PROVE EmitPlaced(e)
      BY DEF Init, NewEmit, EmitPlaced
  <2> QED
      BY <2>1, <2>2, <2>3 DEF Placed, LayoutShrinks
<1>2. WInv /\ [Next]_vars => WInv'
  <2> SUFFICES ASSUME TInv, [Next]_vars, TmuxAnswers', TmuxAnswers => Placed PROVE Placed'
      BY TypeStep DEF WInv
  <2>1. Placed /\ TmuxAnswers /\ Shape
      BY ScenarioStays DEF TInv, TmuxAnswers, May
  <2>2. LayoutShrinks' /\ \A s \in DOMAIN sessions' : SessionPlaced(s)'
      BY <2>1, LayoutStep, PlaceStep DEF Placed
  <2>3. \A e \in EmitIds : EmitPlaced(e)'
      BY <2>1, EmitPlacedStep
  <2>4. \A k \in Sinks : ConnPlaced(k)'
      BY <2>1, ConnPlacedStep
  <2>5. \A i \in Started' : SubPlaced(i)'
      BY <2>1, SubPlacedStep
  <2> QED
      BY <2>2, <2>3, <2>4, <2>5 DEF Placed
<1>3. WInv => BoundInWindow
  <2> SUFFICES ASSUME WInv, TmuxAnswers, NEW i \in registered,
                      sub[i].mode = "auto", sub[i].bound # None, sub[i].pane # None
               PROVE  LET home == Script[sub[i].sink][1].socket
                          rec  == sessions[sub[i].bound]
                      IN  rec.socket = home /\ {rec.pane, sub[i].pane} \subseteq DOMAIN Layout[home]
                          /\ Layout[home][rec.pane] = Layout[home][sub[i].pane]
      BY DEF BoundInWindow, TmuxAnswers
  <2>1. SubPlaced(i) /\ sub[i].sink \in Sinks /\ scenario \in Scenarios
      BY DEF WInv, TInv, Shape, Placed, SubsTyped, Started, SubRecord
  <2>2. /\ Script[sub[i].sink] \in Seq(Requests) /\ Script[sub[i].sink] # << >>
        /\ Fits(sub[i].pane, sub[i].bound)
      BY <2>1, ScenarioType DEF SubPlaced
  <2>3. 1 \in 1..Len(Script[sub[i].sink])
      BY <2>2, ScriptParts
  <2>4. Script[sub[i].sink][1].socket = Server
      BY <2>1, <2>2, <2>3, ServerFacts DEF OnServer, SubscribesOn, Script
  <2> QED
      BY <2>2, <2>4 DEF Fits, SameWindow
<1> QED
    BY <1>1, <1>2, <1>3, PTL DEF Spec

-----------------------------------------------------------------------------
(* The bus: the handler's goroutines call it as BusProofs has it            *)

\* What a connection is about to remove from the bus was subscribed.
Leaving(k) ==
    /\ conn[k].pc = "leave"   => conn[k].sub \in Started
    /\ conn[k].pc = "closing" => conn[k].doomed \subseteq Started

BInv == TInv /\ BusInv /\ \A k \in Sinks : Leaving(k)

\* A change of a session's state is published as a frame.
LEMMA PublishesFrame ==
    ASSUME TInv, NEW s \in SessionIds, NEW state \in States,
           Publish([n |-> published + 1, session |-> s, state |-> state])
    PROVE  \E f \in AnyFrame : Publish(f)
<1>1. published + 1 \in Nat
    BY DEF TInv, BuffersTyped
<1> QED
    BY <1>1 DEF AnyFrame

\* A rebinding is of a subscription there is, or of none.
LEMMA RebindsStarted ==
    ASSUME TInv, NEW e \in EmitIds, BindUnbound(e)
    PROVE  [BusNext]_busVars
<1> DEFINE i == emit[e].target.sub
<1>1. Rebind(i, emit[e].sid) /\ emit[e].sid \in SessionIds \cup {None}
    BY DEF BindUnbound, TInv, EmitTyped
<1>2. CASE i \in registered
  <2>1. i \in SubIds \ Unused
      BY <1>2 DEF TInv, SubsTyped, Started
  <2> QED
      BY <1>1, <2>1 DEF Calls, BusNext
<1>3. CASE i \notin registered
    BY <1>1, <1>3 DEF Rebind, busVars
<1> QED
    BY <1>2, <1>3

\* A subscription has a mode and a pane the bus knows.
LEMMA JoinIsCall ==
    ASSUME TInv, NEW k \in Sinks, JoinBus(k)
    PROVE  Calls
<1>1. PICK i \in Unused : Subscribe(i, ModeOf(Request(k)), conn[k].sid, Request(k).pane, k)
    BY DEF JoinBus
<1>2. ConnTyped(k) /\ conn[k].pc = "join"
    BY DEF TInv, JoinBus, ConnAt
<1>3. /\ Request(k) \in Requests /\ Accepted(Request(k))
      /\ conn[k].sid \in SessionIds \cup {None}
    BY <1>2 DEF ConnTyped, Request
<1>4. ModeOf(Request(k)) \in Modes /\ Request(k).pane \in PaneIds \cup {None}
    BY <1>3 DEF Accepted, Requests
<1> QED
    BY <1>1, <1>3, <1>4 DEF Calls

\* Every step of the handler, the janitor and the pumps is a step of the bus, or
\* leaves it alone.
LEMMA StepIsBusStep == BInv /\ [Next]_vars => [BusNext]_busVars
<1> SUFFICES ASSUME BInv, [Next]_vars PROVE [BusNext]_busVars
    OBVIOUS
<1>0. TInv /\ Shape
    BY DEF BInv, TInv
<1>1. ASSUME Environment PROVE [BusNext]_busVars
  <2>1. ASSUME NEW k \in Sinks, Hangup(k) PROVE Calls
      BY <2>1 DEF Hangup, Calls
  <2>2. ASSUME ~\E k \in Sinks : Hangup(k) PROVE UNCHANGED busVars
      BY <1>1, <2>2, Zenon DEF Environment, Arrive, GoIdle, ClosePane
  <2> QED
      BY <2>1, <2>2 DEF BusNext
<1>2. ASSUME NEW e \in EmitIds, ServeEmit(e) \/ AfterEmit(e) PROVE [BusNext]_busVars
  <2>1. CASE PublishChange(e)
    <3>1. Msg[e].session \in SessionIds /\ emit[e].to \in States
        BY <1>0, <2>1, ScenarioType DEF PublishChange, EmitAt, Shape, TInv, EmitTyped, EmitMessage
    <3> QED
        BY <1>0, <2>1, <3>1, PublishesFrame DEF PublishChange, BusNext
  <2>2. CASE BindUnbound(e)
      BY <1>0, <2>2, RebindsStarted
  <2>4. CASE FlagForChange(e)
      BY <2>4 DEF FlagForChange, BusNext
  <2>3. CASE ~(PublishChange(e) \/ BindUnbound(e) \/ FlagForChange(e))
      BY <1>2, <2>3, Zenon DEF ServeEmit, AfterEmit, ApplyEmit, CollectUnbound, ListForRebind,
                        ResolveForRebind, LookForRebound, TellRebound, EndRebind,
                        DecideFocus, PickPane, SwitchFocus
  <2> QED
      BY <2>1, <2>2, <2>3, <2>4
<1>3. ASSUME NEW k \in Sinks, ConnStep(k) PROVE Calls \/ UNCHANGED busVars
  <2>1. CASE JoinBus(k)
      BY <1>0, <2>1, JoinIsCall
  <2>2. CASE LeaveBus(k) \/ RemoveDoomed(k)
    <3>1. PICK i \in Started : Unsubscribe(i)
        BY <2>2 DEF LeaveBus, RemoveDoomed, ConnAt, BInv, Leaving
    <3> QED
        BY <3>1 DEF Started, Calls
  <2>3. CASE ~(JoinBus(k) \/ LeaveBus(k) \/ RemoveDoomed(k))
      BY <1>3, <2>3, Zenon DEF ConnStep, ReadSubscribe, ResolveForSubscribe, RecordSub,
                        LookForSubscriber, TellSubscriber, ReadUnsubscribe, ReadFocusRequest,
                        ForgetConn
  <2> QED
      BY <2>1, <2>2, <2>3
<1>4. ASSUME NEW a \in asks, DecideAsked(a) \/ SwitchAsked(a) PROVE UNCHANGED busVars
    BY <1>4 DEF DecideAsked, SwitchAsked
<1>5. ASSUME NEW i \in SubIds, PumpStep(i) PROVE Receive(i) \/ CheckOverflow(i) \/ Turns(i)
    BY <1>5 DEF PumpStep, Turns
<1>6. ASSUME BeginSweep \/ JanitorStep PROVE [BusNext]_busVars
  <2>1. ASSUME NEW s \in SessionIds, PublishUnknown(s) PROVE [BusNext]_busVars
      BY <1>0, <2>1, PublishesFrame DEF PublishUnknown, States, BusNext
  <2>2. CASE FlagForUnknown
      BY <2>2 DEF FlagForUnknown, BusNext
  <2>3. ASSUME ~FlagForUnknown, ~\E s \in SessionIds : PublishUnknown(s) PROVE UNCHANGED busVars
      BY <1>6, <2>3, Zenon DEF BeginSweep, JanitorStep, EndGC, ListUnknown, EndSweep, ProbeSession
  <2> QED
      BY <2>1, <2>2, <2>3
<1>7. CASE UNCHANGED vars
    BY <1>7 DEF vars
<1> QED
    BY <1>1, <1>2, <1>3, <1>4, <1>5, <1>6, <1>7 DEF Next, BusNext

LEMMA LeavingStep ==
    ASSUME BInv, [Next]_vars, NEW k \in Sinks
    PROVE  Leaving(k)'
<1>0. /\ TInv /\ Shape /\ SubsTyped /\ Leaving(k) /\ DOMAIN conn[k] = ConnFields /\ DOMAIN conn = Sinks
      /\ Started \subseteq Started'
    BY BuffersStep DEF BInv, TInv, Shape
<1>1. ASSUME conn'[k] = conn[k] PROVE Leaving(k)'
    BY <1>0, <1>1 DEF Leaving
<1>2. CASE ReadUnsubscribe(k)
  <2>1. CASE conn' = [conn EXCEPT ![k] = NextRequest(k)]
      BY <1>0, <2>1 DEF NextRequest, NewConn, Leaving
  <2>2. CASE k \in DOMAIN subs /\ conn' = [conn EXCEPT ![k].sub = subs[k], ![k].pc = "leave"]
      BY <1>0, <2>2 DEF SubsTyped, Leaving, ConnFields
  <2> QED
      BY <1>2, <2>1, <2>2 DEF ReadUnsubscribe
<1>3. CASE Hangup(k)
  <2>1. conn'[k] = [NewConn EXCEPT !.pc = "closing", !.doomed = Writing(k)]
      BY <1>0, <1>3 DEF Hangup
  <2> QED
      BY <1>0, <2>1 DEF NewConn, Writing, SubsTyped, Leaving
<1>4. CASE RemoveDoomed(k)
  <2>1. PICK i : conn' = [conn EXCEPT ![k].doomed = @ \ {i}]
      BY <1>4 DEF RemoveDoomed
  <2> QED
      BY <1>0, <2>1 DEF Leaving, ConnFields
<1>5. ASSUME conn'[k].pc \notin {"leave", "closing"} PROVE Leaving(k)'
    BY <1>5 DEF Leaving
<1>6. ASSUME ConnStep(k), ~ReadUnsubscribe(k), ~RemoveDoomed(k)
      PROVE  conn'[k].pc \notin {"leave", "closing"}
  <2>1. CASE ReadSubscribe(k)
    <3>1. PICK place \in {"read", "resolve", "join"} : conn'[k].pc = place
      <4>1. CASE conn' = [conn EXCEPT ![k] = NextRequest(k)]
          BY <1>0, <4>1 DEF NextRequest, NewConn
      <4>2. CASE \E listing : conn' = [conn EXCEPT ![k].listing = listing, ![k].pc = "resolve"]
          BY <1>0, <4>2 DEF ConnFields
      <4>3. CASE \E sid : conn' = [conn EXCEPT ![k].sid = sid, ![k].pc = "join"]
          BY <1>0, <4>3 DEF ConnFields
      <4> QED
          BY <2>1, <4>1, <4>2, <4>3 DEF ReadSubscribe
    <3> QED
        BY <3>1
  <2>2. CASE ResolveForSubscribe(k)
    <3>1. PICK sid : conn' = [conn EXCEPT ![k].sid = sid, ![k].listing = NoListing, ![k].pc = "join"]
        BY <2>2, Zenon DEF ResolveForSubscribe
    <3> QED
        BY <1>0, <3>1 DEF ConnFields
  <2>3. CASE JoinBus(k)
    <3>1. PICK i : conn' = [conn EXCEPT ![k].sub = i, ![k].pc = "record"]
        BY <2>3 DEF JoinBus
    <3> QED
        BY <1>0, <3>1 DEF ConnFields
  <2>4. CASE RecordSub(k)
      BY <1>0, <2>4 DEF RecordSub, ConnFields
  <2>5. CASE LookForSubscriber(k)
    <3>1. PICK snap : conn' = [conn EXCEPT ![k].snap = snap, ![k].pc = "tell"]
        BY <2>5 DEF LookForSubscriber
    <3> QED
        BY <1>0, <3>1 DEF ConnFields
  <2>6. CASE TellSubscriber(k) \/ LeaveBus(k) \/ ReadFocusRequest(k)
      BY <1>0, <2>6 DEF TellSubscriber, LeaveBus, ReadFocusRequest, NextRequest, NewConn
  <2>7. CASE ForgetConn(k)
      BY <1>0, <2>7 DEF ForgetConn, ConnFields
  <2> QED
      BY <1>6, <2>1, <2>2, <2>3, <2>4, <2>5, <2>6, <2>7 DEF ConnStep
<1>7. ASSUME NEW c \in Sinks \ {k}, ConnStep(c) \/ Hangup(c) PROVE conn'[k] = conn[k]
    BY <1>0, <1>7, ConnEffect DEF Spares, OthersStay
<1>8. ASSUME (\E e \in EmitIds : BindUnbound(e)) \/ UNCHANGED busPart PROVE conn'[k] = conn[k]
    BY <1>8 DEF BindUnbound, notEmit, busPart
<1> QED
    BY <1>1, <1>2, <1>3, <1>4, <1>5, <1>6, <1>7, <1>8, BusCases

LEMMA BusKept == Spec => []BInv
<1>1. Init => BInv
  <2> SUFFICES ASSUME Init PROVE BInv
      OBVIOUS
  <2>1. BusInv
      BY BusInvInit DEF Init
  <2>2. \A k \in Sinks : Leaving(k)
      BY DEF Init, NewConn, Leaving
  <2> QED
      BY <2>1, <2>2, TypeInit DEF BInv
<1>2. BInv /\ [Next]_vars => BInv'
    BY TypeStep, StepIsBusStep, BusInvStep, LeavingStep DEF BInv
<1> QED
    BY <1>1, <1>2, PTL DEF Spec

\* The goroutines of the handler, the janitor and the connections call the bus
\* as BusProofs assumes, in any scenario: a subscription is removed only after
\* Subscribe returned it, although an unsubscribe, a hangup and a rebinding may
\* all hold it.
THEOREM HandlerIsBus == Spec => BusSpec
<1>1. Init => BusInit
    BY DEF Init
<1> QED
    BY <1>1, BusKept, StepIsBusStep, PTL DEF Spec, BusSpec

\* So what BusProofs proves of the bus holds in the daemon: no drop is silent or
\* announced late, frames come in order and none after an unsubscription, and a
\* bound activity hears its session.
THEOREM HandlerKeepsBusPromises ==
    Spec => [](/\ DropsLeaveATrace /\ DropAnnouncedBeforeLaterFrames
               /\ DeliveredInOrder /\ NothingAfterRemoval /\ BoundHearsItsSession)
BY HandlerIsBus, NoSilentDrop, NoticeComesFirst, OrderIsKept, RemovedHearsNothingNew,
   BoundHearsOnlyItsSession, PTL

-----------------------------------------------------------------------------
(* The registry between the handler and the janitor                         *)

\* What each session holds, declared by emits whose goroutines interleave and
\* forgotten one by one while the janitor has Registry.mu: an id not in the map
\* holds stamp 0 and UNKNOWN.
Intent ==
    INSTANCE LatestIntent WITH
        Stamps <- UNION {{play.msg[e].seq : e \in DOMAIN play.msg} : play \in Scenarios},
        intent <- [s \in SessionIds |->
                      [stamp |-> Lookup(sessions, s, 0).lastSeq,
                       state |-> Lookup(sessions, s, 0).state]]

\* The refinement mapping, as the instance substitutes it.
Held(s) == [stamp |-> Lookup(sessions, s, 0).lastSeq, state |-> Lookup(sessions, s, 0).state]

\* What GC found when it took the lock still holds when it comes to a session.
SweepKnows ==
    janitor.pc = "probe" =>
        \A s \in janitor.todo : s \in DOMAIN sessions /\ sessions[s].state # Unknown

LInv == TInv /\ SweepKnows

\* An emit's fold is a newer declaration, or nothing.
LEMMA ApplyDeclares ==
    ASSUME TInv, NEW e \in EmitIds, ApplyEmit(e)
    PROVE  Intent!Next \/ \A s \in SessionIds : Held(s)' = Held(s)
<1>1. e \in DOMAIN Msg /\ scenario \in Scenarios /\ IsRegistry(sessions) /\ clock + 1 \in Nat
    BY DEF ApplyEmit, EmitAt, TInv, Shape, RegistryTyped
<1>2. PICK m \in EmitMessage : m = Msg[e]
    BY <1>1, ScenarioType
<1>3. CASE ~IsEvent(m.event)
    BY <1>2, <1>3 DEF ApplyEmit, registryVars, Held, Lookup, FreshSession
<1>4. CASE IsEvent(m.event)
  <2> DEFINE id  == m.session
             old == Lookup(sessions, id, clock + 1)
             new == [stamp |-> m.seq, state |-> StateForEvent[m.event]]
  <2>1. /\ id \in SessionIds /\ m.seq \in Nat
        /\ StateForEvent[m.event] \in {Working, NeedsAttention}
      BY <1>4 DEF EmitMessage, IsEvent, StateForEvent
  <2>2. old.lastSeq \in Nat /\ old.lastSeq = Held(id).stamp /\ old.state = Held(id).state
    <3>1. old \in Session
        BY <1>1, <1>4, ApplyToType
    <3> QED
        BY <3>1 DEF Session, Lookup, FreshSession, Held
  <2>3. sessions' = ApplyTo(sessions, m, clock + 1)
      BY <1>2, <1>4 DEF ApplyEmit
  <2>4. \A s \in SessionIds : s # id => Held(s)' = Held(s)
      BY <2>3 DEF ApplyTo, Held, Lookup, FreshSession
  <2>5. /\ id \in DOMAIN sessions'
        /\ sessions'[id] = IF IsIgnored(old, m) THEN old ELSE Fold(old, m, clock + 1)
      BY <2>3 DEF ApplyTo
  <2>6. CASE IsIgnored(old, m)
    <3>1. Held(id)' = Held(id)
        BY <2>2, <2>5, <2>6 DEF Held, Lookup
    <3> QED
        BY <2>4, <3>1
  <2>7. CASE ~IsIgnored(old, m)
    <3> DEFINE held == [s \in SessionIds |-> Held(s)]
    <3>1. Held(id)' = new
        BY <2>5, <2>7 DEF Held, Lookup, Fold
    <3>2. Intent!Newer(new, held[id])
        BY <2>1, <2>2, <2>7 DEF IsIgnored, Intent!Newer, Working, NeedsAttention
    <3>3. [s \in SessionIds |-> Held(s)'] = [held EXCEPT ![id] = new]
        BY <2>1, <2>4, <3>1
    <3>4. m.seq \in UNION {{play.msg[d].seq : d \in DOMAIN play.msg} : play \in Scenarios}
        BY <1>1, <1>2 DEF Msg
    <3>5. new.state \in {"working", "needs_attention"}
        BY <2>1 DEF Working, NeedsAttention
    <3>6. Intent!Declare(id)
        BY <3>2, <3>3, <3>4, <3>5 DEF Intent!Declare, Held
    <3> QED
        BY <2>1, <3>6 DEF Intent!Next
  <2> QED
      BY <2>6, <2>7
<1> QED
    BY <1>3, <1>4

\* What asking tmux about a session does.
LEMMA ProbeEffect ==
    ASSUME NEW s, ProbeSession(s)
    PROVE  /\ janitor.pc = "probe" /\ s \in janitor.todo
           /\ sessions' = sessions \/ sessions' = [sessions EXCEPT ![s].state = Unknown]
           /\ \E reaped : janitor' = [janitor EXCEPT !.todo = @ \ {s}, !.reaped = reaped]
<1>1. janitor.pc = "probe" /\ s \in janitor.todo
    BY Zenon DEF ProbeSession
<1>2. sessions' = sessions \/ sessions' = [sessions EXCEPT ![s].state = Unknown]
    BY Zenon DEF ProbeSession
<1>3. \E reaped : janitor' = [janitor EXCEPT !.todo = @ \ {s}, !.reaped = reaped]
    BY Zenon DEF ProbeSession
<1> QED
    BY <1>1, <1>2, <1>3

\* A reaped session is forgotten; a stamp is kept.
LEMMA ProbeForgets ==
    ASSUME LInv, NEW s \in SessionIds, ProbeSession(s)
    PROVE  Intent!Next \/ \A id \in SessionIds : Held(id)' = Held(id)
<1>1. s \in DOMAIN sessions /\ sessions[s].state # Unknown /\ sessions[s] \in Session
    BY ProbeEffect DEF LInv, SweepKnows, TInv, RegistryTyped, IsRegistry
<1>2. CASE sessions' = sessions
    BY <1>2 DEF Held, Lookup, FreshSession
<1>3. CASE sessions' = [sessions EXCEPT ![s].state = Unknown]
  <2>1. Held(s).state # Unknown
      BY <1>1 DEF Held, Lookup
  <2>2. Held(s)' = [stamp |-> Held(s).stamp, state |-> Unknown]
    <3>1. /\ s \in DOMAIN sessions' /\ sessions'[s].lastSeq = sessions[s].lastSeq
          /\ sessions'[s].state = Unknown
        BY <1>1, <1>3 DEF Session
    <3> QED
        BY <1>1, <3>1 DEF Held, Lookup
  <2>3. \A id \in SessionIds : id # s => Held(id)' = Held(id)
      BY <1>3 DEF Held, Lookup, FreshSession
  <2>4. Intent!Forget({s})
    <3> DEFINE held == [id \in SessionIds |-> Held(id)]
    <3>1. [id \in SessionIds |-> Held(id)']
             = [id \in SessionIds |-> IF id \in {s} THEN [stamp |-> held[id].stamp, state |-> "unknown"]
                                     ELSE held[id]]
        BY <2>2, <2>3 DEF Unknown
    <3>2. \A id \in {s} : held[id].state # "unknown"
        BY <2>1 DEF Unknown
    <3> QED
        BY <3>1, <3>2 DEF Intent!Forget, Held
  <2> QED
      BY <2>4 DEF Intent!Next
<1> QED
    BY <1>2, <1>3, ProbeEffect

LEMMA SweepKnowsStep ==
    ASSUME LInv, [Next]_vars
    PROVE  SweepKnows'
<1>0. SweepKnows /\ DOMAIN janitor = {"pc", "todo", "reaped"}
    BY DEF LInv, TInv, RegistryTyped
<1>1. ASSUME NEW e \in EmitIds, ApplyEmit(e) PROVE janitor'.pc # "probe"
    BY <1>1 DEF ApplyEmit, RegistryFree, notEmit
<1>2. ASSUME NEW e \in EmitIds, DecideFocus(e) PROVE UNCHANGED <<sessions, janitor>>
    BY <1>2 DEF DecideFocus, registryVars, notEmit
<1>3. ASSUME NEW s \in SessionIds, ProbeSession(s) PROVE SweepKnows'
  <2>1. PICK reaped : janitor' = [janitor EXCEPT !.todo = @ \ {s}, !.reaped = reaped]
      BY <1>3, ProbeEffect
  <2>2. janitor'.todo = janitor.todo \ {s} /\ janitor.pc = "probe"
      BY <1>0, <1>3, <2>1, ProbeEffect
  <2>3. sessions' = sessions \/ sessions' = [sessions EXCEPT ![s].state = Unknown]
      BY <1>3, ProbeEffect
  <2>4. DOMAIN sessions' = DOMAIN sessions /\ \A id \in DOMAIN sessions \ {s} : sessions'[id] = sessions[id]
      BY <2>3
  <2> QED
      BY <1>0, <2>2, <2>4 DEF SweepKnows
<1>4. ASSUME NEW s \in SessionIds, PublishUnknown(s) PROVE janitor'.pc # "probe"
    BY <1>0, <1>4 DEF PublishUnknown
<1>5. ASSUME NEW s \in SessionIds, GoIdle(s) PROVE UNCHANGED <<sessions, janitor>>
    BY <1>5 DEF GoIdle
<1>6. CASE BeginSweep
    BY <1>6 DEF BeginSweep, registryVars, SweepKnows
<1>7. CASE EndGC \/ ListUnknown \/ FlagForUnknown \/ EndSweep
    BY <1>0, <1>7 DEF EndGC, ListUnknown, FlagForUnknown, EndSweep, SweepKnows
<1>8. ASSUME UNCHANGED <<sessions, janitor>> PROVE SweepKnows'
    BY <1>0, <1>8 DEF SweepKnows
<1>9. CASE UNCHANGED registryPart
    BY <1>8, <1>9 DEF registryPart, registryVars
<1> QED
    BY <1>1, <1>2, <1>3, <1>4, <1>5, <1>6, <1>7, <1>8, <1>9, RegistryCases DEF Sweeps, SweepKnows

LEMMA StepIsIntentStep ==
    LInv /\ [Next]_vars => [Intent!Next]_([s \in SessionIds |-> Held(s)])
<1> SUFFICES ASSUME LInv, [Next]_vars
             PROVE  Intent!Next \/ \A s \in SessionIds : Held(s)' = Held(s)
    BY DEF Held
<1>1. ASSUME UNCHANGED sessions PROVE \A s \in SessionIds : Held(s)' = Held(s)
    BY <1>1 DEF Held, Lookup, FreshSession
<1>2. ASSUME NEW e \in EmitIds, ApplyEmit(e)
      PROVE  Intent!Next \/ \A s \in SessionIds : Held(s)' = Held(s)
    BY <1>2, ApplyDeclares DEF LInv
<1>3. ASSUME NEW e \in EmitIds, DecideFocus(e) PROVE UNCHANGED sessions
    BY <1>3 DEF DecideFocus, registryVars
<1>4. ASSUME NEW s \in SessionIds, PublishUnknown(s) \/ GoIdle(s) PROVE UNCHANGED sessions
    BY <1>4 DEF PublishUnknown, GoIdle, registryVars
<1>5. ASSUME Sweeps \/ UNCHANGED registryPart PROVE UNCHANGED sessions
    BY <1>5 DEF Sweeps, BeginSweep, EndGC, ListUnknown, FlagForUnknown, EndSweep, registryPart, registryVars
<1>6. ASSUME NEW s \in SessionIds, ProbeSession(s)
      PROVE  Intent!Next \/ \A id \in SessionIds : Held(id)' = Held(id)
    BY <1>6, ProbeForgets
<1> QED
    BY <1>1, <1>2, <1>3, <1>4, <1>5, <1>6, RegistryCases

\* However the emits' goroutines and the sweep's probes interleave, what the
\* registry holds of a session is the newest declaration, or that it was
\* forgotten: a handler and a janitor that share Registry.mu implement the
\* latest-intent register, as the registry alone does.
THEOREM HandlerImplementsLatestIntent == Spec => Intent!Spec
<1>1. Init => LInv
    BY TypeInit DEF Init, LInv, SweepKnows
<1>2. LInv /\ [Next]_vars => LInv'
    BY TypeStep, SweepKnowsStep DEF LInv
<1>3. Init => Intent!Init
    BY DEF Init, Intent!Init, Lookup, FreshSession, Unknown
<1> QED
    BY <1>1, <1>2, <1>3, StepIsIntentStep, PTL DEF Spec, Intent!Spec, Held

-----------------------------------------------------------------------------
(* The theorems *)

LEMMA FocusInvariant == Spec => []FInv
<1>1. FInv /\ [Next]_vars => FInv'
    BY ShapeStep, FocusStep DEF FInv
<1> QED
    BY <1>1, FocusInit, PTL DEF Spec

\* Last state wins: when the emits' goroutines are through, the last focus
\* decided for a session is the one its state calls for.
THEOREM LastStateWins == Spec => []FocusFollowsState
<1>1. FInv => FocusFollowsState
    BY DEF FInv, FocusIsDue, Owes, Pending, FocusFollowsState, EmitsSettled, EmitAt
<1> QED
    BY <1>1, FocusInvariant, PTL

\* When Closed has returned nothing of the connection is left, in the bus or in
\* Core, whatever rebinding was under way.
THEOREM ClosedIsForgotten == Spec => []ClosedLeavesNothing
<1>1. Init => CInv
    BY FocusInit DEF FInv, CInv, Init, ClosingKnows, ClosedLeavesNothing, ConnAt, NewConn
<1>2. CInv /\ [Next]_vars => CInv'
    BY ShapeStep, ClosingStep DEF CInv
<1>3. CInv => ClosedLeavesNothing
    BY DEF CInv
<1> QED
    BY <1>1, <1>2, <1>3, PTL DEF Spec

\* A subscription once bound stays bound to the same session.
THEOREM BindingStays == Spec => BindingIsSticky
<1>1. FInv /\ [Next]_vars
        => [\A i \in SubIds \ Unused : sub[i].bound # None => sub'[i].bound = sub[i].bound]_vars
    BY StickyStep DEF FInv
<1> QED
    BY <1>1, FocusInvariant, PTL DEF Spec, BindingIsSticky

-----------------------------------------------------------------------------
(* The view: what an activity has been told is true once nothing is in      *)
(* flight, as long as what hooks, activities and the janitor do comes one   *)
(* at a time.                                                               *)
(*                                                                          *)
(* The invariant, Calm, accounts for every state on its way: the present    *)
(* state of the session an activity follows is what it was told last, or    *)
(* the newest of what waits for it, or it is due from the emit that runs or *)
(* from a sweep (Fresh). The rest of Calm says what that takes. Before the  *)
(* first emit there is nothing to tell (Dawn); after it the scripts are     *)
(* over, since no emit arrives before (ScriptsOver).                        *)

\* All emits of a scenario come from one tmux server. A rebinding lists the panes
\* of the server its emit came from, and would not see a session on another.
OneEmitServer ==
    \A play \in Scenarios : \E server \in Sockets \cup {None} :
        \A e \in DOMAIN play.msg : play.msg[e].socket = server

EmitServer ==
    CHOOSE server \in Sockets \cup {None} : \A e \in DOMAIN Msg : Msg[e].socket = server

-----------------------------------------------------------------------------
(* The invariant *)

NoneYet    == \A e \in EmitIds : EmitAt(e, "unsent")
Running(e) == emit[e].pc \notin {"unsent", "done"}
Changes(e) == emit[e].from # emit[e].to
Live(k)    == k \in DOMAIN subs \ broken

\* What session s now has for a state, as a snapshot tells it.
Present(s) == IF s \in DOMAIN sessions THEN sessions[s].state ELSE Unknown

\* The frames on their way through Sub i: the buffer, behind what the pump holds.
Holding(i) == pump[i].pc \in {"check", "announce", "resync", "push", "write"}
Empty(i)   == buf[i] = << >> /\ ~Holding(i)
Newest(i)  == IF buf[i] # << >> THEN buf[i][Len(buf[i])] ELSE pump[i].hand
Says(frame, s, state) == frame.session = s /\ frame.state = state

\* What activity k will have been told last.
Hears(k, s, state) ==
    IF Empty(subs[k]) THEN view[k] = Told(s, state) ELSE Says(Newest(subs[k]), s, state)

\* Before the first emit there is no session, and nothing is delivered.
Dawn ==
    NoneYet =>
        /\ DOMAIN sessions = {} /\ janitor.todo = {} /\ janitor.reaped = {}
        /\ janitor.pc \in {"wait", "probe"}
        /\ \A i \in SubIds : Empty(i)

\* Afterwards no activity has anything left to ask for.
ScriptsOver ==
    ~NoneYet => \A k \in Sinks : \/ conn[k].pc \in {"closing", "closed"}
                                 \/ ConnAt(k, "read") /\ conn[k].todo = << >>

\* An emit runs alone, and not during a sweep.
OneAtATime ==
    \A e \in EmitIds : Running(e) => janitor.pc = "wait" /\ \A d \in EmitIds : Running(d) => d = e

\* A connection that goes is no longer written to; a live one's Sub is in the bus;
\* with a Sub that left, nothing is on its way to a connection still written to.
HungUp == \A k \in Sinks : conn[k].pc \in {"closing", "closed"} => k \in broken
LiveSubs == \A k \in Sinks : Live(k) => subs[k] \in registered
Gone == \A i \in SubIds : i \notin registered /\ Reachable(i) => Empty(i)

\* The sessions a sweep has yet to announce.
Found == IF janitor.pc \in {"probe", "list"} THEN janitor.reaped
         ELSE IF janitor.pc \in {"publish", "flag"} THEN janitor.todo ELSE {}
SweepKnown ==
    /\ \A s \in Found : s \in DOMAIN sessions /\ sessions[s].state = Unknown
    /\ janitor.pc = "probe" => janitor.todo \subseteq DOMAIN sessions

\* While emit e runs, a Sub holds at most the frame of e.
InFlight(e) ==
    Running(e) => \A i \in registered :
        /\ Len(buf[i]) <= 1
        /\ \/ Empty(i)
           \/ /\ emit[e].pc \notin {"received", "publish"} /\ Changes(e)
              /\ Says(Newest(i), Msg[e].session, emit[e].to)

\* Once folded in, e's session is the most recent one if e changed it, and stays
\* in the state e gave it.
Folded(e) ==
    LET s == Msg[e].session
    IN  Running(e) /\ ~EmitAt(e, "received") =>
           /\ s \in DOMAIN sessions /\ emit[e].to = sessions[s].state
           /\ EmitAt(e, "publish") => Changes(e)
           /\ Changes(e) => \A t \in DOMAIN sessions \ {s} : sessions[t].lastEventAt < sessions[s].lastEventAt

Counted == \A s \in DOMAIN sessions : sessions[s].lastEventAt <= clock

\* Two frames for a bound activity are an emit's and a sweep's: the sweep's is
\* last. With room for one only it would be dropped, and the snapshot that makes
\* up for it written before the older frame.
Backlog ==
    \A i \in registered :
        sub[i].mode # "any" /\ sub[i].bound # None /\ Len(buf[i]) > 1
            => Says(buf[i][Len(buf[i])], sub[i].bound, Unknown)

\* What the locals of a connection's goroutine are of.
Owns(k, i) == i \in Started /\ sub[i].sink = k
ConnKnows(k) ==
    /\ conn[k].pc = "leave" => Owns(k, conn[k].sub)
    /\ conn[k].pc = "closing" => \A i \in conn[k].doomed : Owns(k, i)
    /\ ConnAt(k, "record") => conn[k].sub \in registered /\ sub[conn[k].sub].bound = conn[k].sid
    /\ conn[k].pc \in {"look", "tell"} => k \in DOMAIN subs /\ sub[subs[k]].bound = conn[k].sid
    /\ ConnAt(k, "tell") /\ conn[k].sid # None => conn[k].snap = Told(conn[k].sid, Unknown)

\* The panes in the window of Sub i's activity, on the server of the emits.
Near(i) ==
    {p \in DOMAIN layout[EmitServer] :
        /\ sub[i].pane \in DOMAIN layout[EmitServer]
        /\ layout[EmitServer][p] = layout[EmitServer][sub[i].pane]}

\* The unbound Subs that the rebinding of e is yet to look at.
Unbound(i) == sub[i].mode = "auto" /\ sub[i].bound = None
Rebinding(e) == emit[e].pc \in {"rebind", "resolve", "bind", "look", "tell"}
Targets(e) == IF emit[e].pc \in {"resolve", "bind"} THEN {emit[e].target} ELSE {}
Waiting(e) == (IF Rebinding(e) THEN emit[e].work ELSE {}) \cup Targets(e)

\* They are still what their connections have, and still unbound.
WorkKnown(e) ==
    /\ \A w \in Waiting(e) : /\ Owns(w.sink, w.sub)
                             /\ Live(w.sink) => subs[w.sink] = w.sub /\ Unbound(w.sub)
    /\ emit[e].pc \in {"resolve", "bind", "look", "tell"} =>
          \A w \in emit[e].work : Live(w.sink) => w.sink # emit[e].target.sink

\* A listing has the window's panes, and of the sessions at most e's own is there.
ListingKnown(e) ==
    EmitAt(e, "resolve") /\ Live(emit[e].target.sink) /\ emit[e].listing.ok =>
        /\ Near(emit[e].target.sub) \subseteq emit[e].listing.near
        /\ \A s \in DOMAIN sessions \ {Msg[e].session} : sessions[s].pane \notin emit[e].listing.near

\* What a rebinding resolves, binds and tells goes together.
BindingKnown(e) ==
    /\ emit[e].pc \in {"bind", "look", "tell"} =>
          /\ emit[e].sid # None
          /\ Live(emit[e].target.sink) /\ Changes(e) => emit[e].sid = Msg[e].session
    /\ emit[e].pc \in {"look", "tell"} /\ Live(emit[e].target.sink) =>
          /\ subs[emit[e].target.sink] = emit[e].target.sub
          /\ sub[emit[e].target.sub].bound = emit[e].sid
    /\ EmitAt(e, "tell") => emit[e].snap = Told(emit[e].sid, Present(emit[e].sid))

\* No unbound activity is near a session, unless the emit of that session is still
\* to come by.
Awaits(e, k) == emit[e].pc \in {"publish", "flag", "collect"} \/ \E w \in Waiting(e) : w.sink = k

NoneMissed(k) ==
    HasTmux /\ Live(k) /\ Unbound(subs[k]) /\ sub[subs[k]].pane # None =>
        \A s \in DOMAIN sessions :
            sessions[s].pane \in Near(subs[k]) => \E e \in EmitIds : Running(e) /\ Msg[e].session = s /\ Awaits(e, k)

\* The state of session s is yet to reach activity k: from the emit that changed
\* it, from a rebinding's snapshot, or from a sweep.
Due(k, s) ==
    \/ \E e \in EmitIds : EmitAt(e, "publish") /\ Msg[e].session = s
    \/ \E e \in EmitIds : emit[e].pc \in {"look", "tell"} /\ emit[e].target.sink = k
    \/ s \in Found

Fresh(k) ==
    LET b == sub[subs[k]].bound
    IN  Live(k) /\ ConnAt(k, "read") /\ sub[subs[k]].mode # "any" /\ b # None
           => Hears(k, b, Present(b)) \/ Due(k, b)

Calm ==
    /\ Dawn /\ ScriptsOver /\ OneAtATime /\ HungUp /\ LiveSubs /\ Gone
    /\ SweepKnown /\ Counted /\ Backlog
    /\ \A e \in EmitIds : InFlight(e) /\ Folded(e) /\ WorkKnown(e) /\ ListingKnown(e) /\ BindingKnown(e)
    /\ \A k \in Sinks : ConnKnows(k) /\ NoneMissed(k) /\ Fresh(k)

\* With the invariants of CoreProofs it rests on.
Still == UInv /\ LayoutShrinks /\ Overlaps = {} /\ Calm

-----------------------------------------------------------------------------
(* What the steps do *)

clientPart == <<scenario, conn, subs, registered, sub, broken>>
flowPart   == <<buf, pump, view>>
truthPart  == <<sessions, clock, janitor>>

\* Steps of an emit's goroutine that touch nothing but its locals and a Sub's flag.
Thinks(e) ==
    \/ Arrive(e) \/ FlagForChange(e) \/ CollectUnbound(e) \/ ListForRebind(e)
    \/ ResolveForRebind(e) \/ LookForRebound(e) \/ EndRebind(e) \/ DecideFocus(e) \/ PickPane(e) \/ SwitchFocus(e)

\* Steps of a connection that goes.
Departs(k) == Hangup(k) \/ RemoveDoomed(k) \/ ForgetConn(k)

LEMMA ThinksEffect ==
    ASSUME NEW e, Thinks(e)
    PROVE  UNCHANGED <<clientPart, flowPart, truthPart, layout>>
BY DEF Thinks, Arrive, FlagForChange, RaiseFlag, CollectUnbound, ListForRebind,
       ResolveForRebind, LookForRebound, EndRebind, DecideFocus, PickPane, SwitchFocus, notEmit, busVars, registryVars,
       clientPart, flowPart, truthPart

\* The steps of a publication, field by field, and those of a rebinding.
LEMMA ChangeEffect ==
    ASSUME Shape, NEW e \in EmitIds, PublishChange(e) \/ FlagForChange(e)
    PROVE  /\ PublishChange(e) => EmitAt(e, "publish")
           /\ FlagForChange(e) => EmitAt(e, "flag")
           /\ emit'[e].pc \in {"flag", "collect"} /\ emit'[e].work = emit[e].work
           /\ emit'[e].from = emit[e].from /\ emit'[e].to = emit[e].to
<1>0. DOMAIN emit = EmitIds /\ DOMAIN emit[e] = EmitFields
    BY DEF Shape
<1>1. PICK place \in {"flag", "collect"} : emit' = [emit EXCEPT ![e].pc = place]
    BY DEF PublishChange, FlagForChange
<1> QED
    BY <1>0, <1>1 DEF EmitFields, PublishChange, FlagForChange

LEMMA CollectEffect ==
    ASSUME Shape, NEW e \in EmitIds, CollectUnbound(e)
    PROVE  /\ EmitAt(e, "collect") /\ emit'[e].pc = "rebind"
           /\ emit'[e].work =
                 IF HasTmux THEN {[sink |-> k, sub |-> subs[k]] : k \in {j \in DOMAIN subs : Unbound(subs[j])}}
                 ELSE {}
           /\ emit'[e].from = emit[e].from /\ emit'[e].to = emit[e].to
<1>0. DOMAIN emit = EmitIds /\ DOMAIN emit[e] = EmitFields
    BY DEF Shape
<1> DEFINE unbound == {k \in DOMAIN subs : sub[subs[k]].mode = "auto" /\ sub[subs[k]].bound = None}
           work    == IF HasTmux THEN {[sink |-> k, sub |-> subs[k]] : k \in unbound} ELSE {}
<1>1. EmitAt(e, "collect") /\ emit' = [emit EXCEPT ![e].work = work, ![e].pc = "rebind"]
    BY DEF CollectUnbound
<1>2. work = IF HasTmux THEN {[sink |-> k, sub |-> subs[k]] : k \in {j \in DOMAIN subs : Unbound(subs[j])}}
             ELSE {}
    BY DEF Unbound
<1> HIDE DEF work
<1> QED
    BY <1>0, <1>1, <1>2 DEF EmitFields

LEMMA ListEffect ==
    ASSUME Shape, NEW e \in EmitIds, ListForRebind(e)
    PROVE  /\ EmitAt(e, "rebind") /\ emit'[e].pc = "resolve"
           /\ \E w \in emit[e].work : /\ emit'[e].target = w /\ emit'[e].work = emit[e].work \ {w}
                                      /\ emit'[e].listing \in Listings(sub[w.sub].pane, Msg[e].socket)
           /\ emit'[e].from = emit[e].from /\ emit'[e].to = emit[e].to
<1>0. DOMAIN emit = EmitIds /\ DOMAIN emit[e] = EmitFields
    BY DEF Shape
<1>1. PICK w \in emit[e].work : \E listing \in Listings(sub[w.sub].pane, Msg[e].socket) :
          emit' = [emit EXCEPT ![e].work = @ \ {w}, ![e].target = w,
                               ![e].listing = listing, ![e].pc = "resolve"]
    BY DEF ListForRebind
<1>2. PICK listing \in Listings(sub[w.sub].pane, Msg[e].socket) :
          emit' = [emit EXCEPT ![e].work = @ \ {w}, ![e].target = w,
                               ![e].listing = listing, ![e].pc = "resolve"]
    BY <1>1
<1>3. EmitAt(e, "rebind")
    BY DEF ListForRebind
<1> QED
    BY <1>0, <1>2, <1>3 DEF EmitFields

LEMMA ResolveEffect ==
    ASSUME Shape, NEW e \in EmitIds, ResolveForRebind(e)
    PROVE  /\ EmitAt(e, "resolve") /\ emit'[e].sid \in Resolved(emit[e].listing)
           /\ emit'[e].pc = IF emit'[e].sid = None THEN "rebind" ELSE "bind"
           /\ emit'[e].work = emit[e].work /\ emit'[e].target = emit[e].target
           /\ emit'[e].from = emit[e].from /\ emit'[e].to = emit[e].to
<1>0. DOMAIN emit = EmitIds /\ DOMAIN emit[e] = EmitFields
    BY DEF Shape
<1>1. PICK sid \in Resolved(emit[e].listing) :
          emit' = [emit EXCEPT ![e].sid = sid, ![e].listing = NoListing,
                               ![e].pc = IF sid = None THEN "rebind" ELSE "bind"]
    BY DEF ResolveForRebind
<1>2. EmitAt(e, "resolve")
    BY DEF ResolveForRebind
<1> QED
    BY <1>0, <1>1, <1>2 DEF EmitFields

LEMMA BindEffect ==
    ASSUME Shape, NEW e \in EmitIds, BindUnbound(e)
    PROVE  /\ EmitAt(e, "bind") /\ emit'[e].pc = "look"
           /\ emit'[e].work = emit[e].work /\ emit'[e].target = emit[e].target
           /\ emit'[e].from = emit[e].from /\ emit'[e].to = emit[e].to
           /\ emit'[e].sid = emit[e].sid
           /\ LET i == emit[e].target.sub
              IN  sub' = IF i \in registered /\ sub[i].bound = None
                         THEN [sub EXCEPT ![i].bound = emit[e].sid] ELSE sub
BY DEF BindUnbound, Rebind, Shape, EmitFields

LEMMA LookEffect ==
    ASSUME Shape, NEW e \in EmitIds, LookForRebound(e)
    PROVE  /\ EmitAt(e, "look") /\ emit'[e].pc = "tell"
           /\ emit'[e].snap \in Snapshots(emit[e].sid)
           /\ emit'[e].work = emit[e].work /\ emit'[e].target = emit[e].target
           /\ emit'[e].from = emit[e].from /\ emit'[e].to = emit[e].to
           /\ emit'[e].sid = emit[e].sid
<1>0. DOMAIN emit = EmitIds /\ DOMAIN emit[e] = EmitFields
    BY DEF Shape
<1>1. PICK snap \in Snapshots(emit[e].sid) : emit' = [emit EXCEPT ![e].snap = snap, ![e].pc = "tell"]
    BY DEF LookForRebound
<1>2. EmitAt(e, "look")
    BY DEF LookForRebound
<1> QED
    BY <1>0, <1>1, <1>2 DEF EmitFields

LEMMA TellEffect ==
    ASSUME Shape, NEW e \in EmitIds, TellRebound(e)
    PROVE  /\ EmitAt(e, "tell") /\ emit'[e].pc = "rebind" /\ emit'[e].work = emit[e].work
           /\ emit'[e].from = emit[e].from /\ emit'[e].to = emit[e].to
BY DEF TellRebound, Shape, EmitFields

\* The steps past the rebinding.
EndsOrFocuses(e) == EndRebind(e) \/ DecideFocus(e) \/ PickPane(e) \/ SwitchFocus(e)

LEMMA EndsEffect ==
    ASSUME Shape, NEW e \in EmitIds, EndsOrFocuses(e)
    PROVE  /\ emit[e].pc \in {"focus", "pick", "switch"} \/ (EmitAt(e, "rebind") /\ emit[e].work = {})
           /\ emit'[e].pc \in {"focus", "pick", "switch", "done"}
           /\ emit'[e].pc # "done" => emit'[e].from = emit[e].from /\ emit'[e].to = emit[e].to
<1>0. DOMAIN emit = EmitIds /\ DOMAIN emit[e] = EmitFields
    BY DEF Shape
<1>1. emit[e].pc \in {"focus", "pick", "switch"} \/ (EmitAt(e, "rebind") /\ emit[e].work = {})
  <2>1. EndRebind(e) => EmitAt(e, "rebind") /\ emit[e].work = {}
      BY DEF EndRebind
  <2>2. (DecideFocus(e) => EmitAt(e, "focus")) /\ (PickPane(e) => EmitAt(e, "pick"))
        /\ (SwitchFocus(e) => EmitAt(e, "switch"))
      BY DEF DecideFocus, PickPane, SwitchFocus
  <2> QED
      BY <2>1, <2>2 DEF EndsOrFocuses, EmitAt
<1>2. ASSUME EndRebind(e), ~Finished(e)
      PROVE  emit' = [emit EXCEPT ![e].pc = "focus"]
    BY <1>2 DEF EndRebind
<1>3. ASSUME DecideFocus(e), ~Finished(e)
      PROVE  emit' = [emit EXCEPT ![e].pane = sessions[Msg[e].session].pane, ![e].pc = "pick"]
    BY <1>3 DEF DecideFocus
<1>4. ASSUME PickPane(e), ~Finished(e)
      PROVE  \E p \in (IF emit[e].to = NeedsAttention THEN {emit[e].pane} \ {None}
                        ELSE ActivityPanes(Msg[e].session)) :
                emit' = [emit EXCEPT ![e].pane = p, ![e].pc = "switch"]
    BY <1>4 DEF PickPane
<1>5. ASSUME SwitchFocus(e) PROVE Finished(e)
    BY <1>5 DEF SwitchFocus
<1> DEFINE Good == /\ emit'[e].pc \in {"focus", "pick", "switch", "done"}
                   /\ emit'[e].pc # "done" => emit'[e].from = emit[e].from /\ emit'[e].to = emit[e].to
<1>6. CASE Finished(e)
    BY <1>0, <1>1, <1>6 DEF Finished, NewEmit
<1>7. CASE EndRebind(e) /\ ~Finished(e)
    BY <1>0, <1>1, <1>2, <1>7 DEF EmitFields
<1>8. CASE DecideFocus(e) /\ ~Finished(e)
    BY <1>0, <1>1, <1>3, <1>8 DEF EmitFields
<1>9. CASE PickPane(e) /\ ~Finished(e)
  <2>1. PICK p \in (IF emit[e].to = NeedsAttention THEN {emit[e].pane} \ {None}
                    ELSE ActivityPanes(Msg[e].session)) :
            emit' = [emit EXCEPT ![e].pane = p, ![e].pc = "switch"]
      BY <1>4, <1>9
  <2> QED
      BY <1>0, <1>1, <2>1 DEF EmitFields
<1> QED
    BY <1>5, <1>6, <1>7, <1>8, <1>9 DEF EndsOrFocuses

\* An emit is folded in, or nacked.
LEMMA FoldEffect ==
    ASSUME Shape, NEW e \in EmitIds, ApplyEmit(e)
    PROVE  LET s     == Msg[e].session
               found == Lookup(sessions, s, clock + 1)
           IN  /\ EmitAt(e, "received")
               /\ \/ emit'[e].pc = "done" /\ UNCHANGED <<sessions, clock>>
                  \/ /\ sessions' = ApplyTo(sessions, Msg[e], clock + 1) /\ clock' = clock + 1
                     /\ emit'[e].from = found.state /\ emit'[e].to = sessions'[s].state
                     /\ emit'[e].pc = IF found.state # sessions'[s].state THEN "publish" ELSE "collect"
<1>0. DOMAIN emit = EmitIds /\ DOMAIN emit[e] = EmitFields /\ EmitAt(e, "received")
    BY DEF Shape, ApplyEmit
<1>1. CASE IsEvent(Msg[e].event)
  <2> DEFINE from == Lookup(sessions, Msg[e].session, clock + 1).state
             to   == ApplyTo(sessions, Msg[e], clock + 1)[Msg[e].session].state
  <2>1. emit' = [emit EXCEPT ![e].from = from, ![e].to = to,
                             ![e].pc = IF from # to THEN "publish" ELSE "collect"]
      BY <1>1 DEF ApplyEmit
  <2>2. /\ emit'[e].from = from /\ emit'[e].to = to
        /\ emit'[e].pc = IF from # to THEN "publish" ELSE "collect"
    <3> HIDE DEF from, to
    <3> QED
        BY <1>0, <2>1 DEF EmitFields
  <2> QED
      BY <1>0, <1>1, <2>2 DEF ApplyEmit
<1>2. CASE ~IsEvent(Msg[e].event)
    BY <1>0, <1>2 DEF ApplyEmit, registryVars, EmitFields
<1> QED
    BY <1>1, <1>2

\* How an emit gets from place to place.
LEMMA EmitMoves ==
    ASSUME Shape, NEW e \in EmitIds, [Next]_vars
    PROVE  \/ emit'[e] = emit[e]
           \/ Arrive(e) /\ EmitAt(e, "unsent") /\ emit'[e].pc = "received"
           \/ ApplyEmit(e) /\ EmitAt(e, "received") /\ emit'[e].pc \notin {"unsent", "received"}
           \/ /\ Running(e) /\ ~EmitAt(e, "received")
              /\ emit'[e].pc \notin {"unsent", "received", "publish"}
              /\ emit'[e].pc # "done" => emit'[e].from = emit[e].from /\ emit'[e].to = emit[e].to
<1>0. DOMAIN emit = EmitIds /\ DOMAIN emit[e] = EmitFields
    BY DEF Shape
<1>1. CASE Arrive(e)
    BY <1>0, <1>1 DEF Arrive, EmitFields
<1>2. CASE ApplyEmit(e)
    BY <1>2, FoldEffect DEF EmitAt
<1>3. CASE PublishChange(e) \/ FlagForChange(e)
    BY <1>0, <1>3, ChangeEffect DEF Running, EmitAt
<1> DEFINE Moves == /\ Running(e) /\ ~EmitAt(e, "received")
                    /\ emit'[e].pc \notin {"unsent", "received", "publish"}
                    /\ emit'[e].pc # "done" => emit'[e].from = emit[e].from /\ emit'[e].to = emit[e].to
<1>4. CASE CollectUnbound(e) \/ ListForRebind(e) \/ ResolveForRebind(e) \/ BindUnbound(e)
           \/ LookForRebound(e) \/ TellRebound(e)
  <2> USE DEF Running, EmitAt
  <2>1. CollectUnbound(e) => Moves
      BY CollectEffect
  <2>2. ListForRebind(e) => Moves
      BY ListEffect
  <2>3. ResolveForRebind(e) => Moves
      BY ResolveEffect
  <2>4. BindUnbound(e) => Moves
      BY BindEffect
  <2>5. LookForRebound(e) => Moves
      BY LookEffect
  <2>6. TellRebound(e) => Moves
      BY TellEffect
  <2> HIDE DEF Moves
  <2>7. Moves
      BY <1>4, <2>1, <2>2, <2>3, <2>4, <2>5, <2>6
  <2> QED
      BY <2>7 DEF Moves
<1> HIDE DEF Moves
<1>5. CASE EndsOrFocuses(e)
    BY <1>5, EndsEffect DEF Running, EmitAt
<1> QED
    BY <1>1, <1>2, <1>3, <1>4, <1>5, EmitsApart DEF Plods, EndsOrFocuses

-----------------------------------------------------------------------------
(* The steps once an emit has arrived, and what each leaves alone *)

\* An emit that thinks, is folded in, publishes, binds or tells; a connection that
\* goes; a pump; a sweep; or a step that is none of the activities' business.
ThinkStep(e)   == Thinks(e) /\ UNCHANGED <<clientPart, flowPart, truthPart, layout>>
ApplyStep(e)   == ApplyEmit(e) /\ UNCHANGED <<clientPart, flowPart, janitor, layout>>
ChangeStep(e)  == PublishChange(e) /\ UNCHANGED <<clientPart, pump, view, truthPart, layout>>
BindStep(e)    == /\ BindUnbound(e)
                  /\ UNCHANGED <<scenario, conn, subs, registered, broken, flowPart, truthPart, layout>>
ReboundStep(e) == TellRebound(e) /\ UNCHANGED <<clientPart, buf, pump, truthPart, layout>>
DepartStep(k)  == Departs(k) /\ UNCHANGED <<scenario, sub, flowPart, truthPart, emit, layout>>
FlowStep(i)    == PumpStep(i) /\ UNCHANGED <<clientPart, truthPart, emit, layout>>
ProbeStep(s)   == ProbeSession(s) /\ UNCHANGED <<clientPart, flowPart, clock, emit, layout>>
UnknownStep(s) == PublishUnknown(s) /\ UNCHANGED <<clientPart, pump, view, sessions, clock, emit, layout>>
SweepStep      == Sweeps /\ UNCHANGED <<clientPart, flowPart, sessions, clock, emit, layout>>
Elsewhere      == UNCHANGED <<clientPart, flowPart, truthPart, emit>>

\* A step of an emit's goroutine.
EmitStep(e) == ThinkStep(e) \/ ApplyStep(e) \/ ChangeStep(e) \/ BindStep(e) \/ ReboundStep(e)

\* Every step is one of these.
LEMMA EmitFrames ==
    ASSUME NEW e \in EmitIds, Arrive(e) \/ ServeEmit(e) \/ AfterEmit(e)
    PROVE  EmitStep(e)
<1> USE DEF notEmit, busVars, registryVars, clientPart, flowPart, truthPart
<1>1. CASE Thinks(e)
    BY <1>1, ThinksEffect DEF ThinkStep, EmitStep
<1>2. CASE ApplyEmit(e)
    BY <1>2 DEF ApplyEmit, ApplyStep, EmitStep
<1>3. CASE PublishChange(e)
    BY <1>3 DEF PublishChange, Publish, ChangeStep, EmitStep
<1>4. CASE BindUnbound(e)
    BY <1>4 DEF BindUnbound, Rebind, BindStep, EmitStep
<1>5. CASE TellRebound(e)
    BY <1>5 DEF TellRebound, ReboundStep, EmitStep
<1> QED
    BY <1>1, <1>2, <1>3, <1>4, <1>5 DEF ServeEmit, AfterEmit, Thinks

LEMMA JanitorFrames ==
    ASSUME BeginSweep \/ JanitorStep
    PROVE  SweepStep \/ \E s \in SessionIds : ProbeStep(s) \/ UnknownStep(s)
<1> USE DEF notJanitor, busVars, registryVars, clientPart, flowPart
<1>1. ASSUME NEW s \in SessionIds, ProbeSession(s) PROVE ProbeStep(s)
    BY <1>1 DEF ProbeSession, ProbeStep
<1>2. ASSUME NEW s \in SessionIds, PublishUnknown(s) PROVE UnknownStep(s)
    BY <1>2 DEF PublishUnknown, Publish, UnknownStep
<1>3. CASE FlagForUnknown
    BY <1>3 DEF FlagForUnknown, RaiseFlag, Sweeps, SweepStep
<1>4. CASE BeginSweep \/ EndGC \/ ListUnknown \/ EndSweep
    BY <1>4 DEF Sweeps, BeginSweep, EndGC, ListUnknown, EndSweep, SweepStep
<1> QED
    BY <1>1, <1>2, <1>3, <1>4 DEF JanitorStep

\* With every script over, a connection's steps are those of its end.
LEMMA ConnFrames ==
    ASSUME NEW k \in Sinks, ConnStep(k) \/ Hangup(k),
           conn[k].pc \in {"closing", "closed"} \/ (ConnAt(k, "read") /\ conn[k].todo = << >>)
    PROVE  DepartStep(k)
<1>1. CASE Hangup(k)
    BY <1>1 DEF Hangup, Break, Departs, DepartStep, notConn, registryVars, flowPart, truthPart
<1>2. CASE RemoveDoomed(k)
    BY <1>2 DEF RemoveDoomed, Unsubscribe, Departs, DepartStep, notConn, registryVars, flowPart, truthPart
<1>3. CASE ForgetConn(k)
    BY <1>3 DEF ForgetConn, Departs, DepartStep, notConn, busVars, registryVars, flowPart, truthPart
<1>4. CASE ConnStep(k) /\ ~RemoveDoomed(k) /\ ~ForgetConn(k)
  <2>1. CASE ReadSubscribe(k) \/ ReadUnsubscribe(k) \/ ReadFocusRequest(k)
      BY <2>1 DEF ReadSubscribe, ReadUnsubscribe, ReadFocusRequest, Reads, ConnAt
  <2>2. CASE ResolveForSubscribe(k) \/ JoinBus(k) \/ RecordSub(k) \/ LookForSubscriber(k)
             \/ TellSubscriber(k) \/ LeaveBus(k)
      BY <2>2 DEF ResolveForSubscribe, JoinBus, RecordSub, LookForSubscriber, TellSubscriber,
                  LeaveBus, ConnAt
  <2> QED
      BY <1>4, <2>1, <2>2 DEF ConnStep
<1> QED
    BY <1>1, <1>2, <1>3, <1>4

LEMMA DayCases ==
    ASSUME ScriptsOver, [Next]_vars, ~NoneYet'
    PROVE  \/ \E e \in EmitIds : EmitStep(e)
           \/ \E k \in Sinks : DepartStep(k)
           \/ \E i \in SubIds : FlowStep(i)
           \/ \E s \in SessionIds : ProbeStep(s) \/ UnknownStep(s)
           \/ SweepStep
           \/ Elsewhere
<1>1. ASSUME NEW k \in Sinks, ConnStep(k) \/ Hangup(k) PROVE DepartStep(k)
  <2>1. emit' = emit
      BY <1>1 DEF Hangup, ConnStep, ReadSubscribe, ResolveForSubscribe, JoinBus, RecordSub,
                  LookForSubscriber, TellSubscriber, ReadUnsubscribe, LeaveBus,
                  ReadFocusRequest, RemoveDoomed, ForgetConn, notConn
  <2>2. ~NoneYet
      BY <2>1 DEF NoneYet, EmitAt
  <2> QED
      BY <1>1, <2>2, ConnFrames DEF ScriptsOver
<1> USE DEF busVars, registryVars, clientPart, flowPart, truthPart
<1>2. ASSUME NEW s \in SessionIds, GoIdle(s) PROVE Elsewhere
    BY <1>2 DEF GoIdle, Elsewhere
<1>3. ASSUME NEW socket \in DOMAIN layout, NEW p \in PaneIds, ClosePane(socket, p) PROVE Elsewhere
    BY <1>3 DEF ClosePane, Elsewhere
<1>4. ASSUME NEW a \in asks, DecideAsked(a) \/ SwitchAsked(a) PROVE Elsewhere
    BY <1>4 DEF DecideAsked, SwitchAsked, Elsewhere
<1>5. ASSUME NEW i \in SubIds, PumpStep(i) PROVE FlowStep(i)
  <2>1. UNCHANGED nonPumpVars
      BY <1>5 DEF PumpStep, Stop, Receive, CheckOverflow, Announce, Resync, Push, Write
  <2> QED
      BY <1>5, <2>1 DEF PumpStep, notPump, nonPumpVars, FlowStep
<1>6. ASSUME UNCHANGED vars PROVE Elsewhere
    BY <1>6 DEF vars, Elsewhere
<1> QED
    BY <1>1, <1>2, <1>3, <1>4, <1>5, <1>6, EmitFrames, JanitorFrames DEF Next, Environment

\* A step of the day: an emit has arrived when it is over.
Day == Still /\ [Next]_vars /\ ~NoneYet'

\* What the day leaves standing.
LEMMA DayFrame ==
    ASSUME OneEmitServer, Day
    PROVE  /\ UNCHANGED <<Msg, EmitServer>>
           /\ registered' \subseteq registered
           /\ \A k \in Sinks : Live(k)' => Live(k) /\ subs'[k] = subs[k]
           /\ \A k, i : Owns(k, i) => Owns(k, i)'
           /\ \A i \in Started : /\ sub'[i].mode = sub[i].mode /\ sub'[i].pane = sub[i].pane
                                 /\ sub'[i].sink = sub[i].sink
                                 /\ sub[i].bound # None => sub'[i].bound = sub[i].bound
                                 /\ Near(i)' \subseteq Near(i)
<1>0. /\ TInv /\ Shape /\ ScriptsOver /\ [Next]_vars /\ ~NoneYet' /\ LayoutShrinks
      /\ sub \in [SubIds -> SubRecord]
    BY DEF Day, Still, UInv, TInv, Calm, SubsTyped
<1>1. UNCHANGED <<scenario, Msg, EmitServer>>
    BY <1>0, ScenarioStays DEF Msg, EmitServer
<1>2. ASSUME NEW i \in Started
      PROVE  /\ sub'[i].mode = sub[i].mode /\ sub'[i].pane = sub[i].pane /\ sub'[i].sink = sub[i].sink
             /\ sub[i].bound # None => sub'[i].bound = sub[i].bound
  <2>1. sub'[i] = [sub[i] EXCEPT !.bound = sub'[i].bound] /\ sub[i] \in SubRecord
      BY <1>0, SubsStep DEF Started
  <2> QED
      BY <1>0, <2>1, StickyStep DEF SubRecord, Started
<1>3. ASSUME NEW i \in Started PROVE Near(i)' \subseteq Near(i)
  <2>1. EmitServer \in DOMAIN layout
    <3>1. PICK server \in Sockets \cup {None} : \A e \in DOMAIN Msg : Msg[e].socket = server
        BY <1>0 DEF OneEmitServer, Shape, Msg
    <3>2. EmitServer \in Sockets \cup {None}
        BY <3>1 DEF EmitServer
    <3> QED
        BY <1>0, <3>2, ScenariosAssumption DEF LayoutShrinks, Layout, Scenario, Shape
  <2>2. sub'[i].pane = sub[i].pane /\ OnlyClosing
      BY <1>0, <1>2, PanesClose
  <2> QED
      BY <1>1, <2>1, <2>2 DEF Near, OnlyClosing
<1>4. \A k, i : Owns(k, i) => Owns(k, i)'
    BY <1>0, <1>2, BuffersStep DEF Owns
<1> DEFINE Shrinks == /\ registered' \subseteq registered /\ broken \subseteq broken'
                      /\ DOMAIN subs' \subseteq DOMAIN subs
                      /\ \A k \in DOMAIN subs' : subs'[k] = subs[k]
<1>5. ASSUME UNCHANGED <<registered, broken, subs>> PROVE Shrinks
    BY <1>5
<1>6. ASSUME NEW e \in EmitIds, EmitStep(e) PROVE Shrinks
    BY <1>6 DEF EmitStep, ThinkStep, ApplyStep, ChangeStep, BindStep, ReboundStep, clientPart
<1>7. ASSUME NEW k \in Sinks, DepartStep(k) PROVE Shrinks
    BY <1>7 DEF DepartStep, Departs, Hangup, RemoveDoomed, ForgetConn, Break, Unsubscribe, Without,
                notConn, busVars
<1>8. ASSUME \/ \E i \in SubIds : FlowStep(i)
             \/ \E s \in SessionIds : ProbeStep(s) \/ UnknownStep(s)
             \/ SweepStep \/ Elsewhere
      PROVE  Shrinks
    BY <1>8 DEF FlowStep, ProbeStep, UnknownStep, SweepStep, Elsewhere, clientPart
<1>9. Shrinks
    BY <1>0, <1>6, <1>7, <1>8, DayCases
<1> QED
    BY <1>1, <1>2, <1>3, <1>4, <1>9 DEF Live

LEMMA EmitAlone ==
    ASSUME Shape, NEW e \in EmitIds, EmitStep(e)
    PROVE  \A d \in EmitIds \ {e} : emit'[d] = emit[d]
<1>1. CASE Arrive(e)
    BY <1>1 DEF Arrive, Shape
<1>2. CASE ApplyEmit(e)
    BY <1>2, ApplyEffect
<1>3. CASE Plods(e)
    BY <1>3, PlodsEffect
<1>4. CASE EndRebind(e) \/ PickPane(e) \/ SwitchFocus(e)
    BY <1>4, EndEffect
<1>5. CASE DecideFocus(e)
    BY <1>5, DecideEffect
<1> QED
    BY <1>1, <1>2, <1>3, <1>4, <1>5
       DEF EmitStep, ThinkStep, ApplyStep, ChangeStep, BindStep, ReboundStep, Thinks, Plods

\* While an emit runs nothing else does.
LEMMA Alone ==
    ASSUME Still, NEW e \in EmitIds, Running(e)
    PROVE  Found = {} /\ janitor.pc = "wait" /\ \A d \in EmitIds : Running(d) => d = e
BY DEF Still, Calm, OneAtATime, Found

LEMMA DepartEffect ==
    ASSUME Shape, NEW k \in Sinks, Departs(k)
    PROVE  /\ \A j \in Sinks \ {k} : conn'[j] = conn[j]
           /\ conn'[k].pc \in {"closing", "closed"}
           /\ broken \subseteq broken' /\ (conn[k].pc = "closing" \/ k \in broken')
           /\ registered' \subseteq registered
           /\ \A i \in registered \ registered' : conn[k].pc = "closing" /\ i \in conn[k].doomed
           /\ conn'[k].pc = "closing" =>
                 \/ conn'[k].doomed \subseteq Writing(k)
                 \/ conn[k].pc = "closing" /\ conn'[k].doomed \subseteq conn[k].doomed
<1> USE DEF Shape, ConnFields, ConnAt
<1>1. CASE Hangup(k)
    BY <1>1 DEF Hangup, Break, NewConn
<1>2. CASE RemoveDoomed(k)
  <2>1. PICK i \in conn[k].doomed : Unsubscribe(i) /\ conn' = [conn EXCEPT ![k].doomed = @ \ {i}]
      BY <1>2 DEF RemoveDoomed
  <2> QED
      BY <1>2, <2>1 DEF RemoveDoomed, Unsubscribe
<1>3. CASE ForgetConn(k)
    BY <1>3 DEF ForgetConn, busVars
<1> QED
    BY <1>1, <1>2, <1>3 DEF Departs

-----------------------------------------------------------------------------
(* The order of things *)

LEMMA ScriptsOverStep == ASSUME Day PROVE ScriptsOver'
<1>0. /\ Shape /\ [Next]_vars /\ ~NoneYet' /\ ScriptsOver /\ Overlaps = {}
    BY DEF Day, Still, UInv, TInv, Calm
<1>1. ASSUME NEW e \in EmitIds, EmitStep(e) PROVE ScriptsOver'
  <2>1. conn' = conn
      BY <1>1 DEF EmitStep, ThinkStep, ApplyStep, ChangeStep, BindStep, ReboundStep, clientPart
  <2>2. CASE ~NoneYet
      BY <1>0, <2>1, <2>2 DEF ScriptsOver, ConnAt
  <2>3. CASE NoneYet
    <3>1. emit'[e] # emit[e]
        BY <1>0, <1>1, <2>3, EmitAlone DEF NoneYet, EmitAt
    <3>2. Arrive(e)
        BY <1>0, <2>3, <3>1, EmitMoves DEF NoneYet, EmitAt, Running
    <3>3. \A k \in Sinks : conn[k].pc = "read" /\ conn[k].todo = << >>
        BY <1>0, <3>2 DEF Arrive
    <3> QED
        BY <2>1, <3>3 DEF ScriptsOver, ConnAt
  <2> QED
      BY <2>2, <2>3
<1>2. ASSUME emit' = emit, \A k \in Sinks : conn'[k] = conn[k] \/ conn'[k].pc \in {"closing", "closed"}
      PROVE  ScriptsOver'
    BY <1>0, <1>2 DEF ScriptsOver, NoneYet, EmitAt, ConnAt
<1>3. ASSUME NEW k \in Sinks, DepartStep(k) PROVE ScriptsOver'
    BY <1>0, <1>2, <1>3, DepartEffect DEF DepartStep
<1>4. ASSUME \/ \E i \in SubIds : FlowStep(i)
             \/ \E s \in SessionIds : ProbeStep(s) \/ UnknownStep(s)
             \/ SweepStep \/ Elsewhere
      PROVE  ScriptsOver'
    BY <1>2, <1>4 DEF FlowStep, ProbeStep, UnknownStep, SweepStep, Elsewhere, clientPart
<1> QED
    BY <1>0, <1>1, <1>3, <1>4, DayCases

LEMMA OneAtATimeStep == ASSUME Day PROVE OneAtATime'
<1>0. /\ Shape /\ [Next]_vars /\ ~NoneYet' /\ ScriptsOver /\ Overlaps = {} /\ OneAtATime
    BY DEF Day, Still, UInv, TInv, Calm
<1>1. ASSUME NEW e \in EmitIds, EmitStep(e) PROVE OneAtATime'
  <2>1. janitor' = janitor
      BY <1>1 DEF EmitStep, ThinkStep, ApplyStep, ChangeStep, BindStep, ReboundStep, truthPart
  <2>2. \A d \in EmitIds \ {e} : emit'[d] = emit[d]
      BY <1>0, <1>1, EmitAlone
  <2>3. CASE Arrive(e)
      BY <1>0, <2>1, <2>2, <2>3 DEF Arrive, EmitsSettled, OneAtATime, Running
  <2>4. CASE ~Arrive(e)
    <3>1. Running(e)' => Running(e)
        BY <1>0, <2>4, EmitMoves DEF Running, EmitAt
    <3> QED
        BY <1>0, <2>1, <2>2, <3>1 DEF OneAtATime, Running
  <2> QED
      BY <2>3, <2>4
<1>2. ASSUME emit' = emit, \/ janitor'.pc = janitor.pc
                           \/ janitor.pc # "wait" \/ EmitsSettled
      PROVE  OneAtATime'
    BY <1>0, <1>2 DEF OneAtATime, Running, EmitsSettled
<1>3. ASSUME NEW s \in SessionIds, ProbeStep(s) \/ UnknownStep(s) PROVE OneAtATime'
  <2>1. emit' = emit
      BY <1>3 DEF ProbeStep, UnknownStep
  <2>2. ProbeSession(s) => janitor.pc = "probe"
      BY Zenon DEF ProbeSession
  <2>3. PublishUnknown(s) => janitor.pc = "publish"
      BY DEF PublishUnknown
  <2> QED
      BY <1>2, <1>3, <2>1, <2>2, <2>3 DEF ProbeStep, UnknownStep
<1>4. CASE SweepStep
  <2>1. janitor.pc # "wait" \/ EmitsSettled
      BY <1>0, <1>4, Zenon DEF SweepStep, Sweeps, BeginSweep, EndGC, ListUnknown, FlagForUnknown, EndSweep
  <2> QED
      BY <1>2, <1>4, <2>1 DEF SweepStep
<1>5. ASSUME \/ \E k \in Sinks : DepartStep(k)
             \/ \E i \in SubIds : FlowStep(i)
             \/ Elsewhere
      PROVE  OneAtATime'
    BY <1>2, <1>5 DEF DepartStep, FlowStep, Elsewhere, truthPart
<1> QED
    BY <1>0, <1>1, <1>3, <1>4, <1>5, DayCases

LEMMA HungUpStep == ASSUME Day PROVE HungUp'
<1>0. /\ Shape /\ [Next]_vars /\ ~NoneYet' /\ ScriptsOver /\ HungUp
    BY DEF Day, Still, UInv, TInv, Calm
<1>1. ASSUME NEW k \in Sinks, DepartStep(k) PROVE HungUp'
    BY <1>0, <1>1, DepartEffect DEF DepartStep, HungUp
<1>2. ASSUME UNCHANGED <<conn, broken>> PROVE HungUp'
    BY <1>0, <1>2 DEF HungUp
<1>3. ASSUME NEW e \in EmitIds, EmitStep(e) PROVE UNCHANGED <<conn, broken>>
    BY <1>3 DEF EmitStep, ThinkStep, ApplyStep, ChangeStep, BindStep, ReboundStep, clientPart
<1>4. ASSUME \/ \E i \in SubIds : FlowStep(i)
             \/ \E s \in SessionIds : ProbeStep(s) \/ UnknownStep(s)
             \/ SweepStep \/ Elsewhere
      PROVE  UNCHANGED <<conn, broken>>
    BY <1>4 DEF FlowStep, ProbeStep, UnknownStep, SweepStep, Elsewhere, clientPart
<1> QED
    BY <1>0, <1>1, <1>2, <1>3, <1>4, DayCases

\* What leaves the bus is a subscription of a connection that is gone.
LEMMA LeaversHungUp ==
    ASSUME Day, NEW i \in registered \ registered'
    PROVE  i \in Started /\ sub[i].sink \in broken
<1>0. /\ Shape /\ SubsTyped /\ [Next]_vars /\ ~NoneYet' /\ ScriptsOver /\ HungUp /\ \A k \in Sinks : ConnKnows(k)
    BY DEF Day, Still, UInv, TInv, Calm
<1>1. ASSUME NEW k \in Sinks, DepartStep(k) PROVE sub[i].sink \in broken
    BY <1>0, <1>1, DepartEffect DEF DepartStep, HungUp, ConnKnows, Owns
<1>2. ASSUME NEW e \in EmitIds, EmitStep(e) PROVE registered' = registered
    BY <1>2 DEF EmitStep, ThinkStep, ApplyStep, ChangeStep, BindStep, ReboundStep, clientPart
<1>3. ASSUME \/ \E j \in SubIds : FlowStep(j)
             \/ \E s \in SessionIds : ProbeStep(s) \/ UnknownStep(s)
             \/ SweepStep \/ Elsewhere
      PROVE  registered' = registered
    BY <1>3 DEF FlowStep, ProbeStep, UnknownStep, SweepStep, Elsewhere, clientPart
<1> QED
    BY <1>0, <1>1, <1>2, <1>3, DayCases DEF SubsTyped

LEMMA LiveSubsStep == ASSUME OneEmitServer, Day PROVE LiveSubs'
<1>0. LiveSubs /\ SubsTyped
    BY DEF Day, Still, UInv, TInv, Calm
<1>1. SUFFICES ASSUME NEW k \in Sinks, Live(k)' PROVE subs'[k] \in registered'
    BY DEF LiveSubs
<1>2. Live(k) /\ subs'[k] = subs[k] /\ subs[k] \in registered /\ sub[subs[k]].sink = k
    BY <1>0, <1>1, DayFrame DEF LiveSubs, SubsTyped, Live
<1> QED
    BY <1>2, LeaversHungUp DEF Live

-----------------------------------------------------------------------------
(* What goes through a subscription                                         *)

\* The rest of a buffer that is not empty.
LEMMA FrameTail ==
    ASSUME NEW frames \in Seq(StateFrames), frames # << >>
    PROVE  /\ Tail(frames) \in Seq(StateFrames) /\ Len(frames) \in Nat \ {0}
           /\ Len(Tail(frames)) = Len(frames) - 1 /\ Head(frames) = frames[1]
           /\ \A x \in 1..Len(Tail(frames)) : Tail(frames)[x] = frames[x + 1]
           /\ Tail(frames) = << >> <=> Len(frames) = 1
<1>1. /\ Len(frames) \in Nat \ {0} /\ Tail(frames) \in Seq(StateFrames)
      /\ Len(Tail(frames)) = Len(frames) - 1
    OBVIOUS
<1>2. Tail(frames) = << >> <=> Len(Tail(frames)) = 0
    BY <1>1
<1> QED
    BY <1>1, <1>2

\* A pump hands on what it has, in order: the newest frame stays the newest until
\* it is told.
LEMMA PumpFlow ==
    ASSUME TInv, NEW i \in SubIds, PumpStep(i)
    PROVE  /\ \A j \in SubIds \ {i} : buf'[j] = buf[j] /\ pump'[j] = pump[j]
           /\ Len(buf'[i]) <= Len(buf[i])
           /\ Empty(i) => Empty(i)' /\ view' = view
           /\ ~Empty(i)' => Newest(i)' = Newest(i)
           /\ Len(buf'[i]) > 1 => buf'[i][Len(buf'[i])] = buf[i][Len(buf[i])]
           /\ \A k \in Sinks \ {sub[i].sink} : view'[k] = view[k]
           /\ Empty(i)' /\ ~Empty(i) => Tell(sub[i].sink, Newest(i))
<1>0. /\ DOMAIN pump = SubIds /\ DOMAIN pump[i] = {"pc", "hand", "snap"} /\ pump[i].pc \in PumpPlaces
      /\ DOMAIN buf = SubIds /\ buf[i] \in Seq(StateFrames)
    BY DEF TInv, BuffersTyped, PumpTyped
<1>1. ASSUME NEW k, NEW told, Tell(k, told) PROVE \A j \in Sinks \ {k} : view'[j] = view[j]
  <2>1. DOMAIN view = Sinks
      BY DEF TInv, BuffersTyped
  <2> QED
      BY <1>1, <2>1 DEF Tell
<1> DEFINE Moves == /\ pump[i].pc = "select" /\ pump'[i].pc = "exited"
                    /\ pump'[i].hand = pump[i].hand /\ UNCHANGED <<buf, view>>
           Keeps == /\ Holding(i) /\ Holding(i)' /\ pump'[i].hand = pump[i].hand /\ UNCHANGED buf
                    /\ view' = view \/ Tell(sub[i].sink, pump[i].snap)
           Takes == /\ pump[i].pc = "select" /\ Holding(i)' /\ buf[i] # << >>
                    /\ pump'[i].hand = Head(buf[i]) /\ buf' = [buf EXCEPT ![i] = Tail(buf[i])]
                    /\ view' = view
           Gives == /\ Holding(i) /\ ~Holding(i)' /\ UNCHANGED buf /\ Tell(sub[i].sink, pump[i].hand)
<1>2. /\ \A j \in SubIds \ {i} : pump'[j] = pump[j]
      /\ Moves \/ Keeps \/ Takes \/ Gives
  <2>1. ASSUME NEW place \in PumpPlaces, pump' = [pump EXCEPT ![i].pc = place]
        PROVE  /\ pump'[i].pc = place /\ pump'[i].hand = pump[i].hand
               /\ \A j \in SubIds \ {i} : pump'[j] = pump[j]
      BY <1>0, <2>1
  <2>2. CASE Stop(i) /\ UNCHANGED view
      BY <2>1, <2>2 DEF Stop, At, GoesTo, PumpPlaces
  <2>3. CASE CheckOverflow(i) /\ UNCHANGED view
      BY <2>1, <2>3 DEF CheckOverflow, At, GoesTo, PumpPlaces, Holding
  <2>4. CASE Announce(i) /\ UNCHANGED view
      BY <2>1, <2>4 DEF Announce, At, GoesTo, PumpPlaces, Holding
  <2>5. CASE Push(i) /\ Tell(sub[i].sink, pump[i].snap)
      BY <2>1, <2>5 DEF Push, At, GoesTo, PumpPlaces, Holding
  <2>6. CASE Receive(i) /\ UNCHANGED view
    <3>1. /\ pump' = [pump EXCEPT ![i] = [@ EXCEPT !.pc = "check", !.hand = Head(buf[i])]]
          /\ pump[i].pc = "select" /\ buf[i] # << >> /\ buf' = [buf EXCEPT ![i] = Tail(buf[i])]
        BY <2>6 DEF Receive, At
    <3> QED
        BY <1>0, <2>6, <3>1 DEF Holding
  <2>7. CASE (\E snap \in Snapshots(sub[i].bound) : Resync(i, snap)) /\ UNCHANGED view
    <3>1. PICK snap : Resync(i, snap)
        BY <2>7
    <3>2. /\ pump' = [pump EXCEPT ![i] = [@ EXCEPT !.pc = "push", !.snap = snap]]
          /\ pump[i].pc = "resync" /\ UNCHANGED buf
        BY <3>1 DEF Resync, At
    <3> QED
        BY <1>0, <2>7, <3>2 DEF Holding
  <2>8. CASE Write(i) /\ Tell(sub[i].sink, pump[i].hand)
    <3>1. PICK place \in {"select", "exited"} :
              pump' = [pump EXCEPT ![i] = [@ EXCEPT !.pc = place, !.hand = NoFrame, !.snap = NoFrame]]
        BY <2>8 DEF Write
    <3> QED
        BY <1>0, <2>8, <3>1 DEF Write, At, Holding
  <2> QED
      BY <2>2, <2>3, <2>4, <2>5, <2>6, <2>7, <2>8 DEF PumpStep
<1> HIDE DEF Moves, Keeps, Takes, Gives
<1>3. CASE Moves \/ Keeps
    BY <1>0, <1>1, <1>2, <1>3 DEF Moves, Keeps, Empty, Newest, Holding
<1>4. CASE Gives
    BY <1>0, <1>1, <1>2, <1>4 DEF Gives, Empty, Newest
<1>5. CASE Takes
  <2>1. /\ Tail(buf[i]) \in Seq(StateFrames) /\ Len(buf[i]) \in Nat \ {0}
        /\ Len(Tail(buf[i])) = Len(buf[i]) - 1 /\ Head(buf[i]) = buf[i][1]
        /\ \A x \in 1..Len(Tail(buf[i])) : Tail(buf[i])[x] = buf[i][x + 1]
        /\ Tail(buf[i]) = << >> <=> Len(buf[i]) = 1
      BY <1>0, <1>5, FrameTail DEF Takes
  <2>2. /\ buf'[i] = Tail(buf[i]) /\ \A j \in SubIds \ {i} : buf'[j] = buf[j]
        /\ pump'[i].hand = Head(buf[i]) /\ Holding(i)' /\ view' = view /\ buf[i] # << >>
      BY <1>0, <1>5 DEF Takes
  <2>3. Newest(i)' = Newest(i)
    <3>1. CASE Len(buf[i]) = 1
        BY <2>1, <2>2, <3>1 DEF Newest
    <3>2. CASE Len(buf[i]) # 1
        BY <2>1, <2>2, <3>2 DEF Newest
    <3> QED
        BY <3>1, <3>2
  <2>4. ~Empty(i) /\ ~Empty(i)'
      BY <2>2 DEF Empty
  <2>5. Len(buf'[i]) > 1 => buf'[i][Len(buf'[i])] = buf[i][Len(buf[i])]
      BY <2>1, <2>2
  <2> QED
      BY <1>2, <2>1, <2>2, <2>3, <2>4, <2>5
<1> QED
    BY <1>2, <1>3, <1>4, <1>5

\* What a publication puts in the buffers.
LEMMA PublishGrows ==
    ASSUME NEW frame, Publish(frame), NEW i \in SubIds
    PROVE  buf'[i] = IF i \in registered /\ Matches(i, frame.session) /\ Len(buf[i]) # BufferSize
                     THEN Append(buf[i], frame) ELSE buf[i]
BY DEF Publish

\* The sinks never change.
LEMMA SinksStay == ASSUME OneEmitServer, Day, NEW i \in SubIds PROVE sub'[i].sink = sub[i].sink
<1>0. /\ Shape /\ [Next]_vars /\ ~NoneYet' /\ ScriptsOver
    BY DEF Day, Still, UInv, TInv, Calm
<1>1. ASSUME NEW e \in EmitIds, EmitStep(e) PROVE sub'[i].sink = sub[i].sink
    BY <1>0, <1>1, RebindEffect DEF EmitStep, ThinkStep, ApplyStep, ChangeStep, BindStep, ReboundStep, clientPart
<1>2. ASSUME \/ \E k \in Sinks : DepartStep(k)
             \/ \E j \in SubIds : FlowStep(j)
             \/ \E s \in SessionIds : ProbeStep(s) \/ UnknownStep(s)
             \/ SweepStep \/ Elsewhere
      PROVE  sub' = sub
    BY <1>2 DEF DepartStep, FlowStep, ProbeStep, UnknownStep, SweepStep, Elsewhere, clientPart
<1> QED
    BY <1>0, <1>1, <1>2, DayCases

LEMMA GoneStep == ASSUME OneEmitServer, Day PROVE Gone'
<1>0. /\ TInv /\ Shape /\ [Next]_vars /\ ~NoneYet' /\ ScriptsOver /\ Gone
    BY DEF Day, Still, UInv, TInv, Calm
<1> SUFFICES ASSUME NEW i \in SubIds, (i \notin registered /\ Reachable(i))' PROVE Empty(i)'
    BY DEF Gone
<1>1. broken \subseteq broken'
  <2>1. ASSUME NEW e \in EmitIds, EmitStep(e) PROVE broken' = broken
      BY <2>1 DEF EmitStep, ThinkStep, ApplyStep, ChangeStep, BindStep, ReboundStep, clientPart
  <2>2. ASSUME NEW k \in Sinks, DepartStep(k) PROVE broken \subseteq broken'
      BY <1>0, <2>2, DepartEffect DEF DepartStep
  <2>3. ASSUME \/ \E j \in SubIds : FlowStep(j)
               \/ \E s \in SessionIds : ProbeStep(s) \/ UnknownStep(s)
               \/ SweepStep \/ Elsewhere
        PROVE  broken' = broken
      BY <2>3 DEF FlowStep, ProbeStep, UnknownStep, SweepStep, Elsewhere, clientPart
  <2> QED
      BY <1>0, <2>1, <2>2, <2>3, DayCases
<1>2. i \notin registered /\ Reachable(i)
    BY <1>1, LeaversHungUp, SinksStay DEF Reachable
<1>3. Empty(i)
    BY <1>0, <1>2 DEF Gone
<1>4. ASSUME buf'[i] = buf[i], pump'[i] = pump[i] PROVE Empty(i)'
    BY <1>3, <1>4 DEF Empty, Holding
<1>5. ASSUME NEW j \in SubIds, FlowStep(j) PROVE Empty(i)'
    BY <1>0, <1>3, <1>4, <1>5, PumpFlow DEF FlowStep
<1>6. ASSUME NEW e \in EmitIds, EmitStep(e) PROVE Empty(i)'
  <2>1. CASE ChangeStep(e)
      BY <1>2, <1>4, <2>1, PublishGrows DEF ChangeStep, PublishChange
  <2> QED
      BY <1>4, <1>6, <2>1 DEF EmitStep, ThinkStep, ApplyStep, BindStep, ReboundStep, flowPart
<1>7. ASSUME NEW s \in SessionIds, UnknownStep(s) PROVE Empty(i)'
    BY <1>2, <1>4, <1>7, PublishGrows DEF UnknownStep, PublishUnknown
<1>8. ASSUME \/ \E k \in Sinks : DepartStep(k)
             \/ \E s \in SessionIds : ProbeStep(s)
             \/ SweepStep \/ Elsewhere
      PROVE  Empty(i)'
    BY <1>4, <1>8 DEF DepartStep, ProbeStep, SweepStep, Elsewhere, flowPart
<1> QED
    BY <1>0, <1>5, <1>6, <1>7, <1>8, DayCases

\* The janitor asks about a session: it finds it gone, or nothing changes.
LEMMA ProbeFinds ==
    ASSUME NEW s, ProbeSession(s)
    PROVE  \/ /\ sessions' = sessions
              /\ janitor' = [janitor EXCEPT !.todo = @ \ {s}, !.reaped = janitor.reaped]
           \/ /\ sessions' = [sessions EXCEPT ![s].state = Unknown]
              /\ janitor' = [janitor EXCEPT !.todo = @ \ {s}, !.reaped = janitor.reaped \cup {s}]
BY Zenon DEF ProbeSession

LEMMA SweepKnownStep == ASSUME Day PROVE SweepKnown'
<1>0. /\ TInv /\ Shape /\ [Next]_vars /\ ~NoneYet' /\ ScriptsOver /\ SweepKnown
      /\ DOMAIN janitor = {"pc", "todo", "reaped"} /\ IsRegistry(sessions)
    BY DEF Day, Still, UInv, TInv, Calm, RegistryTyped
<1>1. ASSUME UNCHANGED <<sessions, janitor>> PROVE SweepKnown'
    BY <1>0, <1>1 DEF SweepKnown, Found
<1>2. ASSUME NEW e \in EmitIds, EmitStep(e) PROVE SweepKnown'
  <2>1. CASE ApplyStep(e)
    <3>1. Running(e)
        BY <1>0, <2>1, FoldEffect DEF ApplyStep, Running, EmitAt
    <3>2. janitor'.pc = "wait"
        BY <2>1, <3>1, Alone DEF Day, ApplyStep
    <3> QED
        BY <3>2 DEF SweepKnown, Found
  <2> QED
      BY <1>1, <1>2, <2>1 DEF EmitStep, ThinkStep, ChangeStep, BindStep, ReboundStep, truthPart
<1>3. ASSUME NEW s \in SessionIds, ProbeStep(s) PROVE SweepKnown'
  <2>1. janitor.pc = "probe" /\ s \in janitor.todo /\ s \in DOMAIN sessions
      BY <1>0, <1>3, ProbeEffect DEF ProbeStep, SweepKnown
  <2>2. \A t \in janitor.reaped : t \in DOMAIN sessions /\ sessions[t].state = Unknown
      BY <1>0, <2>1 DEF SweepKnown, Found
  <2>3. /\ janitor'.pc = "probe" /\ janitor'.todo \subseteq janitor.todo
        /\ DOMAIN sessions' = DOMAIN sessions
        /\ \A t \in DOMAIN sessions : sessions'[t].state = sessions[t].state \/ sessions'[t].state = Unknown
        /\ \A t \in janitor'.reaped : t \in janitor.reaped \/ (t = s /\ sessions'[t].state = Unknown)
    <3>1. CASE /\ sessions' = sessions
               /\ janitor' = [janitor EXCEPT !.todo = @ \ {s}, !.reaped = janitor.reaped]
        BY <1>0, <2>1, <3>1
    <3>2. CASE /\ sessions' = [sessions EXCEPT ![s].state = Unknown]
               /\ janitor' = [janitor EXCEPT !.todo = @ \ {s}, !.reaped = janitor.reaped \cup {s}]
      <4>1. "state" \in DOMAIN sessions[s]
          BY <1>0, <2>1 DEF Shape
      <4>2. /\ DOMAIN sessions' = DOMAIN sessions /\ sessions'[s].state = Unknown
            /\ \A t \in DOMAIN sessions \ {s} : sessions'[t] = sessions[t]
          BY <2>1, <3>2, <4>1
      <4>3. /\ janitor'.pc = "probe" /\ janitor'.todo = janitor.todo \ {s}
            /\ janitor'.reaped = janitor.reaped \cup {s}
          BY <1>0, <2>1, <3>2
      <4> QED
          BY <2>1, <4>2, <4>3
    <3> QED
        BY <1>3, <3>1, <3>2, ProbeFinds DEF ProbeStep
  <2> QED
      BY <1>0, <2>1, <2>2, <2>3 DEF SweepKnown, Found
<1>4. ASSUME NEW s \in SessionIds, UnknownStep(s) PROVE SweepKnown'
  <2>1. PICK place \in {"publish", "flag"} :
            janitor.pc = "publish" /\ janitor' = [janitor EXCEPT !.todo = @ \ {s}, !.pc = place]
      BY <1>4 DEF UnknownStep, PublishUnknown
  <2>2. /\ sessions' = sessions /\ janitor.pc = "publish"
        /\ janitor'.pc \in {"publish", "flag"} /\ janitor'.todo = janitor.todo \ {s}
      BY <1>0, <1>4, <2>1 DEF UnknownStep
  <2> QED
      BY <1>0, <2>1, <2>2 DEF SweepKnown, Found
<1>5. CASE SweepStep
  <2>1. ASSUME BeginSweep
        PROVE  /\ sessions' = sessions
               /\ janitor' = [pc |-> "probe", reaped |-> {},
                              todo |-> {s \in DOMAIN sessions \cap idle : sessions[s].state # Unknown}]
      BY <2>1, Zenon DEF BeginSweep, registryVars
  <2>2. CASE BeginSweep
      BY <2>1, <2>2 DEF SweepKnown, Found
  <2>3. CASE EndGC
    <3>1. /\ janitor.pc = "probe" /\ janitor'.reaped = janitor.reaped /\ sessions' = sessions
          /\ janitor'.pc = IF janitor.reaped = {} THEN "wait" ELSE "list"
        BY <1>0, <2>3 DEF EndGC, registryVars
    <3> QED
        BY <1>0, <3>1 DEF SweepKnown, Found
  <2>4. CASE ListUnknown
      BY <1>0, <2>4 DEF ListUnknown, registryVars, SweepKnown, Found
  <2>5. CASE EndSweep
      BY <1>0, <2>5 DEF EndSweep, registryVars, SweepKnown, Found
  <2>6. CASE FlagForUnknown
    <3>1. /\ sessions' = sessions /\ janitor.pc = "flag"
          /\ janitor'.pc \in {"publish", "flag"} /\ janitor'.todo = janitor.todo
        BY <1>0, <2>6 DEF FlagForUnknown, registryVars
    <3> QED
        BY <1>0, <3>1 DEF SweepKnown, Found
  <2> QED
      BY <1>5, <2>2, <2>3, <2>4, <2>5, <2>6 DEF SweepStep, Sweeps
<1>6. ASSUME \/ \E k \in Sinks : DepartStep(k)
             \/ \E i \in SubIds : FlowStep(i)
             \/ Elsewhere
      PROVE  SweepKnown'
    BY <1>1, <1>6 DEF DepartStep, FlowStep, Elsewhere, truthPart
<1> QED
    BY <1>0, <1>2, <1>3, <1>4, <1>5, <1>6, DayCases

\* An emit that is folded in stamps its session, and no other.
LEMMA FoldStamps ==
    ASSUME IsRegistry(sessions), clock \in Nat, NEW m \in EmitMessage,
           sessions' = ApplyTo(sessions, m, clock + 1)
    PROVE  /\ DOMAIN sessions' = DOMAIN sessions \cup {m.session}
           /\ \A t \in DOMAIN sessions \ {m.session} : sessions'[t] = sessions[t]
           /\ sessions'[m.session].lastEventAt # clock + 1 =>
                 /\ m.session \in DOMAIN sessions
                 /\ sessions'[m.session].lastEventAt = sessions[m.session].lastEventAt
           /\ sessions'[m.session].state # Lookup(sessions, m.session, clock + 1).state
                 => sessions'[m.session].lastEventAt = clock + 1
<1>1. \A s \in DOMAIN sessions : sessions[s] \in Session
    BY DEF IsRegistry
<1> QED
    BY <1>1 DEF ApplyTo, Lookup, FreshSession, Fold, Session

LEMMA CountedStep == ASSUME Day PROVE Counted'
<1>0. /\ TInv /\ Shape /\ [Next]_vars /\ ~NoneYet' /\ ScriptsOver /\ Counted /\ IsRegistry(sessions) /\ clock \in Nat
      /\ \A s \in DOMAIN sessions : sessions[s].lastEventAt \in Nat
    BY DEF Day, Still, UInv, TInv, Calm, RegistryTyped, IsRegistry, Session
<1>1. ASSUME UNCHANGED <<sessions, clock>> PROVE Counted'
    BY <1>0, <1>1 DEF Counted
<1>2. ASSUME NEW e \in EmitIds, EmitStep(e) PROVE Counted'
  <2>1. CASE ApplyStep(e)
    <3>1. Msg[e] \in EmitMessage
        BY <1>0, <2>1, ScenarioType DEF Shape, ApplyStep, ApplyEmit, EmitAt
    <3>2. CASE UNCHANGED <<sessions, clock>>
        BY <1>1, <3>2
    <3>3. CASE sessions' = ApplyTo(sessions, Msg[e], clock + 1) /\ clock' = clock + 1
      <4>1. /\ DOMAIN sessions' = DOMAIN sessions \cup {Msg[e].session}
            /\ \A t \in DOMAIN sessions \ {Msg[e].session} : sessions'[t] = sessions[t]
            /\ sessions'[Msg[e].session].lastEventAt # clock + 1 =>
                  /\ Msg[e].session \in DOMAIN sessions
                  /\ sessions'[Msg[e].session].lastEventAt = sessions[Msg[e].session].lastEventAt
          BY <1>0, <3>1, <3>3, FoldStamps
      <4> QED
          BY <1>0, <3>3, <4>1 DEF Counted
    <3> QED
        BY <1>0, <2>1, <3>2, <3>3, FoldEffect DEF ApplyStep
  <2> QED
      BY <1>1, <1>2, <2>1 DEF EmitStep, ThinkStep, ChangeStep, BindStep, ReboundStep, truthPart
<1>3. ASSUME NEW s \in SessionIds, ProbeStep(s) PROVE Counted'
  <2>1. sessions' = sessions \/ sessions' = [sessions EXCEPT ![s].state = Unknown]
      BY <1>3, ProbeFinds DEF ProbeStep
  <2>2. /\ DOMAIN sessions' = DOMAIN sessions
        /\ \A t \in DOMAIN sessions : sessions'[t].lastEventAt = sessions[t].lastEventAt
      BY <1>0, <2>1 DEF IsRegistry, Session
  <2>3. clock' = clock
      BY <1>3 DEF ProbeStep
  <2> QED
      BY <1>0, <2>2, <2>3 DEF Counted
<1>4. ASSUME \/ \E k \in Sinks : DepartStep(k)
             \/ \E i \in SubIds : FlowStep(i)
             \/ \E s \in SessionIds : UnknownStep(s)
             \/ SweepStep \/ Elsewhere
      PROVE  Counted'
    BY <1>1, <1>4 DEF DepartStep, FlowStep, UnknownStep, SweepStep, Elsewhere, truthPart
<1> QED
    BY <1>0, <1>2, <1>3, <1>4, DayCases

LEMMA BacklogStep == ASSUME OneEmitServer, BufferSize > 1, Day PROVE Backlog'
<1>0. /\ TInv /\ Shape /\ [Next]_vars /\ ~NoneYet' /\ ScriptsOver /\ Backlog /\ SubsTyped /\ BuffersTyped
      /\ BufferSize \in Nat /\ \A e \in EmitIds : InFlight(e)
    BY BufferSizeAssumption DEF Day, Still, UInv, TInv, Calm
<1> SUFFICES ASSUME NEW i \in registered', sub'[i].mode # "any", sub'[i].bound # None, Len(buf'[i]) > 1
             PROVE  Says(buf'[i][Len(buf'[i])], sub'[i].bound, Unknown)
    BY DEF Backlog, Says
<1>1. /\ i \in registered /\ i \in Started /\ i \in SubIds
      /\ sub[i].mode # "any" /\ (sub[i].bound # None => sub'[i].bound = sub[i].bound)
      /\ buf[i] \in Seq(StateFrames)
    BY <1>0, DayFrame DEF SubsTyped, Started, BuffersTyped
<1>2. ASSUME sub[i].bound # None, Len(buf'[i]) <= Len(buf[i]),
             buf'[i][Len(buf'[i])] = buf[i][Len(buf[i])]
      PROVE  Says(buf'[i][Len(buf'[i])], sub'[i].bound, Unknown)
  <2>1. Len(buf[i]) > 1
    <3>1. Len(buf[i]) \in Nat /\ Len(buf'[i]) \in Nat
        BY <1>0, <1>1, BuffersStep DEF BuffersTyped
    <3> QED
        BY <1>2, <3>1
  <2> QED
      BY <1>0, <1>1, <1>2, <2>1 DEF Backlog
<1>3. ASSUME sub' = sub, buf' = buf PROVE Says(buf'[i][Len(buf'[i])], sub'[i].bound, Unknown)
    BY <1>0, <1>1, <1>3 DEF Backlog
<1>4. ASSUME NEW e \in EmitIds, EmitStep(e) PROVE Says(buf'[i][Len(buf'[i])], sub'[i].bound, Unknown)
  <2>1. CASE ChangeStep(e)
    <3>1. Running(e) /\ EmitAt(e, "publish")
        BY <2>1 DEF ChangeStep, PublishChange, Running, EmitAt
    <3>2. buf[i] = << >>
        BY <1>0, <1>1, <3>1 DEF InFlight, EmitAt, Empty
    <3>3. \/ buf'[i] = << >> 
          \/ \E frame : buf'[i] = Append(<< >>, frame)
        BY <1>1, <2>1, <3>2, PublishGrows DEF ChangeStep, PublishChange
    <3> QED
        BY <3>3
  <2>2. CASE BindStep(e)
    <3>1. Running(e) /\ buf' = buf
        BY <2>2 DEF BindStep, BindUnbound, Running, EmitAt, flowPart
    <3>2. Len(buf[i]) <= 1
        BY <1>0, <1>1, <3>1 DEF InFlight
    <3> QED
        BY <1>1, <3>1, <3>2
  <2> QED
      BY <1>3, <1>4, <2>1, <2>2 DEF EmitStep, ThinkStep, ApplyStep, ReboundStep, clientPart, flowPart
<1>5. ASSUME NEW s \in SessionIds, UnknownStep(s) PROVE Says(buf'[i][Len(buf'[i])], sub'[i].bound, Unknown)
  <2>1. PICK frame : Publish(frame) /\ frame.session = s /\ frame.state = Unknown
      BY <1>5 DEF UnknownStep, PublishUnknown
  <2>2. sub' = sub
      BY <1>5 DEF UnknownStep, clientPart
  <2>3. CASE buf'[i] = buf[i]
      BY <1>0, <1>1, <2>2, <2>3 DEF Backlog
  <2>4. CASE Matches(i, s) /\ buf'[i] = Append(buf[i], frame)
    <3>1. buf'[i][Len(buf'[i])] = frame
        BY <1>1, <2>4
    <3> QED
        BY <1>1, <2>1, <2>2, <2>4, <3>1 DEF Says, Matches
  <2> QED
      BY <1>1, <2>1, <2>3, <2>4, PublishGrows
<1>6. ASSUME NEW j \in SubIds, FlowStep(j) PROVE Says(buf'[i][Len(buf'[i])], sub'[i].bound, Unknown)
  <2>1. sub' = sub
      BY <1>6 DEF FlowStep, clientPart
  <2>2. CASE j # i
      BY <1>0, <1>1, <1>6, <2>1, <2>2, PumpFlow DEF FlowStep, Backlog
  <2>3. CASE j = i
      BY <1>0, <1>1, <1>2, <1>6, <2>1, <2>3, PumpFlow DEF FlowStep
  <2> QED
      BY <2>2, <2>3
<1>7. ASSUME \/ \E k \in Sinks : DepartStep(k)
             \/ \E s \in SessionIds : ProbeStep(s)
             \/ SweepStep \/ Elsewhere
      PROVE  sub' = sub /\ buf' = buf
    BY <1>7 DEF DepartStep, ProbeStep, SweepStep, Elsewhere, clientPart, flowPart
<1> QED
    BY <1>0, <1>3, <1>4, <1>5, <1>6, <1>7, DayCases

\* It is the emit that runs that steps, or one that arrives while none does.
LEMMA Runner ==
    ASSUME Still, NEW e \in EmitIds, EmitStep(e)
    PROVE  Running(e) \/ (Arrive(e) /\ \A d \in EmitIds : ~Running(d))
<1>0. Shape /\ Overlaps = {}
    BY DEF Still, UInv, TInv
<1>1. CASE Arrive(e)
    BY <1>0, <1>1 DEF Arrive, EmitsSettled, Running
<1>2. CASE ApplyEmit(e)
    BY <1>2 DEF ApplyEmit, Running, EmitAt
<1>3. CASE Plods(e)
    BY <1>0, <1>3, PlodsEffect DEF Pending, Running
<1>4. CASE EndsOrFocuses(e)
    BY <1>0, <1>4, EndsEffect DEF Running, EmitAt
<1> QED
    BY <1>1, <1>2, <1>3, <1>4
       DEF EmitStep, ThinkStep, ApplyStep, ChangeStep, BindStep, ReboundStep, Thinks, Plods, EndsOrFocuses

LEMMA InFlightStep == ASSUME OneEmitServer, Day, NEW e \in EmitIds PROVE InFlight(e)'
<1>0. /\ TInv /\ Shape /\ [Next]_vars /\ ~NoneYet' /\ ScriptsOver /\ SubsTyped /\ BuffersTyped
      /\ Overlaps = {} /\ InFlight(e) /\ Folded(e) /\ Still
    BY DEF Day, Still, UInv, TInv, Calm
<1> DEFINE Flows(i) == /\ Len(buf'[i]) <= 1
                       /\ \/ Empty(i)'
                          \/ /\ emit'[e].pc \notin {"received", "publish"} /\ emit'[e].from # emit'[e].to
                             /\ Says(Newest(i)', Msg[e].session, emit'[e].to)
<1> SUFFICES ASSUME Running(e)', NEW i \in registered' PROVE Flows(i)
    BY <1>0, DayFrame DEF InFlight, Changes, Says, EmitAt
<1>1. i \in registered /\ i \in SubIds /\ buf[i] \in Seq(StateFrames) /\ Len(buf'[i]) \in Nat
  <2>1. i \in registered
      BY DayFrame
  <2> QED
      BY <1>0, <2>1, BuffersStep DEF SubsTyped, Started, BuffersTyped
<1>2. ASSUME buf' = buf, pump' = pump, Running(e), emit'[e] = emit[e] \/ ~EmitAt(e, "publish") PROVE Flows(i)
  <2>1. Empty(i)' <=> Empty(i)
      BY <1>2 DEF Empty, Holding
  <2>2. Newest(i)' = Newest(i)
      BY <1>2 DEF Newest
  <2>3. ~Empty(i) => emit'[e].from = emit[e].from /\ emit'[e].to = emit[e].to
                     /\ emit'[e].pc \notin {"received", "publish"}
      BY <1>0, <1>1, <1>2, EmitMoves DEF InFlight, Running, EmitAt
  <2> QED
      BY <1>0, <1>1, <1>2, <2>1, <2>2, <2>3 DEF InFlight, Changes
<1>3. ASSUME NEW d \in EmitIds, EmitStep(d) PROVE Flows(i)
  <2>1. CASE Arrive(e)
    <3>1. PumpsDrained /\ UNCHANGED busVars
        BY <1>0, <2>1 DEF Arrive
    <3>2. buf'[i] = << >> /\ pump'[i].pc = "select"
        BY <1>1, <3>1 DEF PumpsDrained, At, busVars
    <3> QED
        BY <3>2 DEF Empty, Holding
  <2>2. CASE ~Arrive(e)
    <3>1. Running(e) /\ d = e
      <4>1. Running(e)
          BY <1>0, <2>2, EmitMoves DEF Running, EmitAt
      <4> QED
          BY <1>0, <1>3, <4>1, Runner, Alone
    <3>2. CASE ChangeStep(e)
      <4>1. EmitAt(e, "publish") /\ Changes(e) /\ Empty(i)
          BY <1>0, <1>1, <3>1, <3>2 DEF ChangeStep, PublishChange, EmitAt, Folded, InFlight
      <4>2. PICK frame : Publish(frame) /\ frame.session = Msg[e].session /\ frame.state = emit[e].to
          BY <3>2 DEF ChangeStep, PublishChange
      <4>3. emit'[e].pc \in {"flag", "collect"} /\ emit'[e].from = emit[e].from /\ emit'[e].to = emit[e].to
          BY <1>0, <3>2, ChangeEffect DEF ChangeStep
      <4>4. CASE buf'[i] = buf[i]
        <5>1. Empty(i)' /\ Len(buf'[i]) <= 1
            BY <3>2, <4>1, <4>4 DEF ChangeStep, Empty, Holding
        <5> QED
            BY <5>1
      <4>5. CASE buf'[i] = Append(<< >>, frame)
        <5>1. Len(buf'[i]) = 1 /\ Newest(i)' = frame
            BY <4>5 DEF Newest
        <5> QED
            BY <4>1, <4>2, <4>3, <5>1 DEF Says, Changes
      <4> QED
          BY <1>1, <4>1, <4>2, <4>4, <4>5, PublishGrows DEF Empty
    <3>3. CASE ~ChangeStep(e)
      <4>1. buf' = buf /\ pump' = pump
          BY <1>3, <3>1, <3>3 DEF EmitStep, ThinkStep, ApplyStep, BindStep, ReboundStep, flowPart
      <4>2. ~EmitAt(e, "publish")
        <5>1. CASE ApplyStep(e)
            BY <1>0, <5>1, FoldEffect DEF ApplyStep, EmitAt
        <5>2. CASE BindStep(e) \/ ReboundStep(e)
            BY <1>0, <5>2, BindEffect, TellEffect DEF BindStep, ReboundStep, EmitAt
        <5>3. CASE ThinkStep(e) /\ EndsOrFocuses(e)
            BY <1>0, <5>3, EndsEffect DEF EmitAt
        <5>4. CASE ThinkStep(e) /\ ~EndsOrFocuses(e)
          <6>1. FlagForChange(e) \/ CollectUnbound(e) \/ ListForRebind(e) \/ ResolveForRebind(e) \/ LookForRebound(e)
              BY <2>2, <5>4 DEF ThinkStep, Thinks, EndsOrFocuses
          <6> QED
              BY <1>0, <6>1, ChangeEffect, CollectEffect, ListEffect, ResolveEffect, LookEffect DEF EmitAt
        <5> QED
            BY <1>3, <3>1, <3>3, <5>1, <5>2, <5>3, <5>4 DEF EmitStep
      <4> QED
          BY <1>2, <3>1, <4>1, <4>2
    <3> QED
        BY <3>2, <3>3
  <2> QED
      BY <2>1, <2>2
<1>4. ASSUME NEW j \in SubIds, FlowStep(j) PROVE Flows(i)
  <2>1. emit' = emit /\ Running(e)
      BY <1>4 DEF FlowStep, Running
  <2>2. CASE j # i
    <3>1. buf'[i] = buf[i] /\ pump'[i] = pump[i]
        BY <1>0, <1>1, <1>4, <2>2, PumpFlow DEF FlowStep
    <3> QED
        BY <1>0, <1>1, <2>1, <3>1 DEF InFlight, Changes, EmitAt, Empty, Holding, Newest
  <2>3. CASE j = i
    <3>1. /\ Len(buf'[i]) <= Len(buf[i]) /\ Len(buf[i]) \in Nat
          /\ Empty(i) => Empty(i)'
          /\ ~Empty(i)' => Newest(i)' = Newest(i)
        BY <1>0, <1>1, <1>4, <2>3, PumpFlow DEF FlowStep
    <3> QED
        BY <1>0, <1>1, <2>1, <3>1 DEF InFlight, Changes, EmitAt
  <2> QED
      BY <2>2, <2>3
<1>5. ASSUME NEW s \in SessionIds, UnknownStep(s) PROVE Flows(i)
  <2>1. Running(e) /\ janitor.pc = "publish"
      BY <1>5 DEF UnknownStep, PublishUnknown, Running
  <2> QED
      BY <1>0, <2>1, Alone
<1>6. ASSUME \/ \E k \in Sinks : DepartStep(k)
             \/ \E s \in SessionIds : ProbeStep(s)
             \/ SweepStep \/ Elsewhere
      PROVE  Flows(i)
  <2>1. emit' = emit /\ buf' = buf /\ pump' = pump /\ Running(e)
      BY <1>6 DEF DepartStep, ProbeStep, SweepStep, Elsewhere, flowPart, Running
  <2> QED
      BY <1>2, <2>1
<1> QED
    BY <1>0, <1>3, <1>4, <1>5, <1>6, DayCases

LEMMA FoldedStep == ASSUME OneEmitServer, Day, NEW e \in EmitIds PROVE Folded(e)'
<1>0. /\ TInv /\ Shape /\ [Next]_vars /\ ~NoneYet' /\ ScriptsOver /\ Folded(e) /\ Still
      /\ Counted /\ IsRegistry(sessions) /\ clock \in Nat
      /\ \A s \in DOMAIN sessions : sessions[s].lastEventAt \in Nat
    BY DEF Day, Still, UInv, TInv, Calm, RegistryTyped, IsRegistry, Session
<1>1. Msg' = Msg
    BY DayFrame
<1>2. ASSUME sessions' = sessions, emit'[e].from = emit[e].from, emit'[e].to = emit[e].to,
             Running(e) /\ ~EmitAt(e, "received"), EmitAt(e, "publish")' => EmitAt(e, "publish")
      PROVE  Folded(e)'
    BY <1>0, <1>1, <1>2 DEF Folded, Changes
<1>3. CASE emit'[e] = emit[e] /\ sessions' = sessions
    BY <1>0, <1>1, <1>3 DEF Folded, Changes, Running, EmitAt
<1>4. ASSUME NEW d \in EmitIds, EmitStep(d) PROVE Folded(e)'
  <2>1. CASE Arrive(e) \/ ~Running(e)'
    <3>1. Arrive(e) => EmitAt(e, "received")'
        BY <1>0 DEF Arrive, EmitAt, Shape, EmitFields
    <3> QED
        BY <2>1, <3>1 DEF Folded
  <2>2. CASE ~Arrive(e) /\ Running(e)'
    <3>1. Running(e) /\ d = e
      <4>1. Running(e)
          BY <1>0, <2>2, EmitMoves DEF Running, EmitAt
      <4> QED
          BY <1>0, <1>4, <4>1, Runner, Alone
    <3>2. CASE ApplyStep(e)
      <4> DEFINE s == Msg[e].session
      <4>1. Msg[e] \in EmitMessage
          BY <1>0, <3>2, ScenarioType DEF Shape, ApplyStep, ApplyEmit, EmitAt
      <4>2. /\ sessions' = ApplyTo(sessions, Msg[e], clock + 1)
            /\ emit'[e].from = Lookup(sessions, s, clock + 1).state /\ emit'[e].to = sessions'[s].state
            /\ EmitAt(e, "publish")' => emit'[e].from # emit'[e].to
          BY <1>0, <2>2, <3>2, FoldEffect DEF ApplyStep, Running, EmitAt
      <4>3. /\ DOMAIN sessions' = DOMAIN sessions \cup {s}
            /\ \A t \in DOMAIN sessions \ {s} : sessions'[t] = sessions[t]
            /\ sessions'[s].state # Lookup(sessions, s, clock + 1).state => sessions'[s].lastEventAt = clock + 1
          BY <1>0, <4>1, <4>2, FoldStamps
      <4>4. \A t \in DOMAIN sessions' \ {s} : sessions'[t].lastEventAt < clock + 1
          BY <1>0, <4>3 DEF Counted
      <4> QED
          BY <1>1, <4>2, <4>3, <4>4 DEF Folded, Changes, EmitAt
    <3>3. CASE ~ApplyStep(e)
      <4>1. sessions' = sessions
          BY <1>4, <3>1, <3>3 DEF EmitStep, ThinkStep, ChangeStep, BindStep, ReboundStep, truthPart
      <4>2. ~ApplyEmit(e)
          BY <1>4, <3>1, <3>3, <4>1 DEF EmitStep, ThinkStep, ChangeStep, BindStep, ReboundStep,
             ApplyStep, Thinks, ApplyEmit, Arrive, FlagForChange, CollectUnbound, ListForRebind, ResolveForRebind, LookForRebound,
             EndRebind, DecideFocus, PickPane, SwitchFocus, PublishChange, BindUnbound, TellRebound, EmitAt
      <4> QED
          BY <1>0, <1>2, <1>3, <2>2, <4>1, <4>2, EmitMoves DEF Running, EmitAt
    <3> QED
        BY <3>2, <3>3
  <2> QED
      BY <2>1, <2>2
<1>5. ASSUME NEW s \in SessionIds, ProbeStep(s) PROVE Folded(e)'
  <2>1. janitor.pc = "probe" /\ emit' = emit
    <3>1. ProbeSession(s) => janitor.pc = "probe"
        BY Zenon DEF ProbeSession
    <3> QED
        BY <1>5, <3>1 DEF ProbeStep
  <2>2. ~Running(e)'
      BY <1>0, <2>1, Alone DEF Running
  <2> QED
      BY <2>2 DEF Folded
<1>6. ASSUME \/ \E k \in Sinks : DepartStep(k)
             \/ \E i \in SubIds : FlowStep(i)
             \/ \E s \in SessionIds : UnknownStep(s)
             \/ SweepStep \/ Elsewhere
      PROVE  emit' = emit /\ sessions' = sessions
    BY <1>6 DEF DepartStep, FlowStep, UnknownStep, SweepStep, Elsewhere, truthPart
<1> QED
    BY <1>0, <1>3, <1>4, <1>5, <1>6, DayCases

LEMMA ConnKnowsStep == ASSUME OneEmitServer, Day, NEW k \in Sinks PROVE ConnKnows(k)'
<1>0. /\ TInv /\ Shape /\ SubsTyped /\ [Next]_vars /\ ~NoneYet' /\ ScriptsOver /\ ConnKnows(k) /\ ScriptsOver'
    BY ScriptsOverStep DEF Day, Still, UInv, TInv, Calm
<1>1. conn'[k].pc \in {"closing", "closed", "read"}
    BY <1>0 DEF ScriptsOver, ConnAt
<1> SUFFICES ASSUME conn'[k].pc = "closing", NEW i \in conn'[k].doomed PROVE Owns(k, i)'
    BY <1>1 DEF ConnKnows, ConnAt, Owns
<1>2. CASE conn[k].pc = "closing" /\ i \in conn[k].doomed
    BY <1>0, <1>2, DayFrame DEF ConnKnows
<1>3. CASE i \in Writing(k)
    BY <1>0, <1>3, DayFrame DEF Writing, Owns, SubsTyped
<1>4. ASSUME NEW j \in Sinks, DepartStep(j) PROVE Owns(k, i)'
    BY <1>0, <1>2, <1>3, <1>4, DepartEffect DEF DepartStep
<1>5. ASSUME conn' = conn PROVE Owns(k, i)'
    BY <1>2, <1>5
<1>6. ASSUME NEW e \in EmitIds, EmitStep(e) PROVE conn' = conn
    BY <1>6 DEF EmitStep, ThinkStep, ApplyStep, ChangeStep, BindStep, ReboundStep, clientPart
<1>7. ASSUME \/ \E j \in SubIds : FlowStep(j)
             \/ \E s \in SessionIds : ProbeStep(s) \/ UnknownStep(s)
             \/ SweepStep \/ Elsewhere
      PROVE  conn' = conn
    BY <1>7 DEF FlowStep, ProbeStep, UnknownStep, SweepStep, Elsewhere, clientPart
<1> QED
    BY <1>0, <1>4, <1>5, <1>6, <1>7, DayCases

\* What happens to an emit that runs: it is folded in, takes a step, or is waited for.
LEMMA RunnerCases ==
    ASSUME OneEmitServer, Day, NEW e \in EmitIds, Running(e)', ~EmitAt(e, "received")'
    PROVE  \/ ApplyStep(e)
           \/ /\ Running(e) /\ ~EmitAt(e, "received") /\ sessions' = sessions
              /\ \/ emit'[e] = emit[e] /\ sub' = sub
                 \/ ~Arrive(e) /\ (ThinkStep(e) \/ ChangeStep(e) \/ BindStep(e) \/ ReboundStep(e))
<1>0. /\ Shape /\ [Next]_vars /\ ~NoneYet' /\ ScriptsOver /\ Still
    BY DEF Day, Still, UInv, TInv, Calm
<1>1. ~Arrive(e) /\ Running(e)
  <2>1. Arrive(e) => EmitAt(e, "received")'
      BY <1>0 DEF Arrive, EmitAt, Shape, EmitFields
  <2> QED
      BY <1>0, <2>1, EmitMoves DEF Running, EmitAt
<1>2. ~EmitAt(e, "received") \/ ApplyEmit(e)
    BY <1>0, <1>1, EmitMoves DEF Running, EmitAt
<1>3. ASSUME NEW d \in EmitIds, EmitStep(d) PROVE d = e
    BY <1>0, <1>1, <1>3, Runner, Alone
<1>4. ASSUME ApplyEmit(e) PROVE ~ThinkStep(e) /\ ~ChangeStep(e) /\ ~BindStep(e) /\ ~ReboundStep(e)
    BY <1>4 DEF ThinkStep, ChangeStep, BindStep, ReboundStep,
             ApplyEmit, Thinks, Arrive, FlagForChange, CollectUnbound, ListForRebind, ResolveForRebind, LookForRebound,
             EndRebind, DecideFocus, PickPane, SwitchFocus, PublishChange, BindUnbound, TellRebound, EmitAt
<1>5. CASE EmitStep(e)
    BY <1>1, <1>2, <1>4, <1>5 DEF EmitStep, ThinkStep, ChangeStep, BindStep, ReboundStep, truthPart
<1>6. CASE \E s \in SessionIds : ProbeStep(s)
  <2>1. janitor.pc = "probe"
    <3>1. ASSUME NEW s, ProbeSession(s) PROVE janitor.pc = "probe"
        BY <3>1, Zenon DEF ProbeSession
    <3> QED
        BY <1>6, <3>1 DEF ProbeStep
  <2> QED
      BY <1>0, <1>1, <2>1, Alone
<1>7. CASE \/ \E k \in Sinks : DepartStep(k)
           \/ \E i \in SubIds : FlowStep(i)
           \/ \E s \in SessionIds : UnknownStep(s)
           \/ SweepStep \/ Elsewhere
  <2>1. emit' = emit /\ sub' = sub /\ sessions' = sessions
      BY <1>7 DEF DepartStep, FlowStep, UnknownStep, SweepStep, Elsewhere, truthPart, clientPart
  <2>2. ~EmitAt(e, "received")
      BY <2>1 DEF EmitAt
  <2> QED
      BY <1>1, <2>1, <2>2
<1> QED
    BY <1>0, <1>3, <1>5, <1>6, <1>7, DayCases

\* A subscription a rebinding is to look at stays as it was, unless it is bound.
LEMMA WorkStays ==
    ASSUME OneEmitServer, Day, NEW k, NEW i, Owns(k, i), k \in Sinks,
           Live(k) => subs[k] = i /\ Unbound(i),
           sub'[i].bound = sub[i].bound \/ ~Live(k)
    PROVE  Owns(k, i)' /\ (Live(k)' => subs'[k] = i /\ Unbound(i)')
<1>1. i \in Started
    BY DEF Owns
<1> QED
    BY <1>1, DayFrame DEF Unbound

LEMMA WorkKnownStep == ASSUME OneEmitServer, Day, NEW e \in EmitIds PROVE WorkKnown(e)'
<1>0. /\ TInv /\ Shape /\ WorkKnown(e) /\ SubsTyped /\ EmitTyped(e)
    BY DEF Day, Still, UInv, TInv, Calm
<1>1. CASE Waiting(e)' = {} /\ emit'[e].pc \notin {"resolve", "bind", "look", "tell"}
    BY <1>1 DEF WorkKnown
<1>2. CASE emit'[e] = emit[e] /\ sub' = sub
  <2>1. Waiting(e)' = Waiting(e)
      BY <1>2 DEF Waiting, Rebinding, Targets
  <2>2. \A w \in Waiting(e) : w.sink \in Sinks
      BY <1>0 DEF WorkKnown, Owns, Started, SubsTyped, SubRecord
  <2>3. \A w \in Waiting(e) :
            Owns(w.sink, w.sub)' /\ (Live(w.sink)' => subs'[w.sink] = w.sub /\ Unbound(w.sub)')
      BY <1>0, <1>2, <2>2, WorkStays DEF WorkKnown
  <2>4. \A w \in emit[e].work : w.sink \in Sinks
      BY <1>0 DEF EmitTyped
  <2>5. emit[e].pc \in {"resolve", "bind", "look", "tell"} =>
            \A w \in emit[e].work : Live(w.sink)' => w.sink # emit[e].target.sink
      BY <1>0, <2>4, DayFrame DEF WorkKnown
  <2> QED
      BY <1>2, <2>1, <2>3, <2>5 DEF WorkKnown
<1>3. CASE CollectUnbound(e) /\ ThinkStep(e)
  <2>1. /\ UNCHANGED <<subs, sub, broken>> /\ emit'[e].pc = "rebind"
        /\ \A w \in emit'[e].work : w.sink \in DOMAIN subs /\ w.sub = subs[w.sink] /\ Unbound(w.sub)
    <3> DEFINE all == {[sink |-> k, sub |-> subs[k]] : k \in {j \in DOMAIN subs : Unbound(subs[j])}}
    <3>1. UNCHANGED <<subs, sub, broken>> /\ emit'[e].pc = "rebind"
          /\ emit'[e].work = (IF HasTmux THEN all ELSE {})
        BY <1>0, <1>3, CollectEffect DEF ThinkStep, clientPart
    <3>2. \A w \in all : w.sink \in DOMAIN subs /\ w.sub = subs[w.sink] /\ Unbound(w.sub)
        OBVIOUS
    <3>3. emit'[e].work \subseteq all
        BY <3>1
    <3> QED
        BY <3>1, <3>2, <3>3
  <2>2. Waiting(e)' = emit'[e].work
      BY <2>1 DEF Waiting, Rebinding, Targets
  <2>3. ASSUME NEW w \in emit'[e].work
        PROVE  Owns(w.sink, w.sub)' /\ (Live(w.sink)' => subs'[w.sink] = w.sub /\ Unbound(w.sub)')
    <3>1. Owns(w.sink, w.sub) /\ w.sink \in Sinks
        BY <1>0, <2>1, <2>3 DEF SubsTyped, Owns
    <3> QED
        BY <2>1, <2>3, <3>1, WorkStays
  <2> QED
      BY <2>1, <2>2, <2>3 DEF WorkKnown
<1>4. CASE ListForRebind(e) /\ ThinkStep(e)
  <2>1. UNCHANGED <<subs, sub, broken>>
      BY <1>4 DEF ThinkStep, clientPart
  <2>2. PICK w \in emit[e].work : emit'[e].target = w /\ emit'[e].work = emit[e].work \ {w}
      BY <1>0, <1>4, ListEffect
  <2>3. emit'[e].pc = "resolve" /\ EmitAt(e, "rebind")
      BY <1>0, <1>4, ListEffect
  <2>4. Waiting(e)' = emit[e].work /\ Waiting(e) = emit[e].work
      BY <2>2, <2>3 DEF Waiting, Rebinding, Targets, EmitAt
  <2>5. ASSUME NEW v \in emit[e].work
        PROVE  Owns(v.sink, v.sub)' /\ (Live(v.sink)' => subs'[v.sink] = v.sub /\ Unbound(v.sub)')
      BY <1>0, <2>1, <2>4, WorkStays DEF WorkKnown, EmitTyped
  <2>6. ASSUME NEW v \in emit[e].work \ {w}, Live(v.sink)' PROVE v.sink # w.sink
    <3>1. Live(v.sink)
        BY <2>1, <2>6 DEF Live
    <3>2. v.sink = w.sink => v.sub = w.sub
        BY <1>0, <2>4, <3>1 DEF WorkKnown
    <3> QED
        BY <1>0, <3>2 DEF EmitTyped
  <2> QED
      BY <2>2, <2>3, <2>4, <2>5, <2>6 DEF WorkKnown
<1>5. CASE /\ ThinkStep(e) \/ ReboundStep(e)
           /\ ResolveForRebind(e) \/ LookForRebound(e) \/ TellRebound(e)
  <2>1. UNCHANGED <<subs, sub, broken>>
      BY <1>5 DEF ThinkStep, ReboundStep, clientPart
  <2>2. /\ Waiting(e)' \subseteq Waiting(e)
        /\ emit'[e].pc \in {"resolve", "bind", "look", "tell"} =>
              /\ emit[e].pc \in {"resolve", "bind", "look", "tell"}
              /\ emit'[e].work = emit[e].work /\ emit'[e].target = emit[e].target
      BY <1>0, <1>5, ResolveEffect, LookEffect, TellEffect DEF Waiting, Rebinding, Targets, EmitAt
  <2>3. \A w \in Waiting(e) : w.sink \in Sinks
      BY <1>0 DEF WorkKnown, Owns, Started, SubsTyped, SubRecord
  <2>4. \A w \in Waiting(e)' :
            Owns(w.sink, w.sub)' /\ (Live(w.sink)' => subs'[w.sink] = w.sub /\ Unbound(w.sub)')
      BY <1>0, <2>1, <2>2, <2>3, WorkStays DEF WorkKnown
  <2>5. emit'[e].pc \in {"resolve", "bind", "look", "tell"} =>
            \A w \in emit'[e].work : Live(w.sink)' => w.sink # emit'[e].target.sink
      BY <1>0, <2>1, <2>2 DEF WorkKnown, Live
  <2> QED
      BY <2>4, <2>5 DEF WorkKnown
<1>6. CASE BindStep(e)
  <2> DEFINE target == emit[e].target
  <2>1. /\ UNCHANGED <<subs, broken>> /\ EmitAt(e, "bind") /\ emit'[e].pc = "look"
        /\ emit'[e].work = emit[e].work /\ emit'[e].target = target
        /\ \A i \in SubIds \ {target.sub} : sub'[i] = sub[i]
      BY <1>0, <1>6, BindEffect DEF BindStep, Shape
  <2>2. Waiting(e)' = emit[e].work /\ Waiting(e) = emit[e].work \cup {target}
      BY <2>1 DEF Waiting, Rebinding, Targets, EmitAt
  <2>3. ASSUME NEW w \in emit[e].work
        PROVE  Owns(w.sink, w.sub)' /\ (Live(w.sink)' => subs'[w.sink] = w.sub /\ Unbound(w.sub)')
    <3>1. Owns(w.sink, w.sub) /\ Owns(target.sink, target.sub) /\ w.sink \in Sinks
          /\ (Live(w.sink) => subs[w.sink] = w.sub /\ Unbound(w.sub) /\ w.sink # target.sink)
        BY <1>0, <2>1, <2>2 DEF WorkKnown, EmitTyped, EmitAt
    <3>2. Live(w.sink) => sub'[w.sub] = sub[w.sub]
        BY <2>1, <3>1 DEF Owns, Started
    <3> QED
        BY <3>1, <3>2, WorkStays
  <2>4. \A w \in emit[e].work : Live(w.sink)' => w.sink # target.sink
      BY <1>0, <2>1 DEF WorkKnown, EmitAt, Live
  <2> QED
      BY <2>1, <2>2, <2>3, <2>4 DEF WorkKnown
<1>7. CASE ~Running(e)' \/ EmitAt(e, "received")'
    BY <1>1, <1>7 DEF Running, EmitAt, Waiting, Rebinding, Targets
<1>8. CASE ApplyStep(e) \/ ChangeStep(e) \/ (ThinkStep(e) /\ (FlagForChange(e) \/ EndsOrFocuses(e)))
  <2>1. emit'[e].pc \in {"done", "publish", "flag", "collect", "focus", "pick", "switch"}
    <3>1. CASE ApplyStep(e)
        BY <1>0, <3>1, FoldEffect DEF ApplyStep
    <3>2. CASE ChangeStep(e) \/ FlagForChange(e)
        BY <1>0, <3>2, ChangeEffect DEF ChangeStep
    <3> QED
        BY <1>0, <1>8, <3>1, <3>2, EndsEffect
  <2> QED
      BY <1>1, <2>1 DEF Waiting, Rebinding, Targets
<1> QED
    BY <1>2, <1>3, <1>4, <1>5, <1>6, <1>7, <1>8, RunnerCases
       DEF ThinkStep, ReboundStep, Thinks, EndsOrFocuses

\* A listing that is not a fallback has the panes of the activity's window.
LEMMA ListingIsNear ==
    ASSUME NEW pane, NEW socket, NEW listing \in Listings(pane, socket), listing.ok
    PROVE  /\ HasTmux /\ pane # None
           /\ listing.near = {p \in DOMAIN layout[socket] :
                                 pane \in DOMAIN layout[socket] /\ layout[socket][p] = layout[socket][pane]}
<1> DEFINE listed == layout[socket]
           near   == {p \in DOMAIN listed : pane \in DOMAIN listed /\ listed[p] = listed[pane]}
           fails  == May("failing tmux")
<1>1. Listings(pane, socket) = IF ~HasTmux \/ pane = None THEN {Fallback}
                               ELSE {[ok |-> TRUE, near |-> near]} \cup (IF fails THEN {Fallback} ELSE {})
    BY Zenon DEF Listings
<1> HIDE DEF fails, near
<1>2. HasTmux /\ pane # None /\ listing.near = near
    BY <1>1 DEF Fallback
<1> QED
    BY <1>2 DEF near

\* A rebinding that has listed the panes knows who may be near its activity.
LEMMA ListingKnownStep == ASSUME OneEmitServer, Day, NEW e \in EmitIds PROVE ListingKnown(e)'
<1>0. /\ TInv /\ Shape /\ WorkKnown(e) /\ ListingKnown(e) /\ SubsTyped /\ EmitTyped(e) /\ Still
      /\ \A k \in Sinks : NoneMissed(k)
    BY DEF Day, Still, UInv, TInv, Calm
<1> DEFINE Knows == /\ Near(emit[e].target.sub)' \subseteq emit'[e].listing.near
                    /\ \A s \in DOMAIN sessions' \ {Msg[e].session} : sessions'[s].pane \notin emit'[e].listing.near
<1> SUFFICES ASSUME EmitAt(e, "resolve")', Live(emit[e].target.sink)', emit'[e].listing.ok
             PROVE  Knows
    BY DayFrame DEF ListingKnown
<1>1. CASE emit'[e] = emit[e] /\ sessions' = sessions /\ EmitAt(e, "resolve")
  <2> DEFINE w == emit[e].target
  <2>1. Owns(w.sink, w.sub)
      BY <1>0, <1>1 DEF WorkKnown, Waiting, Targets, EmitAt
  <2>2. w.sink \in Sinks /\ w.sub \in Started
      BY <1>0, <2>1 DEF Owns, Started, SubsTyped, SubRecord
  <2>3. Live(w.sink) /\ Near(w.sub)' \subseteq Near(w.sub)
      BY <1>1, <2>2, DayFrame
  <2> QED
      BY <1>0, <1>1, <2>3 DEF ListingKnown
<1>2. CASE ListForRebind(e) /\ ThinkStep(e)
  <2>1. UNCHANGED <<subs, sub, broken, layout, sessions>> /\ EmitAt(e, "rebind") /\ Running(e)
      BY <1>0, <1>2, ListEffect DEF ThinkStep, clientPart, truthPart, Running, EmitAt
  <2>2. PICK w \in emit[e].work : /\ emit'[e].target = w
                                  /\ emit'[e].listing \in Listings(sub[w.sub].pane, Msg[e].socket)
      BY <1>0, <1>2, ListEffect
  <2>3. w \in Waiting(e) /\ w.sink \in Sinks /\ Live(w.sink)
      BY <1>0, <2>1, <2>2 DEF Waiting, Rebinding, EmitAt, EmitTyped, Live
  <2>4. subs[w.sink] = w.sub /\ Unbound(w.sub)
      BY <1>0, <2>3 DEF WorkKnown
  <2>5. Msg[e].socket = EmitServer
    <3>1. PICK server \in Sockets \cup {None} : \A d \in DOMAIN Msg : Msg[d].socket = server
        BY <1>0 DEF OneEmitServer, Shape, Msg
    <3>2. \A d \in DOMAIN Msg : Msg[d].socket = EmitServer
        BY <3>1 DEF EmitServer
    <3> QED
        BY <1>0, <2>1, <3>2 DEF Shape, EmitAt
  <2>6. HasTmux /\ sub[w.sub].pane # None /\ emit'[e].listing.near = Near(w.sub)
      BY <2>2, <2>5, ListingIsNear DEF Near
  <2>7. \A s \in DOMAIN sessions : sessions[s].pane \in Near(w.sub) => s = Msg[e].session
      BY <1>0, <2>1, <2>3, <2>4, <2>6, Alone DEF NoneMissed
  <2>8. Near(w.sub)' = Near(w.sub)
      BY <2>1, DayFrame DEF Near
  <2> QED
      BY <2>1, <2>2, <2>6, <2>7, <2>8
<1>3. CASE ApplyStep(e)
    BY <1>0, <1>3, FoldEffect DEF ApplyStep, EmitAt
<1>4. CASE ChangeStep(e)
    BY <1>0, <1>4, ChangeEffect DEF ChangeStep, EmitAt
<1>5. CASE ~Arrive(e) /\ ((ThinkStep(e) /\ ~ListForRebind(e)) \/ BindStep(e) \/ ReboundStep(e))
  <2>1. emit'[e].pc = "resolve"
      BY DEF EmitAt
  <2>2. ~FlagForChange(e) /\ ~CollectUnbound(e) /\ ~ResolveForRebind(e) /\ ~LookForRebound(e)
      BY <1>0, <2>1, ChangeEffect, CollectEffect, ResolveEffect, LookEffect
  <2>3. ~EndsOrFocuses(e) /\ ~BindStep(e) /\ ~ReboundStep(e)
      BY <1>0, <2>1, EndsEffect, BindEffect, TellEffect DEF BindStep, ReboundStep
  <2> QED
      BY <1>5, <2>2, <2>3 DEF ThinkStep, Thinks, EndsOrFocuses
<1>6. Running(e)' /\ ~EmitAt(e, "received")'
    BY DEF Running, EmitAt
<1>7. (EmitAt(e, "resolve") <=> emit[e].pc = "resolve") /\ emit'[e].pc = "resolve"
    BY DEF EmitAt
<1>8. \/ ApplyStep(e)
      \/ /\ sessions' = sessions
         /\ \/ emit'[e] = emit[e]
            \/ ~Arrive(e) /\ (ThinkStep(e) \/ ChangeStep(e) \/ BindStep(e) \/ ReboundStep(e))
    BY <1>6, RunnerCases
<1> HIDE DEF Knows
<1> QED
    BY <1>1, <1>2, <1>3, <1>4, <1>5, <1>7, <1>8

\* A rebinding of an emit that changed its session binds to that session.
LEMMA ResolvesOwn ==
    ASSUME Still, NEW e \in EmitIds, EmitAt(e, "resolve"), Live(emit[e].target.sink), Changes(e),
           NEW sid \in Resolved(emit[e].listing), sid # None
    PROVE  sid = Msg[e].session
<1>0. /\ RegistryTyped /\ WorkKnown(e) /\ ListingKnown(e) /\ Folded(e)
      /\ \A s \in DOMAIN sessions : sessions[s].lastEventAt \in Nat
    BY DEF Still, UInv, TInv, Calm, RegistryTyped, IsRegistry, Session
<1> DEFINE listing    == emit[e].listing
           candidates == {s \in DOMAIN sessions : listing.ok => sessions[s].pane \in listing.near}
           own        == Msg[e].session
<1>1. sid \in candidates /\ \A t \in candidates : sessions[t].lastEventAt <= sessions[sid].lastEventAt
    BY DEF Resolved, MostRecent
<1>2. CASE listing.ok
    BY <1>0, <1>1, <1>2 DEF ListingKnown
<1>3. CASE ~listing.ok
  <2>1. own \in DOMAIN sessions /\ \A t \in DOMAIN sessions \ {own} : sessions[t].lastEventAt < sessions[own].lastEventAt
      BY <1>0 DEF Folded, Running, EmitAt
  <2>2. own \in candidates
      BY <1>3, <2>1
  <2> QED
      BY <1>0, <1>1, <2>1, <2>2
<1> QED
    BY <1>2, <1>3

LEMMA BindingKnownStep == ASSUME OneEmitServer, Day, NEW e \in EmitIds PROVE BindingKnown(e)'
<1>0. /\ TInv /\ Shape /\ WorkKnown(e) /\ BindingKnown(e) /\ SubsTyped /\ EmitTyped(e) /\ Still /\ LiveSubs
      /\ Msg' = Msg
    BY DayFrame DEF Day, Still, UInv, TInv, Calm
<1>1. CASE emit'[e].pc \notin {"bind", "look", "tell"}
    BY <1>1 DEF BindingKnown, EmitAt
<1>2. CASE emit'[e] = emit[e] /\ sub' = sub /\ sessions' = sessions /\ emit[e].pc \in {"bind", "look", "tell"}
  <2>1. PICK w : w = emit[e].target
      OBVIOUS
  <2>2. Live(w.sink)' => Live(w.sink) /\ subs'[w.sink] = subs[w.sink]
    <3>1. TInv'
        BY TypeStep DEF Day, Still, UInv
    <3>2. Live(w.sink)' => w.sink \in Sinks
        BY <3>1 DEF TInv, SubsTyped, Live
    <3> QED
        BY <3>2, DayFrame
  <2> QED
      BY <1>0, <1>2, <2>1, <2>2 DEF BindingKnown, Changes, EmitAt, Present
<1>3. CASE ThinkStep(e) /\ ResolveForRebind(e)
  <2>1. /\ EmitAt(e, "resolve") /\ emit'[e].sid \in Resolved(emit[e].listing)
        /\ emit'[e].pc = IF emit'[e].sid = None THEN "rebind" ELSE "bind"
        /\ emit'[e].target = emit[e].target /\ emit'[e].from = emit[e].from /\ emit'[e].to = emit[e].to
        /\ UNCHANGED <<subs, broken>>
      BY <1>0, <1>3, ResolveEffect DEF ThinkStep, clientPart
  <2> QED
      BY <1>0, <1>1, <2>1, ResolvesOwn DEF BindingKnown, Changes, Live, EmitAt
<1>4. CASE BindStep(e)
  <2> DEFINE w == emit[e].target
  <2>1. /\ EmitAt(e, "bind") /\ emit'[e].pc = "look" /\ emit'[e].target = w /\ emit'[e].sid = emit[e].sid
        /\ emit'[e].from = emit[e].from /\ emit'[e].to = emit[e].to
        /\ UNCHANGED <<subs, broken, registered>>
        /\ sub' = IF w.sub \in registered /\ sub[w.sub].bound = None
                  THEN [sub EXCEPT ![w.sub].bound = emit[e].sid] ELSE sub
      BY <1>0, <1>4, BindEffect DEF BindStep
  <2>2. ASSUME Live(w.sink) PROVE subs[w.sink] = w.sub /\ sub'[w.sub].bound = emit[e].sid
    <3>1. Owns(w.sink, w.sub) /\ subs[w.sink] = w.sub /\ Unbound(w.sub)
        BY <1>0, <2>1, <2>2 DEF WorkKnown, Waiting, Targets, EmitAt
    <3>2. w.sub \in registered /\ w.sub \in SubIds /\ sub[w.sub].bound = None
        BY <1>0, <2>2, <3>1 DEF LiveSubs, Unbound, Owns, Started, SubsTyped, SubRecord
    <3> QED
        BY <1>0, <2>1, <3>1, <3>2 DEF Shape, SubFields
  <2> QED
      BY <1>0, <2>1, <2>2 DEF BindingKnown, Changes, Live, EmitAt
<1>5. CASE ThinkStep(e) /\ LookForRebound(e)
  <2>1. /\ EmitAt(e, "look") /\ emit'[e].pc = "tell" /\ emit'[e].target = emit[e].target
        /\ emit'[e].snap \in Snapshots(emit[e].sid) /\ emit'[e].sid = emit[e].sid
        /\ emit'[e].from = emit[e].from /\ emit'[e].to = emit[e].to
        /\ UNCHANGED <<subs, sub, broken, sessions>>
      BY <1>0, <1>5, LookEffect DEF ThinkStep, clientPart, truthPart
  <2>2. emit'[e].snap = Told(emit[e].sid, Present(emit[e].sid))
      BY <1>0, <2>1 DEF Snapshots, Present, BindingKnown, EmitAt
  <2> QED
      BY <1>0, <2>1, <2>2 DEF BindingKnown, Changes, Live, EmitAt, Present
<1>6. CASE ApplyStep(e)
    BY <1>0, <1>1, <1>6, FoldEffect DEF ApplyStep
<1>7. CASE ChangeStep(e)
    BY <1>0, <1>1, <1>7, ChangeEffect DEF ChangeStep
<1>8. CASE \/ ~Arrive(e) /\ ~ResolveForRebind(e) /\ ~LookForRebound(e) /\ ThinkStep(e)
           \/ ReboundStep(e)
    BY <1>0, <1>1, <1>8, ChangeEffect, CollectEffect, ListEffect, TellEffect, EndsEffect
       DEF ThinkStep, ReboundStep, Thinks, EndsOrFocuses
<1>9. ASSUME emit'[e].pc \in {"bind", "look", "tell"} PROVE Running(e)' /\ ~EmitAt(e, "received")'
    BY <1>9 DEF EmitAt, Running
<1>10. ASSUME emit'[e].pc \in {"bind", "look", "tell"}
       PROVE  \/ ApplyStep(e)
              \/ emit'[e] = emit[e] /\ sub' = sub /\ sessions' = sessions /\ emit[e].pc \in {"bind", "look", "tell"}
              \/ ~Arrive(e) /\ (ThinkStep(e) \/ ChangeStep(e) \/ BindStep(e) \/ ReboundStep(e))
    BY <1>9, <1>10, RunnerCases
<1> QED
    BY <1>1, <1>2, <1>3, <1>4, <1>5, <1>6, <1>7, <1>8, <1>10

-----------------------------------------------------------------------------
(* No activity that is near a session is missed                             *)

\* An emit that an unbound activity waits for goes on being waited for.
LEMMA AwaitsStep ==
    ASSUME OneEmitServer, Day, None \notin SessionIds, HasTmux,
           NEW e \in EmitIds, EmitStep(e), Running(e),
           NEW k \in Sinks, Awaits(e, k), Live(k),
           NEW i, i = subs[k], Unbound(i), Unbound(i)',
           NEW s \in DOMAIN sessions, sessions[s].pane \in Near(i)
    PROVE  Running(e)' /\ Awaits(e, k)'
<1>0. /\ TInv /\ Shape /\ WorkKnown(e) /\ ListingKnown(e) /\ BindingKnown(e) /\ SubsTyped /\ LiveSubs
      /\ DOMAIN sessions \subseteq SessionIds
    BY DEF Day, Still, UInv, TInv, Calm, Shape
<1>1. \/ emit[e].pc \in {"publish", "flag", "collect"}
      \/ emit[e].pc \in {"rebind", "resolve", "bind", "look", "tell"} /\ \E w \in emit[e].work : w.sink = k
      \/ emit[e].pc \in {"resolve", "bind"} /\ emit[e].target.sink = k
    BY DEF Awaits, Waiting, Rebinding, Targets
<1>2. CASE \/ emit'[e].pc \in {"publish", "flag", "collect"}
           \/ emit'[e].pc \in {"rebind", "resolve", "bind", "look", "tell"} /\ \E w \in emit'[e].work : w.sink = k
           \/ emit'[e].pc \in {"resolve", "bind"} /\ emit'[e].target.sink = k
    BY <1>2 DEF Awaits, Waiting, Rebinding, Targets, Running
<1>3. CASE Arrive(e) \/ ApplyEmit(e)
    BY <1>1, <1>3 DEF Arrive, ApplyEmit, EmitAt
<1>4. CASE PublishChange(e) \/ FlagForChange(e)
    BY <1>0, <1>2, <1>4, ChangeEffect
<1>5. CASE ThinkStep(e) /\ CollectUnbound(e)
  <2> DEFINE all == {[sink |-> j, sub |-> subs[j]] : j \in {j \in DOMAIN subs : Unbound(subs[j])}}
  <2>1. emit'[e].pc = "rebind" /\ emit'[e].work = all
      BY <1>0, <1>5, CollectEffect
  <2>2. [sink |-> k, sub |-> subs[k]] \in all
      BY DEF Live
  <2> QED
      BY <1>2, <2>1, <2>2
<1>6. CASE ListForRebind(e)
  <2>1. /\ emit[e].pc = "rebind" /\ emit'[e].pc = "resolve"
        /\ \E w \in emit[e].work : emit'[e].target = w /\ emit'[e].work = emit[e].work \ {w}
      BY <1>0, <1>6, ListEffect DEF EmitAt
  <2> QED
      BY <1>1, <1>2, <2>1
<1>7. CASE ResolveForRebind(e)
  <2>1. /\ EmitAt(e, "resolve") /\ emit'[e].sid \in Resolved(emit[e].listing)
        /\ emit'[e].pc = IF emit'[e].sid = None THEN "rebind" ELSE "bind"
        /\ emit'[e].work = emit[e].work /\ emit'[e].target = emit[e].target
      BY <1>0, <1>7, ResolveEffect
  <2>2. CASE emit[e].target.sink # k \/ emit'[e].sid # None
      BY <1>1, <1>2, <2>1, <2>2 DEF EmitAt
  <2>3. CASE emit[e].target.sink = k
    <3> DEFINE listing    == emit[e].listing
               candidates == {t \in DOMAIN sessions : listing.ok => sessions[t].pane \in listing.near}
    <3>1. emit[e].target.sub = i
        BY <1>0, <2>1, <2>3 DEF WorkKnown, Waiting, Targets, EmitAt
    <3>2. s \in candidates
        BY <1>0, <2>1, <2>3, <3>1 DEF ListingKnown
    <3>3. emit'[e].sid \in candidates
        BY <2>1, <3>2 DEF Resolved, MostRecent
    <3> QED
        BY <1>0, <2>2, <3>3
  <2> QED
      BY <2>2, <2>3
<1>8. CASE BindStep(e)
  <2>1. /\ EmitAt(e, "bind") /\ emit'[e].pc = "look" /\ emit'[e].work = emit[e].work
        /\ LET j == emit[e].target.sub
           IN  sub' = IF j \in registered /\ sub[j].bound = None
                      THEN [sub EXCEPT ![j].bound = emit[e].sid] ELSE sub
      BY <1>0, <1>8, BindEffect DEF BindStep
  <2>2. CASE emit[e].target.sink # k
      BY <1>1, <1>2, <2>1, <2>2 DEF EmitAt
  <2>3. CASE emit[e].target.sink = k
    <3>1. emit[e].target.sub = i /\ emit[e].sid # None
        BY <1>0, <2>1, <2>3 DEF WorkKnown, BindingKnown, Waiting, Targets, EmitAt
    <3>2. i \in registered /\ i \in SubIds /\ sub[i].bound = None
        BY <1>0 DEF LiveSubs, SubsTyped, Started, Unbound
    <3>3. sub'[i].bound = emit[e].sid
        BY <1>0, <2>1, <3>1, <3>2 DEF Shape, SubFields
    <3> QED
        BY <3>1, <3>3 DEF Unbound
  <2> QED
      BY <2>2, <2>3
<1>9. CASE LookForRebound(e) \/ TellRebound(e)
    BY <1>0, <1>1, <1>2, <1>9, LookEffect, TellEffect DEF EmitAt
<1>10. CASE EndsOrFocuses(e)
    BY <1>0, <1>1, <1>10, EndsEffect DEF EmitAt
<1> QED
    BY <1>3, <1>4, <1>5, <1>6, <1>7, <1>8, <1>9, <1>10
       DEF EmitStep, ThinkStep, ApplyStep, ChangeStep, ReboundStep, Thinks, EndsOrFocuses

\* A session comes near an activity with an emit only, and that emit rebinds.
LEMMA NoneMissedStep ==
    ASSUME OneEmitServer, Day, None \notin SessionIds, NEW k \in Sinks
    PROVE  NoneMissed(k)'
<1>0. /\ TInv /\ Shape /\ [Next]_vars /\ ~NoneYet' /\ ScriptsOver /\ Still
      /\ LiveSubs /\ SubsTyped /\ NoneMissed(k) /\ Msg' = Msg
    BY DayFrame DEF Day, Still, UInv, TInv, Calm
<1> DEFINE Awaited(s) == \E e \in EmitIds : Running(e)' /\ Msg[e].session = s /\ Awaits(e, k)'
<1>1. SUFFICES ASSUME HasTmux, Live(k)', NEW i, i = subs'[k], Unbound(i)', sub'[i].pane # None,
                      NEW s \in DOMAIN sessions', sessions'[s].pane \in Near(i)'
               PROVE  Awaited(s)
  <2>1. PICK i : i = subs'[k]
      OBVIOUS
  <2>2. /\ Unbound(subs[k])' <=> Unbound(i)'
        /\ Near(subs[k])' = Near(i)'
      BY <2>1 DEF Unbound, Near
  <2> QED
      BY <1>0, <1>1, <2>1, <2>2 DEF NoneMissed
<1>2. /\ Live(k) /\ i = subs[k] /\ i \in Started
      /\ Unbound(i) /\ sub[i].pane # None /\ Near(i)' \subseteq Near(i)
  <2>1. Live(k) /\ subs[k] = i
      BY <1>1, DayFrame
  <2>2. i \in Started
      BY <1>0, <2>1 DEF LiveSubs, SubsTyped
  <2> QED
      BY <1>1, <2>1, <2>2, DayFrame DEF Unbound
<1>3. ASSUME s \in DOMAIN sessions, sessions[s].pane \in Near(i)
      PROVE  \E e \in EmitIds : Running(e) /\ Msg[e].session = s /\ Awaits(e, k)
    BY <1>0, <1>1, <1>2, <1>3 DEF NoneMissed
<1>4. ASSUME NEW e \in EmitIds, EmitStep(e), ~ApplyStep(e) PROVE Awaited(s)
  <2>1. sessions' = sessions
      BY <1>4 DEF EmitStep, ThinkStep, ChangeStep, BindStep, ReboundStep, truthPart
  <2>2. s \in DOMAIN sessions /\ sessions[s].pane \in Near(i)
      BY <1>1, <1>2, <2>1
  <2>3. PICK d \in EmitIds : Running(d) /\ Msg[d].session = s /\ Awaits(d, k)
      BY <1>3, <2>2
  <2>4. d = e
      BY <1>0, <1>4, <2>3, Runner, Alone
  <2> QED
      BY <1>1, <1>2, <1>4, <2>2, <2>3, <2>4, AwaitsStep
<1>5. ASSUME NEW e \in EmitIds, ApplyStep(e) PROVE Awaited(s)
  <2>1. EmitAt(e, "received") /\ Running(e)
      BY <1>0, <1>5, FoldEffect DEF ApplyStep, Running, EmitAt
  <2>2. \A d \in EmitIds : ~(Running(d) /\ Awaits(d, k))
      BY <1>0, <2>1, Alone DEF Awaits, Waiting, Rebinding, Targets, EmitAt
  <2>3. ~(s \in DOMAIN sessions /\ sessions[s].pane \in Near(i))
      BY <1>3, <2>2
  <2>4. sessions' # sessions
      BY <1>1, <1>2, <2>3
  <2>5. /\ sessions' = ApplyTo(sessions, Msg[e], clock + 1)
        /\ emit'[e].pc \in {"publish", "collect"}
      BY <1>0, <1>5, <2>4, FoldEffect DEF ApplyStep
  <2>6. s = Msg[e].session
    <3>1. Msg[e] \in EmitMessage
        BY <1>0, <2>1, ScenarioType DEF Shape, EmitAt
    <3>2. \A t \in DOMAIN sessions' \ {Msg[e].session} : t \in DOMAIN sessions /\ sessions'[t] = sessions[t]
        BY <1>0, <2>5, <3>1, FoldStamps DEF TInv, RegistryTyped
    <3> QED
        BY <1>1, <1>2, <2>3, <3>2
  <2> QED
      BY <2>5, <2>6 DEF Running, Awaits
<1>6. ASSUME emit' = emit, s \in DOMAIN sessions, sessions'[s].pane = sessions[s].pane PROVE Awaited(s)
  <2>1. PICK e \in EmitIds : Running(e) /\ Msg[e].session = s /\ Awaits(e, k)
      BY <1>1, <1>2, <1>3, <1>6
  <2>2. Running(e)' /\ Awaits(e, k)'
      BY <1>6, <2>1 DEF Running, Awaits, Waiting, Rebinding, Targets
  <2> QED
      BY <2>1, <2>2
<1>7. ASSUME NEW t \in SessionIds, ProbeStep(t) PROVE Awaited(s)
  <2>1. sessions' = sessions \/ sessions' = [sessions EXCEPT ![t].state = Unknown]
      BY <1>7, ProbeFinds DEF ProbeStep
  <2>2. \A u \in DOMAIN sessions : sessions[u] \in Session
      BY <1>0 DEF TInv, RegistryTyped, IsRegistry
  <2>3. s \in DOMAIN sessions /\ sessions'[s].pane = sessions[s].pane
      BY <1>1, <2>1, <2>2 DEF Session
  <2> QED
      BY <1>6, <1>7, <2>3 DEF ProbeStep
<1>8. ASSUME \/ \E j \in Sinks : DepartStep(j)
             \/ \E j \in SubIds : FlowStep(j)
             \/ \E t \in SessionIds : UnknownStep(t)
             \/ SweepStep \/ Elsewhere
      PROVE  emit' = emit /\ sessions' = sessions
    BY <1>8 DEF DepartStep, FlowStep, UnknownStep, SweepStep, Elsewhere, truthPart
<1> QED
    BY <1>0, <1>1, <1>4, <1>5, <1>6, <1>7, <1>8, DayCases

-----------------------------------------------------------------------------
(* What an activity has been told last                                      *)

\* Activity k follows session b with Sub i, and i has b's state for it; or has had it.
Attends(k, i, b) ==
    Live(k) /\ ConnAt(k, "read") /\ i = subs[k] /\ sub[i].mode # "any" /\ b = sub[i].bound /\ b # None
Heard(k, i, b) ==
    IF Empty(i) THEN view[k] = Told(b, Present(b)) ELSE Says(Newest(i), b, Present(b))

\* Fresh in these terms.
LEMMA FreshMeans ==
    ASSUME NEW k
    PROVE  Fresh(k) <=> \A i, b : Attends(k, i, b) => Heard(k, i, b) \/ Due(k, b)
BY DEF Fresh, Attends, Heard, Hears

\* An activity that follows a session after a step did so before it, or was bound
\* by the step.
LEMMA AttendsBack ==
    ASSUME OneEmitServer, Day, NEW k \in Sinks, NEW i, NEW b, Attends(k, i, b)'
    PROVE  /\ Live(k) /\ ConnAt(k, "read") /\ i = subs[k] /\ i \in registered /\ i \in Started /\ i \in SubIds
           /\ sub[i].sink = k /\ sub[i].mode # "any" /\ b # None /\ sub'[i].bound = b
           /\ sub'[i].bound = sub[i].bound => Heard(k, i, b) \/ Due(k, b)
<1>0. /\ TInv /\ Shape /\ [Next]_vars /\ ~NoneYet' /\ ScriptsOver /\ LiveSubs /\ SubsTyped /\ Fresh(k)
    BY DEF Day, Still, UInv, TInv, Calm
<1>1. Live(k)' /\ ConnAt(k, "read")' /\ i = subs'[k] /\ sub'[i].mode # "any" /\ b = sub'[i].bound /\ b # None
    BY DEF Attends
<1>2. Live(k) /\ i = subs[k]
    BY <1>1, DayFrame
<1>3. i \in registered /\ i \in Started /\ i \in SubIds /\ sub[i].sink = k
    BY <1>0, <1>2 DEF LiveSubs, SubsTyped, Started, Live
<1>4. sub[i].mode # "any"
    BY <1>1, <1>3, DayFrame
<1>5. ConnAt(k, "read")
  <2>1. ASSUME NEW j \in Sinks, DepartStep(j) PROVE ConnAt(k, "read")
      BY <1>0, <1>1, <2>1, DepartEffect DEF DepartStep, ConnAt
  <2>2. ASSUME NEW e \in EmitIds, EmitStep(e) PROVE conn' = conn
      BY <2>2 DEF EmitStep, ThinkStep, ApplyStep, ChangeStep, BindStep, ReboundStep, clientPart
  <2>3. ASSUME \/ \E j \in SubIds : FlowStep(j)
               \/ \E s \in SessionIds : ProbeStep(s) \/ UnknownStep(s)
               \/ SweepStep \/ Elsewhere
        PROVE  conn' = conn
      BY <2>3 DEF FlowStep, ProbeStep, UnknownStep, SweepStep, Elsewhere, clientPart
  <2> QED
      BY <1>0, <1>1, <2>1, <2>2, <2>3, DayCases DEF ConnAt
<1>6. sub'[i].bound = sub[i].bound => Attends(k, i, b)
    BY <1>1, <1>2, <1>4, <1>5 DEF Attends
<1> QED
    BY <1>0, <1>1, <1>2, <1>3, <1>4, <1>5, <1>6, FreshMeans

\* What is due while an emit runs is due from it.
LEMMA DueAlone ==
    ASSUME Still, NEW e \in EmitIds, Running(e), NEW k, NEW s
    PROVE  Due(k, s) <=> \/ EmitAt(e, "publish") /\ Msg[e].session = s
                         \/ emit[e].pc \in {"look", "tell"} /\ emit[e].target.sink = k
<1>1. Found = {} /\ \A d \in EmitIds : Running(d) => d = e
    BY Alone
<1> QED
    BY <1>1 DEF Due, Running, EmitAt

LEMMA DueHere ==
    ASSUME NEW e \in EmitIds, NEW k, NEW s,
           \/ EmitAt(e, "publish") /\ Msg[e].session = s
           \/ emit[e].pc \in {"look", "tell"} /\ emit[e].target.sink = k
    PROVE  Due(k, s)
BY DEF Due

\* With what waits for it and its session as they were, it hears what it heard.
LEMMA HeardStays ==
    ASSUME NEW k, NEW i, NEW b, Heard(k, i, b),
           buf'[i] = buf[i], pump'[i] = pump[i], Present(b)' = Present(b), view'[k] = view[k]
    PROVE  Heard(k, i, b)'
<1>1. (Empty(i)' <=> Empty(i)) /\ Newest(i)' = Newest(i)
    BY DEF Empty, Newest, Holding
<1>2. Present(b)' = Present(b)
    OBVIOUS
<1> QED
    BY <1>1, <1>2 DEF Heard, Says

\* One lemma per kind of step: the session's state stays heard or due.
LEMMA FreshThink ==
    ASSUME OneEmitServer, Day, NEW k \in Sinks, NEW i, NEW b, Attends(k, i, b)',
           NEW e \in EmitIds, ThinkStep(e)
    PROVE  (Heard(k, i, b) \/ Due(k, b))'
<1>0. Shape /\ Still /\ UNCHANGED <<Msg, sub, buf, pump, view, sessions, janitor>>
    BY DayFrame DEF Day, Still, UInv, TInv, ThinkStep, clientPart, flowPart, truthPart
<1>1. CASE Heard(k, i, b)
    BY <1>0, <1>1, HeardStays DEF Present
<1>2. CASE Due(k, b)
  <2>1. CASE Running(e)
    <3>1. \/ EmitAt(e, "publish") /\ Msg[e].session = b
          \/ emit[e].pc \in {"look", "tell"} /\ emit[e].target.sink = k
        BY <1>0, <1>2, <2>1, DueAlone
    <3>2. LookForRebound(e)
      <4>1. ~FlagForChange(e) /\ ~CollectUnbound(e) /\ ~ListForRebind(e) /\ ~ResolveForRebind(e) /\ ~EndsOrFocuses(e)
          BY <1>0, <3>1, ChangeEffect, CollectEffect, ListEffect, ResolveEffect, EndsEffect DEF EmitAt
      <4>2. ~Arrive(e)
          BY <3>1 DEF Arrive, EmitAt
      <4> QED
          BY <4>1, <4>2 DEF ThinkStep, Thinks, EndsOrFocuses
    <3>3. EmitAt(e, "look") /\ emit'[e].pc = "tell" /\ emit'[e].target = emit[e].target
        BY <1>0, <3>2, LookEffect
    <3>4. emit'[e].target.sink = k
        BY <3>1, <3>3 DEF EmitAt
    <3> QED
        BY <3>3, <3>4 DEF Due
  <2>2. CASE ~Running(e)
    <3>1. \A d \in EmitIds \ {e} : emit'[d] = emit[d]
        BY <1>0, EmitAlone DEF EmitStep
    <3>2. Found' = Found
        BY <1>0 DEF Found
    <3> QED
        BY <1>0, <1>2, <2>2, <3>1, <3>2 DEF Due, EmitAt, Running
  <2> QED
      BY <2>1, <2>2
<1> QED
    BY <1>0, <1>1, <1>2, AttendsBack

LEMMA FreshApply ==
    ASSUME OneEmitServer, Day, NEW k \in Sinks, NEW i, NEW b, Attends(k, i, b)',
           NEW e \in EmitIds, ApplyStep(e)
    PROVE  (Heard(k, i, b) \/ Due(k, b))'
<1>0. /\ TInv /\ Shape /\ Still /\ UNCHANGED <<Msg, sub, buf, pump, view>> /\ EmitAt(e, "received") /\ Running(e)
    BY DayFrame, FoldEffect
       DEF Day, Still, UInv, TInv, ApplyStep, clientPart, flowPart, Running, EmitAt
<1>1. ~Due(k, b)
    BY <1>0, DueAlone DEF EmitAt
<1>2. Heard(k, i, b)
    BY <1>0, <1>1, AttendsBack
<1>3. CASE Present(b)' = Present(b)
    BY <1>0, <1>2, <1>3, HeardStays
<1>4. CASE Present(b)' # Present(b)
  <2> DEFINE s == Msg[e].session
  <2>1. /\ sessions' = ApplyTo(sessions, Msg[e], clock + 1)
        /\ emit'[e].pc = IF Lookup(sessions, s, clock + 1).state # sessions'[s].state THEN "publish" ELSE "collect"
    <3>1. sessions' # sessions
        BY <1>4 DEF Present
    <3> QED
        BY <1>0, <3>1, FoldEffect DEF ApplyStep
  <2>2. Msg[e] \in EmitMessage
      BY <1>0, ScenarioType DEF Shape, EmitAt
  <2>3. /\ DOMAIN sessions' = DOMAIN sessions \cup {s}
        /\ \A t \in DOMAIN sessions \ {s} : sessions'[t] = sessions[t]
      BY <1>0, <2>1, <2>2, FoldStamps DEF TInv, RegistryTyped
  <2>4. b = s
      BY <1>4, <2>3 DEF Present
  <2>5. Lookup(sessions, s, clock + 1).state = Present(b) /\ Present(b)' = sessions'[s].state
      BY <2>3, <2>4 DEF Lookup, FreshSession, Present
  <2>6. EmitAt(e, "publish")' /\ Msg'[e].session = b
      BY <1>0, <1>4, <2>1, <2>4, <2>5 DEF EmitAt
  <2> QED
      BY <2>6 DEF Due
<1> QED
    BY <1>3, <1>4

LEMMA FreshChange ==
    ASSUME OneEmitServer, BufferSize > 1, Day, NEW k \in Sinks, NEW i, NEW b, Attends(k, i, b)',
           NEW e \in EmitIds, ChangeStep(e)
    PROVE  (Heard(k, i, b) \/ Due(k, b))'
<1>0. /\ TInv /\ Shape /\ Still /\ UNCHANGED <<Msg, sub, pump, view, sessions>>
      /\ EmitAt(e, "publish") /\ Running(e) /\ InFlight(e) /\ Folded(e)
    BY DayFrame
       DEF Day, Still, UInv, TInv, Calm, ChangeStep, PublishChange, clientPart, truthPart, Running, EmitAt
<1>1. /\ i \in registered /\ i \in SubIds /\ sub[i].mode # "any" /\ sub[i].bound = b /\ b # None
      /\ Heard(k, i, b) \/ Due(k, b)
    BY <1>0, AttendsBack
<1>2. PICK frame : Publish(frame) /\ frame.session = Msg[e].session /\ frame.state = emit[e].to
    BY DEF ChangeStep, PublishChange
<1>3. CASE b = Msg[e].session
  <2>1. Matches(i, frame.session) /\ buf[i] = << >> /\ BufferSize # 0
      BY <1>0, <1>1, <1>2, <1>3, BufferSizeAssumption DEF Matches, InFlight, EmitAt, Empty
  <2>2. buf'[i] = <<frame>>
    <3>1. Len(buf[i]) # BufferSize
        BY <2>1
    <3>2. buf'[i] = Append(<< >>, frame)
        BY <1>1, <1>2, <2>1, <3>1, PublishGrows
    <3> QED
        BY <3>2
  <2>3. Newest(i)' = frame /\ ~Empty(i)'
      BY <2>2 DEF Newest, Empty
  <2>4. Present(b)' = emit[e].to
      BY <1>0, <1>3 DEF Folded, Present, EmitAt
  <2> QED
      BY <1>2, <1>3, <2>3, <2>4 DEF Heard, Says
<1>4. CASE b # Msg[e].session
  <2>1. ~Due(k, b)
      BY <1>0, <1>4, DueAlone DEF EmitAt
  <2>2. buf'[i] = buf[i]
      BY <1>1, <1>2, <1>4, PublishGrows DEF Matches
  <2> QED
      BY <1>0, <1>1, <2>1, <2>2, HeardStays DEF Present
<1> QED
    BY <1>3, <1>4

LEMMA FreshBind ==
    ASSUME OneEmitServer, Day, NEW k \in Sinks, NEW i, NEW b, Attends(k, i, b)',
           NEW e \in EmitIds, BindStep(e)
    PROVE  (Heard(k, i, b) \/ Due(k, b))'
<1> DEFINE w == emit[e].target
<1>0. /\ TInv /\ Shape /\ Still /\ UNCHANGED <<Msg, buf, pump, view, sessions>> /\ WorkKnown(e)
    BY DayFrame DEF Day, Still, UInv, TInv, Calm, BindStep, flowPart, truthPart
<1>1. /\ EmitAt(e, "bind") /\ emit'[e].pc = "look" /\ emit'[e].target = w
      /\ \A j \in SubIds \ {w.sub} : sub'[j] = sub[j]
    BY <1>0, BindEffect DEF BindStep, Shape
<1>2. CASE w.sink = k
  <2>1. emit'[e].pc \in {"look", "tell"} /\ emit'[e].target.sink = k
      BY <1>1, <1>2
  <2> QED
      BY <2>1 DEF Due
<1>3. CASE w.sink # k
  <2>1. Running(e)
      BY <1>1 DEF Running, EmitAt
  <2>2. ~Due(k, b)
      BY <1>0, <1>1, <2>1, DueAlone DEF EmitAt
  <2>3. sub[w.sub].sink = w.sink
      BY <1>0, <1>1 DEF WorkKnown, Waiting, Targets, EmitAt, Owns
  <2>4. sub'[i] = sub[i]
      BY <1>1, <1>3, <2>3, AttendsBack
  <2>5. Heard(k, i, b)
      BY <2>2, <2>4, AttendsBack
  <2> QED
      BY <1>0, <2>5, HeardStays DEF Present
<1> QED
    BY <1>2, <1>3

LEMMA FreshRebound ==
    ASSUME OneEmitServer, Day, NEW k \in Sinks, NEW i, NEW b, Attends(k, i, b)',
           NEW e \in EmitIds, ReboundStep(e)
    PROVE  (Heard(k, i, b) \/ Due(k, b))'
<1> DEFINE w == emit[e].target
<1>0. /\ TInv /\ Shape /\ Still /\ UNCHANGED <<Msg, sub, buf, pump, sessions>> /\ EmitAt(e, "tell") /\ Running(e)
      /\ BindingKnown(e) /\ InFlight(e) /\ Folded(e) /\ view \in [Sinks -> ToldSet] /\ Tell(w.sink, emit[e].snap)
    BY DayFrame DEF Day, Still, UInv, TInv, Calm, ReboundStep, clientPart, truthPart, TellRebound,
                    Running, EmitAt, BuffersTyped
<1>1. /\ Live(k) /\ i = subs[k] /\ i \in registered /\ sub[i].bound = b
      /\ Heard(k, i, b) \/ Due(k, b)
    BY <1>0, AttendsBack
<1>2. CASE w.sink = k
  <2>1. b = emit[e].sid /\ emit[e].snap = Told(b, Present(b))
        /\ (Changes(e) => b = Msg[e].session)
      BY <1>0, <1>1, <1>2 DEF BindingKnown, EmitAt
  <2>2. view'[k] = Told(b, Present(b))
      BY <1>0, <1>1, <1>2, <2>1 DEF Tell, Live, Told
  <2>3. Present(b)' = Present(b) /\ (Empty(i)' <=> Empty(i)) /\ Newest(i)' = Newest(i)
      BY <1>0 DEF Present, Empty, Newest, Holding
  <2>4. ~Empty(i) => Says(Newest(i), b, Present(b))
    <3>1. ASSUME ~Empty(i) PROVE Changes(e) /\ Says(Newest(i), Msg[e].session, emit[e].to)
        BY <1>0, <1>1, <3>1 DEF InFlight
    <3>2. emit[e].to = Present(Msg[e].session)
        BY <1>0 DEF Folded, Present, EmitAt
    <3> QED
        BY <2>1, <3>1, <3>2
  <2> QED
      BY <2>2, <2>3, <2>4 DEF Heard, Says
<1>3. CASE w.sink # k
  <2>1. ~Due(k, b)
      BY <1>0, <1>3, DueAlone DEF EmitAt
  <2>2. view'[k] = view[k]
      BY <1>0, <1>3 DEF Tell
  <2> QED
      BY <1>0, <1>1, <2>1, <2>2, HeardStays DEF Present
<1> QED
    BY <1>2, <1>3

LEMMA FreshFlow ==
    ASSUME OneEmitServer, Day, NEW k \in Sinks, NEW i, NEW b, Attends(k, i, b)',
           NEW j \in SubIds, FlowStep(j)
    PROVE  (Heard(k, i, b) \/ Due(k, b))'
<1>0. /\ TInv /\ Shape /\ UNCHANGED <<Msg, sub, sessions, emit, janitor, broken>> /\ Gone /\ Subscribed(k)
      /\ PumpStep(j) /\ view \in [Sinks -> ToldSet]
    BY DayFrame DEF Day, Still, UInv, TInv, Calm, FlowStep, clientPart, truthPart, BuffersTyped
<1>1. /\ Live(k) /\ ConnAt(k, "read") /\ i = subs[k] /\ i \in registered /\ i \in SubIds
      /\ sub[i].sink = k /\ (Heard(k, i, b) \/ Due(k, b))
    BY <1>0, AttendsBack
<1>2. CASE Due(k, b)
    BY <1>0, <1>2 DEF Due, Found, EmitAt
<1>3. CASE Heard(k, i, b) /\ j # i
  <2>1. buf'[i] = buf[i] /\ pump'[i] = pump[i]
      BY <1>0, <1>1, <1>3, PumpFlow
  <2>2. view'[k] = view[k]
    <3>1. CASE sub[j].sink = k
      <4>1. j \notin registered
          BY <1>0, <1>1, <1>3, <3>1 DEF Subscribed, Writing, ConnAt
      <4>2. Empty(j)
          BY <1>0, <1>1, <3>1, <4>1 DEF Gone, Reachable, Live
      <4> QED
          BY <1>0, <4>2, PumpFlow
    <3>2. CASE sub[j].sink # k
        BY <1>0, <3>2, PumpFlow
    <3> QED
        BY <3>1, <3>2
  <2> QED
      BY <1>0, <1>3, <2>1, <2>2, HeardStays DEF Present
<1>4. CASE Heard(k, i, b) /\ j = i
  <2>1. Present(b)' = Present(b)
      BY <1>0 DEF Present
  <2>2. CASE Empty(i)
      BY <1>0, <1>4, <2>1, <2>2, PumpFlow DEF Heard
  <2>3. CASE ~Empty(i) /\ ~Empty(i)'
      BY <1>0, <1>4, <2>1, <2>3, PumpFlow DEF Heard, Says
  <2>4. CASE ~Empty(i) /\ Empty(i)'
    <3>1. Tell(k, Newest(i)) /\ Says(Newest(i), b, Present(b))
        BY <1>0, <1>1, <1>4, <2>4, PumpFlow DEF Heard
    <3>2. view'[k] = Told(b, Present(b))
        BY <1>0, <1>1, <3>1 DEF Tell, Says, Live
    <3> QED
        BY <2>1, <2>4, <3>2 DEF Heard
  <2> QED
      BY <2>2, <2>3, <2>4
<1> QED
    BY <1>1, <1>2, <1>3, <1>4

LEMMA FreshProbe ==
    ASSUME OneEmitServer, Day, NEW k \in Sinks, NEW i, NEW b, Attends(k, i, b)',
           NEW s \in SessionIds, ProbeStep(s)
    PROVE  (Heard(k, i, b) \/ Due(k, b))'
<1>0. /\ TInv /\ UNCHANGED <<Msg, sub, emit, buf, pump, view>> /\ DOMAIN janitor = {"pc", "todo", "reaped"}
    BY DayFrame DEF Day, Still, UInv, TInv, RegistryTyped, ProbeStep, clientPart, flowPart
<1>1. Heard(k, i, b) \/ Due(k, b)
    BY <1>0, AttendsBack
<1>2. janitor.pc = "probe"
    BY Zenon DEF ProbeStep, ProbeSession
<1>3. CASE /\ sessions' = sessions
           /\ janitor' = [janitor EXCEPT !.todo = @ \ {s}, !.reaped = janitor.reaped]
  <2>1. Found' = Found
      BY <1>0, <1>2, <1>3 DEF Found
  <2>2. Due(k, b) => Due(k, b)'
      BY <1>0, <2>1 DEF Due, EmitAt
  <2> QED
      BY <1>0, <1>1, <1>3, <2>2, HeardStays DEF Present
<1>4. CASE /\ sessions' = [sessions EXCEPT ![s].state = Unknown]
           /\ janitor' = [janitor EXCEPT !.todo = @ \ {s}, !.reaped = janitor.reaped \cup {s}]
  <2>1. Found' = Found \cup {s}
      BY <1>0, <1>2, <1>4 DEF Found
  <2>2. Due(k, b) \/ b = s => Due(k, b)'
      BY <1>0, <2>1 DEF Due, EmitAt
  <2>3. CASE b # s
    <3>1. Present(b)' = Present(b)
        BY <1>4, <2>3 DEF Present
    <3> QED
        BY <1>0, <1>1, <2>2, <3>1, HeardStays
  <2> QED
      BY <2>2, <2>3
<1> QED
    BY <1>3, <1>4, ProbeFinds DEF ProbeStep

LEMMA FreshUnknown ==
    ASSUME OneEmitServer, BufferSize > 1, Day, NEW k \in Sinks, NEW i, NEW b, Attends(k, i, b)',
           NEW s \in SessionIds, UnknownStep(s)
    PROVE  (Heard(k, i, b) \/ Due(k, b))'
<1>0. /\ TInv /\ UNCHANGED <<Msg, sub, emit, pump, view, sessions>> /\ DOMAIN janitor = {"pc", "todo", "reaped"}
      /\ SweepKnown /\ Backlog /\ buf \in [SubIds -> Seq(StateFrames)] /\ BufferSize \in Nat
    BY DayFrame, BufferSizeAssumption
       DEF Day, Still, UInv, TInv, Calm, RegistryTyped, BuffersTyped, UnknownStep, clientPart
<1>1. /\ i \in registered /\ i \in SubIds /\ sub[i].mode # "any" /\ sub[i].bound = b /\ b # None
      /\ Heard(k, i, b) \/ Due(k, b)
    BY <1>0, AttendsBack
<1>2. PICK frame : Publish(frame) /\ frame.session = s /\ frame.state = Unknown
    BY DEF UnknownStep, PublishUnknown
<1>3. /\ janitor.pc = "publish" /\ s \in janitor.todo
      /\ janitor'.pc \in {"publish", "flag"} /\ janitor'.todo = janitor.todo \ {s}
  <2>1. PICK place \in {"publish", "flag"} : janitor' = [janitor EXCEPT !.todo = @ \ {s}, !.pc = place]
      BY DEF UnknownStep, PublishUnknown
  <2>2. janitor.pc = "publish" /\ s \in janitor.todo
      BY DEF UnknownStep, PublishUnknown
  <2> QED
      BY <1>0, <2>1, <2>2
<1>4. CASE b = s
  <2>1. Present(b)' = Unknown
      BY <1>0, <1>3, <1>4 DEF SweepKnown, Found, Present
  <2>2. buf'[i] = IF Len(buf[i]) # BufferSize THEN Append(buf[i], frame) ELSE buf[i]
      BY <1>1, <1>2, <1>4, PublishGrows DEF Matches
  <2>3. buf'[i] # << >> /\ Says(buf'[i][Len(buf'[i])], b, Unknown)
    <3>1. buf[i] \in Seq(StateFrames)
        BY <1>0, <1>1
    <3>2. CASE Len(buf[i]) # BufferSize
      <4>1. buf'[i] = Append(buf[i], frame)
          BY <2>2, <3>2
      <4>2. buf'[i][Len(buf'[i])] = frame /\ Len(buf'[i]) # 0
          BY <3>1, <4>1
      <4>3. buf'[i] # << >>
          BY <4>2
      <4> QED
          BY <1>2, <1>4, <4>2, <4>3 DEF Says
    <3>3. CASE Len(buf[i]) = BufferSize
      <4>1. buf'[i] = buf[i] /\ Len(buf[i]) > 1
          BY <1>0, <2>2, <3>3
      <4> QED
          BY <1>0, <1>1, <3>1, <4>1 DEF Backlog
    <3> QED
        BY <3>2, <3>3
  <2>4. Newest(i)' = buf'[i][Len(buf'[i])] /\ ~Empty(i)'
      BY <2>3 DEF Newest, Empty
  <2> QED
      BY <2>1, <2>3, <2>4 DEF Heard, Says
<1>5. CASE b # s
  <2>1. buf'[i] = buf[i]
      BY <1>1, <1>2, <1>5, PublishGrows DEF Matches
  <2>2. Due(k, b) => Due(k, b)'
      BY <1>0, <1>3, <1>5 DEF Due, Found, EmitAt
  <2> QED
      BY <1>0, <1>1, <2>1, <2>2, HeardStays DEF Present
<1> QED
    BY <1>4, <1>5

LEMMA FreshSweep ==
    ASSUME OneEmitServer, Day, NEW k \in Sinks, NEW i, NEW b, Attends(k, i, b)', SweepStep
    PROVE  (Heard(k, i, b) \/ Due(k, b))'
<1>0. /\ TInv /\ UNCHANGED <<Msg, sub, emit, buf, pump, view, sessions>> /\ DOMAIN janitor = {"pc", "todo", "reaped"}
      /\ SweepKnown
    BY DayFrame DEF Day, Still, UInv, TInv, Calm, RegistryTyped, SweepStep, clientPart, flowPart
<1>1. Found \subseteq Found'
  <2>1. BeginSweep => janitor.pc = "wait"
      BY Zenon DEF BeginSweep
  <2>2. CASE BeginSweep \/ EndSweep
    <3>1. Found = {}
        BY <2>1, <2>2 DEF EndSweep, Found
    <3> QED
        BY <3>1
  <2>3. CASE EndGC
    <3>1. /\ janitor.pc = "probe" /\ janitor'.reaped = janitor.reaped
          /\ janitor'.pc = IF janitor.reaped = {} THEN "wait" ELSE "list"
        BY <1>0, <2>3 DEF EndGC
    <3> QED
        BY <3>1 DEF Found
  <2>4. CASE ListUnknown
    <3>1. /\ janitor.pc = "list" /\ janitor'.pc = "publish"
          /\ janitor'.todo = {s \in DOMAIN sessions : sessions[s].state = Unknown}
        BY <2>4 DEF ListUnknown
    <3> QED
        BY <1>0, <3>1 DEF Found, SweepKnown
  <2>5. CASE FlagForUnknown
    <3>1. PICK place \in {"publish", "flag"} : janitor' = [janitor EXCEPT !.pc = place]
        BY <2>5 DEF FlagForUnknown
    <3>2. janitor.pc = "flag" /\ janitor'.pc \in {"publish", "flag"} /\ janitor'.todo = janitor.todo
        BY <1>0, <2>5, <3>1 DEF FlagForUnknown
    <3> QED
        BY <3>2 DEF Found
  <2> QED
      BY <2>2, <2>3, <2>4, <2>5 DEF SweepStep, Sweeps
<1>2. Due(k, b) => Due(k, b)'
    BY <1>0, <1>1 DEF Due, EmitAt
<1>3. Heard(k, i, b) \/ Due(k, b)
    BY <1>0, AttendsBack
<1> QED
    BY <1>0, <1>2, <1>3, HeardStays DEF Present

\* All of them together.
LEMMA FreshStep ==
    ASSUME OneEmitServer, BufferSize > 1, Day, NEW k \in Sinks
    PROVE  Fresh(k)'
<1>0. Shape /\ [Next]_vars /\ ~NoneYet' /\ ScriptsOver /\ Msg' = Msg
    BY DayFrame DEF Day, Still, UInv, TInv, Calm
<1>1. SUFFICES ASSUME NEW i, NEW b, Attends(k, i, b)' PROVE (Heard(k, i, b) \/ Due(k, b))'
  <2>1. \A i, b : Attends(k, i, b)' => (Heard(k, i, b) \/ Due(k, b))'
      BY <1>1
  <2> QED
      BY <2>1 DEF Fresh, Attends, Heard, Hears
<1>2. ASSUME NEW e \in EmitIds, EmitStep(e) PROVE (Heard(k, i, b) \/ Due(k, b))'
    BY <1>1, <1>2, FreshThink, FreshApply, FreshChange, FreshBind, FreshRebound DEF EmitStep
<1>3. ASSUME \/ \E j \in Sinks : DepartStep(j)
             \/ Elsewhere
      PROVE  (Heard(k, i, b) \/ Due(k, b))'
  <2>1. UNCHANGED <<sub, emit, buf, pump, view, sessions, janitor>>
      BY <1>3 DEF DepartStep, Elsewhere, clientPart, flowPart, truthPart
  <2>2. Due(k, b) => Due(k, b)'
      BY <1>0, <2>1 DEF Due, Found, EmitAt
  <2>3. Heard(k, i, b) \/ Due(k, b)
      BY <1>1, <2>1, AttendsBack
  <2> QED
      BY <2>1, <2>2, <2>3, HeardStays DEF Present
<1> QED
    BY <1>0, <1>1, <1>2, <1>3, FreshFlow, FreshProbe, FreshUnknown, FreshSweep, DayCases

-----------------------------------------------------------------------------
(* Before the first emit                                                    *)

\* Where no emit has arrived after a step, none had, and none takes one.
LEMMA NoEmitYet ==
    ASSUME Shape, [Next]_vars, NoneYet', NEW e \in EmitIds
    PROVE  EmitAt(e, "unsent") /\ ~(Arrive(e) \/ ServeEmit(e) \/ AfterEmit(e))
<1>1. emit'[e] = emit[e] /\ EmitAt(e, "unsent")
    BY EmitMoves DEF NoneYet, EmitAt, Running
<1>2. ~Arrive(e)
    BY <1>1 DEF Arrive, Shape, EmitFields, EmitAt
<1>3. ~ApplyEmit(e) /\ ~Plods(e) /\ ~EndsOrFocuses(e)
    BY <1>1, FoldEffect, PlodsEffect, EndsEffect DEF EmitAt, Pending
<1> QED
    BY <1>1, <1>2, <1>3 DEF ServeEmit, AfterEmit, Plods, EndsOrFocuses

\* So nothing but connections' steps matters until then.
LEMMA DawnFrame ==
    ASSUME Still, [Next]_vars, NoneYet'
    PROVE  /\ NoneYet /\ sessions' = sessions /\ DOMAIN sessions = {} /\ emit' = emit
           /\ janitor'.pc \in {"wait", "probe"} /\ janitor'.todo = {} /\ janitor'.reaped = {}
           /\ \A i \in SubIds : Empty(i) /\ Empty(i)'
           /\ \/ UNCHANGED <<clientPart, view>>
              \/ \E c \in Sinks : ConnStep(c) \/ Hangup(c)
<1>0. /\ TInv /\ Shape /\ DOMAIN janitor = {"pc", "todo", "reaped"} /\ Dawn
    BY DEF Still, UInv, TInv, RegistryTyped, Calm
<1>1. NoneYet /\ emit' = emit
  <2>1. \A e \in EmitIds : EmitAt(e, "unsent")
      BY <1>0, NoEmitYet
  <2>3. CASE Environment \/ \E k \in Sinks : ConnStep(k)
      BY <1>0, <2>1, <2>3, NoEmitYet DEF NoneYet, Environment, Hangup, GoIdle, ClosePane, notConn, ConnStep,
         ReadSubscribe, ResolveForSubscribe, JoinBus, RecordSub, LookForSubscriber, TellSubscriber,
         ReadUnsubscribe, LeaveBus, ReadFocusRequest, RemoveDoomed, ForgetConn
  <2>4. CASE \/ \E a \in asks : DecideAsked(a) \/ SwitchAsked(a)
             \/ \E i \in SubIds : PumpStep(i)
             \/ UNCHANGED vars
      BY <2>1, <2>4 DEF NoneYet, DecideAsked, SwitchAsked, PumpStep, notPump, vars
  <2>5. CASE BeginSweep \/ JanitorStep
      BY <2>1, <2>5, JanitorFrames DEF NoneYet, SweepStep, ProbeStep, UnknownStep
  <2> QED
      BY <1>0, <2>3, <2>4, <2>5, NoEmitYet DEF Next
<1>2. /\ DOMAIN sessions = {} /\ janitor.todo = {} /\ janitor.reaped = {}
      /\ janitor.pc \in {"wait", "probe"} /\ \A i \in SubIds : Empty(i)
    BY <1>0, <1>1 DEF Dawn
<1> DEFINE Kept == /\ sessions' = sessions
                   /\ janitor'.pc \in {"wait", "probe"} /\ janitor'.todo = {} /\ janitor'.reaped = {}
                   /\ \A i \in SubIds : Empty(i)'
<1>3. ASSUME UNCHANGED <<sessions, janitor, buf>>, \A i \in SubIds : Holding(i)' => Holding(i) PROVE Kept
    BY <1>2, <1>3 DEF Empty
<1>4. ASSUME UNCHANGED <<sessions, janitor, buf, pump>> PROVE Kept
    BY <1>3, <1>4 DEF Holding
<1>5. ASSUME NEW c \in Sinks, ConnStep(c) \/ Hangup(c) PROVE Kept
  <2>1. CASE JoinBus(c)
    <3>1. PICK i : pump' = [pump EXCEPT ![i].pc = "select"] /\ UNCHANGED <<sessions, janitor, buf>>
        BY <2>1 DEF JoinBus, Subscribe, notConn, registryVars
    <3>2. \A j \in SubIds : Holding(j)' => Holding(j)
        BY <1>0, <3>1 DEF Holding, TInv, BuffersTyped, PumpTyped
    <3> QED
        BY <1>3, <3>1, <3>2
  <2>2. CASE ~JoinBus(c)
    <3>1. UNCHANGED <<sessions, janitor, buf, pump>>
        BY <1>5, <2>2 DEF ConnStep, Hangup, Break, Unsubscribe, ReadSubscribe, ResolveForSubscribe, RecordSub,
           LookForSubscriber, TellSubscriber, ReadUnsubscribe, LeaveBus, ReadFocusRequest, RemoveDoomed,
           ForgetConn, notConn, busVars, registryVars
    <3> QED
        BY <1>4, <3>1
  <2> QED
      BY <2>1, <2>2
<1>6. ASSUME NEW i \in SubIds, PumpStep(i) PROVE Kept /\ UNCHANGED <<clientPart, view>>
  <2>1. UNCHANGED <<sessions, janitor>> /\ UNCHANGED nonPumpVars /\ UNCHANGED <<conn, subs, scenario>>
      BY <1>6 DEF PumpStep, Stop, Receive, CheckOverflow, Announce, Resync, Push, Write, notPump, registryVars
  <2>2. view' = view /\ Empty(i)'
      BY <1>0, <1>2, <1>6, PumpFlow
  <2>3. \A j \in SubIds \ {i} : Empty(j)'
      BY <1>0, <1>2, <1>6, PumpFlow DEF Empty, Holding
  <2> QED
      BY <1>2, <2>1, <2>2, <2>3 DEF nonPumpVars, clientPart
<1>7. ASSUME BeginSweep \/ JanitorStep PROVE Kept /\ UNCHANGED <<clientPart, view>>
  <2>1. ASSUME NEW s \in SessionIds, ProbeStep(s) PROVE FALSE
    <3>1. ProbeSession(s) => s \in janitor.todo
        BY Zenon DEF ProbeSession
    <3> QED
        BY <1>2, <2>1, <3>1 DEF ProbeStep
  <2>2. ASSUME NEW s \in SessionIds, UnknownStep(s) PROVE FALSE
      BY <1>2, <2>2 DEF UnknownStep, PublishUnknown
  <2>3. SweepStep
      BY <1>7, <2>1, <2>2, JanitorFrames
  <2>4. UNCHANGED <<clientPart, flowPart, sessions>> /\ janitor.pc \in {"wait", "probe"}
      BY <1>2, <2>3 DEF SweepStep
  <2>5. janitor'.pc \in {"wait", "probe"} /\ janitor'.todo = {} /\ janitor'.reaped = {}
    <3>1. BeginSweep => janitor' = [pc |-> "probe", reaped |-> {},
                                    todo |-> {s \in DOMAIN sessions \cap idle : sessions[s].state # Unknown}]
        BY Zenon DEF BeginSweep
    <3>2. CASE BeginSweep
        BY <1>2, <3>1, <3>2
    <3>3. CASE EndGC
        BY <1>0, <1>2, <3>3 DEF EndGC
    <3>4. CASE ListUnknown \/ FlagForUnknown \/ EndSweep
        BY <1>2, <3>4 DEF ListUnknown, FlagForUnknown, EndSweep
    <3> QED
        BY <2>3, <3>2, <3>3, <3>4 DEF SweepStep, Sweeps
  <2>6. \A i \in SubIds : Empty(i)'
      BY <1>2, <2>4 DEF Empty, Holding, flowPart
  <2> QED
      BY <2>4, <2>5, <2>6 DEF flowPart
<1>8. ASSUME \/ \E a \in asks : DecideAsked(a) \/ SwitchAsked(a)
             \/ \E s \in SessionIds : GoIdle(s)
             \/ \E socket \in DOMAIN layout, p \in PaneIds : ClosePane(socket, p)
             \/ UNCHANGED vars
      PROVE  Kept /\ UNCHANGED <<clientPart, view>>
  <2>1. UNCHANGED <<clientPart, view, sessions, janitor, buf, pump>>
      BY <1>8 DEF DecideAsked, SwitchAsked, GoIdle, ClosePane, vars, busVars, registryVars, clientPart
  <2> QED
      BY <1>4, <2>1
<1> HIDE DEF Kept
<1>9. /\ Kept
      /\ \/ UNCHANGED <<clientPart, view>>
         \/ \E c \in Sinks : ConnStep(c) \/ Hangup(c)
    BY <1>0, <1>5, <1>6, <1>7, <1>8, NoEmitYet DEF Next, Environment
<1> QED
    BY <1>1, <1>2, <1>9 DEF Kept

\* What is known of an activity's connection from the start.
Settled(k) ==
    /\ conn[k].pc \in {"closing", "closed"} => k \in broken
    /\ Live(k) => subs[k] \in registered
    /\ ConnKnows(k) /\ Fresh(k)

\* A connection's step leaves alone what serves another.
LEMMA OthersServed ==
    ASSUME TInv, NEW c \in Sinks, ConnKnows(c), ConnStep(c) \/ Hangup(c), NEW k \in Sinks \ {c}
    PROVE  /\ conn'[k] = conn[k] /\ view'[k] = view[k]
           /\ (k \in DOMAIN subs' <=> k \in DOMAIN subs) /\ (k \in DOMAIN subs => subs'[k] = subs[k])
           /\ k \in broken' <=> k \in broken
           /\ \A i : Owns(k, i) => /\ Owns(k, i)' /\ sub'[i] = sub[i]
                                   /\ i \in registered => i \in registered'
<1>0. Shape /\ SubsTyped /\ BuffersTyped
    BY DEF TInv
<1>1. /\ conn'[k] = conn[k] /\ (k \in DOMAIN subs' <=> k \in DOMAIN subs)
      /\ (k \in DOMAIN subs => subs'[k] = subs[k])
    BY <1>0, ConnEffect DEF Spares, OthersStay
<1>2. view'[k] = view[k]
  <2>1. CASE TellSubscriber(c)
      BY <1>0, <2>1 DEF TellSubscriber, Tell, BuffersTyped
  <2>2. CASE ~TellSubscriber(c)
      BY <2>2 DEF ConnStep, Hangup, ReadSubscribe, ResolveForSubscribe, JoinBus, RecordSub,
         LookForSubscriber, ReadUnsubscribe, LeaveBus, ReadFocusRequest, RemoveDoomed, ForgetConn
  <2> QED
      BY <2>1, <2>2
<1>3. k \in broken' <=> k \in broken
    BY DEF ConnStep, Hangup, Break, ReadSubscribe, ResolveForSubscribe, JoinBus, RecordSub, TellSubscriber,
       LookForSubscriber, ReadUnsubscribe, LeaveBus, ReadFocusRequest, RemoveDoomed, ForgetConn,
       Subscribe, Unsubscribe, busVars
<1>4. ASSUME NEW i, Owns(k, i) PROVE sub'[i] = sub[i] /\ (i \in registered => i \in registered')
  <2>1. CASE JoinBus(c)
    <3>1. PICK j \in Unused : \E mode, bound, pane : Subscribe(j, mode, bound, pane, c)
        BY <2>1 DEF JoinBus
    <3>2. i # j /\ i \in SubIds
        BY <1>4, <3>1 DEF Owns, Started
    <3> QED
        BY <1>0, <3>1, <3>2 DEF Subscribe, Shape
  <2>2. CASE LeaveBus(c)
      BY <1>4, <2>2 DEF LeaveBus, Unsubscribe, ConnKnows, Owns, ConnAt
  <2>3. CASE RemoveDoomed(c)
      BY <1>4, <2>3 DEF RemoveDoomed, Unsubscribe, ConnKnows, Owns, ConnAt
  <2>4. CASE ~JoinBus(c) /\ ~LeaveBus(c) /\ ~RemoveDoomed(c)
      BY <2>4 DEF ConnStep, Hangup, Break, ReadSubscribe, ResolveForSubscribe, RecordSub, TellSubscriber,
         LookForSubscriber, ReadUnsubscribe, ReadFocusRequest, ForgetConn, busVars
  <2> QED
      BY <2>1, <2>2, <2>3, <2>4
<1>5. Started \subseteq Started'
    BY BuffersStep DEF Next, Environment
<1> QED
    BY <1>1, <1>2, <1>3, <1>4, <1>5 DEF Owns

\* While there are no sessions, a client that hears nothing has heard so.
LEMMA FreshKept ==
    ASSUME Still, [Next]_vars, NoneYet', NEW k \in Sinks, conn'[k].pc = conn[k].pc, view'[k] = view[k],
           Live(k)' => Live(k) /\ subs'[k] = subs[k] /\ sub'[subs[k]] = sub[subs[k]]
    PROVE  Fresh(k)'
<1>0. /\ SubsTyped /\ Fresh(k) /\ NoneYet /\ Dawn
      /\ sessions' = sessions /\ DOMAIN sessions = {} /\ \A i \in SubIds : Empty(i) /\ Empty(i)'
    BY DawnFrame DEF Still, UInv, TInv, Calm
<1>1. \A b : Present(b) = Unknown /\ Present(b)' = Unknown
    BY <1>0 DEF Present
<1>2. PICK i : i = subs[k]
    OBVIOUS
<1>3. ~Due(k, sub[i].bound)
  <2>1. Found = {}
      BY <1>0 DEF Dawn, Found
  <2> QED
      BY <1>0, <2>1 DEF Due, NoneYet, EmitAt
<1>4. Live(k) => i \in SubIds
    BY <1>0, <1>2 DEF SubsTyped, Started, Live
<1>5. ASSUME Live(k)', ConnAt(k, "read")', sub'[i].mode # "any", sub'[i].bound # None
      PROVE  Hears(k, sub[i].bound, Unknown)' /\ subs'[k] = i /\ sub'[i] = sub[i]
  <2>1. /\ Live(k) /\ subs'[k] = i /\ sub'[i] = sub[i] /\ i \in SubIds
        /\ ConnAt(k, "read") /\ sub[i].mode # "any" /\ sub[i].bound # None
      BY <1>2, <1>4, <1>5 DEF ConnAt
  <2>2. Hears(k, sub[i].bound, Unknown)
      BY <1>0, <1>1, <1>2, <1>3, <2>1 DEF Fresh
  <2> QED
      BY <1>0, <1>2, <2>1, <2>2 DEF Hears
<1> QED
    BY <1>1, <1>2, <1>5 DEF Fresh, Hears

\* The connection's own steps, while there are no sessions.
LEMMA OwnSettled ==
    ASSUME Still, [Next]_vars, NoneYet', NEW k \in Sinks, ConnStep(k) \/ Hangup(k)
    PROVE  Settled(k)'
<1>0. /\ TInv /\ Shape /\ SubsTyped /\ Settled(k) /\ Subscribed(k) /\ DOMAIN conn[k] = ConnFields /\ DOMAIN conn = Sinks
      /\ ConnTyped(k) /\ view \in [Sinks -> ToldSet] /\ DOMAIN view = Sinks
      /\ sessions' = sessions /\ DOMAIN sessions = {} /\ \A i \in SubIds : Empty(i) /\ Empty(i)'
    BY DawnFrame DEF Still, UInv, TInv, Shape, Calm, Settled, HungUp, LiveSubs, BuffersTyped
<1>1. \A b : Present(b) = Unknown /\ Present(b)' = Unknown
    BY <1>0 DEF Present
<1>2. \A b : b # None => Snapshots(b) = {Told(b, Unknown)}
    BY <1>0 DEF Snapshots
<1> USE DEF ConnFields, ConnAt
<1>3. CASE Departs(k)
  <2>1. k \in broken' /\ conn'[k].pc \in {"closing", "closed"}
      BY <1>0, <1>3, DepartEffect DEF Settled
  <2>2. ASSUME conn'[k].pc = "closing", NEW i \in conn'[k].doomed PROVE Owns(k, i)'
    <3>1. Started \subseteq Started' /\ sub' = sub
        BY <1>0, <1>3, BuffersStep DEF Departs, Hangup, Break, RemoveDoomed, Unsubscribe, ForgetConn, busVars
    <3>2. Owns(k, i)
        BY <1>0, <1>3, <2>2, DepartEffect DEF Settled, ConnKnows, Owns, Writing, SubsTyped
    <3> QED
        BY <3>1, <3>2 DEF Owns
  <2> QED
      BY <2>1, <2>2 DEF Settled, ConnKnows, Live, Fresh, Owns
<1>4. ASSUME conn'[k].pc \in {"resolve", "join"}, UNCHANGED <<subs, registered, broken>> PROVE Settled(k)'
    BY <1>0, <1>4 DEF Settled, ConnKnows, Fresh, Live
<1>5. ASSUME conn'[k].pc = "read", conn[k].pc = "read", UNCHANGED <<subs, registered, sub, broken, view>>
      PROVE  Settled(k)'
  <2>1. Fresh(k)'
      BY <1>0, <1>5, FreshKept DEF Live
  <2> QED
      BY <1>0, <1>5, <2>1 DEF Settled, ConnKnows, Live
<1>6. CASE ReadSubscribe(k)
  <2>1. UNCHANGED <<subs, registered, sub, broken, view>> /\ conn[k].pc = "read"
      BY <1>6 DEF ReadSubscribe, busVars, Reads
  <2>2. conn'[k].pc \in {"read", "resolve", "join"}
    <3>1. CASE conn' = [conn EXCEPT ![k] = NextRequest(k)]
        BY <1>0, <3>1 DEF NextRequest, NewConn
    <3>2. CASE \E listing : conn' = [conn EXCEPT ![k].listing = listing, ![k].pc = "resolve"]
        BY <1>0, <3>2
    <3>3. CASE \E sid : conn' = [conn EXCEPT ![k].sid = sid, ![k].pc = "join"]
        BY <1>0, <3>3
    <3> QED
        BY <1>6, <3>1, <3>2, <3>3 DEF ReadSubscribe
  <2> QED
      BY <1>4, <1>5, <2>1, <2>2
<1>7. CASE ResolveForSubscribe(k)
  <2>1. PICK sid : conn' = [conn EXCEPT ![k].sid = sid, ![k].listing = NoListing, ![k].pc = "join"]
      BY <1>7, Zenon DEF ResolveForSubscribe
  <2>2. UNCHANGED <<subs, registered, broken>>
      BY <1>7 DEF ResolveForSubscribe, busVars
  <2> QED
      BY <1>0, <1>4, <2>1, <2>2
<1>8. CASE JoinBus(k)
  <2>1. PICK i \in Unused : /\ \E mode, pane : Subscribe(i, mode, conn[k].sid, pane, k)
                            /\ conn' = [conn EXCEPT ![k].sub = i, ![k].pc = "record"]
      BY <1>8 DEF JoinBus
  <2>2. /\ conn'[k].pc = "record" /\ conn'[k].sub = i /\ conn'[k].sid = conn[k].sid
        /\ registered' = registered \cup {i} /\ sub'[i].bound = conn[k].sid
        /\ UNCHANGED <<subs, broken>>
      BY <1>0, <1>8, <2>1 DEF JoinBus, Subscribe, Unused, Shape
  <2> QED
      BY <1>0, <2>2 DEF Settled, ConnKnows, Fresh, Live
<1>9. CASE RecordSub(k)
  <2>1. /\ conn'[k].pc = "look" /\ conn'[k].sid = conn[k].sid /\ conn[k].pc = "record"
        /\ k \in DOMAIN subs' /\ subs'[k] = conn[k].sub /\ UNCHANGED <<registered, sub, broken>>
      BY <1>0, <1>9 DEF RecordSub, busVars
  <2> QED
      BY <1>0, <2>1 DEF Settled, ConnKnows, Fresh, Live
<1>10. CASE LookForSubscriber(k)
  <2>1. PICK snap \in Snapshots(conn[k].sid) : conn' = [conn EXCEPT ![k].snap = snap, ![k].pc = "tell"]
      BY <1>10 DEF LookForSubscriber
  <2>2. /\ conn'[k].pc = "tell" /\ conn'[k].sid = conn[k].sid /\ conn'[k].snap = snap /\ conn[k].pc = "look"
        /\ UNCHANGED <<subs, registered, sub, broken>>
      BY <1>0, <1>10, <2>1 DEF LookForSubscriber, busVars
  <2> QED
      BY <1>0, <1>2, <2>1, <2>2 DEF Settled, ConnKnows, Fresh, Live
<1>11. CASE TellSubscriber(k)
  <2>1. /\ conn'[k].pc = "read" /\ conn[k].pc = "tell" /\ UNCHANGED <<subs, registered, sub, broken>>
        /\ Tell(k, conn[k].snap)
      BY <1>0, <1>11 DEF TellSubscriber, NextRequest, NewConn, busVars
  <2>2. ASSUME Live(k), sub[subs[k]].bound # None
        PROVE  view'[k] = Told(sub[subs[k]].bound, Unknown) /\ subs[k] \in SubIds
    <3>1. conn[k].snap = Told(sub[subs[k]].bound, Unknown)
        BY <1>0, <2>1, <2>2 DEF Settled, ConnKnows
    <3> QED
        BY <1>0, <2>1, <2>2, <3>1 DEF Tell, Live, Told, SubsTyped, Started
  <2>3. Fresh(k)'
    <3>1. PICK i : i = subs[k]
        OBVIOUS
    <3>2. Live(k)' => Live(k)
        BY <2>1 DEF Live
    <3> QED
        BY <1>0, <1>1, <2>1, <2>2, <3>1, <3>2 DEF Fresh, Hears
  <2> QED
      BY <1>0, <2>1, <2>3 DEF Settled, ConnKnows, Live
<1>12. CASE ReadUnsubscribe(k)
  <2>1. k \notin DOMAIN subs' /\ UNCHANGED <<registered, sub, broken>> /\ Started \subseteq Started'
      BY <1>0, <1>12, BuffersStep DEF ReadUnsubscribe, Without, busVars
  <2>2. CASE k \in DOMAIN subs
    <3>1. conn'[k].pc = "leave" /\ conn'[k].sub = subs[k]
        BY <1>0, <1>12, <2>2 DEF ReadUnsubscribe
    <3> QED
        BY <1>0, <2>1, <2>2, <3>1 DEF Settled, ConnKnows, Fresh, Live, Owns, SubsTyped
  <2>3. CASE k \notin DOMAIN subs
    <3>1. conn'[k].pc = "read"
        BY <1>0, <1>12, <2>3 DEF ReadUnsubscribe, NextRequest, NewConn
    <3> QED
        BY <1>0, <2>1, <3>1 DEF Settled, ConnKnows, Fresh, Live
  <2> QED
      BY <2>2, <2>3
<1>13. CASE LeaveBus(k)
  <2>1. conn'[k].pc = "read" /\ conn[k].pc = "leave" /\ UNCHANGED <<subs, broken>>
      BY <1>0, <1>13 DEF LeaveBus, Unsubscribe, NextRequest, NewConn
  <2>2. k \notin DOMAIN subs'
      BY <1>0, <2>1 DEF Subscribed
  <2> QED
      BY <2>1, <2>2 DEF Settled, ConnKnows, Fresh, Live
<1>14. CASE ReadFocusRequest(k)
  <2>1. /\ conn'[k].pc = "read" /\ conn[k].pc = "read" /\ UNCHANGED <<subs, registered, sub, broken, view>>
      BY <1>0, <1>14 DEF ReadFocusRequest, NextRequest, NewConn, busVars, Reads
  <2> QED
      BY <1>5, <2>1
<1> QED
    BY <1>3, <1>6, <1>7, <1>8, <1>9, <1>10, <1>11, <1>12, <1>13, <1>14 DEF ConnStep, Departs

LEMMA SettledStep ==
    ASSUME Still, [Next]_vars, NoneYet', NEW k \in Sinks
    PROVE  Settled(k)'
<1>0. /\ TInv /\ SubsTyped /\ Settled(k) /\ ConnTyped(k) /\ \A c \in Sinks : ConnKnows(c)
      /\ Started \subseteq Started'
    BY BuffersStep DEF Still, UInv, TInv, Calm, Settled, HungUp, LiveSubs
<1>1. CASE UNCHANGED <<clientPart, view>>
  <2>1. UNCHANGED <<conn, subs, registered, sub, broken, view>>
      BY <1>1 DEF clientPart
  <2>2. Fresh(k)'
      BY <2>1, FreshKept DEF Live
  <2>3. ConnKnows(k)'
      BY <1>0, <2>1 DEF Settled, ConnKnows, Owns, ConnAt
  <2> QED
      BY <1>0, <2>1, <2>2, <2>3 DEF Settled, Live
<1>2. ASSUME NEW c \in Sinks \ {k}, ConnStep(c) \/ Hangup(c) PROVE Settled(k)'
  <2>1. /\ conn'[k] = conn[k] /\ view'[k] = view[k]
        /\ (k \in DOMAIN subs' <=> k \in DOMAIN subs) /\ (k \in DOMAIN subs => subs'[k] = subs[k])
        /\ k \in broken' <=> k \in broken
        /\ \A i : Owns(k, i) => /\ Owns(k, i)' /\ sub'[i] = sub[i]
                                /\ i \in registered => i \in registered'
      BY <1>0, <1>2, OthersServed
  <2>2. k \in DOMAIN subs => Owns(k, subs[k])
      BY <1>0 DEF SubsTyped, Owns
  <2>3. Fresh(k)'
      BY <2>1, <2>2, FreshKept DEF Live
  <2>4. conn[k].pc = "record" => Owns(k, conn[k].sub)
      BY <1>0 DEF ConnTyped, Owns
  <2>5. ConnKnows(k)'
      BY <1>0, <2>1, <2>2, <2>4 DEF Settled, ConnKnows, ConnAt
  <2> QED
      BY <1>0, <2>1, <2>2, <2>3, <2>5 DEF Settled, Live
<1> QED
    BY <1>1, <1>2, OwnSettled, DawnFrame

LEMMA DawnStep ==
    ASSUME Still, [Next]_vars, NoneYet'
    PROVE  Calm'
<1>1. /\ NoneYet' /\ DOMAIN sessions' = {} /\ janitor'.todo = {} /\ janitor'.reaped = {}
      /\ janitor'.pc \in {"wait", "probe"} /\ \A i \in SubIds : Empty(i)'
    BY DawnFrame
<1>2. \A k \in Sinks : Settled(k)'
    BY SettledStep
<1>3. registered' \subseteq SubIds
    BY TypeStep DEF Still, UInv, TInv, Shape
<1>4. \A e \in EmitIds : emit'[e].pc = "unsent"
    BY <1>1 DEF NoneYet, EmitAt
<1>5. Dawn' /\ ScriptsOver' /\ Gone' /\ Counted'
    BY <1>1 DEF Dawn, ScriptsOver, Gone, Counted
<1>6. SweepKnown'
    BY <1>1 DEF SweepKnown, Found
<1>7. OneAtATime'
    BY <1>4 DEF OneAtATime, Running
<1>8. HungUp' /\ LiveSubs' /\ \A k \in Sinks : ConnKnows(k)' /\ Fresh(k)'
    BY <1>2 DEF HungUp, LiveSubs, Settled
<1>9. Backlog'
    BY <1>1, <1>3 DEF Backlog, Empty
<1>10. ASSUME NEW e \in EmitIds
       PROVE  (InFlight(e) /\ Folded(e) /\ WorkKnown(e) /\ ListingKnown(e) /\ BindingKnown(e))'
    BY <1>4, <1>10 DEF InFlight, Folded, WorkKnown, ListingKnown, BindingKnown, Running, EmitAt,
       Waiting, Rebinding, Targets
<1>11. \A k \in Sinks : NoneMissed(k)'
    BY <1>1 DEF NoneMissed
<1> QED
    BY <1>5, <1>6, <1>7, <1>8, <1>9, <1>10, <1>11 DEF Calm

-----------------------------------------------------------------------------
(* The theorem *)

LEMMA CalmStep ==
    ASSUME OneEmitServer, BufferSize > 1, None \notin SessionIds, Still, [Next]_vars
    PROVE  Calm'
<1>1. CASE NoneYet'
    BY <1>1, DawnStep
<1>2. CASE ~NoneYet'
  <2>1. Day
      BY <1>2 DEF Day
  <2>2. Dawn'
      BY <1>2 DEF Dawn
  <2>3. ScriptsOver' /\ OneAtATime' /\ HungUp' /\ LiveSubs' /\ Gone' /\ SweepKnown' /\ Counted' /\ Backlog'
      BY <2>1, ScriptsOverStep, OneAtATimeStep, HungUpStep, LiveSubsStep, GoneStep, SweepKnownStep,
         CountedStep, BacklogStep
  <2>4. ASSUME NEW e \in EmitIds
        PROVE  (InFlight(e) /\ Folded(e) /\ WorkKnown(e) /\ ListingKnown(e) /\ BindingKnown(e))'
      BY <2>1, <2>4, InFlightStep, FoldedStep, WorkKnownStep, ListingKnownStep, BindingKnownStep
  <2>5. ASSUME NEW k \in Sinks PROVE (ConnKnows(k) /\ NoneMissed(k) /\ Fresh(k))'
      BY <2>1, <2>5, ConnKnowsStep, NoneMissedStep, FreshStep
  <2> QED
      BY <2>2, <2>3, <2>4, <2>5 DEF Calm
<1> QED
    BY <1>1, <1>2

LEMMA CalmInit == Init => Calm
<1> SUFFICES ASSUME Init PROVE Calm
    OBVIOUS
<1>1. /\ TInv /\ registered = {} /\ \A i \in SubIds : buf[i] = << >> /\ pump[i].pc = "off"
      /\ DOMAIN sessions = {} /\ DOMAIN subs = {}
      /\ \A e \in EmitIds : emit[e].pc = "unsent"
      /\ \A k \in Sinks : conn[k].pc = "read"
      /\ janitor = [pc |-> "wait", todo |-> {}, reaped |-> {}]
    BY TypeInit DEF Init, BusInit, NewEmit, NewConn
<1>2. NoneYet /\ Dawn /\ ScriptsOver /\ Counted /\ SweepKnown /\ Gone
    BY <1>1 DEF NoneYet, EmitAt, Dawn, ScriptsOver, Counted, SweepKnown, Found, Gone, Empty, Holding
<1>3. OneAtATime /\ HungUp /\ LiveSubs /\ Backlog
    BY <1>1 DEF OneAtATime, Running, HungUp, LiveSubs, Live, Backlog
<1>4. ASSUME NEW e \in EmitIds
      PROVE  InFlight(e) /\ Folded(e) /\ WorkKnown(e) /\ ListingKnown(e) /\ BindingKnown(e)
    BY <1>1, <1>4 DEF InFlight, Folded, WorkKnown, ListingKnown, BindingKnown, Running, EmitAt,
       Waiting, Rebinding, Targets
<1>5. ASSUME NEW k \in Sinks PROVE ConnKnows(k) /\ NoneMissed(k) /\ Fresh(k)
    BY <1>1, <1>5 DEF ConnKnows, ConnAt, NoneMissed, Fresh, Live
<1> QED
    BY <1>2, <1>3, <1>4, <1>5 DEF Calm

\* Once nothing is in flight nothing is due, and what was told last is true.
LEMMA StillFollows == Still => PausesTheInstant
<1> SUFFICES ASSUME Still, AllQuiet, NEW k \in Following \ broken
             PROVE  {view[k]} = Snapshots(Followed(k))
    BY DEF PausesTheInstant
<1> DEFINE i == subs[k]
           b == Followed(k)
<1>1. /\ SubsTyped /\ HungUp /\ LiveSubs /\ Fresh(k) /\ k \in Sinks /\ Live(k)
      /\ sub[i].mode # "any" /\ b = sub[i].bound /\ b # None
    BY DEF Still, UInv, TInv, Calm, Following, Followed, Live, SubsTyped
<1>2. i \in registered /\ ConnAt(k, "read")
    BY <1>1 DEF LiveSubs, HungUp, AllQuiet, Live, ConnAt
<1>3. ~Due(k, b)
    BY DEF AllQuiet, EmitsSettled, Due, Found, EmitAt
<1>4. Empty(i)
    BY <1>2 DEF AllQuiet, PumpsDrained, At, Empty, Holding
<1>5. view[k] = Told(b, Present(b))
    BY <1>1, <1>2, <1>3, <1>4 DEF Fresh, Hears
<1> QED
    BY <1>1, <1>5 DEF Snapshots, Present

\* The activity pauses the instant Claude halts: once nothing is in flight, an
\* activity that follows a session was last told its present state, whatever was
\* bound, reaped, dropped or hung up on the way, as long as nothing overlaps.
\* The code's buffers hold 64 frames, and hooks send no empty session id.
THEOREM ActivityFollowsSession ==
    ASSUME OneSubscriptionAtATime, OneEmitServer, BufferSize > 1, None \notin SessionIds
    PROVE  Spec => []ViewConverges
<1> DEFINE VInv == UInv /\ LayoutShrinks /\ (Overlaps = {} => Calm)
<1>1. Init => VInv
  <2> SUFFICES ASSUME Init PROVE VInv
      OBVIOUS
  <2>1. ASSUME NEW k \in Sinks PROVE Subscribed(k)
    <3>1. OneByOne(Script[k])
        BY DEF Init, OneSubscriptionAtATime, Script
    <3> QED
        BY <3>1 DEF Init, BusInit, NewConn, Subscribed, ConnAt, Writing
  <2>2. LayoutShrinks
      BY DEF Init, LayoutShrinks
  <2> QED
      BY <2>1, <2>2, TypeInit, CalmInit DEF UInv
<1>2. VInv /\ [Next]_vars => VInv'
  <2> SUFFICES ASSUME VInv, [Next]_vars PROVE VInv'
      OBVIOUS
  <2>1. UInv' /\ LayoutShrinks'
      BY TypeStep, SubscribedStep, LayoutStep DEF UInv, TInv
  <2>2. Overlaps' = Overlaps
      BY ScenarioStays DEF UInv, TInv, Overlaps
  <2> QED
      BY <2>1, <2>2, CalmStep DEF Still
<1>3. VInv => ViewConverges
    BY StillFollows DEF Still, ViewConverges
<1> HIDE DEF VInv
<1> QED
    BY <1>1, <1>2, <1>3, PTL DEF Spec
=============================================================================
