-------------------------------- MODULE Core --------------------------------
(***************************************************************************)
(* The daemon's message handler (internal/server/core.go) and its janitor  *)
(* (internal/server/janitor.go) over the session registry and the bus: one *)
(* goroutine per connection, one per emit for what follows the ack, one    *)
(* per focus request, one pump per subscription, and the janitor. A step   *)
(* here is what one goroutine does between two points where another can    *)
(* see or change what it reads: a lock, a tmux command, a send.            *)
(*                                                                         *)
(* An emit comes on a connection of its own (the emit client is one-shot); *)
(* an activity's connection carries a script of requests, handled in       *)
(* order.                                                                  *)
(***************************************************************************)
EXTENDS Bus

CONSTANTS
    EmitIds,        \* the emits the hooks may send
    Scenarios,      \* what the hooks, the activities and tmux may do: see Scenario
    HasTmux         \* Core.factory is set

\* What activities send: subscribe, unsubscribe and focus_request.
Requests ==
    [type : {"subscribe"}, mode : STRING, session : SessionIds \cup {None},
     pane : PaneIds \cup {None}, socket : Sockets \cup {None}]
    \cup [type : {"unsubscribe", "focus_request"}]

\* A scenario says which emits arrive, what each activity asks for, which panes
\* the tmux servers have, and what else happens: whether the daemon has a janitor
\* (no --no-janitor), panes close, activities hang up, tmux commands fail, those of
\* focus and rebinding hang; and what an emit may overlap with.
Scenario(play) ==
    /\ DOMAIN play.msg \subseteq EmitIds
    /\ \A e \in DOMAIN play.msg : play.msg[e] \in EmitMessage
    /\ DOMAIN play.script = Sinks
    /\ \A k \in Sinks : play.script[k] \in Seq(Requests)
    /\ DOMAIN play.layout = Sockets \cup {None}
    /\ \A socket \in DOMAIN play.layout : DOMAIN play.layout[socket] \subseteq PaneIds
    /\ play.happens \subseteq {"sweeps", "closing panes", "hangups", "failing tmux", "hanging tmux"}
    /\ play.overlaps \subseteq {"emits", "subscribes", "sweeps"}

ASSUME ScenariosAssumption == \A play \in Scenarios : Scenario(play)
ASSUME NoPaneAssumption == None \notin PaneIds

VARIABLES
    scenario,   \* the scenario played, the same throughout
    sessions,   \* Registry.sessions; lastEventAt counts the events folded in
    clock,      \* the count behind lastEventAt
    idle,       \* sessions silent for longer than Janitor.idleLimit
    layout,     \* the panes that now exist, as Layout
    emit,       \* emit[e]: where the goroutines of emit e are, and their locals
    conn,       \* conn[k]: the same for the goroutine of activity connection k
    subs,       \* Core.subs, a function on the connections it has
    asks,       \* the goroutines of focus requests
    janitor,    \* where the janitor is
    view,       \* view[k]: what activity k was last told
    decided     \* ghost: decided[s], the state the last focus for s was decided on

registryVars == <<sessions, clock, idle>>

\* The scenario's parts, and what may happen in it.
Msg      == scenario.msg
Script   == scenario.script
Layout   == scenario.layout
Overlaps == scenario.overlaps
May(what) == what \in scenario.happens

vars == <<busVars, registryVars, scenario, layout, emit, conn, subs, asks, janitor, view, decided>>

\* What a goroutine that resolves a binding or takes a snapshot has in its locals.
Told(id, state) == [session |-> id, state |-> state]
Untold    == Told(None, Unknown)
NoListing == [ok |-> TRUE, near |-> {}]
NoTarget  == [sink |-> None, sub |-> None]
NewEmit   == [pc |-> "unsent", from |-> Unknown, to |-> Unknown, work |-> {}, target |-> NoTarget,
              listing |-> NoListing, sid |-> None, snap |-> Untold, pane |-> None]
NewConn   == [pc |-> "read", todo |-> << >>, listing |-> NoListing, sid |-> None,
              sub |-> None, snap |-> Untold, doomed |-> {}]

Init ==
    /\ scenario \in Scenarios
    /\ BusInit
    /\ sessions = [s \in {} |-> FreshSession(0)]
    /\ clock    = 0
    /\ idle     = {}
    /\ layout   = Layout
    /\ emit     = [e \in EmitIds |-> NewEmit]
    /\ conn     = [k \in Sinks |-> [NewConn EXCEPT !.todo = Script[k]]]
    /\ subs     = [k \in {} |-> None]
    /\ asks     = {}
    /\ janitor  = [pc |-> "wait", todo |-> {}, reaped |-> {}]
    /\ view     = [k \in Sinks |-> Untold]
    /\ decided  = [s \in SessionIds |-> Unknown]

-----------------------------------------------------------------------------
(* The registry, the topology and the sends, as the handlers use them *)

\* Mutant: a focus holds Registry.mu as well, from its re-read to the end of
\* its tmux command.
RegistryFreeOfFocus ==
    janitor.pc # "probe" /\ \A e \in EmitIds : emit[e].pc \notin {"pick", "switch"}

\* GC holds Registry.mu while it shells out to tmux; everyone else waits.
RegistryFree == janitor.pc # "probe"

\* ListPanes and the scan for the activity's window: the panes that share it,
\* none if the activity's pane is not there; not ok where the code falls back
\* to the most recent session.
Fallback == [ok |-> FALSE, near |-> {}]

Listings(pane, socket) ==
    IF ~HasTmux \/ pane = None THEN {Fallback}
    ELSE LET listed == layout[socket]
             near   == {p \in DOMAIN listed : pane \in DOMAIN listed /\ listed[p] = listed[pane]}
         IN  {[ok |-> TRUE, near |-> near]} \cup (IF May("failing tmux") THEN {Fallback} ELSE {})

\* Mutant: the window is not looked at.
ResolvedAnywhere(listing) == IF DOMAIN sessions = {} THEN {None} ELSE MostRecent(sessions)

\* The sessions resolveAutoBind may answer with for a listing: the most recent
\* of those in the window, or of all; None when there is none.
Resolved(listing) ==
    LET candidates == {s \in DOMAIN sessions : listing.ok => sessions[s].pane \in listing.near}
    IN  IF candidates = {} THEN {None} ELSE MostRecent([s \in candidates |-> sessions[s]])

\* snapshotInto's read: the bound session's state, or the most recent session's.
Snapshots(bound) ==
    IF bound # None
    THEN {Told(bound, IF bound \in DOMAIN sessions THEN sessions[bound].state ELSE Unknown)}
    ELSE IF DOMAIN sessions = {} THEN {Untold}
    ELSE {Told(s, sessions[s].state) : s \in MostRecent(sessions)}

\* A send of a state-bearing message to activity k.
Tell(k, told) ==
    view' = IF k \in broken THEN view ELSE [view EXCEPT ![k] = Told(told.session, told.state)]

-----------------------------------------------------------------------------
(* Emits: handleEmit, then afterEmit on a goroutine of its own *)

EmitAt(e, place) == emit[e].pc = place

\* What the steps of an emit leave alone unless they say otherwise.
notEmit == <<scenario, layout, conn, subs, asks, janitor>>

EmitsSettled == \A e \in EmitIds : emit[e].pc \in {"unsent", "done"}

PumpsDrained == \A i \in registered : At(i, "select") /\ buf[i] = << >>

\* A hook's connection delivers the message to the read loop. In the scenarios
\* without an overlap it does so only once what it would overlap with is over.
Arrive(e) ==
    /\ e \in DOMAIN Msg /\ EmitAt(e, "unsent")
    /\ "emits" \in Overlaps \/ (EmitsSettled /\ PumpsDrained)
    /\ "subscribes" \in Overlaps \/ \A k \in Sinks : conn[k].pc = "read" /\ conn[k].todo = << >>
    /\ "sweeps" \in Overlaps \/ janitor.pc = "wait"
    /\ emit' = [emit EXCEPT ![e].pc = "received"]
    /\ UNCHANGED <<busVars, registryVars, notEmit, view, decided>>

\* Registry.Apply, then the ack, or the nack of an unknown event.
ApplyEmit(e) ==
    LET m     == Msg[e]
        found == Lookup(sessions, m.session, clock + 1)
        after == ApplyTo(sessions, m, clock + 1)
    IN  /\ EmitAt(e, "received") /\ RegistryFree
        /\ \/ /\ IsEvent(m.event)
              /\ sessions' = after
              /\ clock'    = clock + 1
              /\ idle'     = IF IsIgnored(found, m) THEN idle ELSE idle \ {m.session}
              /\ emit'     = [emit EXCEPT
                    ![e].from = found.state,
                    ![e].to   = after[m.session].state,
                    ![e].pc   = IF found.state # after[m.session].state THEN "publish" ELSE "collect"]
           \/ /\ ~IsEvent(m.event)
              /\ emit' = [emit EXCEPT ![e].pc = "done"]
              /\ UNCHANGED registryVars
        /\ UNCHANGED <<busVars, notEmit, view, decided>>

\* Mutant: the change is published the wrong way round.
PublishChangeBackwards(e) ==
    /\ EmitAt(e, "publish")
    /\ Publish([n |-> published + 1, session |-> Msg[e].session, state |-> emit[e].from])
    /\ emit' = [emit EXCEPT ![e].pc = IF flagging' = {} THEN "collect" ELSE "flag"]
    /\ UNCHANGED <<registryVars, notEmit, view, decided>>

\* Publish, for a change only. When it returns, the goroutine for the rest starts.
PublishChange(e) ==
    /\ EmitAt(e, "publish")
    /\ Publish([n |-> published + 1, session |-> Msg[e].session, state |-> emit[e].to])
    /\ emit' = [emit EXCEPT ![e].pc = IF flagging' = {} THEN "collect" ELSE "flag"]
    /\ UNCHANGED <<registryVars, notEmit, view, decided>>

FlagForChange(e) ==
    /\ EmitAt(e, "flag")
    /\ \E i \in SubIds : RaiseFlag(i)
    /\ emit' = [emit EXCEPT ![e].pc = IF flagging' = {} THEN "collect" ELSE "flag"]
    /\ UNCHANGED <<registryVars, notEmit, view, decided>>

\* rebindUnbound collects the unbound auto subscriptions under Core.mu.
CollectUnbound(e) ==
    LET unbound == {k \in DOMAIN subs : sub[subs[k]].mode = "auto" /\ sub[subs[k]].bound = None}
    IN  /\ EmitAt(e, "collect")
        /\ emit' = [emit EXCEPT
              ![e].work = IF HasTmux THEN {[sink |-> k, sub |-> subs[k]] : k \in unbound} ELSE {},
              ![e].pc = "rebind"]
        /\ UNCHANGED <<busVars, registryVars, notEmit, view, decided>>

\* It takes them in any order. resolveAutoBind lists the panes of the server
\* the EMIT came from ...
ListForRebind(e) ==
    /\ EmitAt(e, "rebind")
    /\ \E w \in emit[e].work : \E listing \in Listings(sub[w.sub].pane, Msg[e].socket) :
          emit' = [emit EXCEPT ![e].work = @ \ {w}, ![e].target = w,
                               ![e].listing = listing, ![e].pc = "resolve"]
    /\ UNCHANGED <<busVars, registryVars, notEmit, view, decided>>

\* ... and then reads the sessions.
ResolveForRebind(e) ==
    /\ EmitAt(e, "resolve") /\ RegistryFree
    /\ \E sid \in Resolved(emit[e].listing) :
          emit' = [emit EXCEPT ![e].sid = sid, ![e].listing = NoListing,
                               ![e].pc = IF sid = None THEN "rebind" ELSE "bind"]
    /\ UNCHANGED <<busVars, registryVars, notEmit, view, decided>>

BindUnbound(e) ==
    /\ EmitAt(e, "bind")
    /\ Rebind(emit[e].target.sub, emit[e].sid)
    /\ emit' = [emit EXCEPT ![e].pc = "look"]
    /\ UNCHANGED <<registryVars, notEmit, view, decided>>

\* snapshotInto, whether or not Rebind bound anything: read, then send.
LookForRebound(e) ==
    /\ EmitAt(e, "look") /\ RegistryFree
    /\ \E snap \in Snapshots(emit[e].sid) :
          emit' = [emit EXCEPT ![e].snap = snap, ![e].pc = "tell"]
    /\ UNCHANGED <<busVars, registryVars, notEmit, view, decided>>

TellRebound(e) ==
    /\ EmitAt(e, "tell")
    /\ Tell(emit[e].target.sink, emit[e].snap)
    /\ emit' = [emit EXCEPT ![e].target = NoTarget, ![e].sid = None, ![e].snap = Untold,
                            ![e].pc = "rebind"]
    /\ UNCHANGED <<busVars, registryVars, notEmit, decided>>

Finished(e) == emit' = [emit EXCEPT ![e] = [NewEmit EXCEPT !.pc = "done"]]

\* The collected work is done: on to the focus, if the state changed.
EndRebind(e) ==
    /\ EmitAt(e, "rebind") /\ emit[e].work = {}
    /\ IF HasTmux /\ emit[e].from # emit[e].to
       THEN emit' = [emit EXCEPT ![e].pc = "focus"]
       ELSE Finished(e)
    /\ UNCHANGED <<busVars, registryVars, notEmit, view, decided>>

\* focusMu is held from the re-read of the state to the end of the tmux command.
FocusFree ==
    /\ \A e \in EmitIds : emit[e].pc \notin {"pick", "switch"}
    /\ \A a \in asks : a.pc # "switch"

\* Mutant: no re-read; the focus goes where the emit meant it to.
DecideFocusBlindly(e) ==
    LET s == Msg[e].session
    IN  /\ EmitAt(e, "focus") /\ FocusFree /\ RegistryFree
        /\ decided' = [decided EXCEPT ![s] = emit[e].to]
        /\ emit' = [emit EXCEPT ![e].pane = sessions[s].pane, ![e].pc = "pick"]
        /\ UNCHANGED <<busVars, registryVars, notEmit, view>>

\* applyFocus: under focusMu, give up if the state has moved on.
DecideFocus(e) ==
    LET s == Msg[e].session
    IN  /\ EmitAt(e, "focus") /\ FocusFree /\ RegistryFree
        /\ IF sessions[s].state = emit[e].to
           THEN /\ decided' = [decided EXCEPT ![s] = emit[e].to]
                /\ emit' = [emit EXCEPT ![e].pane = sessions[s].pane, ![e].pc = "pick"]
           ELSE Finished(e) /\ UNCHANGED decided
        /\ UNCHANGED <<busVars, registryVars, notEmit, view>>

\* activityPaneFor: the panes of the activities bound to a session.
ActivityPanes(s) == {sub[subs[k]].pane : k \in {j \in DOMAIN subs : sub[subs[j]].bound = s}} \ {None}

\* Mutant: focusMu is not released when there is no pane to show.
PickPaneOrHang(e) ==
    LET panes == IF emit[e].to = NeedsAttention THEN {emit[e].pane} \ {None}
                 ELSE ActivityPanes(Msg[e].session)
    IN  /\ EmitAt(e, "pick")
        /\ \E p \in panes : emit' = [emit EXCEPT ![e].pane = p, ![e].pc = "switch"]
        /\ UNCHANGED <<busVars, registryVars, notEmit, view, decided>>

\* The pane to show: the session's own, or that of an activity bound to it.
PickPane(e) ==
    LET panes == IF emit[e].to = NeedsAttention THEN {emit[e].pane} \ {None}
                 ELSE ActivityPanes(Msg[e].session)
    IN  /\ EmitAt(e, "pick")
        /\ \/ panes = {} /\ Finished(e)
           \/ \E p \in panes : emit' = [emit EXCEPT ![e].pane = p, ![e].pc = "switch"]
        /\ UNCHANGED <<busVars, registryVars, notEmit, view, decided>>

\* FocusPane: what tmux shows is outside the model.
SwitchFocus(e) ==
    /\ EmitAt(e, "switch")
    /\ Finished(e)
    /\ UNCHANGED <<busVars, registryVars, notEmit, view, decided>>

\* The steps on the connection's goroutine, which end with the publication, and
\* those that run after the ack.
ServeEmit(e) == ApplyEmit(e) \/ PublishChange(e) \/ FlagForChange(e)

AfterEmit(e) ==
    \/ CollectUnbound(e) \/ ListForRebind(e) \/ ResolveForRebind(e) \/ BindUnbound(e)
    \/ LookForRebound(e) \/ TellRebound(e) \/ EndRebind(e)
    \/ DecideFocus(e) \/ PickPane(e) \/ SwitchFocus(e)

-----------------------------------------------------------------------------
(* Activity connections: handleSubscribe, handleUnsubscribe,                *)
(* handleFocusRequest and Closed, in the read loop's goroutine              *)

ConnAt(k, place) == conn[k].pc = place

notConn == <<scenario, layout, emit, janitor, decided>>

Request(k) == Head(conn[k].todo)

Reads(k, type) == ConnAt(k, "read") /\ conn[k].todo # << >> /\ Request(k).type = type

NextRequest(k) == [NewConn EXCEPT !.todo = Tail(conn[k].todo)]

ModeOf(r) == IF r.mode = None THEN "auto" ELSE r.mode

\* An invalid mode is nacked; auto mode has a binding to resolve.
ReadSubscribe(k) ==
    LET mode == ModeOf(Request(k))
    IN  /\ Reads(k, "subscribe")
        /\ \/ /\ mode \notin Modes
              /\ conn' = [conn EXCEPT ![k] = NextRequest(k)]
           \/ /\ mode = "auto"
              /\ \E listing \in Listings(Request(k).pane, Request(k).socket) :
                    conn' = [conn EXCEPT ![k].listing = listing, ![k].pc = "resolve"]
           \/ /\ mode \in Modes \ {"auto"}
              /\ conn' = [conn EXCEPT ![k].sid = Request(k).session, ![k].pc = "join"]
        /\ UNCHANGED <<busVars, registryVars, notConn, subs, asks, view>>

ResolveForSubscribe(k) ==
    /\ ConnAt(k, "resolve") /\ RegistryFree
    /\ \E sid \in Resolved(conn[k].listing) :
          conn' = [conn EXCEPT ![k].sid = sid, ![k].listing = NoListing, ![k].pc = "join"]
    /\ UNCHANGED <<busVars, registryVars, notConn, subs, asks, view>>

JoinBus(k) ==
    LET i == CHOOSE i \in Unused : TRUE
    IN  /\ ConnAt(k, "join") /\ Unused # {}
        /\ Subscribe(i, ModeOf(Request(k)), conn[k].sid, Request(k).pane, k)
        /\ conn' = [conn EXCEPT ![k].sub = i, ![k].pc = "record"]
        /\ UNCHANGED <<registryVars, notConn, subs, asks, view>>

\* An earlier subscription of the connection is forgotten here, not removed.
RecordSub(k) ==
    /\ ConnAt(k, "record")
    /\ subs' = [j \in DOMAIN subs \cup {k} |-> IF j = k THEN conn[k].sub ELSE subs[j]]
    /\ conn' = [conn EXCEPT ![k].sub = None, ![k].pc = "look"]
    /\ UNCHANGED <<busVars, registryVars, notConn, asks, view>>

\* The ack, then snapshotInto for the session resolved above: read, then send.
LookForSubscriber(k) ==
    /\ ConnAt(k, "look") /\ RegistryFree
    /\ \E snap \in Snapshots(conn[k].sid) :
          conn' = [conn EXCEPT ![k].snap = snap, ![k].pc = "tell"]
    /\ UNCHANGED <<busVars, registryVars, notConn, subs, asks, view>>

TellSubscriber(k) ==
    /\ ConnAt(k, "tell")
    /\ Tell(k, conn[k].snap)
    /\ conn' = [conn EXCEPT ![k] = NextRequest(k)]
    /\ UNCHANGED <<busVars, registryVars, notConn, subs, asks>>

Without(f, k) == [j \in DOMAIN f \ {k} |-> f[j]]

ReadUnsubscribe(k) ==
    /\ Reads(k, "unsubscribe")
    /\ subs' = Without(subs, k)
    /\ conn' = IF k \in DOMAIN subs THEN [conn EXCEPT ![k].sub = subs[k], ![k].pc = "leave"]
               ELSE [conn EXCEPT ![k] = NextRequest(k)]
    /\ UNCHANGED <<busVars, registryVars, notConn, asks, view>>

LeaveBus(k) ==
    /\ ConnAt(k, "leave")
    /\ Unsubscribe(conn[k].sub)
    /\ conn' = [conn EXCEPT ![k] = NextRequest(k)]
    /\ UNCHANGED <<registryVars, notConn, subs, asks, view>>

\* Without a bound subscription the request is nacked; otherwise a goroutine is
\* started, which keeps the Sub and reads its session later.
ReadFocusRequest(k) ==
    LET bound == k \in DOMAIN subs /\ sub[subs[k]].bound # None
    IN  /\ Reads(k, "focus_request")
        /\ asks' = IF bound /\ HasTmux
                   THEN asks \cup {[conn |-> k, left |-> Len(conn[k].todo), sub |-> subs[k], pc |-> "focus"]}
                   ELSE asks
        /\ conn' = [conn EXCEPT ![k] = NextRequest(k)]
        /\ UNCHANGED <<busVars, registryVars, notConn, subs, view>>

\* The goroutine: under focusMu, the bound session's pane, if there is one.
DecideAsked(a) ==
    LET s      == sub[a.sub].bound
        mayAct == s \in DOMAIN sessions /\ sessions[s].pane # None
    IN  /\ a.pc = "focus" /\ FocusFree /\ RegistryFree
        /\ asks' = (asks \ {a}) \cup (IF mayAct THEN {[a EXCEPT !.pc = "switch"]} ELSE {})
        /\ UNCHANGED <<busVars, registryVars, scenario, layout, emit, conn, subs, janitor, view, decided>>

SwitchAsked(a) ==
    /\ a.pc = "switch"
    /\ asks' = asks \ {a}
    /\ UNCHANGED <<busVars, registryVars, scenario, layout, emit, conn, subs, janitor, view, decided>>

\* The read loop meets EOF. conn.close and then Closed, which collects the
\* connection's Subs, removes them one by one and forgets the connection.
Hangup(k) ==
    /\ May("hangups")
    /\ ConnAt(k, "read") /\ BusFree
    /\ Break(k)
    /\ conn' = [conn EXCEPT ![k] = [NewConn EXCEPT !.pc = "closing", !.doomed = Writing(k)]]
    /\ UNCHANGED <<registryVars, notConn, subs, asks, view>>

RemoveDoomed(k) ==
    /\ ConnAt(k, "closing")
    /\ \E i \in conn[k].doomed :
          /\ Unsubscribe(i)
          /\ conn' = [conn EXCEPT ![k].doomed = @ \ {i}]
    /\ UNCHANGED <<registryVars, notConn, subs, asks, view>>

\* Mutant: the connection's entry in Core.subs stays.
ForgetConnNot(k) ==
    /\ ConnAt(k, "closing") /\ conn[k].doomed = {}
    /\ conn' = [conn EXCEPT ![k].pc = "closed"]
    /\ UNCHANGED <<busVars, registryVars, notConn, subs, asks, view>>

ForgetConn(k) ==
    /\ ConnAt(k, "closing") /\ conn[k].doomed = {}
    /\ subs' = Without(subs, k)
    /\ conn' = [conn EXCEPT ![k].pc = "closed"]
    /\ UNCHANGED <<busVars, registryVars, notConn, asks, view>>

ConnStep(k) ==
    \/ ReadSubscribe(k) \/ ResolveForSubscribe(k) \/ JoinBus(k) \/ RecordSub(k)
    \/ LookForSubscriber(k) \/ TellSubscriber(k)
    \/ ReadUnsubscribe(k) \/ LeaveBus(k) \/ ReadFocusRequest(k)
    \/ RemoveDoomed(k) \/ ForgetConn(k)

-----------------------------------------------------------------------------
(* The janitor *)

notJanitor == <<scenario, layout, emit, conn, subs, asks, view, decided>>

\* GC takes Registry.mu and the time: the sessions it may reap are the idle ones
\* not UNKNOWN already (it asks tmux about the others to no effect).
BeginSweep ==
    /\ May("sweeps") /\ janitor.pc = "wait"
    /\ "sweeps" \in Overlaps \/ EmitsSettled
    /\ janitor' = [pc |-> "probe", reaped |-> {},
                   todo |-> {s \in DOMAIN sessions \cap idle : sessions[s].state # Unknown}]
    /\ UNCHANGED <<busVars, registryVars, notJanitor>>

\* paneExists: false when the session's server is asked and does not name its
\* pane, be it for an error.
PaneDead(s, failed) ==
    LET rec == sessions[s]
    IN  /\ HasTmux /\ rec.pane # None /\ rec.socket # None
        /\ failed \/ rec.pane \notin DOMAIN layout[rec.socket]

ProbeSession(s) ==
    /\ janitor.pc = "probe" /\ s \in janitor.todo
    /\ \E failed \in {FALSE, May("failing tmux")} :
          LET reaps == PaneDead(s, failed)
          IN  /\ sessions' = IF reaps THEN [sessions EXCEPT ![s].state = Unknown] ELSE sessions
              /\ janitor'  = [janitor EXCEPT !.todo = @ \ {s},
                                 !.reaped = IF reaps THEN @ \cup {s} ELSE @]
    /\ UNCHANGED <<busVars, clock, idle, notJanitor>>

\* The lock is released. If anything was reaped, List follows, under a lock of
\* its own, and every session it finds UNKNOWN is published.
EndGC ==
    /\ janitor.pc = "probe" /\ janitor.todo = {}
    /\ janitor' = [janitor EXCEPT !.pc = IF janitor.reaped = {} THEN "wait" ELSE "list"]
    /\ UNCHANGED <<busVars, registryVars, notJanitor>>

ListUnknown ==
    /\ janitor.pc = "list"
    /\ janitor' = [pc |-> "publish", reaped |-> {},
                   todo |-> {s \in DOMAIN sessions : sessions[s].state = Unknown}]
    /\ UNCHANGED <<busVars, registryVars, notJanitor>>

PublishUnknown(s) ==
    /\ janitor.pc = "publish" /\ s \in janitor.todo
    /\ Publish([n |-> published + 1, session |-> s, state |-> Unknown])
    /\ janitor' = [janitor EXCEPT !.todo = @ \ {s},
                                  !.pc = IF flagging' = {} THEN "publish" ELSE "flag"]
    /\ UNCHANGED <<registryVars, notJanitor>>

FlagForUnknown ==
    /\ janitor.pc = "flag"
    /\ \E i \in SubIds : RaiseFlag(i)
    /\ janitor' = [janitor EXCEPT !.pc = IF flagging' = {} THEN "publish" ELSE "flag"]
    /\ UNCHANGED <<registryVars, notJanitor>>

EndSweep ==
    /\ janitor.pc = "publish" /\ janitor.todo = {}
    /\ janitor' = [janitor EXCEPT !.pc = "wait"]
    /\ UNCHANGED <<busVars, registryVars, notJanitor>>

JanitorStep ==
    \/ EndGC \/ ListUnknown \/ FlagForUnknown \/ EndSweep
    \/ \E s \in SessionIds : ProbeSession(s) \/ PublishUnknown(s)

-----------------------------------------------------------------------------
(* The pumps, and the world *)

notPump == <<scenario, layout, emit, conn, subs, asks, janitor, decided>>

PumpStep(i) ==
    /\ \/ (Stop(i) \/ Receive(i) \/ CheckOverflow(i) \/ Announce(i)) /\ UNCHANGED view
       \/ /\ RegistryFree
          /\ \E snap \in Snapshots(sub[i].bound) : Resync(i, snap)
          /\ UNCHANGED view
       \/ Push(i)  /\ Tell(sub[i].sink, pump[i].snap)
       \/ Write(i) /\ Tell(sub[i].sink, pump[i].hand)
    /\ UNCHANGED <<registryVars, notPump>>

\* A session is silent for the janitor's idle limit, minutes in which a change
\* already applied gets published.
GoIdle(s) ==
    /\ May("sweeps")
    /\ \A e \in DOMAIN Msg : Msg[e].session = s => emit[e].pc # "publish"
    /\ s \in DOMAIN sessions \ idle
    /\ idle' = idle \cup {s}
    /\ UNCHANGED <<busVars, sessions, clock, scenario, layout, emit, conn, subs, asks, janitor, view, decided>>

ClosePane(socket, p) ==
    /\ May("closing panes")
    /\ p \in DOMAIN layout[socket]
    /\ layout' = [layout EXCEPT ![socket] = Without(@, p)]
    /\ UNCHANGED <<busVars, registryVars, scenario, emit, conn, subs, asks, janitor, view, decided>>

Environment ==
    \/ \E e \in EmitIds : Arrive(e)
    \/ \E k \in Sinks : Hangup(k)
    \/ \E s \in SessionIds : GoIdle(s)
    \/ \E socket \in DOMAIN layout, p \in PaneIds : ClosePane(socket, p)

Next ==
    \/ Environment
    \/ \E e \in EmitIds : ServeEmit(e) \/ AfterEmit(e)
    \/ \E k \in Sinks : ConnStep(k)
    \/ \E a \in asks : DecideAsked(a) \/ SwitchAsked(a)
    \/ \E i \in SubIds : PumpStep(i)
    \/ BeginSweep
    \/ JanitorStep

Spec == Init /\ [][Next]_vars

\* The Go scheduler runs every goroutine that can run, a tmux command returns,
\* and sync.Mutex starves nobody: strong fairness, since a lock that is taken
\* over and over (Registry.mu by the sweeps) disables a waiting step over and
\* over. (The janitor, which an emit keeps from Bus.mu at most once, needs no more
\* than weak fairness.) Where the tmux commands of focus and rebinding hang, the
\* goroutines that run them are obliged to nothing. Hooks, activities and the
\* passing of time never are.
FairSpec ==
    /\ Spec
    /\ \A e \in EmitIds : SF_vars(ServeEmit(e)) /\ SF_vars(~May("hanging tmux") /\ AfterEmit(e))
    /\ \A k \in Sinks : SF_vars(~May("hanging tmux") /\ ConnStep(k))
    /\ SF_vars(~May("hanging tmux") /\ \E a \in asks : DecideAsked(a) \/ SwitchAsked(a))
    /\ \A i \in SubIds : SF_vars(PumpStep(i))
    /\ WF_vars(JanitorStep)

-----------------------------------------------------------------------------
(* Properties *)

\* The variables have the shapes the code gives them.
TypeOK ==
    /\ IsRegistry(sessions)
    /\ clock \in Nat
    /\ idle \subseteq DOMAIN sessions
    /\ registered \subseteq SubIds \ Unused
    /\ sub \in [SubIds -> SubRecord]
    /\ \A i \in SubIds : Len(buf[i]) <= BufferSize /\ pump[i].pc \in PumpPlaces
    /\ DOMAIN subs \subseteq Sinks
    /\ \A k \in DOMAIN subs : subs[k] \in SubIds /\ sub[subs[k]].sink = k
    /\ \A e \in EmitIds : /\ {emit[e].from, emit[e].to} \subseteq States
                          /\ emit[e].sid \in SessionIds \cup {None}
                          /\ \A w \in emit[e].work : w.sink \in Sinks /\ w.sub \in SubIds
    /\ janitor.todo \cup janitor.reaped \subseteq SessionIds
    /\ view \in [Sinks -> [session : SessionIds \cup {None}, state : States]]
    /\ decided \in [SessionIds -> States]

\* Last state wins: once the goroutines of the emits are through, the last
\* focus decided for a session is the one its state calls for, however they
\* were scheduled (the comment on Core.focusMu).
FocusFollowsState ==
    (HasTmux /\ EmitsSettled) =>
        \A s \in DOMAIN sessions :
            sessions[s].state # Unknown => decided[s] = sessions[s].state

\* A subscription once bound stays bound to the same session, although several
\* emits may have collected it as unbound and resolved it differently.
BindingIsSticky ==
    [][\A i \in SubIds \ Unused : sub[i].bound # None => sub'[i].bound = sub[i].bound]_vars

\* docs/architecture.md: an auto activity with a pane is bound to a session
\* whose Claude pane shares its tmux window, unless tmux fails (the code then
\* takes the most recent session). The activity's server is the one its (first)
\* request names; sessions here do not move between windows.
BoundInWindow ==
    \A i \in registered :
        LET home == Script[sub[i].sink][1].socket
            here == Layout[home]
            rec  == sessions[sub[i].bound]
        IN  (~May("failing tmux") /\ sub[i].mode = "auto" /\ sub[i].bound # None /\ sub[i].pane # None)
               => /\ rec.socket = home
                  /\ {rec.pane, sub[i].pane} \subseteq DOMAIN here
                  /\ here[rec.pane] = here[sub[i].pane]

\* Where this can be promised: all of a scenario's emits and activities are on one
\* tmux server, an activity subscribes before it asks for anything else, and the
\* panes a session names share a window.
SubscribesOn(requests, server) ==
    \A x \in 1..Len(requests) : requests[x].type = "subscribe" => requests[x].socket = server

OnServer(play, server) ==
    /\ \A e \in DOMAIN play.msg : play.msg[e].socket = server
    /\ \A k \in Sinks :
          /\ play.script[k] # << >> => play.script[k][1].type = "subscribe"
          /\ SubscribesOn(play.script[k], server)
    /\ \A d, e \in DOMAIN play.msg :
          LET p == play.msg[d].pane  q == play.msg[e].pane
          IN  play.msg[d].session = play.msg[e].session /\ p # None /\ q # None /\ p # q
                 => /\ {p, q} \subseteq DOMAIN play.layout[server]
                    /\ play.layout[server][p] = play.layout[server][q]

\* Once Closed has returned nothing of the connection is left, in the bus or in
\* Core, although a rebinding may still hold its subscription.
ClosedLeavesNothing ==
    \A k \in Sinks : ConnAt(k, "closed") =>
        k \notin DOMAIN subs /\ \A i \in registered : sub[i].sink # k

\* internal/wire/wire.go: UnsubscribeMessage removes a subscription. A connection
\* that Core holds no subscription for is served by none.
UnsubscribeStopsDelivery ==
    \A k \in Sinks : (ConnAt(k, "read") /\ k \notin DOMAIN subs) =>
        \A i \in registered : sub[i].sink # k

\* Where this can be promised: between two subscribe requests that Core accepts
\* there is an unsubscribe.
Accepted(r) == r.type = "subscribe" /\ ModeOf(r) \in Modes

OneByOne(requests) ==
    \A x, y \in 1..Len(requests) :
        x < y /\ Accepted(requests[x]) /\ Accepted(requests[y])
            => \E z \in 1..Len(requests) : x < z /\ z < y /\ requests[z].type = "unsubscribe"

\* Nothing is in flight towards a client.
AllQuiet ==
    /\ EmitsSettled /\ PumpsDrained
    /\ \A k \in Sinks : conn[k].pc \in {"read", "closed"}
    /\ janitor.pc = "wait"

Followed(k) == sub[subs[k]].bound

Following == {k \in DOMAIN subs : sub[subs[k]].mode # "any" /\ Followed(k) # None}

\* README.md: the instant Claude halts, the activity pauses. Once nothing is in
\* flight, an activity that follows a session was last told its present state.
PausesTheInstant ==
    AllQuiet => \A k \in Following \ broken : {view[k]} = Snapshots(Followed(k))

\* The same as long as the emits come one at a time, each after the subscribing
\* or the sweep before it is over.
ViewConverges == Overlaps = {} => PausesTheInstant

\* Focus and rebinding never delay the ack path: an emit received is answered
\* and published even if their tmux commands never return.
EmitIsServed ==
    \A e \in EmitIds : EmitAt(e, "received") ~> emit[e].pc \notin {"received", "publish", "flag"}

Needs(s) == s \in DOMAIN sessions /\ sessions[s].state = NeedsAttention

\* A session that needs attention gets the focus decided for it, unless it
\* stops needing it or tmux hangs: no lock is held for ever, no goroutine is
\* forgotten.
AttentionGetsFocus ==
    \A s \in SessionIds :
        Needs(s) ~> (decided[s] = NeedsAttention \/ ~Needs(s) \/ May("hanging tmux"))

\* What waits in a subscription's buffer is delivered, although the pump may have
\* a notice and a resync to do first, for which it waits for the registry while a
\* sweep has it, unless the subscription or its connection goes. A write ends, for
\* it has a deadline.
BuffersDrain ==
    \A i \in SubIds : buf[i] # << >> ~> (buf[i] = << >> \/ i \notin registered \/ ~Reachable(i))
=============================================================================
