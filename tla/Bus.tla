-------------------------------- MODULE Bus ---------------------------------
(***************************************************************************)
(* The event bus (internal/bus/bus.go): subscriptions, their bounded       *)
(* buffers, and the pump goroutine that drains each buffer into its        *)
(* client's connection. The actions are the bus's operations and the       *)
(* pump's steps; who calls them, and what the snapshots say, is up to the  *)
(* module that composes the bus with the rest.                             *)
(*                                                                         *)
(* A published frame carries a ghost number n, its place in the order of   *)
(* all publications, so that properties can speak of earlier and later.    *)
(***************************************************************************)
EXTENDS Sessions, Sequences, FiniteSets

CONSTANTS
    SubIds,         \* identities of subscriptions (*Sub pointers)
    Sinks,          \* client connections
    BufferSize      \* subBufferSize

ASSUME BufferSizeAssumption == BufferSize \in Nat \ {0}

VARIABLES
    registered,     \* Bus.subs
    sub,            \* sub[i]: mode, bound session, activity pane and sink of a Sub
    buf,            \* Sub.ch
    overflow,       \* Sub.overflow
    flagging,       \* Subs that Publish, holding Bus.mu, found full and has yet to flag
    done,           \* Sub.done is closed
    pump,           \* pump[i]: the goroutine's place, the frame in its hand, its snapshot
    broken,         \* sinks on which Send fails
    published,      \* ghost: how many frames have been published
    missed,         \* ghost: missed[i], dropped frames whose flag no notice has lowered yet
    boundAt,        \* ghost: boundAt[i], value of published when i was bound
    removedAt       \* ghost: removedAt[i], value of published when i was removed

busVars == <<registered, sub, buf, overflow, flagging, done, pump, broken,
             published, missed, boundAt, removedAt>>

Modes == {"auto", "any", "session"}

SubRecord == [mode : Modes, bound : SessionIds \cup {None},
              pane : PaneIds \cup {None}, sink : Sinks]

PumpPlaces == {"off", "select", "check", "announce", "resync", "push", "write", "exited"}

\* A frame the pump does not hold, with the number of no publication.
NoFrame == [n |-> 0, session |-> None]

BusInit ==
    /\ registered = {}
    /\ sub \in [SubIds -> {[mode |-> "any", bound |-> None, pane |-> None, sink |-> k] : k \in Sinks}]
    /\ \A i, j \in SubIds : sub[i] = sub[j]
    /\ buf       = [i \in SubIds |-> << >>]
    /\ overflow  = [i \in SubIds |-> FALSE]
    /\ flagging  = {}
    /\ done      = [i \in SubIds |-> FALSE]
    /\ pump      = [i \in SubIds |-> [pc |-> "off", hand |-> NoFrame, snap |-> NoFrame]]
    /\ broken    = {}
    /\ published = 0
    /\ missed    = [i \in SubIds |-> {}]
    /\ boundAt   = [i \in SubIds |-> 0]
    /\ removedAt = [i \in SubIds |-> 0]

-----------------------------------------------------------------------------
(* Operations of the bus, each under Bus.mu *)

\* The one operation of more than one step is Publish: it has Bus.mu until the
\* last flag is up.
BusFree == flagging = {}

Unused == {i \in SubIds : pump[i].pc = "off"}

\* Subscribe: a new Sub, registered, with its pump started.
Subscribe(i, mode, bound, pane, sink) ==
    /\ BusFree /\ i \in Unused
    /\ registered' = registered \cup {i}
    /\ sub'     = [sub EXCEPT ![i] = [mode |-> mode, bound |-> bound, pane |-> pane, sink |-> sink]]
    /\ pump'    = [pump EXCEPT ![i].pc = "select"]
    /\ boundAt' = [boundAt EXCEPT ![i] = published]
    /\ UNCHANGED <<buf, overflow, flagging, done, broken, published, missed, removedAt>>

\* Mutant: the bound session is overwritten.
RebindAlways(i, id) ==
    /\ BusFree
    /\ sub'     = IF i \in registered THEN [sub EXCEPT ![i].bound = id] ELSE sub
    /\ boundAt' = IF i \in registered THEN [boundAt EXCEPT ![i] = published] ELSE boundAt
    /\ UNCHANGED <<registered, buf, overflow, flagging, done, pump, broken,
                   published, missed, removedAt>>

\* Rebind: a no-op for a Sub that was removed or is bound already.
Rebind(i, id) ==
    LET binds == i \in registered /\ sub[i].bound = None
    IN  /\ BusFree
        /\ sub'     = IF binds THEN [sub EXCEPT ![i].bound = id] ELSE sub
        /\ boundAt' = IF binds THEN [boundAt EXCEPT ![i] = published] ELSE boundAt
        /\ UNCHANGED <<registered, buf, overflow, flagging, done, pump, broken,
                       published, missed, removedAt>>

\* Mutant: the pump is stopped, the map keeps the Sub.
UnsubscribeKeepsEntry(i) ==
    /\ BusFree
    /\ done'      = [done EXCEPT ![i] = TRUE]
    /\ removedAt' = IF done[i] THEN removedAt ELSE [removedAt EXCEPT ![i] = published]
    /\ UNCHANGED <<registered, sub, buf, overflow, flagging, pump, broken, published, missed, boundAt>>

\* Unsubscribe: out of the map, and done closed. Closing comes after the
\* unlock, but a pump that has not seen it yet only goes on as it may anyway:
\* its select may prefer the buffer to done.
Unsubscribe(i) ==
    /\ BusFree
    /\ registered' = registered \ {i}
    /\ done'       = [done EXCEPT ![i] = TRUE]
    /\ removedAt'  = IF i \in registered THEN [removedAt EXCEPT ![i] = published] ELSE removedAt
    /\ UNCHANGED <<sub, buf, overflow, flagging, pump, broken, published, missed, boundAt>>

\* UnregisterSink first collects, under the lock, what it will then remove.
Writing(sink) == {i \in registered : sub[i].sink = sink}

\* Mutant: an auto subscription hears everything, bound or not.
MatchesByMode(i, id) == sub[i].mode # "session" \/ sub[i].bound = id

Matches(i, id) == sub[i].mode = "any" \/ sub[i].bound = None \/ sub[i].bound = id

\* Mutant: the drop is not flagged.
PublishWithoutFlag(frame) ==
    LET reached == {i \in registered : Matches(i, frame.session)}
        full    == {i \in reached : Len(buf[i]) = BufferSize}
    IN  /\ BusFree
        /\ frame.n = published + 1
        /\ published' = frame.n
        /\ buf'      = [i \in SubIds |-> IF i \in reached \ full THEN Append(buf[i], frame) ELSE buf[i]]
        /\ missed'   = [i \in SubIds |-> IF i \in full THEN missed[i] \cup {frame.n} ELSE missed[i]]
        /\ UNCHANGED <<registered, sub, overflow, flagging, done, pump, broken, boundAt, removedAt>>

\* Publish: never blocks; where the buffer is full the frame is dropped. The Subs
\* are visited one after the other, in any order. One step stands for the visits:
\* each looks at a buffer only this publisher fills and only the Sub's own pump
\* empties. Raising a flag is another step, since the pump, which takes no lock,
\* may empty the buffer before it.
Publish(frame) ==
    LET reached == {i \in registered : Matches(i, frame.session)}
        full    == {i \in reached : Len(buf[i]) = BufferSize}
    IN  /\ BusFree
        /\ frame.n = published + 1
        /\ published' = frame.n
        /\ buf'      = [i \in SubIds |-> IF i \in reached \ full THEN Append(buf[i], frame) ELSE buf[i]]
        /\ flagging' = full
        /\ missed'   = [i \in SubIds |-> IF i \in full THEN missed[i] \cup {frame.n} ELSE missed[i]]
        /\ UNCHANGED <<registered, sub, overflow, done, pump, broken, boundAt, removedAt>>

\* The select's default: overflow.Store(true). With the last flag Publish returns.
RaiseFlag(i) ==
    /\ i \in flagging
    /\ flagging' = flagging \ {i}
    /\ overflow' = [overflow EXCEPT ![i] = TRUE]
    /\ UNCHANGED <<registered, sub, buf, done, pump, broken, published, missed, boundAt, removedAt>>

-----------------------------------------------------------------------------
(* Steps of the pump *)

At(i, place) == pump[i].pc = place

GoesTo(i, place) == pump' = [pump EXCEPT ![i].pc = place]

\* Everything but the pumps.
nonPumpVars == <<registered, sub, flagging, done, broken, published, boundAt, removedAt>>

\* Mutant: done is looked at only when a frame is there.
StopOnFrame(i) ==
    /\ At(i, "select") /\ done[i] /\ buf[i] # << >>
    /\ GoesTo(i, "exited")
    /\ UNCHANGED <<nonPumpVars, buf, overflow, missed>>

\* The select: either channel, when both are ready.
Stop(i) ==
    /\ At(i, "select") /\ done[i]
    /\ GoesTo(i, "exited")
    /\ UNCHANGED <<nonPumpVars, buf, overflow, missed>>

\* Mutant: the newest frame first.
ReceiveNewest(i) ==
    /\ At(i, "select") /\ buf[i] # << >>
    /\ pump' = [pump EXCEPT ![i].pc = "check", ![i].hand = buf[i][Len(buf[i])]]
    /\ buf'  = [buf EXCEPT ![i] = SubSeq(@, 1, Len(@) - 1)]
    /\ UNCHANGED <<nonPumpVars, overflow, missed>>

Receive(i) ==
    /\ At(i, "select") /\ buf[i] # << >>
    /\ pump' = [pump EXCEPT ![i].pc = "check", ![i].hand = Head(buf[i])]
    /\ buf'  = [buf EXCEPT ![i] = Tail(@)]
    /\ UNCHANGED <<nonPumpVars, overflow, missed>>

\* The drop whose flag is still to come.
Unflagged(i) == IF i \in flagging THEN {published} ELSE {}

\* Mutants: the notice waits for the buffer to empty; the flag is lowered and
\* nothing said.
CheckOverflowWhenEmpty(i) ==
    LET says == overflow[i] /\ buf[i] = << >>
    IN  /\ At(i, "check")
        /\ GoesTo(i, IF says THEN "announce" ELSE "write")
        /\ overflow' = [overflow EXCEPT ![i] = @ /\ ~says]
        /\ missed'   = [missed EXCEPT ![i] = IF says THEN Unflagged(i) ELSE @]
        /\ UNCHANGED <<nonPumpVars, buf>>
CheckOverflowSilently(i) ==
    /\ At(i, "check")
    /\ GoesTo(i, "write")
    /\ overflow' = [overflow EXCEPT ![i] = FALSE]
    /\ UNCHANGED <<nonPumpVars, buf, missed>>

\* overflow.CompareAndSwap(true, false): a notice for every drop that was flagged.
CheckOverflow(i) ==
    /\ At(i, "check")
    /\ GoesTo(i, IF overflow[i] THEN "announce" ELSE "write")
    /\ overflow' = [overflow EXCEPT ![i] = FALSE]
    /\ missed'   = [missed EXCEPT ![i] = IF overflow[i] THEN Unflagged(i) ELSE @]
    /\ UNCHANGED <<nonPumpVars, buf>>

\* Send(DroppedMsg), its error ignored.
Announce(i) ==
    /\ At(i, "announce")
    /\ GoesTo(i, "resync")
    /\ UNCHANGED <<nonPumpVars, buf, overflow, missed>>

\* onResync reads the registry (snap: what it finds there), then sends it.
Resync(i, snap) ==
    /\ At(i, "resync")
    /\ pump' = [pump EXCEPT ![i].pc = "push", ![i].snap = snap]
    /\ UNCHANGED <<nonPumpVars, buf, overflow, missed>>

Push(i) ==
    /\ At(i, "push")
    /\ GoesTo(i, "write")
    /\ UNCHANGED <<nonPumpVars, buf, overflow, missed>>

Reachable(i) == sub[i].sink \notin broken

\* Mutant: the pump exits after any write.
WriteOnce(i) ==
    /\ At(i, "write")
    /\ GoesTo(i, "exited")
    /\ UNCHANGED <<nonPumpVars, buf, overflow, missed>>

\* Send(msg): the pump exits on an error.
Write(i) ==
    /\ At(i, "write")
    /\ pump' = [pump EXCEPT ![i].pc = IF Reachable(i) THEN "select" ELSE "exited",
                            ![i].hand = NoFrame, ![i].snap = NoFrame]
    /\ UNCHANGED <<nonPumpVars, buf, overflow, missed>>

-----------------------------------------------------------------------------

\* Sends on a connection fail from now on: its peer is gone, a write timed out
\* (conn.dead) or the server closed it.
Break(sink) ==
    /\ broken' = broken \cup {sink}
    /\ UNCHANGED <<registered, sub, buf, overflow, flagging, done, pump,
                   published, missed, boundAt, removedAt>>

-----------------------------------------------------------------------------
(* Properties: what a subscriber is written, whoever calls the bus *)

\* No frame is dropped in silence and no notice is given for nothing: exactly
\* while a dropped frame is not covered by a notice, the Sub's flag is up or the
\* publisher that dropped the frame is about to raise it, however the pump's
\* CompareAndSwap falls between the publisher's test and its Store.
DropsLeaveATrace ==
    \A i \in SubIds : missed[i] # {} <=> overflow[i] \/ i \in flagging

\* The notice comes first: no frame is written to a client while an earlier
\* frame it lost has not been announced.
DropAnnouncedBeforeLaterFrames ==
    \A i \in SubIds :
        At(i, "write") => \A d \in missed[i] : d > pump[i].hand.n

\* Publications reach a client in the order in which they were published: what
\* waits while a frame is written was published after it, whatever was dropped
\* and drained in between.
DeliveredInOrder ==
    \A i \in SubIds :
        At(i, "write") => \A x \in 1..Len(buf[i]) : pump[i].hand.n < buf[i][x].n

\* Nothing published after a Sub was removed reaches it, although its pump may
\* go on draining for a while.
NothingAfterRemoval ==
    \A i \in SubIds :
        (done[i] /\ At(i, "write")) => pump[i].hand.n <= removedAt[i]

\* A bound Sub hears another session only in frames published before it was
\* bound (those wait in its buffer when Rebind comes).
BoundHearsItsSession ==
    \A i \in SubIds :
        (At(i, "write") /\ sub[i].mode # "any" /\ sub[i].bound # None)
           => pump[i].hand.session = sub[i].bound \/ pump[i].hand.n <= boundAt[i]
=============================================================================
