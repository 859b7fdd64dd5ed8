----------------------------- MODULE BusSystem ------------------------------
(***************************************************************************)
(* The bus closed over its callers, as far as they bear on delivery:       *)
(* connections that subscribe, unsubscribe, break and close, a publisher,  *)
(* rebinding, and the pumps. A snapshot says what the bus's session was    *)
(* last published as, which is the least the registry then says.           *)
(***************************************************************************)
EXTENDS Bus

CONSTANT MaxPublish     \* bound on the publications

ASSUME MaxPublishAssumption == MaxPublish \in Nat

VARIABLES
    conn,       \* conn[k]: open, closing (Core.Closed is running) or closed
    doomed,     \* doomed[k]: the Subs UnregisterSink has yet to remove
    latest,     \* latest[s]: number of the last frame published for session s
    view        \* view[i]: number the client of Sub i was last told of

vars == <<busVars, conn, doomed, latest, view>>

callerVars == <<conn, doomed, latest, view>>

Init ==
    /\ BusInit
    /\ conn   = [k \in Sinks |-> "open"]
    /\ doomed = [k \in Sinks |-> {}]
    /\ latest = [s \in SessionIds |-> 0]
    /\ view   = [i \in SubIds |-> 0]

\* handleSubscribe, on the connection's own goroutine. A connection may
\* subscribe more than once.
Join(k) ==
    /\ conn[k] = "open"
    /\ Unused # {}
    /\ \E mode \in Modes, bound \in SessionIds \cup {None} :
          Subscribe(CHOOSE i \in Unused : TRUE, mode, bound, None, k)
    /\ UNCHANGED callerVars

\* rebindUnbound, for an unbound auto subscription it collected earlier, which
\* may have been bound or removed since.
Bind(i) ==
    /\ i \notin Unused /\ sub[i].mode = "auto"
    /\ \E id \in SessionIds : Rebind(i, id)
    /\ UNCHANGED callerVars

\* handleUnsubscribe.
Leave(i) ==
    /\ i \in registered /\ conn[sub[i].sink] = "open"
    /\ Unsubscribe(i)
    /\ UNCHANGED callerVars

Announcement(s) == [n |-> published + 1, session |-> s]

PublishFor(s) ==
    /\ published < MaxPublish
    /\ Publish(Announcement(s))
    /\ latest' = [latest EXCEPT ![s] = published + 1]
    /\ UNCHANGED <<conn, doomed, view>>

\* The publisher, on its way out of Publish.
FlagDrop == (\E i \in SubIds : RaiseFlag(i)) /\ UNCHANGED callerVars

\* A connection's sends begin to fail. After a write that timed out conn.Send
\* only sets dead: the socket stays open and the read loop stays where it is.
Fail(k) ==
    /\ k \notin broken
    /\ Break(k)
    /\ UNCHANGED callerVars

\* The deferred calls of serve: conn.close, then Closed, which unregisters the
\* sink: collect under the lock, then remove one by one.
BeginClose(k) ==
    /\ conn[k] = "open" /\ BusFree
    /\ Break(k)
    /\ conn'   = [conn EXCEPT ![k] = "closing"]
    /\ doomed' = [doomed EXCEPT ![k] = Writing(k)]
    /\ UNCHANGED <<latest, view>>

RemoveDoomed(k) ==
    /\ \E i \in doomed[k] :
          /\ Unsubscribe(i)
          /\ doomed' = [doomed EXCEPT ![k] = @ \ {i}]
    /\ UNCHANGED <<conn, latest, view>>

EndClose(k) ==
    /\ conn[k] = "closing" /\ doomed[k] = {}
    /\ conn' = [conn EXCEPT ![k] = "closed"]
    /\ UNCHANGED <<busVars, doomed, latest, view>>

\* What the resync callback finds for the Sub's bound session; unbound, for the
\* session most recently heard of.
Current(i) ==
    IF sub[i].bound # None THEN [n |-> latest[sub[i].bound], session |-> sub[i].bound]
    ELSE [n |-> published, session |-> None]

Tell(i, frame) == view' = [view EXCEPT ![i] = IF Reachable(i) THEN frame.n ELSE @]

PumpStep(i) ==
    \/ (Stop(i) \/ Receive(i) \/ CheckOverflow(i) \/ Announce(i) \/ Resync(i, Current(i)))
          /\ UNCHANGED callerVars
    \/ Push(i)  /\ Tell(i, pump[i].snap) /\ UNCHANGED <<conn, doomed, latest>>
    \/ Write(i) /\ Tell(i, pump[i].hand) /\ UNCHANGED <<conn, doomed, latest>>

CloseStep(k) == RemoveDoomed(k) \/ EndClose(k)

Next ==
    \/ \E k \in Sinks : Join(k) \/ Fail(k) \/ BeginClose(k) \/ CloseStep(k)
    \/ \E i \in SubIds : Bind(i) \/ Leave(i) \/ PumpStep(i)
    \/ \E s \in SessionIds : PublishFor(s)
    \/ FlagDrop

Spec == Init /\ [][Next]_vars

\* The Go scheduler runs every goroutine that can run: the pumps, a publisher that
\* has flags to raise, and a closing connection's deferred calls. These may wait
\* for Bus.mu, and sync.Mutex starves nobody. Nobody is obliged to publish, join
\* or leave.
FairSpec ==
    /\ Spec
    /\ \A i \in SubIds : WF_vars(PumpStep(i))
    /\ WF_vars(FlagDrop)
    /\ \A k \in Sinks : SF_vars(CloseStep(k))

-----------------------------------------------------------------------------
(* Properties *)

Frame == [n : Nat, session : SessionIds \cup {None}]

\* The variables have the shapes the code gives them; no buffer outgrows its
\* channel.
TypeOK ==
    /\ registered \subseteq SubIds
    /\ sub       \in [SubIds -> SubRecord]
    /\ buf       \in [SubIds -> Seq(Frame)]
    /\ \A i \in SubIds : Len(buf[i]) <= BufferSize
    /\ overflow  \in [SubIds -> BOOLEAN]
    /\ flagging  \subseteq SubIds
    /\ done      \in [SubIds -> BOOLEAN]
    /\ pump      \in [SubIds -> [pc : PumpPlaces, hand : Frame, snap : Frame]]
    /\ broken    \subseteq Sinks
    /\ published \in Nat
    /\ missed    \in [SubIds -> SUBSET Nat]
    /\ boundAt   \in [SubIds -> Nat]
    /\ removedAt \in [SubIds -> Nat]
    /\ conn      \in [Sinks -> {"open", "closing", "closed"}]
    /\ doomed    \in [Sinks -> SUBSET SubIds]
    /\ latest    \in [SessionIds -> Nat]
    /\ view      \in [SubIds -> Nat]

Notified(i) == At(i, "announce") \/ done[i] \/ ~Reachable(i)

\* A slow client is told of its losses with the next frame it gets, unless it is
\* gone.
DropsAreAnnounced ==
    \A i \in SubIds : (overflow[i] /\ buf[i] # << >>) ~> Notified(i)

\* internal/bus/bus.go, of Publish: where the buffer is full, "the event is
\* dropped and the subscriber is flagged for a dropped+resync notice". The notice
\* comes, whether or not anything else is published.
EveryDropIsAnnounced ==
    \A i \in SubIds : missed[i] # {} ~> Notified(i)

\* A closed connection's pumps all exit.
PumpsExit ==
    \A i \in SubIds : done[i] ~> At(i, "exited")

\* internal/bus/bus.go, of the pump: "On write error the pump exits; the server
\* notices the dead connection and unregisters." A Sub whose pump gave up on its
\* own leaves the bus.
ErrorUnregisters ==
    \A i \in SubIds : (At(i, "exited") /\ ~done[i]) ~> i \notin registered

\* A client of one session that has been told anything and has no drop left to be
\* told of, whose buffer is empty and whose pump is idle, was last told of the
\* session's last change.
EndsFresh ==
    \A i \in registered :
        (/\ sub[i].mode = "session" /\ sub[i].bound # None /\ Reachable(i)
         /\ At(i, "select") /\ buf[i] = << >> /\ missed[i] = {}
         /\ view[i] # 0)
        => view[i] = latest[sub[i].bound]
=============================================================================
