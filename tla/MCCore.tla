------------------------------- MODULE MCCore -------------------------------
(***************************************************************************)
(* Instances of Core for TLC: the emits and requests of small scenarios.   *)
(***************************************************************************)
EXTENDS Core, TLC

Emit(s, event, seq, pane, socket) ==
    [session |-> s, event |-> event, seq |-> seq, pane |-> pane, socket |-> socket]

W == "agent_working"
N == "agent_needs_attention"
Tmux == "tmux.sock"

Request4(mode, s, pane, socket) ==
    [type |-> "subscribe", mode |-> mode, session |-> s, pane |-> pane, socket |-> socket]
Request1(type) == [type |-> type]

\* The default server has no panes. On the other, Claude panes %1 and %3 and the
\* activity pane %2 share window @1, and Claude pane %4 has window @2.
OneServer ==
    (None :> << >>) @@
    (Tmux :> ("%1" :> "@1" @@ "%2" :> "@1" @@ "%3" :> "@1" @@ "%4" :> "@2"))

\* The same server without %3, and with one Claude pane.
ThreePanes == (None :> << >>) @@ (Tmux :> ("%1" :> "@1" @@ "%2" :> "@1" @@ "%4" :> "@2"))
SmallServer == (None :> << >>) @@ (Tmux :> ("%1" :> "@1" @@ "%2" :> "@1"))

\* Two servers, each with panes %1 and %2: in one window on the activity's
\* server, in two on the other.
Other == "other.sock"
TwoServers ==
    (None :> << >>) @@
    (Tmux  :> ("%1" :> "@1" @@ "%2" :> "@1")) @@
    (Other :> ("%1" :> "@1" @@ "%2" :> "@2"))

\* A session works, halts and works again; its activity follows it and asks for
\* the focus once.
CycleMsg ==
    <<Emit("s1", W, 1, "%1", Tmux), Emit("s1", N, 2, "%1", Tmux), Emit("s1", W, 3, "%1", Tmux)>>
FollowerScript ==
    [k \in Sinks |-> <<Request4("session", "s1", "%2", Tmux), Request1("focus_request")>>]

\* The same activity, which unsubscribes in the end.
LeavingScript == [k \in Sinks |-> FollowerScript[k] \o <<Request1("unsubscribe")>>]

\* An activity that follows s1, and nothing else.
QuietFollowerScript == [k \in Sinks |-> <<Request4("session", "s1", "%2", Tmux)>>]

\* The two hooks of a Stop right after a UserPromptSubmit.
HaltMsg == <<Emit("s1", W, 1, "%1", Tmux), Emit("s1", N, 2, "%1", Tmux)>>

\* Two sessions appear in the window of an activity that is already there.
TwoSessionsMsg == <<Emit("s1", W, 1, "%1", Tmux), Emit("s2", N, 1, "%3", Tmux)>>
AutoScript == [k \in Sinks |-> <<Request4(None, None, "%2", Tmux)>>]

\* A session in the window and one outside it, and an event the daemon does not
\* know; the activity first asks for a mode there is not.
ElsewhereFirstMsg ==
    <<Emit("s2", N, 1, "%4", Tmux), Emit("s1", W, 1, "%1", Tmux), Emit("s1", "agent_paused", 2, "%1", Tmux)>>
SecondTryScript ==
    [k \in Sinks |-> <<Request4("always", None, "%2", Tmux), Request4(None, None, "%2", Tmux)>>]

\* One session, on the other server, in a pane whose id the activity's window
\* has too.
OtherServerMsg == <<Emit("s1", W, 1, "%1", Other)>>

\* An activity that leaves and comes back; one that subscribes twice.
ReturningScript ==
    [k \in Sinks |-> <<Request4(None, None, "%2", Tmux), Request1("unsubscribe"),
                       Request4("any", None, None, Tmux)>>]
DoubleScript ==
    [k \in Sinks |-> <<Request4("any", None, None, Tmux), Request4("session", "s1", None, Tmux),
                       Request1("unsubscribe")>>]

\* A session halts, is reaped when its pane is gone, and a last event comes in.
ReapMsg == <<Emit("s1", N, 1, "%1", Tmux), Emit("s1", W, 2, "%1", Tmux)>>

Play(messages, requests, panes, what, with) ==
    [msg |-> messages, script |-> requests, layout |-> panes, happens |-> what, overlaps |-> with]
AnyOverlap == {"emits", "subscribes", "sweeps"}

\* Safety. The last scenario has emits one at a time.
SafetyScenarios == {
    Play(CycleMsg, FollowerScript, OneServer, {}, AnyOverlap),
    Play(TwoSessionsMsg, AutoScript, OneServer, {}, AnyOverlap),
    Play(TwoSessionsMsg, ReturningScript, OneServer, {"hangups"}, AnyOverlap),
    Play(HaltMsg, AutoScript, SmallServer, {"sweeps", "failing tmux"}, {"emits", "sweeps"}),
    Play(ElsewhereFirstMsg, SecondTryScript, ThreePanes, {"sweeps", "closing panes"}, {})}

\* In them an activity unsubscribes before it subscribes again, and everything is
\* on one tmux server: what UnsubscribeStopsDelivery, BoundInWindow and
\* ViewConverges need. No session has the empty id.
ASSUME SafetyScenariosAreTidy ==
    None \notin SessionIds /\ \A play \in SafetyScenarios :
        /\ \A k \in Sinks : OneByOne(play.script[k])
        /\ \E server \in Sockets \cup {None} : OnServer(play, server)

\* Progress, and what of it remains when tmux hangs.
ProgressScenarios == {
    Play(HaltMsg, LeavingScript, SmallServer, {}, AnyOverlap),
    Play(HaltMsg, AutoScript, SmallServer, {"sweeps", "hanging tmux"}, {"emits", "sweeps"})}

\* Two emits overlap, and nothing else.
OverlappingEmits == {Play(HaltMsg, QuietFollowerScript, OneServer, {}, {"emits"})}

\* Further scenarios in which a property fails, see README.md: PausesTheInstant
\* in the first three, BoundInWindow and UnsubscribeStopsDelivery in the others.
LateSnapshot == {Play(HaltMsg, QuietFollowerScript, OneServer, {}, {"subscribes"})}
LateReaping  == {Play(ReapMsg, QuietFollowerScript, SmallServer, {"sweeps", "closing panes"}, {"sweeps"})}
RebindRace   == {Play(TwoSessionsMsg, AutoScript, OneServer, {}, {"emits"})}
SamePaneIds  == {Play(OtherServerMsg, AutoScript, TwoServers, {}, {"subscribes"})}
Resubscribed == {Play(HaltMsg, DoubleScript, OneServer, {}, {})}

\* ViewConverges fails where a connection subscribes twice, where emits come from
\* two servers, and (with BufferSize 1) when a sweep's frame does not fit.
FollowsTwo ==
    {Play(HaltMsg, [k \in Sinks |-> <<Request4("session", "s1", None, Tmux), Request4("session", "s2", None, Tmux)>>],
          OneServer, {}, {})}
TwoEmitServers ==
    {Play(<<Emit("s1", W, 1, "%1", Other), Emit("s2", N, 1, "%3", Tmux)>>, AutoScript, TwoServers, {}, {})}
NoRoomForSweep == {Play(ReapMsg, QuietFollowerScript, SmallServer, {"sweeps", "closing panes"}, {})}
=============================================================================
