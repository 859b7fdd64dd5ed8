------------------------------ MODULE Activity ------------------------------
(***************************************************************************)
(* A side activity and its connection to a daemon that restarts            *)
(* (packages/sdk/src/client.ts and activity.ts), with the automatic pause   *)
(* of the snake game (packages/game-snake/src/App.tsx).                    *)
(*                                                                         *)
(* A step of the client is one event of its event loop, with what runs on  *)
(* it to the end: the promise that runOnce resolves continues the loop     *)
(* before the next event. Waiting times are left out; the game registers   *)
(* its callbacks before the first event. The daemon here is one that keeps *)
(* the activity's session and serves a subscription in one step: what can  *)
(* go wrong inside it is Core's subject. Snapshots and state changes are   *)
(* the same to applyState, which looks at the state only.                  *)
(***************************************************************************)
EXTENDS Naturals, Sequences

CONSTANTS
    MaxChanges,     \* bound on what Claude does
    MaxRestarts     \* bound on the daemon's restarts

ASSUME RestartsAssumption == MaxChanges \in Nat /\ MaxRestarts \in Nat

VARIABLES
    running,    \* a daemon runs
    held,       \* the session's state in the daemon's registry
    subscribed, \* the daemon has the activity's subscription on this connection
    asked,      \* a subscribe frame is on its way to the daemon
    inbox,      \* states on their way to the client
    link,       \* the client's socket, as the kernel sees it
    late,       \* a close event of an attempt that has ended is still to come
    socket,     \* IpcClient.socket is set
    loop,       \* where IpcClient.loop is
    timer,      \* the connect timeout is armed
    keepalive,  \* the keepalive interval is armed
    stopped,    \* IpcClient.stopped
    state,      \* the activity's state
    paused,     \* the game's autoPaused
    changes, restarts,  \* counts of what is bounded
    connects, drops,    \* ghosts: connections made, onDisconnect calls
    reaped              \* ghost: the janitor has reaped the session

hostVars == <<running, held, subscribed, asked, changes, restarts, reaped>>
clientVars == <<loop, socket, timer, keepalive, stopped, connects, drops>>
gameVars   == <<state, paused>>
linkVars   == <<link, late>>
activityVars       == <<hostVars, inbox, linkVars, clientVars, gameVars>>

ActivityInit ==
    /\ running \in BOOLEAN
    /\ held = "unknown" /\ subscribed = FALSE /\ asked = FALSE /\ inbox = << >>
    /\ link = "none" /\ late = FALSE /\ loop = "start" /\ socket = FALSE
    /\ timer = FALSE /\ keepalive = FALSE /\ stopped = FALSE
    /\ state = "unknown" /\ paused = FALSE
    /\ changes = 0 /\ restarts = 0 /\ connects = 0 /\ drops = 0
    /\ reaped = FALSE

-----------------------------------------------------------------------------
(* Claude and the daemon *)

Announce(s) == inbox' = IF subscribed /\ held # s THEN Append(inbox, s) ELSE inbox

\* A hook's emit; with no daemon it is lost.
Declare(s) ==
    /\ changes < MaxChanges
    /\ changes' = changes + 1
    /\ IF running THEN held' = s /\ Announce(s) ELSE UNCHANGED <<held, inbox>>
    /\ UNCHANGED <<running, subscribed, asked, restarts, reaped, linkVars, clientVars, gameVars>>

Reap ==
    /\ running /\ held # "unknown" /\ changes < MaxChanges
    /\ changes' = changes + 1
    /\ held' = "unknown" /\ Announce("unknown")
    /\ reaped' = TRUE
    /\ UNCHANGED <<running, subscribed, asked, restarts, linkVars, clientVars, gameVars>>

\* The answer to a subscribe: a snapshot.
Answer ==
    /\ asked /\ link = "open"
    /\ asked' = FALSE /\ subscribed' = TRUE
    /\ inbox' = Append(inbox, held)
    /\ UNCHANGED <<running, held, changes, restarts, reaped, linkVars, clientVars, gameVars>>

\* The registry is in memory only.
DaemonDown ==
    /\ running
    /\ running' = FALSE /\ held' = "unknown" /\ subscribed' = FALSE /\ asked' = FALSE
    /\ link' = IF link \in {"dialing", "open"} THEN "cut" ELSE link
    /\ UNCHANGED <<changes, restarts, reaped, inbox, late, clientVars, gameVars>>

DaemonUp ==
    /\ ~running /\ restarts < MaxRestarts
    /\ running' = TRUE /\ restarts' = restarts + 1
    /\ UNCHANGED <<held, subscribed, asked, changes, reaped, inbox, linkVars, clientVars, gameVars>>

-----------------------------------------------------------------------------
(* The client *)

\* Mutant: a stop during the backoff goes unnoticed.
AttemptRegardless ==
    /\ loop \in {"start", "sleep"}
    /\ loop' = "dialing" /\ socket' = TRUE /\ timer' = TRUE /\ inbox' = << >>
    /\ link' = IF running THEN "dialing" ELSE "cut"
    /\ UNCHANGED <<hostVars, late, keepalive, stopped, connects, drops, gameVars>>

\* An attempt of the loop, at the start or after the backoff.
Attempt ==
    /\ loop \in {"start", "sleep"}
    /\ IF stopped THEN loop' = "ended" /\ UNCHANGED <<link, socket, timer, inbox>>
       ELSE /\ loop' = "dialing" /\ socket' = TRUE /\ timer' = TRUE /\ inbox' = << >>
            /\ link' = IF running THEN "dialing" ELSE "cut"
    /\ UNCHANGED <<hostVars, late, keepalive, stopped, connects, drops, gameVars>>

\* Mutant: the connect timeout is not disarmed.
OnConnectKeepingTimer ==
    /\ link = "dialing"
    /\ link' = "open" /\ loop' = "connected" /\ keepalive' = TRUE
    /\ connects' = connects + 1
    /\ asked' = socket
    /\ UNCHANGED <<running, held, subscribed, changes, restarts, reaped, inbox, late, socket,
                   timer, stopped, drops, gameVars>>

\* Mutant: subscribe is sent on the first connection only.
OnConnectSubscribingOnce ==
    /\ link = "dialing"
    /\ link' = "open" /\ loop' = "connected" /\ timer' = FALSE /\ keepalive' = TRUE
    /\ connects' = connects + 1
    /\ asked' = (socket /\ connects = 0)
    /\ UNCHANGED <<running, held, subscribed, changes, restarts, reaped, inbox, late, socket,
                   stopped, drops, gameVars>>

\* The connect event: subscribe is sent on every connection, over the client's
\* socket (send writes nothing where there is none).
OnConnect ==
    /\ link = "dialing"
    /\ link' = "open" /\ loop' = "connected" /\ timer' = FALSE /\ keepalive' = TRUE
    /\ connects' = connects + 1
    /\ asked' = socket
    /\ UNCHANGED <<running, held, subscribed, changes, restarts, reaped, inbox, late, socket,
                   stopped, drops, gameVars>>

\* applyState: callbacks for another state only, none of the game's for unknown.
OnFrame ==
    /\ link \in {"open", "cut"} /\ inbox # << >>
    /\ inbox' = Tail(inbox)
    /\ state' = Head(inbox)
    /\ paused' = CASE state' # state /\ state' = "needs_attention" -> TRUE
                   [] state' # state /\ state' = "working"         -> FALSE
                   [] OTHER                                        -> paused
    /\ UNCHANGED <<hostVars, linkVars, clientVars>>

\* Mutant: every end of an attempt is reported.
FinishReporting ==
    /\ link' = "none" /\ inbox' = << >> /\ socket' = FALSE /\ timer' = FALSE /\ keepalive' = FALSE
    /\ subscribed' = FALSE /\ asked' = FALSE
    /\ loop' = IF stopped THEN "ended" ELSE "sleep"
    /\ drops' = IF stopped THEN drops ELSE drops + 1
    /\ UNCHANGED <<running, held, changes, restarts, reaped, stopped, connects, state, paused>>

\* finish, and the loop after it: unless the client was stopped, the end of an
\* established connection is reported and the next attempt is slept for. Frames
\* not yet read are lost; the daemon drops the subscription.
Finish ==
    /\ link' = "none" /\ inbox' = << >> /\ socket' = FALSE /\ timer' = FALSE /\ keepalive' = FALSE
    /\ subscribed' = FALSE /\ asked' = FALSE
    /\ loop' = IF stopped THEN "ended" ELSE "sleep"
    /\ drops' = IF loop = "connected" /\ ~stopped THEN drops + 1 ELSE drops
    /\ UNCHANGED <<running, held, changes, restarts, reaped, stopped, connects, state, paused>>

\* The close event, and the events that a close event follows: an error, with
\* frames perhaps left unread, and the connect timeout.
OnClose   == link \in {"cut", "destroyed"} /\ Finish /\ UNCHANGED late
OnError   == link = "cut" /\ Finish /\ late' = TRUE
OnTimeout == timer /\ link # "none" /\ Finish /\ late' = TRUE

\* Mutant: finish does not ask whether the attempt is settled. The timer is its
\* own and its promise is resolved, but keepalive and socket are the client's.
LateCloseUnsettled ==
    /\ late /\ late' = FALSE
    /\ socket' = FALSE /\ keepalive' = FALSE
    /\ UNCHANGED <<hostVars, inbox, link, loop, timer, stopped, connects, drops, gameVars>>

\* The close event after an error or a timeout: finish has settled the attempt
\* and does nothing. (Node sends it before the backoff is over; client.ts does
\* not rely on that, and here it may come during the next attempt.)
LateClose ==
    /\ late /\ late' = FALSE
    /\ UNCHANGED <<hostVars, inbox, link, clientVars, gameVars>>

\* dispose: stop, which destroys the socket; its close event follows.
Dispose ==
    /\ ~stopped
    /\ stopped' = TRUE /\ keepalive' = FALSE
    /\ link' = IF socket THEN "destroyed" ELSE link
    /\ inbox' = << >> /\ subscribed' = FALSE /\ asked' = FALSE
    /\ UNCHANGED <<running, held, changes, restarts, reaped, late, loop, socket, timer,
                   connects, drops, gameVars>>

ActivityNext ==
    \/ \E s \in {"working", "needs_attention"} : Declare(s)
    \/ Reap \/ Answer \/ DaemonDown \/ DaemonUp
    \/ Attempt \/ OnConnect \/ OnFrame
    \/ OnClose \/ OnError \/ OnTimeout \/ LateClose \/ Dispose

ActivitySpec == ActivityInit /\ [][ActivityNext]_activityVars

-----------------------------------------------------------------------------
(* Properties *)

\* packages/sdk/test/activity.test.ts, "holds a healthy connection": the client ends
\* an established connection only after the daemon did, or to stop; until then the
\* connection keeps its socket and its keepalive, whatever timers and events of
\* other attempts still have to say.
HealthyLinkIsKept ==
    [][link = "open" => /\ loop' = "connected"
                        /\ stopped' \/ (socket' /\ keepalive')]_activityVars

\* onDisconnect is called once for every connection that ended on its own, and
\* never for an attempt that did not get one, nor after dispose.
DropsReportedOnce ==
    /\ drops <= connects
    /\ ~stopped => connects = drops + (IF loop = "connected" THEN 1 ELSE 0)

\* A daemon that stays up brings the activity into step in the end, however
\* often it restarted before: same state, and the game paused if it is called
\* for and only then.
InStep ==
    /\ state = held
    /\ state # "unknown" => (paused <=> state = "needs_attention")

EndsInStep == <>[](running /\ ~stopped) => <>[]InStep

\* dispose ends the client's loop: it never dials again.
DisposeEnds == stopped ~> [](loop = "ended")

\* examples/writing-an-activity.md: the SDK retains the last-known state across
\* disconnects. Only a reaped session becomes unknown.
RetainsState ==
    [][(state # "unknown" /\ state' = "unknown") => reaped]_activityVars

=============================================================================
