----------------------------- MODULE Discovery ------------------------------
(***************************************************************************)
(* How the clients find a daemon, and activities bring one about, while    *)
(* daemons start, stop and crash (packages/sdk/src: createActivity of      *)
(* activity.ts, discover.ts, ensure.ts; discoverSocket of                  *)
(* cmd/waiting-room/emit.go), over Lifecycle.                              *)
(*                                                                         *)
(* Two things are assumed of time: a daemon that serves answers a client's *)
(* probe before its timeout, and the three seconds for which an activity   *)
(* polls outlast the start of its child and of whoever holds the lock.     *)
(***************************************************************************)
EXTENDS Lifecycle

CONSTANTS
    Clients,        \* activities of one base directory; a hook does what they do
                    \* until "settled", and sends its message there
    Home,           \* the base directory
    Default,        \* the default socket path
    Overrides,      \* values of $WAITING_ROOM_SOCKET
    NoPath

ASSUME ClientsAssumption == Home \in Bases /\ Default \in Paths
ASSUME PathsAssumption   == NoPath \notin Paths /\ Overrides \subseteq Paths

VARIABLES
    at,         \* where client c is
    target,     \* target[c]: $WAITING_ROOM_SOCKET at first, then the socket it is after
    child,      \* child[c]: the daemon it has spawned and polls for
    server,     \* ghost: server[c], who served when c read the info file and serves still
    hurt        \* ghost: clients whose daemon was hindered in its start

clientVars == <<at, target, child, server, hurt>>
allVars    == <<vars, clientVars>>

DiscoveryInit ==
    /\ Init
    /\ at     = [c \in Clients |-> "idle"]
    /\ target \in [Clients -> Overrides \cup {NoPath}]
    /\ child  = [c \in Clients |-> Nobody]
    /\ server = [c \in Clients |-> Nobody]
    /\ hurt   = {}

\* daemonAlive and DaemonAlive as a client's probe of socket k.
Answers(k) ==
    IF file[k] \notin listening THEN {FALSE}
    ELSE IF pc[file[k]] = "serve" THEN {TRUE} ELSE BOOLEAN

Moves(c, from, to) == at[c] = from /\ at' = [at EXCEPT ![c] = to]

Serving == {p \in Procs : Base[p] = Home /\ pc[p] = "serve"}

\* The ghost's step: who serves now, if the client asks the info file at all.
NotesServer(c) ==
    server' = [server EXCEPT ![c] = IF target[c] = NoPath /\ Serving # {}
                                    THEN CHOOSE p \in Serving : TRUE ELSE Nobody]

\* Mutant: the info file is not looked at.
ReadNoInfo(c) ==
    /\ Moves(c, "idle", "settled")
    /\ target' = [target EXCEPT ![c] = IF @ # NoPath THEN @ ELSE Default]
    /\ NotesServer(c)
    /\ UNCHANGED <<vars, child, hurt>>

\* socketCandidates: the environment's socket and no other, or the advertised
\* one before the default, or the default.
Read(c) ==
    LET advertised == IF info[Home] = Nobody THEN Default ELSE Path[info[Home]]
        probes     == target[c] = NoPath /\ advertised # Default
    IN  /\ Moves(c, "idle", IF probes THEN "probe" ELSE "settled")
        /\ target' = [target EXCEPT ![c] = IF @ # NoPath THEN @ ELSE advertised]
        /\ NotesServer(c)
        /\ UNCHANGED <<vars, child, hurt>>

\* A dead advertised socket is stale information: the default it is.
ProbeAdvertised(c) ==
    /\ Moves(c, "probe", "settled")
    /\ \E alive \in Answers(target[c]) :
           target' = IF alive THEN target ELSE [target EXCEPT ![c] = Default]
    /\ UNCHANGED <<vars, child, server, hurt>>

\* ensureDaemon's own probe. Spawning may be disabled.
Ensure(c) ==
    /\ \/ Moves(c, "settled", "live") /\ TRUE \in Answers(target[c])
       \/ Moves(c, "settled", "spawn") /\ FALSE \in Answers(target[c])
       \/ Moves(c, "settled", "degraded") /\ FALSE \in Answers(target[c])
    /\ UNCHANGED <<vars, target, child, server, hurt>>

\* What may keep a spawned daemon from its start: one that is going down holds
\* the lock, or one on another socket does or will.
GoingDown    == \E p \in Procs : pc[p] \in Stopping
Elsewhere(c) == \E p \in Procs : pc[p] \in Running /\ Path[p] # target[c]

\* spawnDaemon pins the child to the socket; without a binary there is none.
Spawn(c) ==
    \/ \E p \in Procs :
          /\ Base[p] = Home /\ Path[p] = target[c]
          /\ Moves(c, "spawn", "poll")
          /\ Start(p)
          /\ child' = [child EXCEPT ![c] = p]
          /\ hurt' = IF GoingDown THEN hurt \cup {c} ELSE hurt
          /\ UNCHANGED <<target, server>>
    \/ /\ Moves(c, "spawn", "degraded")
       /\ UNCHANGED <<vars, target, child, server, hurt>>

Poll(c) ==
    /\ Moves(c, "poll", "live") /\ TRUE \in Answers(target[c])
    /\ child' = [child EXCEPT ![c] = Nobody]
    /\ UNCHANGED <<vars, target, server, hurt>>

\* Mutant: the deadline does not outlast the competitor's start.
GiveUpEarly(c) ==
    /\ Moves(c, "poll", "degraded") /\ FALSE \in Answers(target[c])
    /\ child[c] = Nobody \/ pc[child[c]] \notin Starting
    /\ child' = [child EXCEPT ![c] = Nobody]
    /\ UNCHANGED <<vars, target, server, hurt>>

\* The deadline passes: degraded for good.
GiveUp(c) ==
    /\ Moves(c, "poll", "degraded") /\ FALSE \in Answers(target[c])
    /\ {pc[p] : p \in Procs \cap {child[c], lock[Home]}} \cap Starting = {}
    /\ child' = [child EXCEPT ![c] = Nobody]
    /\ UNCHANGED <<vars, target, server, hurt>>

ClientStep(c) ==
    Read(c) \/ ProbeAdvertised(c) \/ Ensure(c) \/ Spawn(c) \/ Poll(c) \/ GiveUp(c)

\* The ghosts' part in a daemon's step: who polls while one stops, fails or is
\* killed, or while one is elsewhere; who serves no more.
Notes ==
    /\ LET stops  == \E p \in Procs : pc[p] # "close" /\ pc'[p] = "close"
           cannot == \E p \in Procs : pc[p] = "unlink" /\ pc'[p] = "unlock"
       IN  hurt' = hurt \cup {c \in Clients :
                        at[c] = "poll" /\ (stops \/ cannot \/ untidy' # untidy \/ Elsewhere(c))}
    /\ server' = [c \in Clients |->
                     IF server[c] \in Procs /\ pc'[server[c]] = "serve" THEN server[c] ELSE Nobody]
    /\ UNCHANGED <<at, target, child>>

\* A daemon is also started and stopped by hand, and killed.
Proceed(p)  == Step(p) /\ Notes
Disturb(p)  == (Start(p) \/ Stop(p) \/ Crash(p)) /\ Notes

DiscoveryNext ==
    \/ \E p \in Procs : Proceed(p) \/ Disturb(p)
    \/ \E c \in Clients : ClientStep(c)

\* Processes that can go on do; nobody has to stop, start or kill a daemon.
DiscoverySpec ==
    /\ DiscoveryInit /\ [][DiscoveryNext]_allVars
    /\ \A p \in Procs : WF_allVars(Proceed(p))
    /\ \A c \in Clients : WF_allVars(ClientStep(c))

-----------------------------------------------------------------------------
(* Properties *)

\* The variables have the shapes the code gives them.
DiscoveryTypeOK ==
    /\ TypeOK
    /\ at     \in [Clients -> {"idle", "probe", "settled", "spawn", "poll", "live", "degraded"}]
    /\ target \in [Clients -> Paths \cup {NoPath}]
    /\ child  \in [Clients -> Procs \cup {Nobody}]
    /\ server \in [Clients -> Procs \cup {Nobody}]
    /\ hurt   \subseteq Clients

\* discover.ts, emit.go: a client that follows the info file settles on the
\* daemon that served when it read it, as long as that one goes on serving,
\* wherever its socket is; it neither spawns another one nor gives up.
FindsServer ==
    \A c \in Clients :
        LET p == server[c]
        IN  (p # Nobody /\ at[c] # "probe")
                => target[c] = Path[p] /\ at[c] \in {"settled", "live"}

\* ensure.ts: an activity that spawned a daemon gets one, its own or that of a
\* competitor, whatever earlier ones left behind, unless meanwhile a process is
\* killed, fails or goes down, or the base directory's daemon is on another socket.
SpawnerGetsDaemon ==
    \A c \in Clients : at[c] = "poll" ~> (at[c] = "live" \/ c \in hurt \/ Elsewhere(c))
=============================================================================
