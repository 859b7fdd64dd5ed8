----------------------------- MODULE Lifecycle ------------------------------
(***************************************************************************)
(* Daemon processes that start, serve, stop and crash around one socket,   *)
(* one flock and one info file (cmd/waiting-room/daemon.go,                *)
(* internal/lifecycle/lifecycle.go, Server.Run, listen and teardown in     *)
(* internal/server/server.go). Every process runs once; a restart is       *)
(* another process. Lock and info file belong to a base directory, the     *)
(* socket may be overridden by --socket or $WAITING_ROOM_SOCKET.           *)
(***************************************************************************)
CONSTANTS
    Procs,          \* daemon processes
    Bases,          \* base directories ($WAITING_ROOM_HOME or ~/.waiting-room)
    Paths,          \* socket paths
    Base,           \* Base[p], Path[p]: the configuration of process p
    Path,
    Nobody,         \* no process
    MayFail         \* whether a removal, a chmod, a listen or a write of the info file may fail

ASSUME BaseAssumption   == Base \in [Procs -> Bases]
ASSUME PathAssumption   == Path \in [Procs -> Paths]
ASSUME NobodyAssumption == Nobody \notin Procs
ASSUME FailAssumption   == MayFail \in BOOLEAN

\* A socket path is used with one base directory only: the lock of config.go
\* guards the socket as long as nobody combines one socket with two bases.
ASSUME OneBasePerPath == \A p, q \in Procs : Path[p] = Path[q] => Base[p] = Base[q]

VARIABLES
    pc,         \* where process p is in runDaemon
    lock,       \* lock[b]: who holds the flock on b's daemon.lock
    file,       \* file[k]: who bound the socket file at k, dead or alive
    listening,  \* processes whose listener is open
    info,       \* info[b]: who wrote b's daemon.info
    untidy      \* ghost: the processes that crashed, or failed between bind and chmod

vars == <<pc, lock, file, listening, info, untidy>>

Starting == {"probe", "lock", "check", "unlink", "bind", "info"}
Stopping == {"close", "remove", "forget", "unlock"}
Running  == Starting \cup Stopping \cup {"serve"}

Init ==
    /\ pc        = [p \in Procs |-> "off"]
    /\ lock      = [b \in Bases |-> Nobody]
    /\ file      = [k \in Paths |-> Nobody]
    /\ listening = {}
    /\ info      = [b \in Bases |-> Nobody]
    /\ untidy    = {}

Goes(p, from, to) == pc[p] = from /\ pc' = [pc EXCEPT ![p] = to]

Start(p) == Goes(p, "off", "probe") /\ UNCHANGED <<lock, file, listening, info, untidy>>

\* DaemonAlive: a dial fails unless the process behind the file listens; if it
\* does, its answer may still miss the timeout.
Alive(p) == {FALSE} \cup (IF file[Path[p]] \in listening THEN {TRUE} ELSE {})

\* The friendly guard: with a daemon that answers there is nothing to do.
Probe(p) ==
    /\ \E alive \in Alive(p) : Goes(p, "probe", IF alive THEN "exited" ELSE "lock")
    /\ UNCHANGED <<lock, file, listening, info, untidy>>

\* Mutant: a lock that is held is taken for a stale one.
AcquireLockAnyway(p) ==
    /\ Goes(p, "lock", "check")
    /\ lock' = [lock EXCEPT ![Base[p]] = p]
    /\ UNCHANGED <<file, listening, info, untidy>>

\* AcquireLock does not wait.
AcquireLock(p) ==
    /\ \/ /\ lock[Base[p]] = Nobody
          /\ Goes(p, "lock", "check")
          /\ lock' = [lock EXCEPT ![Base[p]] = p]
       \/ /\ lock[Base[p]] # Nobody
          /\ Goes(p, "lock", "exited")
          /\ UNCHANGED lock
    /\ UNCHANGED <<file, listening, info, untidy>>

\* listen: the second probe, the removal of the file, the bind.
Check(p) ==
    /\ \E alive \in Alive(p) : Goes(p, "check", IF alive THEN "unlock" ELSE "unlink")
    /\ UNCHANGED <<lock, file, listening, info, untidy>>

\* A file that is not there is no error; one that cannot be removed ends the start.
Unlink(p) ==
    /\ \/ /\ Goes(p, "unlink", "bind")
          /\ file' = [file EXCEPT ![Path[p]] = Nobody]
       \/ /\ MayFail /\ Goes(p, "unlink", "unlock")
          /\ UNCHANGED file
    /\ UNCHANGED <<lock, listening, info, untidy>>

\* A file that is there makes the bind fail. After a failed chmod the listener
\* is closed but the file stays (SetUnlinkOnClose(false)).
Bind(p) ==
    \/ /\ file[Path[p]] = Nobody
       /\ Goes(p, "bind", "info")
       /\ file'      = [file EXCEPT ![Path[p]] = p]
       /\ listening' = listening \cup {p}
       /\ UNCHANGED <<lock, info, untidy>>
    \/ /\ MayFail \/ file[Path[p]] # Nobody
       /\ Goes(p, "bind", "unlock")
       /\ IF file[Path[p]] = Nobody
          THEN file' = [file EXCEPT ![Path[p]] = p] /\ untidy' = untidy \cup {p}
          ELSE UNCHANGED <<file, untidy>>
       /\ UNCHANGED <<lock, listening, info>>

\* WriteInfo replaces the file in one rename. If it fails Run tears down.
WriteInfo(p) ==
    \/ /\ Goes(p, "info", "serve")
       /\ info' = [info EXCEPT ![Base[p]] = p]
       /\ UNCHANGED <<lock, file, listening, untidy>>
    \/ /\ MayFail
       /\ Goes(p, "info", "close")
       /\ UNCHANGED <<lock, file, listening, info, untidy>>

\* SIGTERM or SIGINT, or the accept loop failed.
Stop(p) == Goes(p, "serve", "close") /\ UNCHANGED <<lock, file, listening, info, untidy>>

\* Mutant: the lock goes with the listener.
CloseAndUnlock(p) ==
    /\ Goes(p, "close", "remove")
    /\ listening' = listening \ {p}
    /\ lock' = [lock EXCEPT ![Base[p]] = Nobody]
    /\ UNCHANGED <<file, info, untidy>>

\* teardown: the listener, the socket file, the info file.
Close(p) ==
    /\ Goes(p, "close", "remove")
    /\ listening' = listening \ {p}
    /\ UNCHANGED <<lock, file, info, untidy>>

Remove(p) ==
    /\ Goes(p, "remove", "forget")
    /\ file' = [file EXCEPT ![Path[p]] = Nobody]
    /\ UNCHANGED <<lock, listening, info, untidy>>

\* Mutant: the info file stays.
ForgetNothing(p) ==
    /\ Goes(p, "forget", "unlock")
    /\ UNCHANGED <<lock, file, listening, info, untidy>>

Forget(p) ==
    /\ Goes(p, "forget", "unlock")
    /\ info' = [info EXCEPT ![Base[p]] = Nobody]
    /\ UNCHANGED <<lock, file, listening, untidy>>

\* The deferred lock.Close of runDaemon.
Unlock(p) ==
    /\ Goes(p, "unlock", "exited")
    /\ lock' = [lock EXCEPT ![Base[p]] = Nobody]
    /\ UNCHANGED <<file, listening, info, untidy>>

\* The process dies: the kernel closes its listener and its lock, its files stay.
Crash(p) ==
    /\ pc[p] \in Running
    /\ pc'        = [pc EXCEPT ![p] = "exited"]
    /\ lock'      = [b \in Bases |-> IF lock[b] = p THEN Nobody ELSE lock[b]]
    /\ listening' = listening \ {p}
    /\ untidy'    = untidy \cup {p}
    /\ UNCHANGED <<file, info>>

Step(p) ==
    \/ Probe(p) \/ AcquireLock(p) \/ Check(p) \/ Unlink(p) \/ Bind(p) \/ WriteInfo(p)
    \/ Close(p) \/ Remove(p) \/ Forget(p) \/ Unlock(p)

Next == \E p \in Procs : Start(p) \/ Step(p) \/ Stop(p) \/ Crash(p)

Spec == Init /\ [][Next]_vars

-----------------------------------------------------------------------------
(* Properties *)

\* The variables have the shapes the code gives them.
TypeOK ==
    /\ pc        \in [Procs -> Running \cup {"off", "exited"}]
    /\ lock      \in [Bases -> Procs \cup {Nobody}]
    /\ file      \in [Paths -> Procs \cup {Nobody}]
    /\ listening \subseteq Procs
    /\ info      \in [Bases -> Procs \cup {Nobody}]
    /\ untidy    \subseteq Procs

\* docs/security-uds.md: the flock is the race-safe fallback of the probe. Two
\* daemons of one base directory never listen at once, whatever their sockets.
OneListens ==
    \A p, q \in listening : Base[p] = Base[q] => p = q

\* A daemon that listens is the one its socket path leads to: no start and no
\* teardown of another process removes or replaces the file under it.
KeepsItsSocket ==
    \A p \in listening : file[Path[p]] = p

\* While a daemon serves, the info file that clients discover it by names it.
InfoNamesServer ==
    \A p \in Procs : pc[p] = "serve" => info[Base[p]] = p

\* Once every process is through, and none crashed or failed half-way, neither
\* a socket file nor an info file is left to mislead a client.
LeavesNothing ==
    (untidy = {} /\ \A p \in Procs : pc[p] \in {"off", "exited"}) =>
        /\ \A k \in Paths : file[k] = Nobody
        /\ \A b \in Bases : info[b] = Nobody
=============================================================================
