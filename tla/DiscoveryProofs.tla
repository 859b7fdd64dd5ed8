-------------------------- MODULE DiscoveryProofs ---------------------------
(***************************************************************************)
(* Any number of daemon processes, base directories and sockets: at most   *)
(* one daemon of a base directory listens, nobody disturbs its files, and  *)
(* clean exits leave none. The inductive invariant says what the flock     *)
(* guards: from AcquireLock to Unlock a process holds its lock, and every  *)
(* write to the socket file and the info file happens in between.          *)
(*                                                                         *)
(* All of this holds with any number of clients beside the daemons, some   *)
(* of which start more of them, and a client that follows the info file    *)
(* finds the daemon that serves.                                           *)
(***************************************************************************)
EXTENDS Discovery, TLAPS

-----------------------------------------------------------------------------
(* The daemons alone *)

Locked == {"check", "unlink", "bind", "info", "serve", "close", "remove", "forget", "unlock"}

\* The processes in the guarded part hold the lock of their base directory.
HoldsLock == \A p \in Procs : pc[p] \in Locked => lock[Base[p]] = p

\* A listener is open between bind and the end of the teardown's first step.
ListensInside == \A p \in listening : pc[p] \in {"info", "serve", "close"}

\* The files of processes that did not crash: whose they are, and for how long.
FilesAreOwned ==
    /\ \A k \in Paths, p \in Procs \ untidy :
          file[k] = p => Path[p] = k /\ pc[p] \in {"info", "serve", "close", "remove"}
    /\ \A b \in Bases, p \in Procs \ untidy :
          info[b] = p => Base[p] = b /\ pc[p] \in {"serve", "close", "remove", "forget"}

IInv ==
    /\ TypeOK
    /\ HoldsLock
    /\ ListensInside
    /\ KeepsItsSocket
    /\ InfoNamesServer
    /\ FilesAreOwned

\* Two processes in the guarded part belong to different base directories.
LEMMA Exclusion ==
    ASSUME HoldsLock, NEW p \in Procs, NEW q \in Procs, pc[p] \in Locked, pc[q] \in Locked,
           Base[p] = Base[q]
    PROVE  p = q
BY DEF HoldsLock

LEMMA Initially == Init => IInv
<1> SUFFICES ASSUME Init PROVE IInv
  OBVIOUS
<1>1. TypeOK
  BY DEF Init, TypeOK
<1>2. HoldsLock /\ ListensInside /\ KeepsItsSocket /\ InfoNamesServer
  BY DEF Init, HoldsLock, Locked, ListensInside, KeepsItsSocket, InfoNamesServer
<1>3. FilesAreOwned
  BY NobodyAssumption DEF Init, FilesAreOwned
<1> QED
  BY <1>1, <1>2, <1>3 DEF IInv

LEMMA TypeStep == ASSUME TypeOK, [Next]_vars PROVE TypeOK'
<1> USE BaseAssumption, PathAssumption, NobodyAssumption DEF TypeOK
<1>1. ASSUME NEW p \in Procs, Start(p) \/ Stop(p) PROVE TypeOK'
  BY <1>1 DEF Start, Stop, Goes, Running, Starting, Stopping
<1>2. ASSUME NEW p \in Procs, Probe(p) \/ Check(p) PROVE TypeOK'
  BY <1>2 DEF Probe, Check, Goes, Running, Starting, Stopping
<1>3. ASSUME NEW p \in Procs, AcquireLock(p) PROVE TypeOK'
  BY <1>3 DEF AcquireLock, Goes, Running, Starting, Stopping
<1>4. ASSUME NEW p \in Procs, Unlink(p) \/ Remove(p) PROVE TypeOK'
  BY <1>4 DEF Unlink, Remove, Goes, Running, Starting, Stopping
<1>5. ASSUME NEW p \in Procs, Bind(p) PROVE TypeOK'
  BY <1>5 DEF Bind, Goes, Running, Starting, Stopping
<1>6. ASSUME NEW p \in Procs, WriteInfo(p) \/ Forget(p) PROVE TypeOK'
  BY <1>6 DEF WriteInfo, Forget, Goes, Running, Starting, Stopping
<1>7. ASSUME NEW p \in Procs, Close(p) \/ Unlock(p) PROVE TypeOK'
  BY <1>7 DEF Close, Unlock, Goes, Running, Starting, Stopping
<1>8. ASSUME NEW p \in Procs, Crash(p) PROVE TypeOK'
  BY <1>8 DEF Crash, Running, Starting, Stopping
<1>9. CASE UNCHANGED vars
  BY <1>9 DEF vars
<1> QED
  BY <1>1, <1>2, <1>3, <1>4, <1>5, <1>6, <1>7, <1>8, <1>9 DEF Next, Step

LEMMA LockStep == ASSUME TypeOK, HoldsLock, [Next]_vars PROVE HoldsLock'
<1> SUFFICES ASSUME NEW q \in Procs, pc'[q] \in Locked PROVE lock'[Base[q]] = q
  BY DEF HoldsLock
<1> USE BaseAssumption, PathAssumption, NobodyAssumption DEF TypeOK, Locked
<1>1. ASSUME NEW p \in Procs, Start(p) \/ Probe(p) PROVE lock'[Base[q]] = q
  BY <1>1 DEF Start, Probe, Goes, HoldsLock
<1>2. ASSUME NEW p \in Procs, AcquireLock(p) PROVE lock'[Base[q]] = q
  BY <1>2 DEF AcquireLock, Goes, HoldsLock
<1>3. ASSUME NEW p \in Procs, Check(p) \/ Stop(p) \/ Unlink(p) \/ Close(p) \/ Remove(p) \/ Forget(p)
      PROVE lock'[Base[q]] = q
  BY <1>3 DEF Check, Stop, Unlink, Close, Remove, Forget, Goes, HoldsLock
<1>4. ASSUME NEW p \in Procs, Bind(p) \/ WriteInfo(p) PROVE lock'[Base[q]] = q
  BY <1>4 DEF Bind, WriteInfo, Goes, HoldsLock
<1>5. ASSUME NEW p \in Procs, Unlock(p) PROVE lock'[Base[q]] = q
  <2>1. pc[q] \in Locked /\ pc[p] \in Locked /\ q # p
    BY <1>5 DEF Unlock, Goes
  <2>2. Base[q] # Base[p]
    BY <2>1, Exclusion
  <2> QED
    BY <1>5, <2>1, <2>2 DEF Unlock, Goes, HoldsLock
<1>6. ASSUME NEW p \in Procs, Crash(p) PROVE lock'[Base[q]] = q
  BY <1>6 DEF Crash, HoldsLock
<1>7. CASE UNCHANGED vars
  BY <1>7 DEF vars, HoldsLock
<1> QED
  BY <1>1, <1>2, <1>3, <1>4, <1>5, <1>6, <1>7 DEF Next, Step

\* A process in the guarded part shares its socket path with no listener but
\* itself.
LEMMA OwnPath ==
    ASSUME HoldsLock, ListensInside, listening \subseteq Procs,
           NEW p \in Procs, NEW q \in listening, pc[p] \in Locked, Path[p] = Path[q]
    PROVE  p = q
<1>1. q \in Procs /\ pc[q] \in Locked
  BY DEF ListensInside, Locked
<1>2. Base[p] = Base[q]
  BY <1>1, OneBasePerPath
<1> QED
  BY <1>1, <1>2, Exclusion

LEMMA SocketStep ==
    ASSUME TypeOK, HoldsLock, ListensInside, KeepsItsSocket, [Next]_vars
    PROVE  ListensInside' /\ KeepsItsSocket'
<1> SUFFICES ASSUME NEW q \in listening'
             PROVE  pc'[q] \in {"info", "serve", "close"} /\ file'[Path[q]] = q
  BY DEF ListensInside, KeepsItsSocket
<1> DEFINE Goal == pc'[q] \in {"info", "serve", "close"} /\ file'[Path[q]] = q
<1> USE BaseAssumption, PathAssumption, NobodyAssumption DEF TypeOK
<1>1. ASSUME NEW p \in Procs, Start(p) \/ Probe(p) \/ AcquireLock(p) \/ Check(p) PROVE Goal
  BY <1>1 DEF Start, Probe, AcquireLock, Check, Goes, ListensInside, KeepsItsSocket
<1>2. ASSUME NEW p \in Procs, Stop(p) \/ WriteInfo(p) \/ Forget(p) \/ Unlock(p) PROVE Goal
  BY <1>2 DEF Stop, WriteInfo, Forget, Unlock, Goes, ListensInside, KeepsItsSocket
<1>3. ASSUME NEW p \in Procs, Close(p) \/ Crash(p) PROVE Goal
  BY <1>3 DEF Close, Crash, Goes, ListensInside, KeepsItsSocket
<1>4. ASSUME NEW p \in Procs, Unlink(p) \/ Remove(p) PROVE Goal
  <2>1. q \in listening /\ pc[p] \in Locked /\ p # q
    BY <1>4 DEF Unlink, Remove, Goes, ListensInside, Locked
  <2>2. Path[p] # Path[q]
    BY <2>1, OwnPath
  <2> QED
    BY <1>4, <2>1, <2>2 DEF Unlink, Remove, Goes, ListensInside, KeepsItsSocket
<1>5. ASSUME NEW p \in Procs, Bind(p) PROVE Goal
  <2>1. CASE q \in listening
    <3>1. pc[p] \in Locked /\ p # q
      BY <1>5, <2>1 DEF Bind, Goes, ListensInside, Locked
    <3>2. Path[p] # Path[q]
      BY <2>1, <3>1, OwnPath
    <3> QED
      BY <1>5, <2>1, <3>1, <3>2 DEF Bind, Goes, ListensInside, KeepsItsSocket
  <2>2. CASE q \notin listening
    BY <1>5, <2>2 DEF Bind, Goes
  <2> QED
    BY <2>1, <2>2
<1>6. CASE UNCHANGED vars
  BY <1>6 DEF vars, ListensInside, KeepsItsSocket
<1> QED
  BY <1>1, <1>2, <1>3, <1>4, <1>5, <1>6 DEF Next, Step

LEMMA InfoStep ==
    ASSUME TypeOK, HoldsLock, InfoNamesServer, [Next]_vars
    PROVE  InfoNamesServer'
<1> SUFFICES ASSUME NEW q \in Procs, pc'[q] = "serve" PROVE info'[Base[q]] = q
  BY DEF InfoNamesServer
<1> USE BaseAssumption, PathAssumption, NobodyAssumption DEF TypeOK
<1>1. ASSUME NEW p \in Procs, Start(p) \/ Probe(p) \/ AcquireLock(p) \/ Check(p) PROVE info'[Base[q]] = q
  BY <1>1 DEF Start, Probe, AcquireLock, Check, Goes, InfoNamesServer
<1>2. ASSUME NEW p \in Procs, Stop(p) \/ Unlink(p) \/ Bind(p) PROVE info'[Base[q]] = q
  BY <1>2 DEF Stop, Unlink, Bind, Goes, InfoNamesServer
<1>3. ASSUME NEW p \in Procs, Close(p) \/ Remove(p) \/ Unlock(p) \/ Crash(p) PROVE info'[Base[q]] = q
  BY <1>3 DEF Close, Remove, Unlock, Crash, Goes, InfoNamesServer
<1>4. ASSUME NEW p \in Procs, WriteInfo(p) \/ Forget(p) PROVE info'[Base[q]] = q
  <2>1. CASE q = p
    BY <1>4, <2>1 DEF WriteInfo, Forget, Goes
  <2>2. CASE q # p
    <3>1. pc[q] = "serve" /\ pc[p] \in Locked
      BY <1>4, <2>2 DEF WriteInfo, Forget, Goes, Locked
    <3>2. Base[p] # Base[q]
      BY <2>2, <3>1, Exclusion DEF Locked
    <3> QED
      BY <1>4, <3>1, <3>2 DEF WriteInfo, Forget, Goes, InfoNamesServer
  <2> QED
    BY <2>1, <2>2
<1>5. CASE UNCHANGED vars
  BY <1>5 DEF vars, InfoNamesServer
<1> QED
  BY <1>1, <1>2, <1>3, <1>4, <1>5 DEF Next, Step

LEMMA FilesStep == ASSUME TypeOK, FilesAreOwned, [Next]_vars PROVE FilesAreOwned'
<1> USE BaseAssumption, PathAssumption, NobodyAssumption DEF TypeOK, FilesAreOwned
<1>1. ASSUME NEW p \in Procs, Start(p) \/ Probe(p) \/ AcquireLock(p) \/ Check(p) PROVE FilesAreOwned'
  BY <1>1 DEF Start, Probe, AcquireLock, Check, Goes
<1>2. ASSUME NEW p \in Procs, Stop(p) \/ Close(p) \/ Unlock(p) PROVE FilesAreOwned'
  BY <1>2 DEF Stop, Close, Unlock, Goes
<1>3. ASSUME NEW p \in Procs, Unlink(p) \/ Remove(p) PROVE FilesAreOwned'
  BY <1>3 DEF Unlink, Remove, Goes
<1>4. ASSUME NEW p \in Procs, Bind(p) PROVE FilesAreOwned'
  BY <1>4 DEF Bind, Goes
<1>5. ASSUME NEW p \in Procs, WriteInfo(p) \/ Forget(p) PROVE FilesAreOwned'
  BY <1>5 DEF WriteInfo, Forget, Goes
<1>6. ASSUME NEW p \in Procs, Crash(p) PROVE FilesAreOwned'
  BY <1>6 DEF Crash
<1>7. CASE UNCHANGED vars
  BY <1>7 DEF vars
<1> QED
  BY <1>1, <1>2, <1>3, <1>4, <1>5, <1>6, <1>7 DEF Next, Step

LEMMA Inductive == IInv /\ [Next]_vars => IInv'
BY TypeStep, LockStep, SocketStep, InfoStep, FilesStep DEF IInv

\* The types hold in every reachable state.
THEOREM TypeCorrect == Spec => []TypeOK
<1>1. IInv => TypeOK
  BY DEF IInv
<1> QED
  BY Initially, Inductive, <1>1, PTL DEF Spec

\* The flock is enough, however racy the probe is: at most one daemon of a base
\* directory listens.
THEOREM OneDaemon == Spec => []OneListens
<1>1. IInv => OneListens
  BY Exclusion DEF IInv, TypeOK, ListensInside, OneListens, Locked
<1> QED
  BY Initially, Inductive, <1>1, PTL DEF Spec

\* Nobody unlinks or replaces the socket file of a daemon that listens.
THEOREM SocketKept == Spec => []KeepsItsSocket
<1>1. IInv => KeepsItsSocket
  BY DEF IInv
<1> QED
  BY Initially, Inductive, <1>1, PTL DEF Spec

\* The info file of a daemon that serves is its own: no other process's start
\* or teardown overwrites or removes it.
THEOREM Discoverable == Spec => []InfoNamesServer
<1>1. IInv => InfoNamesServer
  BY DEF IInv
<1> QED
  BY Initially, Inductive, <1>1, PTL DEF Spec

\* Orderly exits leave neither a socket file nor an info file.
THEOREM CleanExit == Spec => []LeavesNothing
<1>1. IInv => LeavesNothing
  BY DEF IInv, TypeOK, FilesAreOwned, LeavesNothing
<1> QED
  BY Initially, Inductive, <1>1, PTL DEF Spec

-----------------------------------------------------------------------------
(* The daemons and their clients *)

\* From its bind to its teardown a daemon's listener is open.
ListenerIsOpen == \A p \in Procs : pc[p] \in {"info", "serve"} => p \in listening

\* A client that read the info file while some daemon served is on its way to
\* that daemon, or there, as long as it serves.
FollowsServer ==
    \A c \in Clients :
        server[c] # Nobody =>
            /\ server[c] \in Serving
            /\ target[c] = Path[server[c]]
            /\ at[c] \in {"probe", "settled", "live"}

DInv == IInv /\ DiscoveryTypeOK /\ ListenerIsOpen /\ FollowsServer

-----------------------------------------------------------------------------
(* The daemons' part *)

\* Every step is a step of the daemons or leaves them alone: Discovery is
\* Lifecycle with clients beside it.
LEMMA StepIsLifecycle == [DiscoveryNext]_allVars => [Next]_vars
<1> SUFFICES ASSUME [DiscoveryNext]_allVars PROVE [Next]_vars
    OBVIOUS
<1>1. ASSUME NEW p \in Procs, Proceed(p) \/ Disturb(p) PROVE Next
    BY <1>1 DEF Proceed, Disturb, Next
<1>2. ASSUME NEW c \in Clients, ClientStep(c) PROVE [Next]_vars
  <2>1. CASE Spawn(c)
      BY <2>1 DEF Spawn, Next
  <2>2. CASE Read(c) \/ ProbeAdvertised(c) \/ Ensure(c) \/ Poll(c) \/ GiveUp(c)
      BY <2>2 DEF Read, ProbeAdvertised, Ensure, Poll, GiveUp
  <2> QED
      BY <1>2, <2>1, <2>2 DEF ClientStep
<1>3. CASE UNCHANGED allVars
    BY <1>3 DEF allVars
<1> QED
    BY <1>1, <1>2, <1>3 DEF DiscoveryNext

LEMMA ListenerStep == ASSUME TypeOK, ListenerIsOpen, [Next]_vars PROVE ListenerIsOpen'
<1> SUFFICES ASSUME NEW q \in Procs, pc'[q] \in {"info", "serve"} PROVE q \in listening'
    BY DEF ListenerIsOpen
<1> USE DEF TypeOK, ListenerIsOpen, Goes
<1>1. ASSUME NEW p \in Procs, Start(p) \/ Probe(p) \/ AcquireLock(p) \/ Check(p) \/ Unlink(p)
      PROVE  q \in listening'
    BY <1>1 DEF Start, Probe, AcquireLock, Check, Unlink
<1>2. ASSUME NEW p \in Procs, Bind(p) \/ WriteInfo(p) PROVE q \in listening'
    BY <1>2 DEF Bind, WriteInfo
<1>3. ASSUME NEW p \in Procs, Stop(p) \/ Close(p) \/ Remove(p) \/ Forget(p) \/ Unlock(p)
      PROVE  q \in listening'
    BY <1>3 DEF Stop, Close, Remove, Forget, Unlock
<1>4. ASSUME NEW p \in Procs, Crash(p) PROVE q \in listening'
    BY <1>4 DEF Crash
<1>5. CASE UNCHANGED vars
    BY <1>5 DEF vars
<1> QED
    BY <1>1, <1>2, <1>3, <1>4, <1>5 DEF Next, Step

-----------------------------------------------------------------------------
(* The clients' part *)

LEMMA DiscoveryInitInv == DiscoveryInit => DInv
<1> SUFFICES ASSUME DiscoveryInit PROVE DInv
    OBVIOUS
<1>1. IInv
    BY Initially DEF DiscoveryInit
<1>2. DiscoveryTypeOK
    BY <1>1, PathsAssumption DEF DiscoveryInit, DiscoveryTypeOK, IInv
<1>3. ListenerIsOpen
    BY DEF DiscoveryInit, Init, ListenerIsOpen
<1>4. FollowsServer
    BY DEF DiscoveryInit, FollowsServer
<1> QED
    BY <1>1, <1>2, <1>3, <1>4 DEF DInv

LEMMA DiscoveryTypeStep ==
    ASSUME DiscoveryTypeOK, TypeOK', [DiscoveryNext]_allVars
    PROVE  DiscoveryTypeOK'
<1> USE DEF DiscoveryTypeOK, Moves
<1>1. ASSUME NEW p \in Procs, Proceed(p) \/ Disturb(p) PROVE DiscoveryTypeOK'
  <2>1. Notes
      BY <1>1 DEF Proceed, Disturb
  <2>2. server' \in [Clients -> Procs \cup {Nobody}]
      BY <2>1 DEF Notes
  <2>3. hurt' \subseteq Clients
      BY <2>1 DEF Notes
  <2> QED
      BY <2>1, <2>2, <2>3 DEF Notes
<1>2. ASSUME NEW c \in Clients, Read(c) PROVE DiscoveryTypeOK'
  <2>1. server' \in [Clients -> Procs \cup {Nobody}]
      BY <1>2 DEF Read, NotesServer, Serving
  <2>2. info[Home] \in Procs \cup {Nobody}
      BY ClientsAssumption DEF TypeOK
  <2>3. target' \in [Clients -> Paths \cup {NoPath}]
      BY <1>2, <2>2, ClientsAssumption, PathAssumption DEF Read
  <2> QED
      BY <1>2, <2>1, <2>3 DEF Read
<1>3. ASSUME NEW c \in Clients, ProbeAdvertised(c) PROVE DiscoveryTypeOK'
    BY <1>3, ClientsAssumption DEF ProbeAdvertised
<1>4. ASSUME NEW c \in Clients, Ensure(c) PROVE DiscoveryTypeOK'
    BY <1>4 DEF Ensure
<1>5. ASSUME NEW c \in Clients, Spawn(c) PROVE DiscoveryTypeOK'
    BY <1>5 DEF Spawn
<1>6. ASSUME NEW c \in Clients, Poll(c) \/ GiveUp(c) PROVE DiscoveryTypeOK'
    BY <1>6 DEF Poll, GiveUp
<1>7. CASE UNCHANGED allVars
    BY <1>7 DEF allVars, clientVars
<1> QED
    BY <1>1, <1>2, <1>3, <1>4, <1>5, <1>6, <1>7 DEF DiscoveryNext, ClientStep

\* The probe of a daemon that serves succeeds, whichever client asks.
LEMMA ServerAnswers ==
    ASSUME DInv, NEW p \in Serving
    PROVE  Answers(Path[p]) = {TRUE}
<1>1. p \in Procs /\ pc[p] = "serve" /\ p \in listening
    BY DEF Serving, DInv, ListenerIsOpen
<1>2. file[Path[p]] = p
    BY <1>1 DEF DInv, IInv, KeepsItsSocket
<1> QED
    BY <1>1, <1>2 DEF Answers

\* The info file of a base directory names the one daemon of it that serves.
LEMMA OneServer ==
    ASSUME DInv, NEW p \in Serving
    PROVE  info[Home] = p /\ p # Nobody
BY NobodyAssumption DEF Serving, DInv, IInv, InfoNamesServer

LEMMA FollowsStep ==
    ASSUME DInv, [DiscoveryNext]_allVars
    PROVE  FollowsServer'
<1> USE DEF FollowsServer, Moves
<1>0. DiscoveryTypeOK /\ FollowsServer /\ TypeOK
    BY DEF DInv, DiscoveryTypeOK
<1>1. ASSUME NEW p \in Procs, Proceed(p) \/ Disturb(p) PROVE FollowsServer'
  <2>1. Notes
      BY <1>1 DEF Proceed, Disturb
  <2>2. ASSUME NEW c \in Clients, server'[c] # Nobody
        PROVE  server'[c] = server[c] /\ server[c] \in Procs /\ pc'[server[c]] = "serve"
      BY <2>1, <2>2 DEF Notes
  <2> QED
      BY <1>0, <2>1, <2>2 DEF Notes, Serving
<1>2. ASSUME NEW c \in Clients, Read(c) PROVE FollowsServer'
  <2>1. ASSUME NEW d \in Clients, d # c
        PROVE  server'[d] = server[d] /\ target'[d] = target[d] /\ at'[d] = at[d]
      BY <1>0, <1>2, <2>1 DEF Read, NotesServer, DiscoveryTypeOK
  <2>2. ASSUME server'[c] # Nobody
        PROVE  /\ server'[c] \in Serving
               /\ target'[c] = Path[server'[c]]
               /\ at'[c] \in {"probe", "settled"}
    <3>1. target[c] = NoPath /\ server'[c] \in Serving
        BY <1>0, <1>2, <2>2 DEF Read, NotesServer, DiscoveryTypeOK
    <3>2. info[Home] = server'[c] /\ server'[c] # Nobody
        BY <3>1, OneServer
    <3>3. target'[c] = Path[info[Home]]
        BY <1>0, <1>2, <3>1, <3>2 DEF Read, DiscoveryTypeOK
    <3>4. at'[c] \in {"probe", "settled"}
        BY <1>0, <1>2 DEF Read, DiscoveryTypeOK
    <3> QED BY <3>1, <3>2, <3>3, <3>4
  <2>3. Serving' = Serving
      BY <1>2 DEF Read, Serving, vars
  <2> QED
      BY <1>0, <2>1, <2>2, <2>3
<1>3. ASSUME NEW c \in Clients, ProbeAdvertised(c) PROVE FollowsServer'
  <2>1. server[c] # Nobody => target' = target
      BY <1>0, <1>3, ServerAnswers DEF ProbeAdvertised
  <2>2. \A d \in Clients : d # c => target'[d] = target[d] /\ at'[d] = at[d]
      BY <1>0, <1>3 DEF ProbeAdvertised, DiscoveryTypeOK
  <2>3. server' = server /\ Serving' = Serving /\ at'[c] = "settled"
      BY <1>0, <1>3 DEF ProbeAdvertised, Serving, vars, DiscoveryTypeOK
  <2> QED
      BY <1>0, <2>1, <2>2, <2>3
<1>4. ASSUME NEW c \in Clients, Ensure(c) PROVE FollowsServer'
  <2>1. ASSUME server[c] # Nobody PROVE at'[c] = "live"
    <3>1. server[c] \in Serving /\ target[c] = Path[server[c]]
        BY <1>0, <2>1
    <3>2. Answers(target[c]) = {TRUE}
        BY <3>1, ServerAnswers
    <3>3. FALSE \notin Answers(target[c])
        BY <3>2
    <3>4. at' = [at EXCEPT ![c] = "live"]
        BY <1>4, <3>3 DEF Ensure
    <3> QED
        BY <1>0, <3>4 DEF DiscoveryTypeOK
  <2>2. \A d \in Clients : d # c => at'[d] = at[d]
      BY <1>0, <1>4 DEF Ensure, DiscoveryTypeOK
  <2>3. server' = server /\ target' = target /\ Serving' = Serving
      BY <1>4 DEF Ensure, Serving, vars
  <2> QED
      BY <1>0, <2>1, <2>2, <2>3
<1>5. ASSUME NEW c \in Clients, Spawn(c) \/ Poll(c) \/ GiveUp(c) PROVE FollowsServer'
  <2>1. server[c] = Nobody
      BY <1>0, <1>5 DEF Spawn, Poll, GiveUp
  <2>2. \A d \in Clients : d # c => at'[d] = at[d]
      BY <1>0, <1>5 DEF Spawn, Poll, GiveUp, DiscoveryTypeOK
  <2>3. server' = server /\ target' = target
      BY <1>5 DEF Spawn, Poll, GiveUp
  <2>4. Serving \subseteq Serving'
    <3>1. CASE Spawn(c)
      <4>1. CASE \E p \in Procs : Start(p)
          BY <1>0, <4>1 DEF Serving, Start, Goes, TypeOK
      <4>2. CASE UNCHANGED vars
          BY <4>2 DEF Serving, vars
      <4> QED
          BY <3>1, <4>1, <4>2 DEF Spawn
    <3>2. CASE Poll(c) \/ GiveUp(c)
        BY <3>2 DEF Poll, GiveUp, Serving, vars
    <3> QED
        BY <1>5, <3>1, <3>2
  <2> QED
      BY <1>0, <2>1, <2>2, <2>3, <2>4
<1>6. CASE UNCHANGED allVars
    BY <1>0, <1>6 DEF allVars, clientVars, vars, Serving
<1> QED
    BY <1>1, <1>2, <1>3, <1>4, <1>5, <1>6 DEF DiscoveryNext, ClientStep

LEMMA DiscoveryNextInv == DInv /\ [DiscoveryNext]_allVars => DInv'
<1> SUFFICES ASSUME DInv, [DiscoveryNext]_allVars PROVE DInv'
    OBVIOUS
<1>1. [Next]_vars /\ TypeOK
    BY StepIsLifecycle DEF DInv, IInv
<1>2. IInv' /\ TypeOK'
    BY <1>1, Inductive DEF DInv, IInv
<1> QED
    BY <1>1, <1>2, DiscoveryTypeStep, ListenerStep, FollowsStep DEF DInv

-----------------------------------------------------------------------------
(* The theorems *)

\* Clients that spawn daemons at any moment do nothing to them that starting
\* by hand could not: what is proved of Lifecycle holds here.
THEOREM DiscoveryImplementsLifecycle == DiscoverySpec => Spec
<1>1. DiscoveryInit => Init
    BY DEF DiscoveryInit
<1> QED
    BY <1>1, StepIsLifecycle, PTL DEF DiscoverySpec, Spec

\* A client that follows the info file ends up with the daemon that served when
\* it looked, and neither spawns another nor gives up.
THEOREM ServerIsFound == DiscoverySpec => []FindsServer
<1>1. DInv => FindsServer
    BY DEF DInv, FollowsServer, FindsServer
<1> QED
    BY <1>1, DiscoveryInitInv, DiscoveryNextInv, PTL DEF DiscoverySpec
=============================================================================
