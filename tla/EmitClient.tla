----------------------------- MODULE EmitClient -----------------------------
(***************************************************************************)
(* The one-shot emit client (cmd/waiting-room/emit.go) against a daemon    *)
(* that may be slow, hang, die and be started again. Claude fires its      *)
(* hooks in order; each is a process of its own (hooks.json: async), which *)
(* stamps its message with the wall clock, sends it over a connection of   *)
(* its own, and tries once more if no ack comes. A request that its client *)
(* has given up on stays in the daemon's socket and may still be served.   *)
(*                                                                         *)
(* A stamp is any reading: processes start late, and clocks are set. The   *)
(* time of an event plays no part here and is 0 in the registry.           *)
(***************************************************************************)
EXTENDS Sessions

CONSTANTS
    MaxHooks,       \* bound on the hooks Claude fires
    MaxStamp,       \* bound on the readings of the clock
    MaxCrashes,     \* bound on the daemon's deaths
    Inputs          \* what a hook may be called with: an event and a session

ASSUME InputsAssumption == Inputs \subseteq [event : STRING, session : SessionIds \cup {None}]
ASSUME BoundsAssumption == MaxHooks \in Nat /\ MaxStamp \in Nat \ {0} /\ MaxCrashes \in Nat
ASSUME NoSessionAssumption == None \notin SessionIds

Hooks    == 1..MaxHooks
Attempts == 1..2

VARIABLES
    hook,       \* hook[h]: its message, its attempt and where its process is
    up,         \* a daemon runs
    registry,   \* its Registry.sessions
    requests,   \* <<h, a, m>>: attempt a's message m, written and not yet served
    owed,       \* <<h, a>>: attempt a's message, applied and not yet acknowledged
    acks,       \* hooks whose open connection holds an ack
    served,     \* ghost: <<h, a>> the present daemon has served
    crashes,    \* the daemon's deaths so far
    vouched     \* ghost: vouched[h], the deaths there had been at the last ack to hook h

daemonVars == <<up, registry, owed, served, crashes, vouched>>
vars == <<hook, requests, acks, daemonVars>>

Message(h) == [event |-> hook[h].event, session |-> hook[h].session, seq |-> hook[h].seq,
               pane |-> None, socket |-> None]

NoSessions == [s \in {} |-> FreshSession(0)]

Init ==
    /\ hook     = [h \in Hooks |-> [pc |-> "idle", event |-> None, session |-> None,
                                    seq |-> 0, attempt |-> 1]]
    /\ up       \in BOOLEAN
    /\ registry = NoSessions
    /\ requests = {} /\ owed = {} /\ acks = {} /\ served = {} /\ crashes = 0
    /\ vouched  = [h \in Hooks |-> 0]

Fired(h) == hook[h].pc # "idle"

\* Claude calls the hooks one after the other and waits for none of them.
Fire(h, input) ==
    /\ ~Fired(h) /\ \A g \in 1..(h - 1) : Fired(g)
    /\ hook' = [hook EXCEPT ![h].pc = "started", ![h].event = input.event,
                            ![h].session = input.session]
    /\ UNCHANGED <<requests, acks, daemonVars>>

\* runEmit up to the message: without a known event and a session there is none.
Stamp(h) ==
    /\ hook[h].pc = "started"
    /\ IF IsEvent(hook[h].event) /\ hook[h].session # None
       THEN \E t \in 1..MaxStamp : hook' = [hook EXCEPT ![h].pc = "dial", ![h].seq = t]
       ELSE hook' = [hook EXCEPT ![h].pc = "dropped"]
    /\ UNCHANGED <<requests, acks, daemonVars>>

\* Mutants: a stamp for every attempt; attempts without end.
SendRestamped(h) ==
    /\ hook[h].pc = "dial" /\ up
    /\ \E t \in 1..MaxStamp :
           requests' = requests \cup {<<h, hook[h].attempt, [Message(h) EXCEPT !.seq = t]>>}
    /\ hook' = [hook EXCEPT ![h].pc = "await"]
    /\ UNCHANGED <<acks, daemonVars>>
FailForEver(h) ==
    /\ hook[h].pc \in {"dial", "await"}
    /\ hook' = [hook EXCEPT ![h].attempt = 2, ![h].pc = "dial"]
    /\ acks' = acks \ {h}
    /\ UNCHANGED <<requests, daemonVars>>

\* sendEmit's dial and sendAndAck's write.
Send(h) ==
    /\ hook[h].pc = "dial" /\ up
    /\ requests' = requests \cup {<<h, hook[h].attempt, Message(h)>>}
    /\ hook' = [hook EXCEPT ![h].pc = "await"]
    /\ UNCHANGED <<acks, daemonVars>>

\* The attempt fails: no dial or no write, the deadline, or the end of the stream.
Fail(h) ==
    /\ hook[h].pc \in {"dial", "await"}
    /\ hook' = IF hook[h].attempt = 1
               THEN [hook EXCEPT ![h].attempt = 2, ![h].pc = "dial"]
               ELSE [hook EXCEPT ![h].pc = "dropped"]
    /\ acks' = acks \ {h}
    /\ UNCHANGED <<requests, daemonVars>>

\* An ack is for the connection it comes on.
Acked(h) ==
    /\ hook[h].pc = "await" /\ h \in acks
    /\ hook' = [hook EXCEPT ![h].pc = "sent"]
    /\ acks' = acks \ {h}
    /\ UNCHANGED <<requests, daemonVars>>

-----------------------------------------------------------------------------
(* The daemon *)

\* Mutant: the ack goes out first, and Apply follows.
ServeAckedFirst(r) ==
    /\ up
    /\ \/ owed' = owed \cup {<<r[1], r[2]>>} /\ UNCHANGED <<registry, requests, served>>
       \/ /\ registry' = ApplyTo(registry, r[3], 0)
          /\ requests' = requests \ {r}
          /\ served'   = served \cup {<<r[1], r[2]>>}
          /\ UNCHANGED owed
    /\ UNCHANGED <<hook, up, acks, crashes, vouched>>

\* Core.handleEmit: Apply. (Every message here is a valid one.)
Serve(r) ==
    /\ up
    /\ registry' = ApplyTo(registry, r[3], 0)
    /\ requests' = requests \ {r}
    /\ owed'     = owed \cup {<<r[1], r[2]>>}
    /\ served'   = served \cup {<<r[1], r[2]>>}
    /\ UNCHANGED <<hook, up, acks, crashes, vouched>>

\* Then the ack, to a client that may have closed the connection meanwhile.
Ack(o) ==
    /\ owed' = owed \ {o}
    /\ IF hook[o[1]].pc = "await" /\ hook[o[1]].attempt = o[2]
       THEN acks' = acks \cup {o[1]} /\ vouched' = [vouched EXCEPT ![o[1]] = crashes]
       ELSE UNCHANGED <<acks, vouched>>
    /\ UNCHANGED <<hook, up, registry, requests, served, crashes>>

\* The daemon dies with its registry and what its sockets hold. Acks it has
\* sent can still be read.
Die ==
    /\ up /\ crashes < MaxCrashes
    /\ up' = FALSE /\ crashes' = crashes + 1
    /\ registry' = NoSessions /\ requests' = {} /\ owed' = {} /\ served' = {}
    /\ UNCHANGED <<hook, acks, vouched>>

Boot ==
    /\ ~up /\ up' = TRUE
    /\ UNCHANGED <<hook, registry, requests, owed, acks, served, crashes, vouched>>

Runs(h) == Stamp(h) \/ Send(h) \/ Fail(h) \/ Acked(h)

Next ==
    \/ \E h \in Hooks, input \in Inputs : Fire(h, input)
    \/ \E h \in Hooks : Runs(h)
    \/ \E r \in requests : Serve(r)
    \/ \E o \in owed : Ack(o)
    \/ Die \/ Boot

Spec == Init /\ [][Next]_vars

-----------------------------------------------------------------------------
(* Properties *)

\* The variables have the shapes the code gives them.
TypeOK ==
    /\ hook \in [Hooks -> [pc : {"idle", "started", "dial", "await", "sent", "dropped"},
                           event : {i.event : i \in Inputs} \cup {None},
                           session : SessionIds \cup {None}, seq : Nat, attempt : Attempts]]
    /\ up \in BOOLEAN /\ crashes \in Nat
    /\ IsRegistry(registry)
    /\ requests \subseteq Hooks \X Attempts \X EmitMessage
    /\ acks \subseteq Hooks /\ vouched \in [Hooks -> Nat]
    /\ owed \subseteq Hooks \X Attempts /\ served \subseteq Hooks \X Attempts

\* The last word holds: once the present daemon has served a hook whose stamp
\* beats those of all others it has served for that session, the session has
\* the state this hook declared, whatever is retried, late or given up on.
Reached(h) == \E a \in Attempts : <<h, a>> \in served

LastWordHolds ==
    \A h \in Hooks :
        (/\ Reached(h)
         /\ \A g \in Hooks \ {h} :
               (Reached(g) /\ hook[g].session = hook[h].session) => hook[g].seq < hook[h].seq)
        => registry[hook[h].session].state = StateForEvent[hook[h].event]

\* A retry of what the daemon has already served changes nothing, though both
\* attempts are served and other hooks come between them.
RetryIsInvisible ==
    [][\A h \in Hooks, a \in Attempts :
          (Reached(h) /\ <<h, a>> \in served' \ served) => registry' = registry]_vars

\* emit.go: hooks must never block Claude. Every hook ends, whatever the daemon
\* does or leaves undone.
FailsOpen == \A h \in Hooks : Fired(h) ~> hook[h].pc \in {"sent", "dropped"}

\* sendEmit reports success for what is in the registry only: unless the daemon
\* that sent the ack has died since, the stamp of an acknowledged hook is held,
\* or a newer one, whichever attempt was acknowledged and whoever died before.
AckedIsHeld ==
    \A h \in Hooks :
        (hook[h].pc = "sent" /\ vouched[h] = crashes) =>
            /\ hook[h].session \in DOMAIN registry
            /\ registry[hook[h].session].lastSeq >= hook[h].seq
=============================================================================
