------------------------------ MODULE Registry ------------------------------
(***************************************************************************)
(* The session registry as a state machine: Apply and GC, both run under   *)
(* Registry.mu, against a world in which an emit may arrive at any time,   *)
(* in any order, more than once (emit.go retries an unacknowledged send)   *)
(* or never, panes close, and tmux may fail to answer.                     *)
(***************************************************************************)
EXTENDS Sessions

CONSTANTS
    Emits,          \* the emits the hooks may produce
    IdleLimit,      \* Janitor.idleLimit, in clock ticks
    MaxClock        \* bound on the clock

Valid(m) == m \in Emits /\ IsEvent(m.event)

ASSUME EmitsAssumption     == Emits \subseteq EmitMessage
ASSUME IdleLimitAssumption == IdleLimit \in Nat \ {0}
ASSUME MaxClockAssumption  == MaxClock \in Nat
ASSUME NoneAssumption      == None \notin PaneIds /\ None \notin Sockets

VARIABLES
    sessions,       \* Registry.sessions
    now,            \* the wall clock
    panes,          \* panes[k]: the panes of the tmux server at socket k
    delivered,      \* ghost: delivered[s], the <<stamp, declared state>> pairs Apply has seen
    reapedAt        \* ghost: reapedAt[s], the stamp held when s was last reaped (0: never)

vars == <<sessions, now, panes, delivered, reapedAt>>

Init ==
    /\ sessions  = [id \in {} |-> FreshSession(0)]
    /\ now       = 0
    /\ panes     = [k \in Sockets |-> PaneIds]
    /\ delivered = [s \in SessionIds |-> {}]
    /\ reapedAt  = [s \in SessionIds |-> 0]

\* Registry.Apply. An unrecognised event is rejected before the lock is taken.
Apply(m) ==
    /\ Valid(m)
    /\ sessions'  = ApplyTo(sessions, m, now)
    /\ delivered' = [delivered EXCEPT ![m.session] = @ \cup {<<m.seq, StateForEvent[m.event]>>}]
    /\ UNCHANGED <<now, panes, reapedAt>>

IsStale(s) == now - sessions[s].lastEventAt > IdleLimit

\* Mutant: a server that answers is taken to have the pane.
ServerAnswers(s, failed) == s \notin failed

\* The janitor's paneExists: true without a socket; otherwise PaneExists, which
\* answers false when its list-panes fails (failed: the sessions it fails for).
PaneExists(s, failed) ==
    LET rec == sessions[s]
    IN  \/ rec.socket = None
        \/ s \notin failed /\ rec.pane \in panes[rec.socket]

Reapable(failed) ==
    {s \in DOMAIN sessions :
        /\ sessions[s].state # Unknown
        /\ IsStale(s)
        /\ sessions[s].pane # None
        /\ ~PaneExists(s, failed)}

\* Registry.GC: one pass over the map, the lock held throughout.
GC(failed) ==
    LET reaped == Reapable(failed)
    IN  /\ sessions' = [s \in DOMAIN sessions |->
                           IF s \in reaped THEN [sessions[s] EXCEPT !.state = Unknown]
                           ELSE sessions[s]]
        /\ reapedAt' = [s \in SessionIds |->
                           IF s \in reaped THEN sessions[s].lastSeq ELSE reapedAt[s]]
        /\ UNCHANGED <<now, panes, delivered>>

\* The janitor's ticker fires; list-panes may fail for any of the sessions.
Sweep == \E failed \in SUBSET DOMAIN sessions : GC(failed)

\* The world: the clock advances, a pane closes.
Tick ==
    /\ now < MaxClock
    /\ now' = now + 1
    /\ UNCHANGED <<sessions, panes, delivered, reapedAt>>

ClosePane(k, p) ==
    /\ p \in panes[k]
    /\ panes' = [panes EXCEPT ![k] = @ \ {p}]
    /\ UNCHANGED <<sessions, now, delivered, reapedAt>>

Next ==
    \/ \E m \in Emits : Apply(m)
    \/ Sweep
    \/ Tick
    \/ \E k \in Sockets, p \in PaneIds : ClosePane(k, p)

Spec == Init /\ [][Next]_vars

\* The clock runs and the janitor's ticker keeps firing. Fairness is asked of sweeps
\* that tmux answers: a failure is never obliged to come, as it would be if it
\* were the only way for a sweep to change anything.
FairSpec == Spec /\ WF_vars(Tick) /\ WF_vars(GC({}))

-----------------------------------------------------------------------------
(* Properties *)

\* The variables have the shapes the code gives them.
TypeOK ==
    /\ IsRegistry(sessions)
    /\ now       \in Nat
    /\ panes     \in [Sockets -> SUBSET PaneIds]
    /\ delivered \in [SessionIds -> SUBSET (Nat \X {Working, NeedsAttention})]
    /\ reapedAt  \in [SessionIds -> Nat]

\* A session is known exactly when an emit for it has been delivered, and it
\* holds the highest stamp delivered, whatever the order of delivery.
HoldsNewestStamp ==
    \A s \in SessionIds :
        /\ s \in DOMAIN sessions <=> delivered[s] # {}
        /\ s \in DOMAIN sessions =>
              /\ \A d \in delivered[s] : d[1] <= sessions[s].lastSeq
              /\ sessions[s].lastSeq # 0 => \E d \in delivered[s] : d[1] = sessions[s].lastSeq

\* The state is a function of what was delivered and of the reaping, never of
\* the order of delivery: WORKING if declared at the newest stamp, otherwise
\* NEEDS_ATTENTION, and UNKNOWN exactly while nothing beats the reaped stamp.
StateIsDetermined ==
    \A s \in SessionIds :
        LET rec == Lookup(sessions, s, now)
        IN  /\ reapedAt[s] <= rec.lastSeq
            /\ rec.state = Unknown <=> reapedAt[s] = rec.lastSeq
            /\ rec.state = Working => <<rec.lastSeq, Working>> \in delivered[s]
            /\ rec.state = NeedsAttention =>
                  /\ <<rec.lastSeq, NeedsAttention>> \in delivered[s]
                  /\ <<rec.lastSeq, Working>> \notin delivered[s]

\* Registry.GC leaves the stamp in place: a reaped session comes back only for
\* an emit newer than everything it had applied, never for a late duplicate.
NoStaleResurrection ==
    [][\A s \in DOMAIN sessions :
          /\ s \in DOMAIN sessions'
          /\ sessions'[s].lastSeq >= sessions[s].lastSeq
          /\ (sessions[s].state = Unknown /\ sessions'[s].state # Unknown)
                => sessions'[s].lastSeq > sessions[s].lastSeq]_vars

\* docs/architecture.md has a session go to UNKNOWN when it is stale and its pane
\* gone. The code takes a failing list-panes for a pane that is gone
\* (Shell.PaneExists), so this is FALSE of it and no run checks it, see README.md.
ReapsOnlyGonePanes ==
    [][\A s \in DOMAIN sessions :
          (sessions[s].state # Unknown /\ sessions'[s].state = Unknown)
             => /\ sessions[s].socket # None
                /\ sessions[s].pane \notin panes[sessions[s].socket]]_vars

\* The registry implements the latest-intent register: what a session holds is
\* its stamp and state, and an id not in the map holds stamp 0 and UNKNOWN.
Intent ==
    INSTANCE LatestIntent WITH
        Stamps <- {m.seq : m \in Emits},
        intent <- [s \in SessionIds |->
                      [stamp |-> Lookup(sessions, s, 0).lastSeq,
                       state |-> Lookup(sessions, s, 0).state]]

ImplementsLatestIntent == Intent!Spec

\* A session whose pane is gone and which stays silent is reaped in the end,
\* whichever sessions list-panes fails for on the way.
Abandoned(s) ==
    /\ s \in DOMAIN sessions
    /\ sessions[s].pane # None /\ sessions[s].socket # None
    /\ sessions[s].pane \notin panes[sessions[s].socket]
    /\ sessions[s].lastEventAt + IdleLimit < MaxClock

AbandonedIsReaped ==
    \A s \in SessionIds : Abandoned(s) ~> (~Abandoned(s) \/ sessions[s].state = Unknown)
=============================================================================
