------------------------------ MODULE Sessions ------------------------------
(***************************************************************************)
(* The session record of the daemon and the pure functions on it: what an  *)
(* event declares, when an emit is stale, and what folding it in changes   *)
(* (internal/session/registry.go, internal/wire/wire.go).                  *)
(*                                                                         *)
(* A registry is a function from the ids seen so far to records, so "the   *)
(* id is not in the map" is "the id is not in the function's domain".      *)
(* Wall-clock times are natural numbers; a stamp is the emit client's      *)
(* UnixNano reading.                                                       *)
(***************************************************************************)
EXTENDS Naturals

CONSTANTS
    SessionIds,     \* Claude session ids
    PaneIds,        \* tmux pane ids ("%3"); unique on one tmux server only
    Sockets         \* socket paths of the tmux servers

Unknown        == "unknown"
Working        == "working"
NeedsAttention == "needs_attention"
States         == {Unknown, Working, NeedsAttention}

\* The empty string of the optional message and record fields.
None == ""

\* StateForEvent: the event names the daemon accepts and what each declares.
StateForEvent ==
    [agent_working         |-> Working,
     agent_heartbeat       |-> Working,
     agent_needs_attention |-> NeedsAttention]

IsEvent(event) == event \in DOMAIN StateForEvent

EmitMessage ==
    [event : STRING, session : SessionIds, seq : Nat,
     pane : PaneIds \cup {None}, socket : Sockets \cup {None}]

Session ==
    [state : States, lastSeq : Nat, lastEventAt : Nat,
     pane : PaneIds \cup {None}, socket : Sockets \cup {None}]

IsRegistry(reg) == DOMAIN reg \subseteq SessionIds /\ reg \in [DOMAIN reg -> Session]

\* The record Apply creates for an id it has not seen.
FreshSession(time) ==
    [state |-> Unknown, lastSeq |-> 0, lastEventAt |-> time,
     pane |-> None, socket |-> None]

\* Get, with the fresh record standing for the missing one.
Lookup(reg, id, time) == IF id \in DOMAIN reg THEN reg[id] ELSE FreshSession(time)

\* Mutants: ties always fold; only ties are looked at.
IsIgnoredStrictly(s, m) == m.seq < s.lastSeq
IsIgnoredOnTies(s, m) ==
    m.seq = s.lastSeq /\ ~(StateForEvent[m.event] = Working /\ s.state = NeedsAttention)

\* The two cases in which Apply returns without touching the record: an older
\* stamp, or a tie other than WORKING against a held NEEDS_ATTENTION.
IsIgnored(s, m) ==
    \/ m.seq < s.lastSeq
    \/ /\ m.seq = s.lastSeq
       /\ ~(StateForEvent[m.event] = Working /\ s.state = NeedsAttention)

\* Mutant: the event's name is stored for the state it declares.
FoldEventName(s, m, time) ==
    [state |-> m.event, lastSeq |-> m.seq, lastEventAt |-> time, pane |-> m.pane, socket |-> m.socket]

Fold(s, m, time) ==
    [state       |-> StateForEvent[m.event],
     lastSeq     |-> m.seq,
     lastEventAt |-> time,
     pane        |-> IF m.pane # None THEN m.pane ELSE s.pane,
     socket      |-> IF m.socket # None THEN m.socket ELSE s.socket]

\* Apply for a recognised event: the registry afterwards. An ignored emit of
\* an unseen session still leaves the fresh record behind.
ApplyTo(reg, m, time) ==
    LET s == Lookup(reg, m.session, time)
    IN  [id \in DOMAIN reg \cup {m.session} |->
            IF id = m.session
            THEN IF IsIgnored(s, m) THEN s ELSE Fold(s, m, time)
            ELSE reg[id]]

\* MostRecent: the sessions no other session's last event comes after. The
\* code returns the one that map iteration meets first.
MostRecent(reg) ==
    {id \in DOMAIN reg : \A other \in DOMAIN reg : reg[other].lastEventAt <= reg[id].lastEventAt}

=============================================================================
