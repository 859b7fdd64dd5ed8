----------------------------- MODULE MCRegistry -----------------------------
(***************************************************************************)
(* Instances of Registry for TLC.                                          *)
(***************************************************************************)
EXTENDS Registry

\* An emit of the hook of session s, taken at stamp seq.
Emit(s, event, seq, pane, socket) ==
    [session |-> s, event |-> event, seq |-> seq, pane |-> pane, socket |-> socket]

\* Two sessions. The first has every event at two stamps, so that ties, stale
\* deliveries and duplicates all occur, an emit from outside tmux, one after
\* it was resumed in another pane and an unrecognised event; the second shares
\* the pane id but runs on the default server.
MCEmits ==
    {Emit("s1", event, seq, "%1", "tmux.sock") :
        event \in {"agent_working", "agent_needs_attention"}, seq \in {1, 2}}
    \cup {Emit("s1", "agent_heartbeat", 2, None, None),
          Emit("s1", "agent_working", 3, "%2", "tmux.sock"),
          Emit("s1", "agent_paused", 4, "%1", "tmux.sock")}
    \cup {Emit("s2", "agent_needs_attention", 1, "%1", None),
          Emit("s2", "agent_working", 0, "%1", None)}
=============================================================================
