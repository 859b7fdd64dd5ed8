---------------------------- MODULE MCClients ------------------------------
(***************************************************************************)
(* Instance of Clients for TLC: the two events the plugin's hooks emit,    *)
(* an event the client does not know, and a payload without a session.     *)
(***************************************************************************)
EXTENDS Clients

MCInputs ==
    {[event |-> "agent_working",         session |-> "s"],
     [event |-> "agent_needs_attention", session |-> "s"],
     [event |-> "agent_paused",          session |-> "s"],
     [event |-> "agent_working",         session |-> None]}
=============================================================================
