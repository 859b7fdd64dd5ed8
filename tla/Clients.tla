------------------------------ MODULE Clients -------------------------------
(***************************************************************************)
(* The two kinds of clients that outlive their daemon: the hooks' emit     *)
(* processes and a side activity. All they have in common is a daemon that *)
(* dies and is started again, so one of them is looked at.                 *)
(***************************************************************************)
EXTENDS EmitClient, Activity

VARIABLE client     \* the kind that is looked at; never changes

ClientsInit ==
    /\ Init /\ ActivityInit
    /\ \/ client = "hooks"    /\ ~running
       \/ client = "activity" /\ ~up

ClientsNext ==
    \/ client = "hooks"    /\ Next         /\ UNCHANGED <<activityVars, client>>
    \/ client = "activity" /\ ActivityNext /\ UNCHANGED <<vars, client>>

\* A hook's process runs and its deadlines pass. Of its daemon nothing is asked:
\* it may be down, or hang (a sweep that holds the registry's lock while tmux does
\* not answer).
HooksAreFair == \A h \in Hooks : WF_vars(Runs(h))

\* Events that are due come; a daemon that runs answers the activity's requests,
\* and a dial to it is not timed out for ever. Nobody has to restart, emit or
\* dispose.
ActivityIsFair ==
    /\ WF_activityVars(client = "activity" /\ Attempt)
    /\ SF_activityVars(client = "activity" /\ OnConnect)
    /\ WF_activityVars(client = "activity" /\ OnFrame)
    /\ WF_activityVars(client = "activity" /\ (OnClose \/ OnError))
    /\ WF_activityVars(client = "activity" /\ Answer)

ClientsSpec ==
    /\ ClientsInit /\ [][ClientsNext]_<<vars, activityVars, client>>
    /\ HooksAreFair /\ ActivityIsFair
=============================================================================
