---------------------------- MODULE LatestIntent ----------------------------
(***************************************************************************)
(* What the session registry promises, with nothing of how: one register   *)
(* per session that holds the newest declaration. A declaration replaces   *)
(* the held one only if it is newer, where a later stamp is newer and, at  *)
(* equal stamps, WORKING is newer than NEEDS_ATTENTION. A register may be  *)
(* forgotten, which keeps its stamp, so nothing it has already superseded  *)
(* can come back.                                                          *)
(***************************************************************************)
EXTENDS Naturals

CONSTANTS
    SessionIds,
    Stamps          \* the stamps the emit clients may take

VARIABLE intent     \* intent[s] = [stamp, state]

Intents == [stamp : Nat, state : {"unknown", "working", "needs_attention"}]

Newer(a, b) ==
    \/ a.stamp > b.stamp
    \/ a.stamp = b.stamp /\ a.state = "working" /\ b.state = "needs_attention"

Init == intent = [s \in SessionIds |-> [stamp |-> 0, state |-> "unknown"]]

\* A newer declaration for s takes effect.
Declare(s) ==
    \E stamp \in Stamps, state \in {"working", "needs_attention"} :
        /\ Newer([stamp |-> stamp, state |-> state], intent[s])
        /\ intent' = [intent EXCEPT ![s] = [stamp |-> stamp, state |-> state]]

\* The registers of S are forgotten together.
Forget(S) ==
    /\ \A s \in S : intent[s].state # "unknown"
    /\ intent' = [s \in SessionIds |->
                     IF s \in S THEN [stamp |-> intent[s].stamp, state |-> "unknown"]
                     ELSE intent[s]]

Next == (\E s \in SessionIds : Declare(s)) \/ (\E S \in SUBSET SessionIds : Forget(S))

Spec == Init /\ [][Next]_intent
=============================================================================
