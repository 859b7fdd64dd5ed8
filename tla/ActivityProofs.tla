--------------------------- MODULE ActivityProofs ---------------------------
(***************************************************************************)
(* The SDK's client, for any number of changes and restarts: it keeps a    *)
(* healthy link and reports every lost connection once.                    *)
(***************************************************************************)
EXTENDS Activity, TLAPS

\* The loop's place and the socket go together, and the connect timeout is
\* armed during an attempt only.
LoopFollowsLink ==
    /\ link \in {"none", "dialing", "open", "cut", "destroyed"}
    /\ loop \in {"start", "dialing", "connected", "sleep", "ended"}
    /\ link = "none" <=> loop \in {"start", "sleep", "ended"}
    /\ link = "dialing" => loop = "dialing"
    /\ link = "open" => loop = "connected"
    /\ timer => loop = "dialing"
    /\ socket <=> link # "none"

\* An established connection has its socket and its keepalive until it ends or
\* dispose comes.
LinkIsTended == (loop = "connected" /\ ~stopped) => (socket /\ keepalive)

Counts == connects \in Nat /\ drops \in Nat

IInv == LoopFollowsLink /\ Counts /\ DropsReportedOnce /\ LinkIsTended

LEMMA InitInv == ActivityInit => IInv
BY DEF ActivityInit, IInv, LoopFollowsLink, Counts, DropsReportedOnce, LinkIsTended

LEMMA NextInv == IInv /\ [ActivityNext]_activityVars => IInv'
<1> SUFFICES ASSUME IInv, [ActivityNext]_activityVars PROVE IInv'
    OBVIOUS
<1> USE DEF IInv, LoopFollowsLink, Counts, DropsReportedOnce, LinkIsTended, clientVars, linkVars
<1>1. ASSUME NEW s, Declare(s) PROVE IInv'
    BY <1>1 DEF Declare
<1>2. CASE Reap
    BY <1>2 DEF Reap
<1>3. CASE Answer
    BY <1>3 DEF Answer
<1>4. CASE DaemonDown \/ DaemonUp
    BY <1>4 DEF DaemonDown, DaemonUp
<1>5. CASE Attempt
    BY <1>5 DEF Attempt
<1>6. CASE OnConnect
    BY <1>6 DEF OnConnect
<1>7. CASE OnFrame
    BY <1>7 DEF OnFrame
<1>8. CASE OnClose \/ OnError \/ OnTimeout
  <2>1. /\ link' = "none" /\ ~socket' /\ ~timer' /\ loop' = IF stopped THEN "ended" ELSE "sleep"
        /\ drops' = IF loop = "connected" /\ ~stopped THEN drops + 1 ELSE drops
        /\ UNCHANGED <<stopped, connects>>
      BY <1>8 DEF OnClose, OnError, OnTimeout, Finish
  <2>2. LoopFollowsLink'
      BY <2>1
  <2>3. CASE stopped
      BY <2>1, <2>2, <2>3
  <2>4. CASE ~stopped
      BY <2>1, <2>2, <2>4
  <2> QED
      BY <2>3, <2>4
<1>9. CASE Dispose
    BY <1>9 DEF Dispose
<1>10. CASE LateClose
    BY <1>10 DEF LateClose
<1>11. CASE UNCHANGED activityVars
    BY <1>11 DEF activityVars
<1> QED
    BY <1>1, <1>2, <1>3, <1>4, <1>5, <1>6, <1>7, <1>8, <1>9, <1>10, <1>11 DEF ActivityNext

LEMMA Invariant == ActivitySpec => []IInv
BY InitInv, NextInv, PTL DEF ActivitySpec

\* Every connection that ends on its own is reported once, and nothing else.
THEOREM EveryDropReportedOnce == ActivitySpec => []DropsReportedOnce
<1>1. IInv => DropsReportedOnce
    BY DEF IInv
<1> QED
    BY <1>1, Invariant, PTL

\* The client neither ends an established connection nor loses its socket or its
\* keepalive: no timer and no second event of an earlier attempt reaches it.
THEOREM LinkIsKept == ActivitySpec => HealthyLinkIsKept
<1>1. IInv /\ IInv' /\ [ActivityNext]_activityVars
        => [link = "open" => /\ loop' = "connected"
                             /\ stopped' \/ (socket' /\ keepalive')]_activityVars
  <2> SUFFICES ASSUME IInv, IInv', ActivityNext, link = "open"
               PROVE  loop' = "connected" /\ (stopped' \/ (socket' /\ keepalive'))
      OBVIOUS
  <2>1. loop = "connected" /\ ~timer
      BY DEF IInv, LoopFollowsLink
  <2>2. loop' = "connected"
      BY <2>1 DEF ActivityNext, Declare, Reap, Answer, DaemonDown, DaemonUp, Attempt, OnConnect,
                  OnFrame, OnClose, OnError, OnTimeout, LateClose, Dispose, clientVars
  <2> QED
      BY <2>2 DEF IInv, LinkIsTended
<1> QED
    BY <1>1, Invariant, PTL DEF ActivitySpec, HealthyLinkIsKept
=============================================================================
