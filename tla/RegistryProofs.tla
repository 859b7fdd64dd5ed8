--------------------------- MODULE RegistryProofs ---------------------------
(***************************************************************************)
(* Proofs about the session registry, for every value of the constants:    *)
(* its type, the invariant that makes it independent of delivery order,    *)
(* that nothing superseded comes back, and that it implements the          *)
(* latest-intent register.                                                 *)
(***************************************************************************)
EXTENDS Registry, TLAPS

\* What an event declares is a state, and never UNKNOWN.
LEMMA DeclaredState ==
    ASSUME NEW event, IsEvent(event)
    PROVE  StateForEvent[event] \in {Working, NeedsAttention}
BY DEF IsEvent, StateForEvent

\* Looking a session up yields a record, the fresh one when it is missing.
LEMMA LookupType ==
    ASSUME NEW reg, IsRegistry(reg), NEW id, NEW time \in Nat
    PROVE  Lookup(reg, id, time) \in Session
BY DEF IsRegistry, Lookup, FreshSession, Session, States, Unknown

\* Apply keeps the registry well formed.
LEMMA ApplyToType ==
    ASSUME NEW reg, IsRegistry(reg), NEW m \in EmitMessage, IsEvent(m.event), NEW time \in Nat
    PROVE  IsRegistry(ApplyTo(reg, m, time))
<1> DEFINE s == Lookup(reg, m.session, time)
<1>1. s \in Session
  BY LookupType
<1>2. Fold(s, m, time) \in Session
  BY <1>1, DeclaredState DEF Fold, Session, EmitMessage, States, Working, NeedsAttention
<1>3. m.session \in SessionIds
  BY DEF EmitMessage
<1> QED
  BY <1>1, <1>2, <1>3 DEF IsRegistry, ApplyTo

-----------------------------------------------------------------------------

LEMMA InitType == Init => TypeOK
BY DEF Init, TypeOK, IsRegistry, Session

LEMMA NextType == TypeOK /\ [Next]_vars => TypeOK'
<1> SUFFICES ASSUME TypeOK, [Next]_vars PROVE TypeOK'
  OBVIOUS
<1>1. ASSUME NEW m \in Emits, Apply(m) PROVE TypeOK'
  <2>1. m \in EmitMessage /\ IsEvent(m.event)
    BY <1>1, EmitsAssumption DEF Apply, Valid
  <2>2. IsRegistry(sessions')
    BY <1>1, <2>1, ApplyToType DEF Apply, TypeOK
  <2>3. <<m.seq, StateForEvent[m.event]>> \in Nat \X {Working, NeedsAttention}
    BY <2>1, DeclaredState DEF EmitMessage
  <2>4. delivered' \in [SessionIds -> SUBSET (Nat \X {Working, NeedsAttention})]
    BY <1>1, <2>1, <2>3 DEF Apply, TypeOK, EmitMessage
  <2> QED
    BY <1>1, <2>2, <2>4 DEF Apply, TypeOK
<1>2. CASE Sweep
  <2>1. PICK failed : GC(failed)
    BY <1>2 DEF Sweep
  <2>2. \A s \in DOMAIN sessions : sessions[s] \in Session /\ sessions[s].lastSeq \in Nat
    BY DEF TypeOK, IsRegistry, Session
  <2>3. \A s \in DOMAIN sessions : [sessions[s] EXCEPT !.state = Unknown] \in Session
    BY <2>2 DEF Session, States
  <2>4. IsRegistry(sessions')
    BY <2>1, <2>2, <2>3 DEF GC, TypeOK, IsRegistry
  <2>5. reapedAt' \in [SessionIds -> Nat]
    BY <2>1, <2>2 DEF GC, Reapable, TypeOK
  <2> QED
    BY <2>1, <2>4, <2>5 DEF GC, TypeOK
<1>3. CASE Tick
  BY <1>3 DEF Tick, TypeOK
<1>4. ASSUME NEW k \in Sockets, NEW p \in PaneIds, ClosePane(k, p) PROVE TypeOK'
  BY <1>4 DEF ClosePane, TypeOK
<1>5. CASE UNCHANGED vars
  BY <1>5 DEF vars, TypeOK
<1> QED
  BY <1>1, <1>2, <1>3, <1>4, <1>5 DEF Next

\* Every reachable registry is well formed.
THEOREM TypeCorrect == Spec => []TypeOK
BY InitType, NextType, PTL DEF Spec

-----------------------------------------------------------------------------
(* The state is determined by what was delivered. The two invariants are    *)
(* inductive together: that a held NEEDS_ATTENTION has no WORKING at its    *)
(* stamp needs the held stamp to be the highest delivered.                  *)

IInv == TypeOK /\ HoldsNewestStamp /\ StateIsDetermined

LEMMA InitIInv == Init => IInv
<1> SUFFICES ASSUME Init PROVE HoldsNewestStamp /\ StateIsDetermined
  BY InitType DEF IInv
<1>1. DOMAIN sessions = {}
  BY DEF Init
<1> QED
  BY <1>1 DEF Init, HoldsNewestStamp, StateIsDetermined, Lookup, FreshSession,
              Unknown, Working, NeedsAttention

\* Applying an emit to a session keeps what the invariant says of that session.
LEMMA ApplyIInv ==
    ASSUME IInv, NEW m \in Emits, Apply(m)
    PROVE  HoldsNewestStamp' /\ StateIsDetermined'
<1> DEFINE id == m.session
           old == Lookup(sessions, id, now)
           d == <<m.seq, StateForEvent[m.event]>>
<1>1. m \in EmitMessage /\ IsEvent(m.event)
  BY EmitsAssumption DEF Apply, Valid
<1>2. /\ id \in SessionIds
      /\ m.seq \in Nat
      /\ StateForEvent[m.event] \in {Working, NeedsAttention}
  BY <1>1, DeclaredState DEF EmitMessage
<1>3. /\ DOMAIN sessions' = DOMAIN sessions \cup {id}
      /\ \A s \in DOMAIN sessions : s # id => sessions'[s] = sessions[s]
      /\ IsIgnored(old, m) => sessions'[id] = old
      /\ ~IsIgnored(old, m) => sessions'[id] = Fold(old, m, now)
  <2>1. sessions' = ApplyTo(sessions, m, now)
    BY DEF Apply
  <2> QED
    BY <2>1 DEF ApplyTo
<1>4. /\ delivered'[id] = delivered[id] \cup {d}
      /\ \A s \in SessionIds : s # id => delivered'[s] = delivered[s]
      /\ reapedAt' = reapedAt
  BY <1>2 DEF Apply, IInv, TypeOK
<1>5. /\ old.lastSeq \in Nat
      /\ \A s \in DOMAIN sessions : sessions[s].lastSeq \in Nat
      /\ reapedAt[id] \in Nat
      /\ DOMAIN sessions \subseteq SessionIds
  BY <1>2, LookupType DEF IInv, TypeOK, IsRegistry, Session
\* What the invariant says of the record Apply looks up, found or fresh.
<1>6. /\ \A e \in delivered[id] : e[1] <= old.lastSeq
      /\ old.lastSeq # 0 => \E e \in delivered[id] : e[1] = old.lastSeq
  <2>1. CASE id \in DOMAIN sessions
    BY <2>1, <1>2 DEF IInv, HoldsNewestStamp, Lookup
  <2>2. CASE id \notin DOMAIN sessions
    BY <2>2, <1>2 DEF IInv, HoldsNewestStamp, Lookup, FreshSession
  <2> QED
    BY <2>1, <2>2
<1>8. HoldsNewestStamp'
  <2> SUFFICES ASSUME NEW s \in SessionIds
               PROVE  /\ s \in DOMAIN sessions' <=> delivered'[s] # {}
                      /\ s \in DOMAIN sessions' =>
                            /\ \A e \in delivered'[s] : e[1] <= sessions'[s].lastSeq
                            /\ sessions'[s].lastSeq # 0 =>
                                  \E e \in delivered'[s] : e[1] = sessions'[s].lastSeq
    BY DEF HoldsNewestStamp
  <2>1. CASE s # id
    BY <2>1, <1>3, <1>4 DEF IInv, HoldsNewestStamp
  <2>2. CASE s = id
    <3>1. d \in delivered'[id] /\ d[1] = m.seq
      BY <1>4
    <3>2. CASE IsIgnored(old, m)
      <4>1. m.seq <= old.lastSeq
        BY <3>2, <1>2, <1>5 DEF IsIgnored
      <4> QED
        BY <2>2, <3>1, <3>2, <4>1, <1>3, <1>4, <1>6
    <3>3. CASE ~IsIgnored(old, m)
      <4>1. m.seq >= old.lastSeq
        BY <3>3, <1>2, <1>5 DEF IsIgnored
      <4>2. sessions'[id].lastSeq = m.seq
        BY <3>3, <1>3 DEF Fold
      <4>3. \A e \in delivered[id] : e[1] <= m.seq
        <5> SUFFICES ASSUME NEW e \in delivered[id] PROVE e[1] <= m.seq
          OBVIOUS
        <5>1. e[1] \in Nat
          BY <1>2 DEF IInv, TypeOK
        <5> QED
          BY <5>1, <4>1, <1>2, <1>5, <1>6
      <4>4. \A e \in delivered'[id] : e[1] <= m.seq
        BY <4>3, <3>1, <1>2, <1>4
      <4> QED
        BY <2>2, <3>1, <4>2, <4>4, <1>3
    <3> QED
      BY <3>2, <3>3
  <2> QED
    BY <2>1, <2>2
<1>7. /\ reapedAt[id] <= old.lastSeq
      /\ old.state = Unknown <=> reapedAt[id] = old.lastSeq
      /\ old.state = Working => <<old.lastSeq, Working>> \in delivered[id]
      /\ old.state = NeedsAttention =>
            /\ <<old.lastSeq, NeedsAttention>> \in delivered[id]
            /\ <<old.lastSeq, Working>> \notin delivered[id]
  BY <1>2 DEF IInv, StateIsDetermined
<1>9. StateIsDetermined'
  <2> SUFFICES ASSUME NEW s \in SessionIds, NEW rec, rec = Lookup(sessions', s, now')
               PROVE  /\ reapedAt'[s] <= rec.lastSeq
                      /\ rec.state = Unknown <=> reapedAt'[s] = rec.lastSeq
                      /\ rec.state = Working => <<rec.lastSeq, Working>> \in delivered'[s]
                      /\ rec.state = NeedsAttention =>
                            /\ <<rec.lastSeq, NeedsAttention>> \in delivered'[s]
                            /\ <<rec.lastSeq, Working>> \notin delivered'[s]
    BY DEF StateIsDetermined
  <2>1. CASE s # id
    <3>1. rec = Lookup(sessions, s, now)
      BY <2>1, <1>3 DEF Lookup, Apply
    <3> QED
      BY <3>1, <2>1, <1>4 DEF IInv, StateIsDetermined
  <2>2. CASE s = id /\ IsIgnored(old, m)
    <3>1. rec = old
      BY <2>2, <1>3 DEF Lookup
    <3>2. ASSUME old.state = NeedsAttention PROVE d # <<old.lastSeq, Working>>
      BY <2>2, <3>2, <1>2, <1>5 DEF IsIgnored
    <3> QED
      BY <2>2, <3>1, <3>2, <1>4, <1>7
  <2>3. CASE s = id /\ ~IsIgnored(old, m)
    <3>1. rec = Fold(old, m, now)
      BY <2>3, <1>3 DEF Lookup
    <3>2. rec.lastSeq = m.seq /\ rec.state = StateForEvent[m.event]
      BY <3>1 DEF Fold
    <3>3. \/ m.seq > old.lastSeq
          \/ m.seq = old.lastSeq /\ rec.state = Working /\ old.state = NeedsAttention
      BY <2>3, <3>2, <1>2, <1>5 DEF IsIgnored
    <3>4. reapedAt[id] < m.seq
      BY <3>3, <1>2, <1>5, <1>7 DEF NeedsAttention, Unknown
    <3>5. <<m.seq, Working>> \notin delivered[id] \/ rec.state = Working
      BY <3>3, <1>2, <1>5, <1>6
    <3> QED
      BY <2>3, <3>2, <3>4, <3>5, <1>2, <1>4, <1>5 DEF Working, NeedsAttention, Unknown
  <2> QED
    BY <2>1, <2>2, <2>3
<1> QED
  BY <1>8, <1>9

\* A sweep forgets states and records the stamps it forgot them at.
LEMMA GCIInv ==
    ASSUME IInv, NEW failed, GC(failed)
    PROVE  HoldsNewestStamp' /\ StateIsDetermined'
<1> DEFINE reaped == Reapable(failed)
<1>1. /\ DOMAIN sessions' = DOMAIN sessions
      /\ \A s \in DOMAIN sessions :
            sessions'[s] = IF s \in reaped THEN [sessions[s] EXCEPT !.state = Unknown]
                           ELSE sessions[s]
      /\ \A s \in SessionIds :
            reapedAt'[s] = IF s \in reaped THEN sessions[s].lastSeq ELSE reapedAt[s]
      /\ delivered' = delivered
      /\ reaped \subseteq DOMAIN sessions
  BY DEF GC, Reapable
<1>2. \A s \in DOMAIN sessions : sessions[s] \in Session /\ s \in SessionIds
  BY DEF IInv, TypeOK, IsRegistry
<1>3. \A s \in DOMAIN sessions :
         /\ sessions'[s].lastSeq = sessions[s].lastSeq
         /\ s \in reaped => sessions'[s].state = Unknown
         /\ s \notin reaped => sessions'[s] = sessions[s]
  BY <1>1, <1>2 DEF Session
<1>4. HoldsNewestStamp'
  BY <1>1, <1>3 DEF IInv, HoldsNewestStamp
<1>5. StateIsDetermined'
  <2> SUFFICES ASSUME NEW s \in SessionIds, NEW rec, rec = Lookup(sessions', s, now')
               PROVE  /\ reapedAt'[s] <= rec.lastSeq
                      /\ rec.state = Unknown <=> reapedAt'[s] = rec.lastSeq
                      /\ rec.state = Working => <<rec.lastSeq, Working>> \in delivered'[s]
                      /\ rec.state = NeedsAttention =>
                            /\ <<rec.lastSeq, NeedsAttention>> \in delivered'[s]
                            /\ <<rec.lastSeq, Working>> \notin delivered'[s]
    BY DEF StateIsDetermined
  <2>1. CASE s \in reaped
    <3>1. rec = sessions'[s] /\ s \in DOMAIN sessions
      BY <2>1, <1>1 DEF Lookup
    <3>2. rec.state = Unknown /\ reapedAt'[s] = rec.lastSeq /\ rec.lastSeq \in Nat
      BY <2>1, <3>1, <1>1, <1>2, <1>3 DEF Session
    <3> QED
      BY <3>2 DEF Unknown, Working, NeedsAttention
  <2>2. CASE s \notin reaped
    <3>1. rec.lastSeq = Lookup(sessions, s, now).lastSeq /\ rec.state = Lookup(sessions, s, now).state
      BY <2>2, <1>1, <1>3 DEF Lookup, FreshSession
    <3> QED
      BY <2>2, <3>1, <1>1 DEF IInv, StateIsDetermined
  <2> QED
    BY <2>1, <2>2
<1> QED
  BY <1>4, <1>5

LEMMA NextIInv == IInv /\ [Next]_vars => IInv'
<1> SUFFICES ASSUME IInv, [Next]_vars PROVE HoldsNewestStamp' /\ StateIsDetermined'
  BY NextType DEF IInv
<1>1. ASSUME NEW m \in Emits, Apply(m) PROVE HoldsNewestStamp' /\ StateIsDetermined'
  BY <1>1, ApplyIInv
<1>2. CASE Sweep
  BY <1>2, GCIInv DEF Sweep
\* Nothing else touches the registry; the clock only dates the fresh record.
<1>3. ASSUME UNCHANGED <<sessions, delivered, reapedAt>>
      PROVE  HoldsNewestStamp' /\ StateIsDetermined'
  BY <1>3 DEF IInv, HoldsNewestStamp, StateIsDetermined, Lookup, FreshSession
<1>4. CASE Tick
  BY <1>4, <1>3 DEF Tick
<1>5. ASSUME NEW k \in Sockets, NEW p \in PaneIds, ClosePane(k, p)
      PROVE  HoldsNewestStamp' /\ StateIsDetermined'
  BY <1>5, <1>3 DEF ClosePane
<1>6. CASE UNCHANGED vars
  BY <1>6, <1>3 DEF vars
<1> QED
  BY <1>1, <1>2, <1>4, <1>5, <1>6 DEF Next

\* Whatever order, duplication or loss the emits meet, each session holds the
\* newest stamp delivered to it and the state that stamp declares.
THEOREM OrderIndependence == Spec => [](HoldsNewestStamp /\ StateIsDetermined)
<1>1. IInv => HoldsNewestStamp /\ StateIsDetermined
  BY DEF IInv
<1> QED
  BY <1>1, InitIInv, NextIInv, PTL DEF Spec

\* The part about stamps: a session's is the newest of those delivered to it.
THEOREM NewestStampHeld == Spec => []HoldsNewestStamp
BY OrderIndependence, PTL

-----------------------------------------------------------------------------
(* Nothing superseded comes back. *)

\* What one step may do to a session already in the map.
StepRespectsStamp(s) ==
    /\ s \in DOMAIN sessions'
    /\ sessions'[s].lastSeq >= sessions[s].lastSeq
    /\ (sessions[s].state = Unknown /\ sessions'[s].state # Unknown)
          => sessions'[s].lastSeq > sessions[s].lastSeq

LEMMA NextRespectsStamp ==
    TypeOK /\ [Next]_vars => \A s \in DOMAIN sessions : StepRespectsStamp(s)
<1> SUFFICES ASSUME TypeOK, [Next]_vars, NEW s \in DOMAIN sessions
             PROVE  StepRespectsStamp(s)
  OBVIOUS
<1>1. sessions[s] \in Session /\ sessions[s].lastSeq \in Nat
  BY DEF TypeOK, IsRegistry, Session
<1>2. ASSUME NEW m \in Emits, Apply(m) PROVE StepRespectsStamp(s)
  <2>1. m.seq \in Nat
    BY <1>2, EmitsAssumption DEF Apply, Valid, EmitMessage
  <2>2. CASE s = m.session /\ ~IsIgnored(sessions[s], m)
    <3>1. s \in DOMAIN sessions' /\ sessions'[s] = Fold(sessions[s], m, now)
      BY <2>2, <1>2 DEF Apply, ApplyTo, Lookup
    <3>2. \/ m.seq > sessions[s].lastSeq
          \/ m.seq = sessions[s].lastSeq /\ sessions[s].state = NeedsAttention
      BY <2>1, <2>2, <1>1 DEF IsIgnored
    <3> QED
      BY <3>1, <3>2, <2>1, <1>1 DEF StepRespectsStamp, Fold, NeedsAttention, Unknown
  <2>3. CASE ~(s = m.session /\ ~IsIgnored(sessions[s], m))
    <3>1. s \in DOMAIN sessions' /\ sessions'[s] = sessions[s]
      BY <2>3, <1>2 DEF Apply, ApplyTo, Lookup
    <3> QED
      BY <3>1, <1>1 DEF StepRespectsStamp
  <2> QED
    BY <2>2, <2>3
<1>3. ASSUME NEW failed, GC(failed) PROVE StepRespectsStamp(s)
  <2>1. /\ s \in DOMAIN sessions'
        /\ \/ sessions'[s] = sessions[s]
           \/ sessions'[s] = [sessions[s] EXCEPT !.state = Unknown]
    BY <1>3 DEF GC
  <2> QED
    BY <2>1, <1>1 DEF StepRespectsStamp, Session
<1>4. ASSUME UNCHANGED sessions PROVE StepRespectsStamp(s)
  BY <1>4, <1>1 DEF StepRespectsStamp
<1>5. CASE Sweep
  BY <1>5, <1>3 DEF Sweep
<1>6. CASE Tick \/ UNCHANGED vars
  BY <1>6, <1>4 DEF Tick, vars
<1>7. ASSUME NEW k \in Sockets, NEW p \in PaneIds, ClosePane(k, p)
      PROVE  StepRespectsStamp(s)
  BY <1>7, <1>4 DEF ClosePane
<1> QED
  BY <1>2, <1>5, <1>6, <1>7 DEF Next

\* A session never leaves the map, its stamp never falls, and once reaped only
\* an emit newer than all it had applied brings it back.
THEOREM NothingSupersededReturns == Spec => NoStaleResurrection
<1>1. TypeOK /\ [Next]_vars =>
         [\A s \in DOMAIN sessions :
             /\ s \in DOMAIN sessions'
             /\ sessions'[s].lastSeq >= sessions[s].lastSeq
             /\ (sessions[s].state = Unknown /\ sessions'[s].state # Unknown)
                   => sessions'[s].lastSeq > sessions[s].lastSeq]_vars
  BY NextRespectsStamp DEF StepRespectsStamp
<1> QED
  BY <1>1, TypeCorrect, PTL DEF Spec, NoStaleResurrection

-----------------------------------------------------------------------------
(* The registry implements the latest-intent register. *)

\* The refinement mapping, as the instance substitutes it.
Held(s) == [stamp |-> Lookup(sessions, s, 0).lastSeq, state |-> Lookup(sessions, s, 0).state]

LEMMA InitRefines == Init => Intent!Init
BY DEF Init, Intent!Init, Lookup, FreshSession, Unknown

LEMMA NextRefines ==
    TypeOK /\ [Next]_vars
       => [Intent!Next]_([s \in SessionIds |-> Held(s)])
<1> SUFFICES ASSUME TypeOK, [Next]_vars
             PROVE  Intent!Next \/ \A s \in SessionIds : Held(s)' = Held(s)
  BY DEF Held
<1>1. ASSUME NEW m \in Emits, Apply(m)
      PROVE  Intent!Next \/ \A s \in SessionIds : Held(s)' = Held(s)
  <2> DEFINE id == m.session
             old == Lookup(sessions, id, now)
  <2>1. /\ IsEvent(m.event) /\ id \in SessionIds /\ m.seq \in Nat
        /\ StateForEvent[m.event] \in {Working, NeedsAttention}
    BY <1>1, EmitsAssumption, DeclaredState DEF Apply, Valid, EmitMessage
  <2>2. old.lastSeq \in Nat /\ old.lastSeq = Held(id).stamp /\ old.state = Held(id).state
    BY <2>1, LookupType DEF TypeOK, Session, Lookup, FreshSession, Held
  <2>3. \A s \in SessionIds : s # id => Held(s)' = Held(s)
    BY <1>1 DEF Apply, ApplyTo, Held, Lookup, FreshSession
  <2>4. CASE IsIgnored(old, m)
    <3>1. Held(id)' = Held(id)
      BY <2>4, <2>2, <1>1 DEF Apply, ApplyTo, Held, Lookup, FreshSession
    <3> QED
      BY <3>1, <2>3
  <2>5. CASE ~IsIgnored(old, m)
    <3>1. Held(id)' = [stamp |-> m.seq, state |-> StateForEvent[m.event]]
      BY <2>5, <1>1 DEF Apply, ApplyTo, Held, Lookup, Fold
    <3>2. Intent!Newer(Held(id)', Held(id))
      BY <3>1, <2>1, <2>2, <2>5 DEF IsIgnored, Intent!Newer, Working, NeedsAttention
    <3>3. Intent!Declare(id)
      <4> DEFINE new == [stamp |-> m.seq, state |-> StateForEvent[m.event]]
                 held == [s \in SessionIds |-> Held(s)]
      <4>1. Intent!Newer(new, held[id])
        BY <3>1, <3>2, <2>1
      <4>2. [s \in SessionIds |-> Held(s)'] = [held EXCEPT ![id] = new]
        BY <3>1, <2>1, <2>3
      <4>3. new.stamp \in {e.seq : e \in Emits} /\ new.state \in {"working", "needs_attention"}
        BY <2>1 DEF Working, NeedsAttention
      <4> QED
        BY <4>1, <4>2, <4>3 DEF Intent!Declare, Held
    <3> QED
      BY <3>3, <2>1 DEF Intent!Next
  <2> QED
    BY <2>4, <2>5
<1>2. ASSUME NEW failed, GC(failed)
      PROVE  Intent!Next \/ \A s \in SessionIds : Held(s)' = Held(s)
  <2> DEFINE reaped == Reapable(failed)
  <2>1. /\ reaped \subseteq SessionIds
        /\ \A s \in reaped : Held(s).state # Unknown
    BY DEF Reapable, TypeOK, IsRegistry, Held, Lookup
  <2>2. \A s \in SessionIds :
           Held(s)' = IF s \in reaped THEN [stamp |-> Held(s).stamp, state |-> Unknown]
                      ELSE Held(s)
    <3> SUFFICES ASSUME NEW s \in SessionIds
                 PROVE  Held(s)' = IF s \in reaped
                                   THEN [stamp |-> Held(s).stamp, state |-> Unknown]
                                   ELSE Held(s)
      OBVIOUS
    <3>1. CASE s \in reaped
      <4>1. s \in DOMAIN sessions /\ sessions[s] \in Session
        BY <3>1 DEF Reapable, TypeOK, IsRegistry
      <4>2. s \in DOMAIN sessions' /\ sessions'[s] = [sessions[s] EXCEPT !.state = Unknown]
        BY <3>1, <4>1, <1>2 DEF GC
      <4>3. sessions'[s].lastSeq = sessions[s].lastSeq /\ sessions'[s].state = Unknown
        BY <4>1, <4>2 DEF Session
      <4>4. Held(s)' = [stamp |-> sessions[s].lastSeq, state |-> Unknown]
        BY <4>2, <4>3 DEF Held, Lookup
      <4>5. Held(s).stamp = sessions[s].lastSeq
        BY <4>1 DEF Held, Lookup
      <4> QED
        BY <3>1, <4>4, <4>5
    <3>2. CASE s \notin reaped
      BY <3>2, <1>2 DEF GC, Held, Lookup, FreshSession
    <3> QED
      BY <3>1, <3>2
  <2>3. Intent!Forget(reaped)
    BY <2>1, <2>2 DEF Intent!Forget, Held, Unknown
  <2> QED
    BY <2>1, <2>3 DEF Intent!Next
<1>3. ASSUME UNCHANGED sessions PROVE \A s \in SessionIds : Held(s)' = Held(s)
  BY <1>3 DEF Held, Lookup, FreshSession
<1>4. CASE Sweep
  BY <1>4, <1>2 DEF Sweep
<1>5. CASE Tick \/ UNCHANGED vars
  BY <1>5, <1>3 DEF Tick, vars
<1>6. ASSUME NEW k \in Sockets, NEW p \in PaneIds, ClosePane(k, p)
      PROVE  \A s \in SessionIds : Held(s)' = Held(s)
  BY <1>6, <1>3 DEF ClosePane
<1> QED
  BY <1>1, <1>4, <1>5, <1>6 DEF Next

\* Apply and GC, over any world of emits, panes and tmux failures, do nothing
\* but declare newer intents and forget held ones.
THEOREM RegistryImplementsLatestIntent == Spec => ImplementsLatestIntent
BY InitRefines, NextRefines, TypeCorrect, PTL
   DEF Spec, ImplementsLatestIntent, Intent!Spec, Held
=============================================================================
