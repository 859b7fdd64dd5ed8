-------------------------- MODULE EmitClientProofs --------------------------
(***************************************************************************)
(* Proofs about the emit client and the registry it reports to, for any    *)
(* number of hooks, sessions, readings of the clock and deaths of the      *)
(* daemon.                                                                 *)
(***************************************************************************)
EXTENDS EmitClient, TLAPS

\* A hook with a message: what it sends is settled.
Good(h) ==
    /\ hook[h].pc \notin {"idle", "started"}
    /\ IsEvent(hook[h].event) /\ hook[h].session \in SessionIds /\ hook[h].seq > 0

\* The registry has seen the hook's message. At its very stamp it may hold
\* NEEDS_ATTENTION only if the message did not say WORKING.
Held(h) ==
    LET s == hook[h].session
    IN  /\ s \in DOMAIN registry
        /\ registry[s].lastSeq >= hook[h].seq
        /\ (registry[s].lastSeq = hook[h].seq /\ StateForEvent[hook[h].event] = Working)
              => registry[s].state # NeedsAttention

\* What the registry holds for session s is what hook h said.
Said(h, s) ==
    /\ hook[h].session = s
    /\ hook[h].seq = registry[s].lastSeq
    /\ StateForEvent[hook[h].event] = registry[s].state

StampedIsGood == \A h \in Hooks : hook[h].pc \in {"dial", "await", "sent"} => Good(h)
RequestsTrue  == \A r \in requests : Good(r[1]) /\ r[3] = Message(r[1])
ReachedIsHeld == \A h \in Hooks : Reached(h) => Good(h) /\ Held(h)
HeldWasSaid   == \A s \in DOMAIN registry : \E h \in Hooks : Reached(h) /\ Said(h, s)

\* An ack that the present daemon vouches for is of something it has served.
AcksAreTrue ==
    /\ owed \subseteq served
    /\ \A h \in Hooks : vouched[h] <= crashes
    /\ \A h \in Hooks : (h \in acks \/ hook[h].pc = "sent") /\ vouched[h] = crashes => Reached(h)

IInv ==
    TypeOK /\ StampedIsGood /\ RequestsTrue /\ ReachedIsHeld /\ HeldWasSaid /\ AcksAreTrue

Places == {"idle", "started", "dial", "await", "sent", "dropped"}

HookRecord == [pc : Places, event : {i.event : i \in Inputs} \cup {None},
               session : SessionIds \cup {None}, seq : Nat, attempt : Attempts]

USE DEF Attempts, daemonVars

-----------------------------------------------------------------------------
(* The registry *)

\* Apply: one record changes, and only if the message is not ignored.
LEMMA ApplyFacts ==
    ASSUME NEW reg, IsRegistry(reg), NEW m \in EmitMessage, IsEvent(m.event)
    PROVE  /\ IsRegistry(ApplyTo(reg, m, 0))
           /\ DOMAIN ApplyTo(reg, m, 0) = DOMAIN reg \cup {m.session}
           /\ \A id \in DOMAIN reg \ {m.session} : ApplyTo(reg, m, 0)[id] = reg[id]
           /\ ApplyTo(reg, m, 0)[m.session] =
                 IF IsIgnored(Lookup(reg, m.session, 0), m)
                 THEN Lookup(reg, m.session, 0) ELSE Fold(Lookup(reg, m.session, 0), m, 0)
<1> DEFINE s   == Lookup(reg, m.session, 0)
           new == ApplyTo(reg, m, 0)
<1>1. s \in Session
    BY DEF Lookup, FreshSession, Session, IsRegistry, States, Unknown
<1>2. StateForEvent[m.event] \in States
    BY DEF StateForEvent, IsEvent, States
<1>3. Fold(s, m, 0) \in Session
    BY <1>1, <1>2 DEF Fold, Session, EmitMessage
<1>4. new = [id \in DOMAIN reg \cup {m.session} |->
                IF id = m.session THEN IF IsIgnored(s, m) THEN s ELSE Fold(s, m, 0)
                ELSE reg[id]]
    BY DEF ApplyTo
<1>5. m.session \in SessionIds
    BY DEF EmitMessage
<1> HIDE DEF s, new
<1>6. IsRegistry(new)
    BY <1>1, <1>3, <1>4, <1>5 DEF IsRegistry
<1> QED
    BY <1>4, <1>6 DEF s, new

-----------------------------------------------------------------------------
(* Types *)

LEMMA MessageFacts ==
    ASSUME TypeOK, NEW h \in Hooks, Good(h)
    PROVE  Message(h) \in EmitMessage /\ IsEvent(Message(h).event)
<1>1. hook[h].event \in STRING
  <2>1. hook[h].event \in DOMAIN StateForEvent
      BY DEF Good, IsEvent
  <2>2. DOMAIN StateForEvent = {"agent_working", "agent_heartbeat", "agent_needs_attention"}
      BY DEF StateForEvent
  <2>3. hook[h].event # None
      BY <2>1, <2>2 DEF None
  <2>4. PICK input \in Inputs : hook[h].event = input.event
      BY <2>3 DEF TypeOK
  <2> QED
      BY <2>4, InputsAssumption
<1>2. hook[h].seq \in Nat
    BY DEF TypeOK
<1>3. hook[h].session \in SessionIds /\ IsEvent(hook[h].event)
    BY DEF Good
<1> QED
    BY <1>1, <1>2, <1>3 DEF Message, EmitMessage

LEMMA NoSessionsFacts == IsRegistry(NoSessions) /\ DOMAIN NoSessions = {}
BY DEF NoSessions, IsRegistry

LEMMA InitInv == Init => IInv
<1> SUFFICES ASSUME Init PROVE IInv
    OBVIOUS
<1>1. IsRegistry(registry) /\ DOMAIN registry = {}
    BY NoSessionsFacts DEF Init
<1>2. TypeOK
  <2>1. hook \in [Hooks -> HookRecord]
      BY DEF Init, HookRecord, Places
  <2> QED
      BY <1>1, <2>1 DEF Init, TypeOK, HookRecord, Places
<1> QED
    BY <1>1, <1>2 DEF Init, IInv, StampedIsGood, RequestsTrue, ReachedIsHeld, HeldWasSaid,
                      AcksAreTrue, Reached

LEMMA NextType == IInv /\ [Next]_vars => TypeOK'
<1> SUFFICES ASSUME IInv, [Next]_vars PROVE TypeOK'
    OBVIOUS
<1> USE DEF IInv
<1>1. ASSUME NEW h \in Hooks, NEW input \in Inputs, Fire(h, input) PROVE TypeOK'
  <2>1. input.event \in {i.event : i \in Inputs} /\ input.session \in SessionIds \cup {None}
      BY InputsAssumption
  <2>2. hook \in [Hooks -> HookRecord]
      BY DEF TypeOK, HookRecord, Places
  <2>3. hook' = [hook EXCEPT ![h] = [@ EXCEPT !.pc = "started", !.event = input.event,
                                             !.session = input.session]]
      BY <1>1 DEF Fire
  <2>4. [hook[h] EXCEPT !.pc = "started", !.event = input.event,
                        !.session = input.session] \in HookRecord
    <3>1. hook[h] \in HookRecord
        BY <2>2
    <3> QED
        BY <2>1, <3>1 DEF HookRecord, Places
  <2>5. hook' \in [Hooks -> HookRecord]
      BY <2>2, <2>3, <2>4
  <2> QED
      BY <1>1, <2>5 DEF Fire, TypeOK, HookRecord, Places
<1>2. ASSUME NEW h \in Hooks, Stamp(h) PROVE TypeOK'
    BY <1>2, BoundsAssumption DEF Stamp, TypeOK
<1>3. ASSUME NEW h \in Hooks, Send(h) PROVE TypeOK'
  <2>1. Message(h) \in EmitMessage
      BY <1>3, MessageFacts DEF Send, StampedIsGood
  <2> QED
      BY <1>3, <2>1 DEF Send, TypeOK
<1>4. ASSUME NEW h \in Hooks, Fail(h) PROVE TypeOK'
  <2>1. CASE hook[h].attempt = 1
    <3> DEFINE again == [hook EXCEPT ![h].attempt = 2]
    <3>1. again \in [Hooks -> HookRecord]
        BY DEF TypeOK, HookRecord, Places
    <3>2. hook' = [again EXCEPT ![h].pc = "dial"]
        BY <1>4, <2>1 DEF Fail, TypeOK
    <3> HIDE DEF again
    <3>3. hook' \in [Hooks -> HookRecord]
        BY <3>1, <3>2 DEF HookRecord, Places
    <3> QED
        BY <1>4, <3>3 DEF Fail, TypeOK, HookRecord, Places
  <2>2. CASE hook[h].attempt # 1
      BY <1>4, <2>2 DEF Fail, TypeOK
  <2> QED BY <2>1, <2>2
<1>5. ASSUME NEW h \in Hooks, Acked(h) PROVE TypeOK'
    BY <1>5 DEF Acked, TypeOK
<1>6. ASSUME NEW r \in requests, Serve(r) PROVE TypeOK'
  <2>1. r[1] \in Hooks /\ r[2] \in Attempts /\ r[3] \in EmitMessage
      BY DEF TypeOK
  <2>2. IsEvent(r[3].event)
      BY <2>1, MessageFacts DEF RequestsTrue
  <2>3. IsRegistry(registry')
      BY <1>6, <2>1, <2>2, ApplyFacts DEF Serve, TypeOK
  <2> QED
      BY <1>6, <2>1, <2>3 DEF Serve, TypeOK
<1>7. CASE Die
  <2>1. up' \in BOOLEAN
      BY <1>7 DEF Die
  <2>2. crashes' \in Nat
      BY <1>7 DEF Die, TypeOK
  <2>3. IsRegistry(registry)'
      BY <1>7, NoSessionsFacts DEF Die, IsRegistry
  <2> QED
      BY <1>7, <2>1, <2>2, <2>3 DEF Die, TypeOK
<1>8. CASE Boot
    BY <1>8 DEF Boot, TypeOK
<1>9. CASE UNCHANGED vars
    BY <1>9 DEF vars, TypeOK
<1>10. ASSUME NEW o \in owed, Ack(o) PROVE TypeOK'
  <2>1. acks' \subseteq Hooks /\ vouched' \in [Hooks -> Nat]
      BY <1>10 DEF Ack, TypeOK
  <2> QED
      BY <1>10, <2>1 DEF Ack, TypeOK
<1> QED
    BY <1>1, <1>2, <1>3, <1>4, <1>5, <1>6, <1>7, <1>8, <1>9, <1>10 DEF Next, Runs

-----------------------------------------------------------------------------
(* The hooks' steps: the daemon's part is as it was, and messages that are     *)
(* settled stay what they are.                                                *)

LEMMA HookStep ==
    ASSUME IInv, NEW h \in Hooks, UNCHANGED <<registry, served>>,
           \A g \in Hooks \ {h} : hook'[g] = hook[g],
           Good(h) => /\ Good(h)'
                      /\ hook'[h].event = hook[h].event
                      /\ hook'[h].session = hook[h].session
                      /\ hook'[h].seq = hook[h].seq
    PROVE  ReachedIsHeld' /\ HeldWasSaid'
<1> USE DEF IInv
<1>1. ASSUME NEW g \in Hooks, Good(g)
      PROVE  /\ Good(g)'
             /\ hook'[g].event = hook[g].event
             /\ hook'[g].session = hook[g].session
             /\ hook'[g].seq = hook[g].seq
    BY <1>1 DEF Good
<1>2. \A g \in Hooks : Reached(g)' <=> Reached(g)
    BY DEF Reached
<1>3. ReachedIsHeld'
    BY <1>1, <1>2 DEF ReachedIsHeld, Held
<1>4. ASSUME NEW s \in DOMAIN registry PROVE \E g \in Hooks : Reached(g)' /\ Said(g, s)'
  <2>1. PICK g \in Hooks : Reached(g) /\ Said(g, s)
      BY DEF HeldWasSaid
  <2>2. Good(g)
      BY <2>1 DEF ReachedIsHeld
  <2> QED
      BY <1>1, <1>2, <2>1, <2>2 DEF Said
<1> QED
    BY <1>3, <1>4 DEF HeldWasSaid

LEMMA FireInv ==
    ASSUME IInv, NEW h \in Hooks, NEW input \in Inputs, Fire(h, input), TypeOK'
    PROVE  IInv'
<1> USE DEF IInv
<1>1. ~Good(h)
    BY DEF Fire, Fired, Good
<1>2. \A g \in Hooks \ {h} : hook'[g] = hook[g]
    BY DEF Fire, TypeOK
<1>3. hook'[h].pc = "started"
    BY DEF Fire, TypeOK
<1>4. ReachedIsHeld' /\ HeldWasSaid'
    BY <1>1, <1>2, HookStep DEF Fire
<1>5. StampedIsGood'
    BY <1>2, <1>3 DEF StampedIsGood, Good
<1>6. RequestsTrue'
  <2> SUFFICES ASSUME NEW r \in requests PROVE Good(r[1])' /\ r[3] = Message(r[1])'
      BY DEF RequestsTrue, Fire
  <2>1. r[1] \in Hooks /\ Good(r[1]) /\ r[3] = Message(r[1])
      BY DEF RequestsTrue, TypeOK
  <2> QED
      BY <1>1, <1>2, <2>1 DEF Good, Message
<1>7. AcksAreTrue'
    BY <1>2, <1>3, <1>1 DEF AcksAreTrue, Fire, Reached, ReachedIsHeld
<1> QED
    BY <1>4, <1>5, <1>6, <1>7

\* The rest of a hook's steps: its message is settled, if it ever is.
LEMMA RunsInv ==
    ASSUME IInv, NEW h \in Hooks, Runs(h), TypeOK'
    PROVE  IInv'
<1> USE DEF IInv
<1>1. UNCHANGED <<registry, served, up, crashes, owed, vouched>>
    BY DEF Runs, Stamp, Send, Fail, Acked
<1>2. \A g \in Hooks \ {h} : hook'[g] = hook[g]
    BY DEF Runs, Stamp, Send, Fail, Acked, TypeOK
<1>3. Good(h) => /\ Good(h)'
                 /\ hook'[h].event = hook[h].event
                 /\ hook'[h].session = hook[h].session
                 /\ hook'[h].seq = hook[h].seq
    BY DEF Runs, Stamp, Send, Fail, Acked, TypeOK, Good
<1>4. ReachedIsHeld' /\ HeldWasSaid'
    BY <1>1, <1>2, <1>3, HookStep
<1>5. ASSUME NEW g \in Hooks, Good(g) PROVE Good(g)' /\ Message(g)' = Message(g)
    BY <1>2, <1>3, <1>5 DEF Good, Message
<1>6. hook'[h].pc \in {"dial", "await", "sent"} => Good(h)'
  <2>1. CASE Stamp(h)
      BY <2>1, BoundsAssumption DEF Stamp, TypeOK, Good
  <2>2. CASE Send(h) \/ Fail(h) \/ Acked(h)
    <3>1. Good(h)
        BY <2>2 DEF Send, Fail, Acked, StampedIsGood
    <3> QED BY <3>1, <1>5
  <2> QED BY <2>1, <2>2 DEF Runs
<1>7. StampedIsGood'
    BY <1>2, <1>6 DEF StampedIsGood, Good
<1>8. RequestsTrue'
  <2>1. ASSUME NEW r \in requests PROVE Good(r[1])' /\ r[3] = Message(r[1])'
      BY <1>5 DEF RequestsTrue, TypeOK
  <2>2. ASSUME NEW r \in requests' \ requests PROVE Good(r[1])' /\ r[3] = Message(r[1])'
    <3>1. hook[h].pc = "dial" /\ r[1] = h /\ r[3] = Message(h)
        BY <2>2 DEF Runs, Stamp, Send, Fail, Acked
    <3>2. Good(h)
        BY <3>1 DEF StampedIsGood
    <3> QED BY <3>1, <3>2, <1>5
  <2> QED BY <2>1, <2>2 DEF RequestsTrue
<1>9. AcksAreTrue'
  <2>1. h \in acks' \/ hook'[h].pc = "sent" => h \in acks \/ hook[h].pc = "sent"
      BY DEF Runs, Stamp, Send, Fail, Acked, TypeOK
  <2>2. \A g \in Hooks \ {h} : g \in acks' => g \in acks
      BY DEF Runs, Stamp, Send, Fail, Acked
  <2> QED
      BY <1>1, <1>2, <2>1, <2>2 DEF AcksAreTrue, Reached
<1> QED
    BY <1>4, <1>7, <1>8, <1>9

-----------------------------------------------------------------------------
(* The daemon's steps *)

\* What serving a request does to the record of its session, and to no other.
LEMMA ServeFacts ==
    ASSUME IInv, NEW r \in requests, Serve(r)
    PROVE  LET h == r[1]
               s == hook[r[1]].session
           IN  /\ h \in Hooks /\ Good(h) /\ IsRegistry(registry)
               /\ DOMAIN registry' = DOMAIN registry \cup {s}
               /\ \A id \in DOMAIN registry \ {s} : registry'[id] = registry[id]
               /\ \/ /\ s \in DOMAIN registry /\ registry' = registry
                     /\ IsIgnored(registry[s], Message(h))
                  \/ /\ s \in DOMAIN registry => ~IsIgnored(registry[s], Message(h))
                     /\ registry'[s].lastSeq = hook[h].seq
                     /\ registry'[s].state = StateForEvent[hook[h].event]
<1> DEFINE h == r[1]
           m == Message(h)
           s == hook[h].session
           old == Lookup(registry, s, 0)
<1>1. h \in Hooks /\ Good(h) /\ r[3] = m /\ IsRegistry(registry)
    BY DEF IInv, TypeOK, RequestsTrue
<1>2. m \in EmitMessage /\ IsEvent(m.event)
    BY <1>1, MessageFacts DEF IInv
<1>3. m.session = s /\ m.seq = hook[h].seq /\ m.event = hook[h].event
    BY DEF Message
<1>4. registry' = ApplyTo(registry, m, 0)
    BY <1>1 DEF Serve
<1>5. /\ IsRegistry(registry')
      /\ DOMAIN registry' = DOMAIN registry \cup {s}
      /\ \A id \in DOMAIN registry \ {s} : registry'[id] = registry[id]
      /\ registry'[s] = IF IsIgnored(old, m) THEN old ELSE Fold(old, m, 0)
  <2> HIDE DEF m
  <2>1. old = Lookup(registry, m.session, 0)
      BY <1>3
  <2> HIDE DEF s, old
  <2> DEFINE new == ApplyTo(registry, m, 0)
  <2>2. /\ IsRegistry(new)
        /\ DOMAIN new = DOMAIN registry \cup {m.session}
        /\ \A id \in DOMAIN registry \ {m.session} : new[id] = registry[id]
        /\ new[m.session] = IF IsIgnored(old, m) THEN old ELSE Fold(old, m, 0)
      BY <1>1, <1>2, <2>1, ApplyFacts
  <2>3. new = registry' /\ m.session = s
      BY <1>3, <1>4
  <2> HIDE DEF new
  <2> QED
      BY <2>2, <2>3
<1>6. s \in DOMAIN registry => old = registry[s]
    BY DEF Lookup
<1>7. s \notin DOMAIN registry => ~IsIgnored(old, m)
    BY <1>1, <1>2, <1>3 DEF Lookup, FreshSession, IsIgnored, Good, EmitMessage
<1>8. CASE IsIgnored(old, m)
  <2>1. s \in DOMAIN registry /\ registry'[s] = registry[s]
      BY <1>5, <1>6, <1>7, <1>8
  <2>2. DOMAIN registry' = DOMAIN registry /\ \A id \in DOMAIN registry : registry'[id] = registry[id]
      BY <1>5, <2>1
  <2>3. registry' = registry
      BY <1>1, <1>5, <2>2 DEF IsRegistry
  <2> QED
      BY <1>1, <1>5, <1>6, <1>8, <2>1, <2>3
<1>9. CASE ~IsIgnored(old, m)
  <2>1. registry'[s] = Fold(old, m, 0)
      BY <1>5, <1>9
  <2>2. registry'[s].lastSeq = hook[h].seq /\ registry'[s].state = StateForEvent[hook[h].event]
      BY <2>1, <1>3 DEF Fold
  <2> QED
      BY <1>1, <1>5, <1>6, <1>9, <2>2
<1> QED
    BY <1>8, <1>9

LEMMA ServeInv ==
    ASSUME IInv, NEW r \in requests, Serve(r), TypeOK'
    PROVE  IInv'
<1> USE DEF IInv
<1> DEFINE h == r[1]
           s == hook[h].session
<1>1. /\ h \in Hooks /\ Good(h) /\ r[2] \in Attempts
      /\ hook' = hook /\ served' = served \cup {<<h, r[2]>>}
      /\ requests' \subseteq requests /\ crashes' = crashes
      /\ UNCHANGED <<acks, vouched>> /\ owed' = owed \cup {<<h, r[2]>>}
    BY ServeFacts DEF Serve, TypeOK
<1>2. \A g \in Hooks : Reached(g)' <=> Reached(g) \/ g = h
    BY <1>1 DEF Reached
<1>3. \A g \in Hooks : Good(g)' <=> Good(g)
    BY <1>1 DEF Good
<1>4. StampedIsGood' /\ RequestsTrue' /\ AcksAreTrue'
  <2>1. StampedIsGood'
      BY <1>1, <1>3 DEF StampedIsGood
  <2>2. RequestsTrue'
      BY <1>1, <1>3 DEF RequestsTrue, TypeOK, Message
  <2>3. AcksAreTrue'
      BY <1>1, <1>2 DEF AcksAreTrue
  <2> QED BY <2>1, <2>2, <2>3
<1>5. ASSUME NEW g \in Hooks, Reached(g)' PROVE Good(g)' /\ Held(g)'
  <2>1. Good(g)
      BY <1>1, <1>2, <1>5 DEF ReachedIsHeld
  <2>2. hook[g].seq \in Nat /\ \A id \in DOMAIN registry : registry[id].lastSeq \in Nat
      BY DEF TypeOK, IsRegistry, Session
  <2>3. CASE hook[g].session # s
    <3>1. Reached(g) /\ Held(g)
        BY <1>2, <1>5, <2>3 DEF ReachedIsHeld
    <3> QED
        BY <1>1, <1>3, <2>1, <2>3, <3>1, ServeFacts DEF Held
  <2>4. CASE hook[g].session = s /\ registry' = registry /\ s \in DOMAIN registry
                /\ IsIgnored(registry[s], Message(h))
    <3>1. CASE g = h
        BY <1>1, <1>3, <2>1, <2>2, <2>4, <3>1 DEF Held, IsIgnored, Message, Working, NeedsAttention
    <3>2. CASE g # h
        BY <1>1, <1>2, <1>3, <1>5, <2>1, <2>4, <3>2 DEF ReachedIsHeld, Held
    <3> QED BY <3>1, <3>2
  <2>5. CASE /\ hook[g].session = s /\ s \in DOMAIN registry'
             /\ s \in DOMAIN registry => ~IsIgnored(registry[s], Message(h))
             /\ registry'[s].lastSeq = hook[h].seq
             /\ registry'[s].state = StateForEvent[hook[h].event]
    <3>1. CASE g = h
        BY <1>1, <1>3, <2>1, <2>2, <2>5, <3>1 DEF Held, Working, NeedsAttention
    <3>2. CASE g # h
      <4>1. Reached(g) /\ Held(g) /\ s \in DOMAIN registry
          BY <1>2, <1>5, <2>5, <3>2 DEF ReachedIsHeld, Held
      <4>2. hook[h].seq \in Nat
          BY <1>1 DEF TypeOK
      <4>3. \/ hook[h].seq > registry[s].lastSeq
            \/ hook[h].seq = registry[s].lastSeq /\ StateForEvent[hook[h].event] = Working
          BY <2>2, <2>5, <4>1, <4>2 DEF IsIgnored, Message
      <4> QED
          BY <1>1, <1>3, <2>1, <2>2, <2>5, <4>1, <4>2, <4>3 DEF Held, Working, NeedsAttention
    <3> QED BY <3>1, <3>2
  <2> QED
      BY <2>3, <2>4, <2>5, ServeFacts
<1>6. ASSUME NEW id \in DOMAIN registry' PROVE \E g \in Hooks : Reached(g)' /\ Said(g, id)'
  <2>1. CASE id \in DOMAIN registry /\ registry'[id] = registry[id]
    <3>1. PICK g \in Hooks : Reached(g) /\ Said(g, id)
        BY <2>1 DEF HeldWasSaid
    <3> QED
        BY <1>1, <1>2, <2>1, <3>1 DEF Said
  <2>2. CASE /\ id = s
             /\ registry'[s].lastSeq = hook[h].seq
             /\ registry'[s].state = StateForEvent[hook[h].event]
      BY <1>1, <1>2, <2>2 DEF Said
  <2> QED
      BY <1>6, <2>1, <2>2, ServeFacts
<1> QED
    BY <1>4, <1>5, <1>6 DEF ReachedIsHeld, HeldWasSaid

LEMMA AckInv ==
    ASSUME IInv, NEW o \in owed, Ack(o), TypeOK'
    PROVE  IInv'
<1> USE DEF IInv
<1>1. UNCHANGED <<hook, registry, requests, served, crashes>> /\ owed' \subseteq owed
    BY DEF Ack
<1>2. o[1] \in Hooks /\ Reached(o[1])
  <2>1. o = <<o[1], o[2]>> /\ o[1] \in Hooks /\ o[2] \in Attempts
      BY DEF TypeOK
  <2> QED
      BY <2>1 DEF AcksAreTrue, Reached
<1>3. AcksAreTrue'
  <2>1. \A h \in Hooks \ {o[1]} : vouched'[h] = vouched[h] /\ (h \in acks' => h \in acks)
      BY DEF Ack, TypeOK
  <2>2. vouched'[o[1]] = vouched[o[1]] \/ vouched'[o[1]] = crashes
      BY <1>2 DEF Ack, TypeOK
  <2>3. \A h \in Hooks : vouched'[h] <= crashes'
      BY <1>1, <2>1, <2>2 DEF AcksAreTrue, TypeOK
  <2>4. ASSUME NEW h \in Hooks, h \in acks' \/ hook'[h].pc = "sent", vouched'[h] = crashes'
        PROVE  Reached(h)'
    <3>1. Reached(h)
        BY <1>1, <1>2, <2>1, <2>4 DEF AcksAreTrue
    <3> QED
        BY <1>1, <3>1 DEF Reached
  <2> QED
      BY <1>1, <2>3, <2>4 DEF AcksAreTrue
<1> QED
    BY <1>1, <1>3 DEF StampedIsGood, RequestsTrue, ReachedIsHeld, HeldWasSaid, Good, Held, Said, Reached, Message

LEMMA DieInv ==
    ASSUME IInv, Die, TypeOK'
    PROVE  IInv'
<1>1. \A g \in Hooks : vouched'[g] < crashes'
    BY DEF IInv, AcksAreTrue, TypeOK, Die
<1>2. \A g \in Hooks : (Good(g)' <=> Good(g)) /\ ~Reached(g)'
    BY DEF Die, Good, Reached
<1>3. AcksAreTrue'
  <2>1. \A g \in Hooks : vouched'[g] \in Nat /\ crashes' \in Nat
      BY DEF TypeOK
  <2> QED
      BY <1>1, <2>1 DEF Die, AcksAreTrue
<1> QED
    BY <1>2, <1>3, NoSessionsFacts
       DEF IInv, Die, StampedIsGood, RequestsTrue, ReachedIsHeld, HeldWasSaid

LEMMA QuietInv ==
    ASSUME IInv, Boot \/ UNCHANGED vars, TypeOK'
    PROVE  IInv'
BY DEF IInv, Boot, vars, StampedIsGood, RequestsTrue, ReachedIsHeld, HeldWasSaid, AcksAreTrue,
       Good, Held, Said, Reached, Message

LEMMA NextInv == IInv /\ [Next]_vars => IInv'
<1> SUFFICES ASSUME IInv, [Next]_vars PROVE IInv'
    OBVIOUS
<1>1. TypeOK'
    BY NextType
<1> QED
    BY <1>1, FireInv, RunsInv, ServeInv, AckInv, DieInv, QuietInv DEF Next

-----------------------------------------------------------------------------
(* The theorems *)

LEMMA InvHolds == Spec => []IInv
BY InitInv, NextInv, PTL DEF Spec

\* Every reachable state is well typed.
THEOREM TypeCorrect == Spec => []TypeOK
<1>1. IInv => TypeOK
    BY DEF IInv
<1> QED
    BY <1>1, InvHolds, PTL

\* Retried, late and lost as requests may be, the session is as the hook with
\* the newest stamp said.
THEOREM LastWord == Spec => []LastWordHolds
<1>1. IInv => LastWordHolds
  <2> SUFFICES ASSUME IInv, NEW h \in Hooks, Reached(h),
                      \A g \in Hooks \ {h} :
                         (Reached(g) /\ hook[g].session = hook[h].session)
                            => hook[g].seq < hook[h].seq
               PROVE  registry[hook[h].session].state = StateForEvent[hook[h].event]
      BY DEF LastWordHolds
  <2> DEFINE s == hook[h].session
  <2>1. s \in DOMAIN registry /\ registry[s].lastSeq >= hook[h].seq
      BY DEF IInv, ReachedIsHeld, Held
  <2>2. PICK g \in Hooks : Reached(g) /\ Said(g, s)
      BY <2>1 DEF IInv, HeldWasSaid
  <2>3. hook[g].seq \in Nat /\ hook[h].seq \in Nat
      BY DEF IInv, TypeOK
  <2>4. g = h
      BY <2>1, <2>2, <2>3 DEF Said
  <2> QED
      BY <2>2, <2>4 DEF Said
<1> QED
    BY <1>1, InvHolds, PTL

\* An acknowledged emit is in the registry, or a newer one is, until the daemon
\* that sent the ack dies.
THEOREM AckIsTrue == Spec => []AckedIsHeld
<1>1. IInv => AckedIsHeld
    BY DEF IInv, AckedIsHeld, AcksAreTrue, ReachedIsHeld, Held
<1> QED
    BY <1>1, InvHolds, PTL

\* The second attempt at what the daemon has served does nothing.
THEOREM RetryDoesNothing == Spec => RetryIsInvisible
<1>1. ASSUME IInv, [Next]_vars, NEW h \in Hooks, NEW a \in Attempts,
             Reached(h), <<h, a>> \in served' \ served
      PROVE  registry' = registry
  <2>1. PICK r \in requests : Serve(r) /\ h = r[1]
    <3>1. CASE \E r \in requests : Serve(r)
      <4>1. PICK r \in requests : Serve(r)
          BY <3>1
      <4>2. <<h, a>> = <<r[1], r[2]>>
          BY <1>1, <4>1 DEF Serve
      <4> QED BY <4>1, <4>2
    <3>2. CASE ~\E r \in requests : Serve(r)
      <4>1. served' \subseteq served
          BY <1>1, <3>2 DEF Next, Runs, Fire, Stamp, Send, Fail, Acked, Ack, Die, Boot, vars
      <4> QED BY <1>1, <4>1
    <3> QED BY <3>1, <3>2
  <2>2. Held(h)
      BY <1>1 DEF IInv, ReachedIsHeld
  <2>3. hook[h].seq \in Nat /\ \A id \in DOMAIN registry : registry[id].lastSeq \in Nat
      BY <1>1 DEF IInv, TypeOK, IsRegistry, Session
  <2>4. IsIgnored(registry[hook[h].session], Message(h))
      BY <2>2, <2>3 DEF Held, IsIgnored, Message
  <2> QED
      BY <1>1, <2>1, <2>2, <2>4, ServeFacts DEF Held
<1>2. IInv /\ [Next]_vars =>
         [\A h \in Hooks, a \in Attempts :
             (Reached(h) /\ <<h, a>> \in served' \ served) => registry' = registry]_vars
    BY <1>1
<1> QED
    BY <1>2, InvHolds, PTL DEF Spec, RetryIsInvisible
=============================================================================
