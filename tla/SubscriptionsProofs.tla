------------------------- MODULE SubscriptionsProofs -------------------------
(***************************************************************************)
(* The safety of the shared subscriptions for every set of topics and      *)
(* owners and any number of connection faults.                             *)
(***************************************************************************)
EXTENDS Subscriptions, SequenceTheorems, TLAPS

(* TypeOK alone is inductive, the rest is not: that a reconnect restores the *)
(* broker needs clientSubs = subs, and that an acquisition which sends       *)
(* nothing may rely on the broker needs BrokerServesOwners itself.           *)
IInv ==
    /\ TypeOK
    /\ RegistryAgreement
    /\ BrokerServesOwners
    /\ EventConverges

(* max(owners.values()) exists and bounds every entry, whoever joined. *)
LEMMA EffectiveQosBounds ==
    ASSUME NEW own \in [Owners -> MaybeQos],
           NEW p \in Owners, own[p] \in QoS
    PROVE  /\ EffectiveQos(own) \in QoS
           /\ \A o \in Owners : own[o] <= EffectiveQos(own)
<1> DEFINE S == {own[o] : o \in Owners}
           Bounds(q) == \A o \in Owners : own[o] <= q
<1>1. \E q \in S : Bounds(q)
  <2>1. CASE \E o \in Owners : own[o] = 2
    BY <2>1 DEF MaybeQos, QoS, NoQos
  <2>2. CASE (\A o \in Owners : own[o] # 2) /\ (\E o \in Owners : own[o] = 1)
    BY <2>2 DEF MaybeQos, QoS, NoQos
  <2>3. CASE \A o \in Owners : own[o] # 2 /\ own[o] # 1
    BY <2>3 DEF MaybeQos, QoS, NoQos
  <2> QED BY <2>1, <2>2, <2>3
<1>2. EffectiveQos(own) \in S /\ Bounds(EffectiveQos(own))
  BY <1>1 DEF EffectiveQos
<1> QED BY <1>2 DEF MaybeQos, QoS, NoQos

(* What one call of acquire_subscription computes. *)
LEMMA AcquiredQos ==
    ASSUME TypeOK, NEW t \in Topics, NEW q \in QoS, NEW o \in Owners
    PROVE  LET own == [owners[t] EXCEPT ![o] = q]
           IN  /\ own \in [Owners -> MaybeQos]
               /\ EffectiveQos(own) \in QoS
               /\ \A p \in Owners : own[p] <= EffectiveQos(own)
<1> DEFINE own == [owners[t] EXCEPT ![o] = q]
<1>1. own \in [Owners -> MaybeQos] /\ own[o] \in QoS
  BY DEF TypeOK, MaybeQos
<1> QED BY <1>1, EffectiveQosBounds

LEMMA InitIInv == Init => IInv
<1> SUFFICES ASSUME Init PROVE IInv
  OBVIOUS
<1>1. TypeOK
  BY SubscriptionsAssumption
  DEF Init, TypeOK, NoTopics, MaybeQos
<1>2. RegistryAgreement
  BY DEF Init, RegistryAgreement, NoTopics, NoQos
<1>3. BrokerServesOwners /\ EventConverges
  BY DEF Init, BrokerServesOwners, EventConverges, NoTopics
<1> QED BY <1>1, <1>2, <1>3 DEF IInv

LEMMA AcquireIInv ==
    ASSUME IInv, NEW t \in Topics, NEW q \in QoS, NEW o \in Owners,
           NEW refresh \in BOOLEAN, Acquire(t, q, o, refresh)
    PROVE  IInv'
<1> DEFINE own == [owners[t] EXCEPT ![o] = q]
           eff == EffectiveQos(own)
           send == NeedsSubscribe(t, eff, refresh)
<1>1. /\ own \in [Owners -> MaybeQos]
      /\ eff \in QoS
      /\ \A p \in Owners : own[p] <= eff
  BY AcquiredQos DEF IInv
<1>2. /\ send => link /\ connected
      /\ clientSubs' = IF send THEN [clientSubs EXCEPT ![t] = eff] ELSE clientSubs
      /\ broker' = IF send THEN [broker EXCEPT ![t] = eff] ELSE broker
      /\ owners' = [owners EXCEPT ![t] = own]
      /\ subs' = [subs EXCEPT ![t] = eff]
      /\ UNCHANGED <<connected, loopQ, link, faults>>
  BY DEF Acquire, is_connected, network
<1>3. ~send => subs[t] = eff
  BY DEF NeedsSubscribe
<1> HIDE DEF own, eff, send
<1>4. eff \in MaybeQos /\ eff # NoQos
  BY <1>1 DEF MaybeQos, QoS, NoQos
<1>5. TypeOK'
  BY <1>1, <1>2, <1>4 DEF IInv, TypeOK
<1>6. clientSubs' = subs'
  BY <1>2, <1>3 DEF IInv, RegistryAgreement, TypeOK
<1>7. own[o] # NoQos
  BY DEF own, IInv, TypeOK, QoS, NoQos
<1>8. RegistryAgreement'
  BY <1>1, <1>2, <1>4, <1>6, <1>7 DEF IInv, RegistryAgreement, TypeOK
<1>9. BrokerServesOwners'
  BY <1>2, <1>3 DEF IInv, BrokerServesOwners, RegistryAgreement, TypeOK
<1>10. EventConverges'
  BY <1>2 DEF IInv, EventConverges
<1> QED BY <1>5, <1>8, <1>9, <1>10 DEF IInv

(* A lost connection, whether between two calls or inside one. *)
LEMMA DropIInv ==
    ASSUME IInv, Drop, UNCHANGED <<registry, connected>>
    PROVE  IInv'
<1> DEFINE Reports == {"connected", "refused", "clear"}
<1>0. /\ loopQ' \in Seq(Reports)
      /\ loopQ' # <<>>
      /\ loopQ'[Len(loopQ')] = "clear"
  BY DEF IInv, TypeOK, Drop
<1>1. TypeOK'
  <2>1. faults' \in 0..MaxFaults
    BY SubscriptionsAssumption DEF IInv, TypeOK, Drop
  <2>2. broker' \in [Topics -> MaybeQos]
    BY DEF Drop, NoTopics, MaybeQos
  <2> QED BY <1>0, <2>1, <2>2 DEF IInv, TypeOK, Drop, registry
<1>2. RegistryAgreement'
  BY DEF IInv, RegistryAgreement, registry
<1>3. BrokerServesOwners'
  BY DEF Drop, BrokerServesOwners
<1>4. EventConverges'
  BY <1>0 DEF Drop, EventConverges
<1> QED BY <1>1, <1>2, <1>3, <1>4 DEF IInv

LEMMA ReleaseIInv ==
    ASSUME IInv, NEW t \in Topics, NEW o \in Owners, Release(t, o)
    PROVE  IInv'
<1>1. CASE ReleaseShared(t, o)
  <2>1. TypeOK'
    BY <1>1 DEF IInv, TypeOK, ReleaseShared, network, MaybeQos
  <2>2. PICK p \in Owners \ {o} : owners[t][p] # NoQos
    BY <1>1 DEF ReleaseShared, OtherOwners
  <2>3. RegistryAgreement'
    <3>1. owners'[t][p] # NoQos
      BY <1>1, <2>2 DEF IInv, TypeOK, ReleaseShared
    <3>2. NoQos <= subs[t]
      BY DEF IInv, TypeOK, MaybeQos, QoS, NoQos
    <3> QED
      BY <1>1, <2>2, <3>1, <3>2
      DEF IInv, TypeOK, RegistryAgreement, ReleaseShared, network
  <2>4. BrokerServesOwners' /\ EventConverges'
    BY <1>1
    DEF IInv, BrokerServesOwners, EventConverges, ReleaseShared, network
  <2> QED BY <2>1, <2>3, <2>4 DEF IInv
<1>2. CASE ReleaseLast(t, o)
  <2>1. TypeOK'
    BY <1>2 DEF IInv, TypeOK, ReleaseLast, network, MaybeQos
  <2>2. \A p \in Owners : owners'[t][p] = NoQos
    BY <1>2 DEF IInv, TypeOK, ReleaseLast, OtherOwners
  <2>3. RegistryAgreement'
    BY <1>2, <2>2
    DEF IInv, TypeOK, RegistryAgreement, ReleaseLast, NoQos
  <2>4. BrokerServesOwners'
    BY <1>2
    DEF IInv, TypeOK, BrokerServesOwners, ReleaseLast, network
  <2>5. EventConverges'
    BY <1>2 DEF IInv, EventConverges, ReleaseLast, network
  <2> QED BY <2>1, <2>3, <2>4, <2>5 DEF IInv
<1> QED BY <1>1, <1>2 DEF Release

LEMMA ServiceIInv == IInv /\ Service => IInv'
<1> SUFFICES ASSUME IInv, NEW t \in Topics,
                    \/ RestSubscribe(t)
                    \/ RestUnsubscribe(t)
                    \/ \E s \in Streams : StreamAcquire(t, s) \/ StreamRelease(t, s)
                    \/ \E r \in Queries : QueryAcquire(t, r) \/ QueryRelease(t, r)
             PROVE  IInv'
  BY DEF Service
<1>1. \A q \in QoS, o \in Owners, refresh \in BOOLEAN :
         Acquire(t, q, o, refresh) => IInv'
  BY AcquireIInv
<1>2. \A q \in QoS, o \in Owners, refresh \in BOOLEAN :
         AcquireRejected(t, q, o, refresh) => IInv'
  BY DropIInv DEF AcquireRejected
<1>3. \A o \in Owners : Release(t, o) => IInv'
  BY ReleaseIInv
<1>4. /\ Rest \in Owners /\ Streams \subseteq Owners /\ Queries \subseteq Owners
      /\ TRUE \in BOOLEAN /\ FALSE \in BOOLEAN
  BY DEF Owners
<1>5. 0 \in QoS /\ RequestQos = QoS
  BY DEF QoS, RequestQos
<1>6. RestSubscribe(t) \/ RestUnsubscribe(t) => IInv'
  BY <1>1, <1>2, <1>3, <1>4, <1>5, Zenon DEF RestSubscribe, RestUnsubscribe
<1>7. \A s \in Streams : StreamAcquire(t, s) \/ StreamRelease(t, s) => IInv'
  BY <1>1, <1>2, <1>3, <1>4, <1>5, Zenon DEF StreamAcquire, StreamRelease
<1>8. \A r \in Queries : QueryAcquire(t, r) \/ QueryRelease(t, r) => IInv'
  BY <1>1, <1>2, <1>3, <1>4, <1>5, Zenon DEF QueryAcquire, QueryRelease
<1> QED BY <1>6, <1>7, <1>8

LEMMA PahoIInv == IInv /\ Paho => IInv'
<1> SUFFICES ASSUME IInv, Paho PROVE IInv'
  OBVIOUS
<1>1. CASE OnConnect
  <2>1. TypeOK'
    BY <1>1 DEF IInv, TypeOK, OnConnect, registry
  <2>2. RegistryAgreement'
    BY <1>1 DEF IInv, RegistryAgreement, OnConnect, registry
  <2>3. /\ loopQ' = Append(loopQ, "connected")
        /\ Len(loopQ') = Len(loopQ) + 1
        /\ loopQ'[Len(loopQ')] = "connected"
        /\ loopQ' # <<>>
        /\ Len(loopQ') \in DOMAIN loopQ'
    BY <1>1 DEF IInv, TypeOK, OnConnect
  <2>4. BrokerServesOwners' /\ EventConverges'
    BY <1>1, <2>3 DEF BrokerServesOwners, EventConverges, OnConnect
  <2> QED BY <2>1, <2>2, <2>4 DEF IInv
<1>2. CASE OnRefused
  <2>1. TypeOK'
    BY <1>2, SubscriptionsAssumption DEF IInv, TypeOK, OnRefused, registry
  <2>2. RegistryAgreement'
    BY <1>2 DEF IInv, RegistryAgreement, OnRefused, registry
  <2>3. /\ loopQ' # <<>>
        /\ loopQ'[Len(loopQ')] = "clear"
    BY <1>2 DEF IInv, TypeOK, OnRefused
  <2>4. BrokerServesOwners' /\ EventConverges'
    BY <1>2, <2>3 DEF BrokerServesOwners, EventConverges, OnRefused
  <2> QED BY <2>1, <2>2, <2>4 DEF IInv
<1>3. CASE OnDisconnect
  BY <1>3, DropIInv DEF OnDisconnect
<1> QED BY <1>1, <1>2, <1>3 DEF Paho

LEMMA ConnectionChangedIInv == IInv /\ ConnectionChanged => IInv'
<1> SUFFICES ASSUME IInv, ConnectionChanged PROVE IInv'
  OBVIOUS
<1> USE DEF registry, network
<1>1. /\ loopQ # <<>>
      /\ loopQ' = Tail(loopQ)
      /\ Len(loopQ) \in Nat \ {0}
      /\ Len(loopQ') = Len(loopQ) - 1
      /\ \A i \in 1..Len(loopQ') : loopQ'[i] = loopQ[i + 1]
      /\ Head(loopQ) = loopQ[1]
  BY DEF IInv, TypeOK, ConnectionChanged
<1>2. Resubscribed \in [Topics -> MaybeQos]
  BY DEF IInv, TypeOK, Resubscribed
<1>3. TypeOK'
  BY <1>1, <1>2 DEF IInv, TypeOK, ConnectionChanged
<1>4. RegistryAgreement'
  BY DEF IInv, RegistryAgreement, ConnectionChanged
<1>5. BrokerServesOwners'
  <2>1. CASE Head(loopQ) = "connected"
    BY <2>1
    DEF IInv, TypeOK, RegistryAgreement, BrokerServesOwners, ConnectionChanged,
        Resubscribed
  <2>2. CASE Head(loopQ) # "connected"
    <3> SUFFICES ASSUME link, \A i \in DOMAIN loopQ' : loopQ'[i] # "connected"
                 PROVE  \A i \in DOMAIN loopQ : loopQ[i] # "connected"
      BY <2>2 DEF IInv, BrokerServesOwners, ConnectionChanged
    <3> TAKE i \in DOMAIN loopQ
    <3>1. CASE i = 1
      BY <1>1, <2>2, <3>1
    <3>2. CASE i # 1
      <4>1. i - 1 \in 1..Len(loopQ') /\ DOMAIN loopQ' = 1..Len(loopQ')
        BY <1>1, <1>3, <3>2 DEF IInv, TypeOK
      <4> QED BY <1>1, <4>1 DEF IInv, TypeOK
    <3> QED BY <3>1, <3>2
  <2> QED BY <2>1, <2>2
<1>6. EventConverges'
  <2>1. CASE loopQ' = <<>>
    <3>1. Len(loopQ') = 0
      BY <2>1
    <3>2. Len(loopQ) = 1
      <4>1. Len(loopQ) \in Nat /\ Len(loopQ') = Len(loopQ) - 1
        BY <1>1
      <4> QED BY <3>1, <4>1
    <3>3. link <=> Head(loopQ) = "connected"
      BY <1>1, <3>2 DEF IInv, EventConverges
    <3>4. link' = link /\ connected' = (Head(loopQ) = "connected")
      BY DEF ConnectionChanged
    <3> QED BY <2>1, <3>3, <3>4 DEF EventConverges
  <2>2. CASE loopQ' # <<>>
    <3>1. Len(loopQ') \in 1..Len(loopQ') /\ loopQ'[Len(loopQ')] = loopQ[Len(loopQ)]
      BY <1>1, <1>3, <2>2 DEF TypeOK
    <3> QED BY <1>1, <2>2, <3>1 DEF IInv, EventConverges, ConnectionChanged
  <2> QED BY <2>1, <2>2
<1> QED BY <1>3, <1>4, <1>5, <1>6 DEF IInv

LEMMA StutterIInv == IInv /\ UNCHANGED vars => IInv'
BY DEF IInv, vars, TypeOK, RegistryAgreement, BrokerServesOwners, EventConverges

LEMMA Inductive == Spec => []IInv
<1>1. IInv /\ [Next]_vars => IInv'
  BY ServiceIInv, PahoIInv, ConnectionChangedIInv, StutterIInv DEF Next
<1> QED BY <1>1, InitIInv, PTL DEF Spec

(* Every dictionary keeps its type whatever the two threads interleave. *)
THEOREM TypeCorrect == Spec => []TypeOK
BY Inductive, PTL DEF IInv

(* Service list, owners and the client's desired state never drift apart. *)
THEOREM RegistryAgrees == Spec => []RegistryAgreement
BY Inductive, PTL DEF IInv

(* A live session with no reconnect report pending serves every owner. *)
THEOREM OwnersAreServed == Spec => []BrokerServesOwners
BY Inductive, PTL DEF IInv

(* The queued reports always leave _connected equal to paho's state. *)
THEOREM ConnectionEventConverges == Spec => []EventConverges
BY Inductive, PTL DEF IInv

(* What one step may do to the broker's entry for a topic (OwnersDecide).    *)
Decided(t) ==
    /\ (link /\ link' /\ broker[t] # NoQos /\ broker'[t] = NoQos)
          => \A o \in Owners : owners'[t][o] = NoQos
    /\ (broker[t] = NoQos /\ broker'[t] # NoQos)
          => \E o \in Owners : owners'[t][o] # NoQos

LEMMA AcquireDecides ==
    ASSUME IInv, NEW u \in Topics, NEW q \in QoS, NEW o \in Owners, NEW refresh \in BOOLEAN,
           Acquire(u, q, o, refresh) \/ AcquireRejected(u, q, o, refresh), NEW t \in Topics
    PROVE  Decided(t)
<1>1. CASE Acquire(u, q, o, refresh)
  <2> DEFINE own == [owners[u] EXCEPT ![o] = q]
  <2>1. own \in [Owners -> MaybeQos] /\ EffectiveQos(own) \in QoS
    BY AcquiredQos DEF IInv
  <2>2. owners'[u] = own /\ own[o] # NoQos
    BY <1>1, <2>1 DEF Acquire, IInv, TypeOK, MaybeQos, QoS, NoQos
  <2>3. broker'[t] # broker[t] => t = u /\ broker'[t] = EffectiveQos(own)
    BY <1>1 DEF Acquire, IInv, TypeOK
  <2> QED BY <2>1, <2>2, <2>3 DEF Decided, QoS, NoQos
<1>2. CASE AcquireRejected(u, q, o, refresh)
  BY <1>2 DEF AcquireRejected, Drop, Decided, NoTopics
<1> QED BY <1>1, <1>2

LEMMA ReleaseDecides ==
    ASSUME IInv, NEW u \in Topics, NEW o \in Owners, Release(u, o), NEW t \in Topics
    PROVE  Decided(t)
<1>1. CASE ReleaseShared(u, o)
  BY <1>1 DEF ReleaseShared, Decided
<1>2. CASE ReleaseLast(u, o)
  <2>1. owners'[u] = [owners[u] EXCEPT ![o] = NoQos]
    BY <1>2 DEF ReleaseLast, IInv, TypeOK
  <2>2. \A p \in Owners : owners'[u][p] = NoQos
    BY <1>2, <2>1 DEF ReleaseLast, OtherOwners, IInv, TypeOK
  <2>3. broker'[t] # broker[t] => t = u /\ broker'[t] = NoQos
    BY <1>2 DEF ReleaseLast, IInv, TypeOK
  <2> QED BY <2>2, <2>3 DEF Decided
<1> QED BY <1>1, <1>2 DEF Release

(* A reconnect restores what clientSubs has, and that is what is owned.      *)
LEMMA ConnectionChangedDecides ==
    ASSUME IInv, ConnectionChanged, NEW t \in Topics
    PROVE  Decided(t)
<1>1. owners' = owners
  BY DEF ConnectionChanged, registry
<1>2. broker'[t] # broker[t] => broker'[t] = subs[t] /\ subs[t] # NoQos
  BY DEF ConnectionChanged, Resubscribed, IInv, TypeOK, RegistryAgreement
<1> QED BY <1>1, <1>2 DEF Decided, IInv, RegistryAgreement

LEMMA StepDecides ==
    ASSUME IInv, [Next]_vars, NEW t \in Topics
    PROVE  Decided(t)
<1>1. CASE Service
  <2> SUFFICES ASSUME NEW u \in Topics,
                      \/ RestSubscribe(u)
                      \/ RestUnsubscribe(u)
                      \/ \E s \in Streams : StreamAcquire(u, s) \/ StreamRelease(u, s)
                      \/ \E r \in Queries : QueryAcquire(u, r) \/ QueryRelease(u, r)
               PROVE  Decided(t)
    BY <1>1 DEF Service
  <2>1. \A q \in QoS, o \in Owners, refresh \in BOOLEAN :
           Acquire(u, q, o, refresh) \/ AcquireRejected(u, q, o, refresh) => Decided(t)
    BY AcquireDecides
  <2>2. \A o \in Owners : Release(u, o) => Decided(t)
    BY ReleaseDecides
  <2>3. /\ Rest \in Owners /\ Streams \subseteq Owners /\ Queries \subseteq Owners
        /\ TRUE \in BOOLEAN /\ FALSE \in BOOLEAN
    BY DEF Owners
  <2>4. 0 \in QoS /\ RequestQos = QoS
    BY DEF QoS, RequestQos
  <2>5. RestSubscribe(u) \/ RestUnsubscribe(u) => Decided(t)
    BY <2>1, <2>2, <2>3, <2>4, Zenon DEF RestSubscribe, RestUnsubscribe
  <2>6. \A s \in Streams : StreamAcquire(u, s) \/ StreamRelease(u, s) => Decided(t)
    BY <2>1, <2>2, <2>3, <2>4, Zenon DEF StreamAcquire, StreamRelease
  <2>7. \A r \in Queries : QueryAcquire(u, r) \/ QueryRelease(u, r) => Decided(t)
    BY <2>1, <2>2, <2>3, <2>4, Zenon DEF QueryAcquire, QueryRelease
  <2> QED BY <2>5, <2>6, <2>7
<1>2. CASE Paho
  BY <1>2 DEF Paho, OnConnect, OnRefused, OnDisconnect, Drop, Decided, NoTopics
<1>3. CASE ConnectionChanged
  BY <1>3, ConnectionChangedDecides
<1>4. CASE UNCHANGED vars
  BY <1>4 DEF vars, network, Decided
<1> QED BY <1>1, <1>2, <1>3, <1>4 DEF Next

(* While a connection lasts only the last consumer's leaving ends a broker   *)
(* subscription, and nothing, a reconnect included, makes one nobody owns.   *)
THEOREM OwnersAlwaysDecide == Spec => OwnersDecide
<1>1. IInv /\ [Next]_vars => [\A t \in Topics : Decided(t)]_vars
  BY StepDecides
<1>2. OwnersDecide <=> [][\A t \in Topics : Decided(t)]_vars
  BY PTL DEF OwnersDecide, Decided
<1> QED BY <1>1, <1>2, Inductive, PTL DEF Spec

==============================================================================
