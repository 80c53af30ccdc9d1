---------------------------- MODULE Subscriptions ----------------------------
(***************************************************************************)
(* Shared MQTT subscriptions of the gateway: the owner registry of         *)
(* MQTTService, the desired state of MQTTClient, and the broker session    *)
(* that paho's network thread loses and re-creates.                        *)
(*                                                                         *)
(* Two threads meet here.  Every service call runs on the ASGI event loop  *)
(* and, because MQTTClient.subscribe and unsubscribe never suspend, from   *)
(* taking _subscription_lock to releasing it is one step.  The paho thread *)
(* changes the link at any moment, and reports it to the loop only by      *)
(* call_soon_threadsafe: the FIFO queue loopQ.  Until the report runs, the *)
(* event _connected is out of date.                                        *)
(*                                                                         *)
(* A topic stands for one authorized filter; a request the ACL refuses, or *)
(* one made while is_connected() is false, raises before any state changes *)
(* and is therefore a stuttering step.                                     *)
(***************************************************************************)
EXTENDS Integers, Sequences

CONSTANTS Topics,     \* authorized topic filters
          Streams,    \* owners "websocket:<uuid>", one per WebSocket
          Queries,    \* owners "retained:<uuid>", one per retained query
          MaxFaults   \* bound: connection losses and refusals in a behaviour

Rest == "rest"        \* the one owner all REST subscriptions share
Owners == {Rest} \cup Streams \cup Queries

ASSUME SubscriptionsAssumption ==
    /\ Rest \notin Streams \cup Queries
    /\ Streams \cap Queries = {}
    /\ MaxFaults \in Nat

QoS == 0..2
NoQos == -1           \* absent from the dictionary
MaybeQos == QoS \cup {NoQos}
NoTopics == [t \in Topics |-> NoQos]

VARIABLES
    owners,      \* MQTTService._owners: topic -> owner -> requested QoS
    subs,        \* MQTTService._subscriptions: topic -> effective QoS
    clientSubs,  \* MQTTClient._subscriptions: what a reconnect restores
    connected,   \* MQTTClient._connected, an asyncio.Event
    loopQ,       \* connection callbacks waiting for the event loop
    link,        \* paho's own state: is there an accepted connection?
    broker,      \* subscriptions of the current broker session
    faults       \* losses and refusals so far

registry == <<owners, subs, clientSubs>>
network == <<link, faults>>
vars == <<owners, subs, clientSubs, connected, loopQ, link, broker, faults>>

(* The state when connect() returns and the lifespan starts serving. *)
Init ==
    /\ owners = [t \in Topics |-> [o \in Owners |-> NoQos]]
    /\ subs = NoTopics
    /\ clientSubs = NoTopics
    /\ connected = TRUE
    /\ loopQ = <<>>
    /\ link = TRUE
    /\ broker = NoTopics
    /\ faults = 0

------------------------------------------------------------------------------
(* The paho network thread and the broker.                                 *)

(* CONNACK 0: paho is connected at once, _on_connect only schedules the     *)
(* report.  The broker session is new: no session expiry is requested, so   *)
(* the previous one ended with its connection.                              *)
OnConnect ==
    /\ ~link
    /\ link' = TRUE
    /\ loopQ' = Append(loopQ, "connected")
    /\ UNCHANGED <<registry, connected, broker, faults>>

(* CONNACK with a reason code: _on_connect reports failure, then paho       *)
(* closes the socket and calls _on_disconnect.                              *)
OnRefused ==
    /\ ~link
    /\ faults < MaxFaults
    /\ faults' = faults + 1
    /\ loopQ' = loopQ \o <<"refused", "clear">>
    /\ UNCHANGED <<registry, connected, link, broker>>

(* The connection is lost: the broker session goes with it. *)
Drop ==
    /\ link
    /\ faults < MaxFaults
    /\ faults' = faults + 1
    /\ link' = FALSE
    /\ broker' = NoTopics
    /\ loopQ' = Append(loopQ, "clear")

OnDisconnect == Drop /\ UNCHANGED <<registry, connected>>

------------------------------------------------------------------------------
(* Callbacks on the event loop.                                            *)

is_connected == link /\ connected

(* The bug of not restoring the desired topics. *)
NotResubscribed == broker

(* What paho's session holds after every desired topic is subscribed again; *)
(* with the link down each subscribe returns MQTT_ERR_NO_CONN, ignored.     *)
Resubscribed ==
    [t \in Topics |-> IF link /\ clientSubs[t] # NoQos
                      THEN clientSubs[t] ELSE broker[t]]

(* The bug of ignoring the success flag. *)
ConnectionAssumed ==
    /\ loopQ # <<>>
    /\ loopQ' = Tail(loopQ)
    /\ connected' = TRUE
    /\ broker' = Resubscribed
    /\ UNCHANGED <<registry, network>>

(* _connection_changed(success), or _connected.clear() after a loss. *)
ConnectionChanged ==
    /\ loopQ # <<>>
    /\ loopQ' = Tail(loopQ)
    /\ connected' = (Head(loopQ) = "connected")
    /\ broker' = IF Head(loopQ) = "connected" THEN Resubscribed ELSE broker
    /\ UNCHANGED <<registry, network>>

------------------------------------------------------------------------------
(* MQTTService on the event loop.                                          *)

(* The bug of taking one owner's QoS alone. *)
NewestQos(own) == own[CHOOSE o \in Owners : own[o] # NoQos]

EffectiveQos(own) ==
    CHOOSE q \in {own[o] : o \in Owners} : \A o \in Owners : own[o] <= q

NeedsSubscribe(t, eff, refresh) ==
    refresh \/ subs[t] = NoQos \/ eff # subs[t]

(* acquire_subscription up to its last assignment. *)
Acquire(t, q, o, refresh) ==
    LET own == [owners[t] EXCEPT ![o] = q]
        eff == EffectiveQos(own)
        send == NeedsSubscribe(t, eff, refresh)
    IN  /\ send => is_connected
        /\ clientSubs' = IF send THEN [clientSubs EXCEPT ![t] = eff] ELSE clientSubs
        /\ broker' = IF send THEN [broker EXCEPT ![t] = eff] ELSE broker
        /\ owners' = [owners EXCEPT ![t] = own]
        /\ subs' = [subs EXCEPT ![t] = eff]
        /\ UNCHANGED <<connected, loopQ, network>>

(* The connection drops between is_connected() and paho's subscribe, which  *)
(* returns an error: acquire_subscription raises with nothing recorded.     *)
AcquireRejected(t, q, o, refresh) ==
    LET eff == EffectiveQos([owners[t] EXCEPT ![o] = q])
    IN  /\ NeedsSubscribe(t, eff, refresh)
        /\ is_connected
        /\ Drop
        /\ UNCHANGED <<registry, connected>>

(* The bug of ignoring who else holds the topic. *)
NoOtherOwners(t, o) == {}

OtherOwners(t, o) == {p \in Owners \ {o} : owners[t][p] # NoQos}

ReleaseShared(t, o) ==
    /\ owners[t][o] # NoQos
    /\ OtherOwners(t, o) # {}
    /\ owners' = [owners EXCEPT ![t][o] = NoQos]
    /\ UNCHANGED <<subs, clientSubs, connected, loopQ, broker, network>>

(* The last consumer leaves: the desired state goes even while              *)
(* disconnected, UNSUBSCRIBE is sent only when is_connected().  A drop       *)
(* during the call is the same as one right after it.                       *)
ReleaseLast(t, o) ==
    /\ owners[t][o] # NoQos
    /\ OtherOwners(t, o) = {}
    /\ clientSubs' = [clientSubs EXCEPT ![t] = NoQos]
    /\ broker' = IF is_connected THEN [broker EXCEPT ![t] = NoQos] ELSE broker
    /\ owners' = [owners EXCEPT ![t][o] = NoQos]
    /\ subs' = [subs EXCEPT ![t] = NoQos]
    /\ UNCHANGED <<connected, loopQ, network>>

Release(t, o) == ReleaseShared(t, o) \/ ReleaseLast(t, o)

------------------------------------------------------------------------------
(* The three kinds of consumers.                                           *)

RequestQos == 0..2

RestSubscribe(t) ==
    \E q \in RequestQos :
        Acquire(t, q, Rest, FALSE) \/ AcquireRejected(t, q, Rest, FALSE)

RestUnsubscribe(t) == Release(t, Rest)

StreamAcquire(t, s) == Acquire(t, 0, s, FALSE) \/ AcquireRejected(t, 0, s, FALSE)

StreamRelease(t, s) == Release(t, s)

QueryAcquire(t, r) == Acquire(t, 0, r, TRUE) \/ AcquireRejected(t, 0, r, TRUE)

QueryRelease(t, r) == Release(t, r)

Service ==
    \E t \in Topics :
        \/ RestSubscribe(t)
        \/ RestUnsubscribe(t)
        \/ \E s \in Streams : StreamAcquire(t, s) \/ StreamRelease(t, s)
        \/ \E r \in Queries : QueryAcquire(t, r) \/ QueryRelease(t, r)

Paho == OnConnect \/ OnRefused \/ OnDisconnect

Next == Service \/ Paho \/ ConnectionChanged

Spec == Init /\ [][Next]_vars

(* The event loop runs what is scheduled on it, and paho's loop_start       *)
(* thread retries until the broker accepts.  Consumers owe nothing.         *)
FairSpec == Spec /\ WF_vars(ConnectionChanged) /\ WF_vars(OnConnect)

------------------------------------------------------------------------------
TypeOK ==
    /\ owners \in [Topics -> [Owners -> MaybeQos]]
    /\ subs \in [Topics -> MaybeQos]
    /\ clientSubs \in [Topics -> MaybeQos]
    /\ connected \in BOOLEAN
    /\ loopQ \in Seq({"connected", "refused", "clear"})
    /\ link \in BOOLEAN
    /\ broker \in [Topics -> MaybeQos]
    /\ faults \in 0..MaxFaults

(* MQTTService lists a topic exactly while somebody owns it, at a QoS no    *)
(* owner finds too low, and MQTTClient would restore exactly that list.     *)
RegistryAgreement ==
    /\ clientSubs = subs
    /\ \A t \in Topics :
          /\ subs[t] # NoQos <=> \E o \in Owners : owners[t][o] # NoQos
          /\ \A o \in Owners : owners[t][o] <= subs[t]

(* With no reconnect report outstanding, a live broker session serves every *)
(* owned topic at its effective QoS: no consumer is silently unsubscribed   *)
(* by a reconnect, by a failed SUBSCRIBE or by another consumer leaving.    *)
BrokerServesOwners ==
    (link /\ \A i \in DOMAIN loopQ : loopQ[i] # "connected")
        => \A t \in Topics : subs[t] # NoQos => broker[t] = subs[t]

(* The reports still queued always end by making _connected agree with      *)
(* paho: is_connected() cannot be stuck on a stale value.                   *)
EventConverges ==
    link <=> IF loopQ = <<>> THEN connected ELSE loopQ[Len(loopQ)] = "connected"

(* Who owns a topic decides what the broker does with it: while the         *)
(* connection lasts a subscription is dropped only when its last consumer   *)
(* has left (README: "disconnecting one consumer does not unsubscribe the   *)
(* others"), and no step, a reconnect included, subscribes a topic nobody   *)
(* owns (release_subscription: "reconnect must not resurrect                *)
(* subscriptions").                                                         *)
OwnersDecide ==
    [][\A t \in Topics :
          /\ (link /\ link' /\ broker[t] # NoQos /\ broker'[t] = NoQos)
                => \A o \in Owners : owners'[t][o] = NoQos
          /\ (broker[t] = NoQos /\ broker'[t] # NoQos)
                => \E o \in Owners : owners'[t][o] # NoQos]_vars

(* An owned topic is served again after any loss, unless it is released. *)
OwnedTopicServed ==
    \A t \in Topics : (subs[t] # NoQos) ~> (broker[t] = subs[t])

(* Once all reports have run, the broker session holds only topics that     *)
(* have a consumer.                                                         *)
NoAbandonedSubscription ==
    (link /\ connected /\ loopQ = <<>>)
        => \A t \in Topics : broker[t] # NoQos => subs[t] # NoQos

==============================================================================
