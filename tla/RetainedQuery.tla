---------------------------- MODULE RetainedQuery ----------------------------
(***************************************************************************)
(* Retained queries (MQTTService.query_retained).  A query registers a     *)
(* packet callback, repeats SUBSCRIBE so that the broker sends the retained *)
(* value again, and waits on a future until a retained packet of its topic *)
(* is delivered, the time-out fires or the request is cancelled.  Nothing  *)
(* between two awaits is interruptible on the event loop and no holder of  *)
(* the subscription lock suspends, so a query has three steps: it is       *)
(* asked, packets are drained into its future, it ends.                    *)
(*                                                                         *)
(* Values are numbered in the order they are published, 0 is "no retained  *)
(* value".  The values of Binary do not decode as UTF-8.                   *)
(***************************************************************************)
EXTENDS Naturals, Sequences, FiniteSets, SequencesExt

CONSTANTS
    Queries,     \* requests to POST /mqtt/retained
    Topics,
    Binary,      \* the published values whose payload is not UTF-8
    QueueSize,   \* settings.mqtt_queue_size
    MaxValues,   \* bound: values ever published
    MaxWire,     \* bound: packets between broker and gateway
    MaxDrops     \* bound: connections lost

ASSUME RetainedAssumption ==
    /\ IsFiniteSet(Topics)
    /\ QueueSize \in Nat \ {0}
    /\ MaxValues \in Nat /\ MaxWire \in Nat /\ MaxDrops \in Nat

VARIABLES
    pc,        \* a query is "idle", "waiting" or "done"
    topic,     \* request.topic of a query
    future,    \* a query's future: {} or the one packet that completed it
    answer,    \* how the query ended; "value" returns its future's packet
    held,      \* topics other owners hold: REST, streams
    up,        \* the broker connection
    retained,  \* the broker's retained value of each topic
    wire,      \* packets sent by the broker and not yet read by paho
    pending,   \* client._pending_messages
    value,     \* the last value published
    drops,     \* connections lost
    asked,     \* history: the retained value when a query was asked
    quiet,     \* history: no retained packet of its topic was under way then
    promised   \* history: the broker has sent a value for it since

queryVars == <<pc, topic, future, answer, held, up, retained, wire, pending, value,
          drops, asked, quiet, promised>>

Packet == [topic : Topics, value : 1..MaxValues, retain : BOOLEAN]
Answers == {"none", "value", "timeout", "failed", "cancelled"}

QueryTypeOK ==
    /\ pc \in [Queries -> {"idle", "waiting", "done"}]
    /\ topic \in [Queries -> Topics]
    /\ \A q \in Queries : future[q] \subseteq Packet /\ Cardinality(future[q]) <= 1
    /\ answer \in [Queries -> Answers]
    /\ held \in SUBSET Topics /\ up \in BOOLEAN
    /\ retained \in [Topics -> 0..MaxValues]
    /\ wire \in Seq(Packet) /\ pending \in Seq(Packet) /\ Len(pending) <= QueueSize
    /\ value \in 0..MaxValues /\ drops \in 0..MaxDrops
    /\ asked \in [Queries -> 0..MaxValues]
    /\ quiet \in [Queries -> BOOLEAN] /\ promised \in [Queries -> BOOLEAN]

(* client._subscriptions: what the gateway asks of the broker.             *)
Subscribed == held \cup {topic[q] : q \in {r \in Queries : pc[r] = "waiting"}}

(* The retained packets the broker answers a SUBSCRIBE of topics ts with.  *)
Replies(ts) ==
    LET present == {t \in ts : retained[t] # 0}
    IN  [i \in 1..Cardinality(present) |->
            LET t == SetToSeq(present)[i]
            IN  [topic |-> t, value |-> retained[t], retain |-> TRUE]]

QueryInit ==
    /\ pc = [q \in Queries |-> "idle"]
    /\ topic \in [Queries -> Topics]
    /\ future = [q \in Queries |-> {}]
    /\ answer = [q \in Queries |-> "none"]
    /\ held \in SUBSET Topics
    /\ up = TRUE
    /\ retained = [t \in Topics |-> 0]
    /\ wire = <<>> /\ pending = <<>>
    /\ value = 0 /\ drops = 0
    /\ asked = [q \in Queries |-> 0]
    /\ quiet = [q \in Queries |-> FALSE]
    /\ promised = [q \in Queries |-> FALSE]
-----------------------------------------------------------------------------
(* The environment: publishers, the connection and paho's thread.          *)

(* A retained value is published; subscribers also get it as a live packet. *)
Publish(t) ==
    /\ value < MaxValues /\ Len(wire) < MaxWire
    /\ value' = value + 1
    /\ retained' = [retained EXCEPT ![t] = value']
    /\ wire' = IF up /\ t \in Subscribed
               THEN Append(wire, [topic |-> t, value |-> value', retain |-> FALSE])
               ELSE wire
    /\ UNCHANGED <<pc, topic, future, answer, held, up, pending, drops, asked, quiet, promised>>

(* A retained value is deleted.                                            *)
Clear(t) ==
    /\ retained[t] # 0
    /\ retained' = [retained EXCEPT ![t] = 0]
    /\ UNCHANGED <<pc, topic, future, answer, held, up, wire, pending, value, drops, asked, quiet,
                   promised>>

Drop ==
    /\ up /\ drops < MaxDrops
    /\ up' = FALSE /\ drops' = drops + 1
    /\ wire' = <<>>
    /\ promised' = [q \in Queries |-> FALSE]
    /\ UNCHANGED <<pc, topic, future, answer, held, retained, pending, value, asked, quiet>>

(* _connection_changed subscribes every topic again, and the broker sends  *)
(* every retained value again.                                             *)
Reconnect ==
    /\ ~up
    /\ up' = TRUE
    /\ wire' = Replies(Subscribed)
    /\ promised' = [q \in Queries |-> pc[q] = "waiting" /\ retained[topic[q]] # 0]
    /\ UNCHANGED <<pc, topic, future, answer, held, retained, pending, value, drops, asked, quiet>>

(* _on_message appends to the bounded deque, which drops its oldest packet. *)
OnMessage ==
    /\ wire # <<>>
    /\ wire' = Tail(wire)
    /\ LET all == Append(pending, Head(wire))
       IN  /\ pending' = IF Len(all) > QueueSize THEN Tail(all) ELSE all
           /\ promised' = [q \in Queries |->
                promised[q] /\ ~(Len(all) > QueueSize /\ Head(all).topic = topic[q])]
    /\ UNCHANGED <<pc, topic, future, answer, held, up, retained, value, drops, asked, quiet>>
-----------------------------------------------------------------------------
(* The query.                                                              *)

(* receive: the packets that complete a query's future.                    *)
Completes(q, m) == m.topic = topic[q] /\ m.retain

(* The first packet waiting in the deque that does, if any.                 *)
FirstHit(q) ==
    {pending[i] : i \in {i \in DOMAIN pending :
        /\ Completes(q, pending[i])
        /\ \A j \in 1..(i - 1) : ~Completes(q, pending[j])}}

(* _drain_messages delivers the whole batch in one event-loop callback.    *)
Drain ==
    /\ pending # <<>>
    /\ pending' = <<>>
    /\ future' = [q \in Queries |->
         IF pc[q] = "waiting" /\ future[q] = {} THEN FirstHit(q) ELSE future[q]]
    /\ UNCHANGED <<pc, topic, answer, held, up, retained, wire, value, drops, asked, quiet,
                   promised>>

(* The bug of a query that relies on the subscription another owner holds. *)
NoRefresh(q) == topic[q] \notin Subscribed

(* acquire_subscription(..., refresh=True) sends SUBSCRIBE in every case.   *)
Refresh(q) == TRUE

(* The callback is registered, SUBSCRIBE sent and the future awaited.       *)
Ask(q) ==
    /\ pc[q] = "idle" /\ up /\ Len(wire) < MaxWire
    /\ pc' = [pc EXCEPT ![q] = "waiting"]
    /\ wire' = IF Refresh(q) THEN wire \o Replies({topic[q]}) ELSE wire
    /\ asked' = [asked EXCEPT ![q] = retained[topic[q]]]
    /\ quiet' = [quiet EXCEPT ![q] =
         \A m \in ToSet(wire \o pending) : ~(m.topic = topic[q] /\ m.retain)]
    /\ promised' = [promised EXCEPT ![q] = retained[topic[q]] # 0]
    /\ UNCHANGED <<topic, future, answer, held, up, retained, pending, value, drops>>

(* client.subscribe raises while disconnected: "Retained query failed".     *)
AskFails(q) ==
    /\ pc[q] = "idle" /\ ~up
    /\ pc' = [pc EXCEPT ![q] = "done"]
    /\ answer' = [answer EXCEPT ![q] = "failed"]
    /\ UNCHANGED <<topic, future, held, up, retained, wire, pending, value, drops, asked, quiet,
                   promised>>

(* The query ends with what it returns; its finally block removes the       *)
(* callback and the owner in the same step.                                *)
End(q, result) ==
    /\ pc[q] = "waiting"
    /\ pc' = [pc EXCEPT ![q] = "done"]
    /\ answer' = [answer EXCEPT ![q] = result]
    /\ promised' = [promised EXCEPT ![q] = FALSE]
    /\ UNCHANGED <<topic, future, held, up, retained, wire, pending, value, drops, asked, quiet>>

(* The future's packet is returned, unless its payload does not decode.     *)
Return(q) ==
    /\ future[q] # {}
    /\ End(q, IF \E m \in future[q] : m.value \in Binary THEN "failed" ELSE "value")

(* asyncio.timeout cancels the wait, also when the future has just been     *)
(* completed and the task not yet resumed.                                  *)
TimeOut(q) == End(q, "timeout")

(* The server cancels the request: no answer, the same finally block.       *)
Abandon(q) == End(q, "cancelled")

QueryNext ==
    \/ \E t \in Topics : Publish(t) \/ Clear(t)
    \/ Drop \/ Reconnect \/ OnMessage \/ Drain
    \/ \E q \in Queries : Ask(q) \/ AskFails(q) \/ Return(q) \/ TimeOut(q) \/ Abandon(q)

QuerySpec == QueryInit /\ [][QueryNext]_queryVars
-----------------------------------------------------------------------------
NotOlder(q) == \A m \in future[q] : m.value >= asked[q]

(* Whoever else holds the topic and whatever other queries do (lines        *)
(* 104-114): a waiting query whose value the broker has sent is not         *)
(* forgotten, its future is complete or a retained packet of its topic is   *)
(* on the way until the connection drops or the deque overflows with it;    *)
(* and when no such packet was under way as it was asked, its answer is the *)
(* value retained at that moment or a later one.                            *)
QueriesAreServed ==
    \A q \in Queries :
        /\ promised[q] =>
              \/ future[q] # {}
              \/ \E m \in ToSet(wire \o pending) : m.topic = topic[q] /\ m.retain
        /\ quiet[q] /\ answer[q] = "value" => NotOlder(q)

(* "Concurrent queries are independent" (README.md:195) and each "requests  *)
(* its current retained value" (mqtt_service.py:112): no query answers with *)
(* a value older than the one the broker held when it was asked.            *)
IndependentAnswers ==
    \A q \in Queries : answer[q] = "value" => NotOlder(q)

==============================================================================
