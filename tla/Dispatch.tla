------------------------------- MODULE Dispatch -------------------------------
(***************************************************************************)
(* How a packet reaches its consumers: paho's network thread appends it to  *)
(* the bounded deque _pending_messages, one scheduled _drain_messages moves *)
(* the deque to the event loop, and _deliver_message hands every packet to  *)
(* the message queue and to each registered callback.                      *)
(*                                                                         *)
(* _dispatch_lock makes OnMessage and DrainTake atomic.  The delivery loop  *)
(* that follows DrainTake never suspends: nothing else runs on the event    *)
(* loop while batch is not empty, but paho goes on receiving.               *)
(*                                                                         *)
(* A consumer is a WebSocket with its ws_callback, its bounded queue and    *)
(* its overflow event.  A packet is the pair of its arrival number and its  *)
(* topic; its payload is of no account here except for being too long.      *)
(***************************************************************************)
EXTENDS Integers, Sequences, FiniteSets

CONSTANTS Topics,
          Consumers,
          Wants,         \* consumer -> topics its requested filters match
          QueueSize,     \* settings.mqtt_queue_size
          InboxSize,     \* settings.websocket_queue_size
          MaxMessages    \* bound: packets accepted in a behaviour

ASSUME DispatchAssumption ==
    /\ Wants \in [Consumers -> SUBSET Topics]
    /\ QueueSize \in Nat \ {0}
    /\ InboxSize \in Nat \ {0}
    /\ MaxMessages \in Nat

Packet == [num : 1..MaxMessages, topic : Topics]

VARIABLES
    accepted,         \* history: packets within max_message_bytes so far
    pending,          \* _pending_messages
    dispatchPending,  \* _dispatch_pending
    drains,           \* _drain_messages callbacks scheduled on the loop
    batch,            \* the rest of the running drain's local list
    messageQueue,     \* _message_queue
    callbacks,        \* consumers whose ws_callback is registered
    inbox,            \* consumer -> its message_queue
    overflow,         \* consumer -> its overflow event
    log,              \* history: packets delivered so far, in order
    since,            \* history: consumer -> Len(log) when it registered
    taken             \* history: consumer -> packets its sender took

ingress == <<accepted, pending, dispatchPending, drains>>
history == <<log, since, taken>>
vars == <<accepted, pending, dispatchPending, drains, batch, messageQueue,
          callbacks, inbox, overflow, log, since, taken>>

Init ==
    /\ accepted = 0
    /\ pending = <<>>
    /\ dispatchPending = FALSE
    /\ drains = 0
    /\ batch = <<>>
    /\ messageQueue = <<>>
    /\ callbacks = {}
    /\ inbox = [c \in Consumers |-> <<>>]
    /\ overflow = [c \in Consumers |-> FALSE]
    /\ log = <<>>
    /\ since = [c \in Consumers |-> 0]
    /\ taken = [c \in Consumers |-> <<>>]

------------------------------------------------------------------------------
(* The paho thread.                                                        *)

(* The bugs of appendleft, and of a full queue that refuses the newest.     *)
AppendLeft(q, m) == <<m>> \o (IF Len(q) < QueueSize THEN q ELSE Tail(q))
AppendOrRefuse(q, m) == IF Len(q) < QueueSize THEN Append(q, m) ELSE q

(* deque(maxlen = QueueSize).append loses the oldest element when full. *)
AppendPending(q, m) == Append(IF Len(q) < QueueSize THEN q ELSE Tail(q), m)

(* The bug of scheduling a drain for every packet. *)
OnMessageAlwaysScheduling(t) ==
    /\ accepted < MaxMessages
    /\ accepted' = accepted + 1
    /\ pending' = AppendPending(pending, [num |-> accepted + 1, topic |-> t])
    /\ dispatchPending' = TRUE
    /\ drains' = drains + 1
    /\ UNCHANGED <<batch, messageQueue, callbacks, inbox, overflow, history>>

(* A payload above max_message_bytes returns before any state changes: a    *)
(* stuttering step.                                                         *)
OnMessage(t) ==
    /\ accepted < MaxMessages
    /\ accepted' = accepted + 1
    /\ pending' = AppendPending(pending, [num |-> accepted + 1, topic |-> t])
    /\ dispatchPending' = TRUE
    /\ drains' = IF dispatchPending THEN drains ELSE drains + 1
    /\ UNCHANGED <<batch, messageQueue, callbacks, inbox, overflow, history>>

------------------------------------------------------------------------------
(* The event loop.                                                         *)

loopIdle == batch = <<>>

(* The bug of leaving _dispatch_pending set, or of clearing it too late. *)
DrainTakeStillPending ==
    /\ loopIdle
    /\ drains > 0
    /\ drains' = drains - 1
    /\ batch' = pending
    /\ pending' = <<>>
    /\ UNCHANGED <<accepted, dispatchPending, messageQueue, callbacks, inbox,
                   overflow, history>>

(* _drain_messages under the lock. *)
DrainTake ==
    /\ loopIdle
    /\ drains > 0
    /\ drains' = drains - 1
    /\ batch' = pending
    /\ pending' = <<>>
    /\ dispatchPending' = FALSE
    /\ UNCHANGED <<accepted, messageQueue, callbacks, inbox, overflow, history>>

(* put_nowait, after get_nowait when the asyncio.Queue is full. *)
PutMessage(q, m) == Append(IF Len(q) < QueueSize THEN q ELSE Tail(q), m)

(* The bug of dropping a packet a full inbox has no room for, silently. *)
OverflowUnnoticed(c) == FALSE

OverflowSet(c) == Len(inbox[c]) >= InboxSize

(* One round of the delivery loop: _deliver_message and every ws_callback.  *)
(* An exception in a callback is logged and the others still run, so no     *)
(* callback's outcome appears in another's.                                 *)
DeliverMessage ==
    /\ batch # <<>>
    /\ LET m == Head(batch)
           called == {c \in callbacks : m.topic \in Wants[c]}
       IN  /\ messageQueue' = PutMessage(messageQueue, m)
           /\ inbox' = [c \in Consumers |->
                          IF c \in called /\ Len(inbox[c]) < InboxSize
                          THEN Append(inbox[c], m) ELSE inbox[c]]
           /\ overflow' = [c \in Consumers |->
                             overflow[c] \/ (c \in called /\ OverflowSet(c))]
           /\ log' = Append(log, m)
    /\ batch' = Tail(batch)
    /\ UNCHANGED <<ingress, callbacks, since, taken>>

(* A coroutine waiting in get_message is handed the oldest packet. *)
GetMessage ==
    /\ loopIdle
    /\ messageQueue # <<>>
    /\ messageQueue' = Tail(messageQueue)
    /\ UNCHANGED <<ingress, batch, callbacks, inbox, overflow, history>>

(* websocket_endpoint registers its callback, with a fresh queue and event. *)
AddCallback(c) ==
    /\ loopIdle
    /\ c \notin callbacks
    /\ callbacks' = callbacks \cup {c}
    /\ inbox' = [inbox EXCEPT ![c] = <<>>]
    /\ overflow' = [overflow EXCEPT ![c] = FALSE]
    /\ since' = [since EXCEPT ![c] = Len(log)]
    /\ taken' = [taken EXCEPT ![c] = <<>>]
    /\ UNCHANGED <<ingress, batch, messageQueue, log>>

RemoveCallback(c) ==
    /\ loopIdle
    /\ c \in callbacks
    /\ callbacks' = callbacks \ {c}
    /\ UNCHANGED <<ingress, batch, messageQueue, inbox, overflow, history>>

(* send_messages takes the oldest packet of its queue. *)
TakeFrame(c) ==
    /\ loopIdle
    /\ c \in callbacks
    /\ inbox[c] # <<>>
    /\ inbox' = [inbox EXCEPT ![c] = Tail(inbox[c])]
    /\ taken' = [taken EXCEPT ![c] = Append(taken[c], Head(inbox[c]))]
    /\ UNCHANGED <<ingress, batch, messageQueue, callbacks, overflow, log, since>>

Next ==
    \/ \E t \in Topics : OnMessage(t)
    \/ DrainTake
    \/ DeliverMessage
    \/ GetMessage
    \/ \E c \in Consumers : AddCallback(c) \/ RemoveCallback(c) \/ TakeFrame(c)

Spec == Init /\ [][Next]_vars

(* The event loop runs the drain scheduled on it, and finishes its loop. *)
FairSpec == Spec /\ WF_vars(DrainTake) /\ WF_vars(DeliverMessage)

------------------------------------------------------------------------------
TypeOK ==
    /\ accepted \in 0..MaxMessages
    /\ pending \in Seq(Packet)
    /\ dispatchPending \in BOOLEAN
    /\ drains \in Nat
    /\ batch \in Seq(Packet)
    /\ messageQueue \in Seq(Packet)
    /\ callbacks \in SUBSET Consumers
    /\ inbox \in [Consumers -> Seq(Packet)]
    /\ overflow \in [Consumers -> BOOLEAN]
    /\ log \in Seq(Packet)
    /\ since \in [Consumers -> Nat]
    /\ taken \in [Consumers -> Seq(Packet)]

(* No lost wake-up and no second one: a drain is scheduled exactly while    *)
(* the flag says so, and packets never wait without one ("a single          *)
(* scheduled drain bounds ... the number of cross-thread callbacks").       *)
SingleDrain ==
    /\ drains = IF dispatchPending THEN 1 ELSE 0
    /\ pending # <<>> => dispatchPending

(* The memory a busy event loop or an idle reader can make the gateway hold *)
(* is bounded, queue by queue.                                              *)
BoundedQueues ==
    /\ Len(pending) <= QueueSize
    /\ Len(batch) <= QueueSize
    /\ Len(messageQueue) <= QueueSize
    /\ \A c \in Consumers : Len(inbox[c]) <= InboxSize

Increasing(s) == \A i, j \in DOMAIN s : i < j => s[i].num < s[j].num

Before(s, t) == \A i \in DOMAIN s, j \in DOMAIN t : s[i].num < t[j].num

(* Packets are delivered in the order they arrived, although the next ones  *)
(* arrive while a drain is still delivering the last batch.                 *)
InOrder ==
    /\ Increasing(log) /\ Increasing(batch) /\ Increasing(pending)
    /\ Before(log, batch) /\ Before(log, pending) /\ Before(batch, pending)
    /\ \A i \in DOMAIN pending : pending[i].num <= accepted
    /\ \A i \in DOMAIN batch : batch[i].num <= accepted
    /\ \A i \in DOMAIN log : log[i].num <= accepted

Handed(c) == taken[c] \o inbox[c]
Wanted(c) == {log[i] : i \in {j \in (since[c] + 1)..Len(log) : log[j].topic \in Wants[c]}}

(* What a registered consumer has been handed, taken or still queued, is    *)
(* every packet delivered since it registered that its filters match, once  *)
(* and in order of arrival: a gap is never silent, the overflow event that  *)
(* closes the stream is set.  The message queue, which has no such event,   *)
(* holds the newest packets it has room for ("keep the newest telemetry").  *)
NoSilentGap ==
    /\ \A c \in callbacks :
          overflow[c] \/
          /\ Increasing(Handed(c))
          /\ {Handed(c)[i] : i \in DOMAIN Handed(c)} = Wanted(c)
    /\ \E k \in 0..Len(log) : messageQueue = SubSeq(log, k + 1, Len(log))

(* A packet that fits is delivered, or a newer one is: the last value of a  *)
(* topic never stays behind in the deque.                                   *)
NewestDelivered ==
    \A n \in 1..MaxMessages :
        (pending # <<>> /\ pending[Len(pending)].num = n)
            ~> (log # <<>> /\ log[Len(log)].num >= n)

------------------------------------------------------------------------------
(* What the gateway promises about ingress: a channel that loses a packet   *)
(* only to QueueSize newer ones.                                            *)
Channel == INSTANCE LossyChannel
    WITH Capacity <- QueueSize, Payload <- Topics, sent <- accepted,
         inFlight <- batch \o pending, delivered <- log

(* Refinement: batch followed by pending behaves as that channel. *)
ImplementsChannel == Channel!Spec

==============================================================================
