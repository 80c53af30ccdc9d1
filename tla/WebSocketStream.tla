--------------------------- MODULE WebSocketStream ---------------------------
(***************************************************************************)
(* The life of one /ws connection: authentication, subscriptions, the ready *)
(* frame, the three tasks of the task group and the clean-up, against a     *)
(* client that may vanish, a token that expires, a queue that overflows, a  *)
(* broker connection that fails and a server that cancels the request.      *)
(*                                                                         *)
(* An action runs from one await to the next.  acquire_subscription and     *)
(* release_subscription never suspend (see Subscriptions), so all topics    *)
(* are acquired in one action, and the finally block belongs to the action  *)
(* that leaves the try.                                                     *)
(***************************************************************************)
EXTENDS Integers, Sequences

CONSTANTS NumTopics,   \* topics requested, at most websocket_max_topics
          InboxSize    \* settings.websocket_queue_size

ASSUME StreamAssumption ==
    /\ NumTopics \in Nat \ {0}
    /\ InboxSize \in Nat \ {0}

Requested == 1..NumTopics
NoCode == 0
Policy == 1008         \* authentication, topics, expiry
Unavailable == 1011    \* the stream failed
TooSlow == 1013        \* the client cannot keep up
Codes == {Policy, Unavailable, TooSlow}

VARIABLES
    pc,           \* the await the endpoint coroutine is in
    registered,   \* ws_callback is one of the packet callbacks
    held,         \* topics this owner holds in MQTTService
    acquired,     \* the local list of topics to release
    inbox,        \* length of message_queue
    overflow,     \* the overflow event
    sender,       \* where send_messages is
    watching,     \* run_overflow is waiting for the event
    finished,     \* the finished event
    closeMessage, \* code of close_message
    gone,         \* the client has disconnected
    expired,      \* time.time() >= claims["exp"]
    cancelled,    \* the server cancelled the request
    ready,        \* history: the ready frame was sent
    lateFrames,   \* history: frames whose send began after expiry
    closeCode,    \* history: code of the close frame sent
    closes        \* history: close frames sent

broker == <<registered, held, acquired>>
tasks == <<sender, watching, finished, closeMessage>>
world == <<gone, expired, cancelled>>
queue == <<inbox, overflow>>
history == <<ready, lateFrames, closeCode, closes>>
vars == <<pc, broker, queue, tasks, world, history>>

Init ==
    /\ pc = "start"
    /\ registered = FALSE
    /\ held = {}
    /\ acquired = {}
    /\ inbox = 0
    /\ overflow = FALSE
    /\ sender = "none"
    /\ watching = FALSE
    /\ finished = FALSE
    /\ closeMessage = NoCode
    /\ gone = FALSE
    /\ expired = FALSE
    /\ cancelled = FALSE
    /\ ready = FALSE
    /\ lateFrames = 0
    /\ closeCode = NoCode
    /\ closes = 0

------------------------------------------------------------------------------
(* The rest of the world.                                                  *)

(* The client closes its side or its connection breaks. *)
ClientGone ==
    /\ ~gone /\ pc # "done"
    /\ gone' = TRUE
    /\ UNCHANGED <<pc, broker, queue, tasks, expired, cancelled, history>>

Expire ==
    /\ ~expired /\ pc # "done"
    /\ expired' = TRUE
    /\ UNCHANGED <<pc, broker, queue, tasks, gone, cancelled, history>>

(* ws_callback for a packet that matches and is not too long. *)
Deliver ==
    /\ registered
    /\ inbox' = IF inbox < InboxSize THEN inbox + 1 ELSE inbox
    /\ overflow' = (overflow \/ inbox = InboxSize)
    /\ UNCHANGED <<pc, broker, tasks, world, history>>

------------------------------------------------------------------------------
(* Leaving the endpoint.                                                   *)

(* remove_packet_callback, then release_subscription for every topic that   *)
(* was acquired, shielded from cancellation.                                *)
Finally ==
    /\ registered' = FALSE
    /\ held' = held \ acquired
    /\ UNCHANGED acquired

(* The close frame reaches the server, unless the client is gone and the    *)
(* RuntimeError is suppressed.                                              *)
SendClose(code) ==
    \/ /\ closes' = closes + 1
       /\ closeCode' = code
    \/ gone /\ UNCHANGED <<closes, closeCode>>

(* await websocket.close(...) returns or fails, and the finally block runs. *)
CloseDone ==
    /\ pc = "closing"
    /\ SendClose(closeMessage)
    /\ Finally
    /\ pc' = "done"
    /\ UNCHANGED <<queue, tasks, world, ready, lateFrames>>

(* The ASGI server cancels the request of a client it knows to be gone, or  *)
(* of any client when it shuts down.  CancelledError is raised at whichever *)
(* await the coroutine is in; the task group takes its tasks with it.       *)
Cancel ==
    /\ pc \notin {"start", "done"}
    /\ cancelled' = TRUE
    /\ sender' = "stopped"
    /\ watching' = FALSE
    /\ Finally
    /\ pc' = "done"
    /\ UNCHANGED <<queue, finished, closeMessage, gone, expired, history>>

------------------------------------------------------------------------------
(* Before the stream.                                                      *)

(* Refusals close with 1008 outside the try: nothing to clean up. *)
Reject ==
    /\ pc' = "closing"
    /\ closeMessage' = Policy
    /\ UNCHANGED <<broker, queue, sender, watching, finished, world, history>>

(* An Authorization header: token and topics are checked before accept. *)
HeaderAccepted ==
    /\ pc = "start"
    /\ ~expired
    /\ pc' = "accepting"
    /\ UNCHANGED <<broker, queue, tasks, world, history>>

HeaderRejected == pc = "start" /\ Reject

(* No header: accept first, then wait for the auth frame. *)
NoHeader ==
    /\ pc = "start"
    /\ pc' = "authWait"
    /\ UNCHANGED <<broker, queue, tasks, world, history>>

(* Timeout, disconnect, a frame that is no auth frame, a bad token or a     *)
(* topic the ACL refuses.                                                   *)
AuthFrameRejected == pc = "authWait" /\ Reject

(* The bug of remembering a topic only once all are acquired. *)
AcquireTogether(k) ==
    /\ registered' = TRUE
    /\ held' = 1..k
    /\ acquired' = IF k = NumTopics THEN 1..k ELSE {}

(* add_packet_callback, then the first k topics are acquired. *)
Acquire(k) ==
    /\ registered' = TRUE
    /\ held' = 1..k
    /\ acquired' = 1..k

(* From accept to the ready frame, or to the first topic that fails. *)
OpenStream(k) ==
    /\ Acquire(k)
    /\ pc' = IF k = NumTopics THEN "readying" ELSE "closing"
    /\ closeMessage' = IF k = NumTopics THEN NoCode ELSE Unavailable
    /\ UNCHANGED <<queue, sender, watching, finished, world, history>>

AuthFrameAccepted(k) ==
    /\ pc = "authWait"
    /\ ~expired
    /\ OpenStream(k)

AcceptDone(k) == pc = "accepting" /\ OpenStream(k)

(* accept itself raises: the exception leaves the endpoint. *)
AcceptFails ==
    /\ pc = "accepting" /\ gone
    /\ pc' = "done"
    /\ UNCHANGED <<broker, queue, tasks, world, history>>

ReadySent ==
    /\ pc = "readying"
    /\ ready' = TRUE
    /\ sender' = "check"
    /\ watching' = TRUE
    /\ pc' = "running"
    /\ UNCHANGED <<broker, queue, finished, closeMessage, world,
                   lateFrames, closeCode, closes>>

(* websocket_send_timeout, or the client is gone. *)
ReadyFailed ==
    /\ pc = "readying"
    /\ closeMessage' = Unavailable
    /\ pc' = "closing"
    /\ UNCHANGED <<broker, queue, sender, watching, finished, world, history>>

------------------------------------------------------------------------------
(* The tasks of the group.  A task that ends sets finished.                *)

running == pc = "running"

TaskEnds(code) ==
    /\ finished' = TRUE
    /\ closeMessage' = code
    /\ UNCHANGED <<pc, broker, world, history>>

(* The bug of looking at the clock only when no message is waiting. *)
SenderCheckLater ==
    /\ running /\ sender = "check"
    /\ \/ /\ expired /\ inbox = 0
          /\ sender' = "stopped"
          /\ TaskEnds(Policy) /\ UNCHANGED <<queue, watching>>
       \/ /\ ~(expired /\ inbox = 0)
          /\ sender' = "get"
          /\ UNCHANGED <<pc, broker, queue, watching, finished,
                         closeMessage, world, history>>

SenderCheck ==
    /\ running /\ sender = "check"
    /\ \/ /\ expired
          /\ sender' = "stopped"
          /\ TaskEnds(Policy) /\ UNCHANGED <<queue, watching>>
       \/ /\ ~expired
          /\ sender' = "get"
          /\ UNCHANGED <<pc, broker, queue, watching, finished,
                         closeMessage, world, history>>

BeginSend ==
    /\ sender' = "send"
    /\ lateFrames' = lateFrames + (IF expired THEN 1 ELSE 0)
    /\ UNCHANGED <<pc, broker, overflow, watching, finished, closeMessage,
                   world, ready, closeCode, closes>>

(* A message is there: it is sent even if the token expired while waiting. *)
SenderGet ==
    /\ running /\ sender = "get"
    /\ inbox > 0
    /\ inbox' = inbox - 1
    /\ BeginSend

(* 30 seconds without a message, or the token's last ones. *)
SenderGetTimeout ==
    /\ running /\ sender = "get"
    /\ \/ expired /\ sender' = "check"
          /\ UNCHANGED <<pc, broker, queue, watching, finished,
                         closeMessage, world, history>>
       \/ ~expired /\ BeginSend /\ UNCHANGED inbox

SenderSent ==
    /\ running /\ sender = "send"
    /\ sender' = "check"
    /\ UNCHANGED <<pc, broker, queue, watching, finished, closeMessage,
                   world, history>>

SenderSendTimeout ==
    /\ running /\ sender = "send"
    /\ sender' = "stopped"
    /\ TaskEnds(TooSlow) /\ UNCHANGED <<queue, watching>>

SenderSendFails ==
    /\ running /\ sender = "send" /\ gone
    /\ sender' = "stopped"
    /\ TaskEnds(Unavailable) /\ UNCHANGED <<queue, watching>>

(* The bug of a receiver that returns without setting the event. *)
ReceiverEndsQuietly ==
    /\ running /\ gone /\ ~finished
    /\ UNCHANGED vars

ReceiverEnds ==
    /\ running /\ gone /\ ~finished
    /\ TaskEnds(closeMessage) /\ UNCHANGED <<sender, watching, queue>>

OverflowEnds ==
    /\ running /\ watching /\ overflow
    /\ watching' = FALSE
    /\ TaskEnds(TooSlow) /\ UNCHANGED <<sender, queue>>

(* The bug of returning without a close frame. *)
GroupEndsSilently ==
    /\ running /\ finished
    /\ sender' = "stopped"
    /\ watching' = FALSE
    /\ Finally
    /\ pc' = "done"
    /\ UNCHANGED <<queue, finished, closeMessage, world, history>>

(* The owner wakes, cancels the group, and closes if there is a code to     *)
(* give; a client that left of itself gets none.                            *)
GroupEnds ==
    /\ running /\ finished
    /\ sender' = "stopped"
    /\ watching' = FALSE
    /\ \/ closeMessage # NoCode /\ pc' = "closing" /\ UNCHANGED broker
       \/ closeMessage = NoCode /\ pc' = "done" /\ Finally
    /\ UNCHANGED <<queue, finished, closeMessage, world, history>>

------------------------------------------------------------------------------
Owner ==
    \/ HeaderAccepted \/ HeaderRejected \/ NoHeader \/ AuthFrameRejected
    \/ \E k \in 0..NumTopics : AuthFrameAccepted(k) \/ AcceptDone(k)
    \/ AcceptFails \/ ReadySent \/ ReadyFailed
    \/ GroupEnds \/ CloseDone

Sender ==
    SenderCheck \/ SenderGet \/ SenderGetTimeout \/ SenderSent \/ SenderSendTimeout
        \/ SenderSendFails

Next ==
    \/ Owner \/ Sender \/ ReceiverEnds \/ OverflowEnds
    \/ ClientGone \/ Expire \/ Deliver \/ Cancel

Spec == Init /\ [][Next]_vars

(* Every await of the owner and of the sender carries a timeout or is       *)
(* answered by the server, and the event loop runs what is ready.  Nobody   *)
(* owes a disconnect, an expiry, a packet or a cancellation.                *)
FairSpec ==
    /\ Spec
    /\ WF_vars(Owner) /\ WF_vars(Sender)
    /\ WF_vars(ReceiverEnds) /\ WF_vars(OverflowEnds)

------------------------------------------------------------------------------
TypeOK ==
    /\ pc \in {"start", "authWait", "accepting", "readying", "running", "closing", "done"}
    /\ registered \in BOOLEAN
    /\ held \in SUBSET Requested
    /\ acquired \in SUBSET Requested
    /\ inbox \in 0..InboxSize
    /\ overflow \in BOOLEAN
    /\ watching \in BOOLEAN
    /\ sender \in {"none", "check", "get", "send", "stopped"}
    /\ finished \in BOOLEAN
    /\ closeMessage \in Codes \cup {NoCode}
    /\ gone \in BOOLEAN /\ expired \in BOOLEAN /\ cancelled \in BOOLEAN
    /\ ready \in BOOLEAN
    /\ lateFrames \in Nat
    /\ closeCode \in Codes \cup {NoCode}
    /\ closes \in Nat

(* "A ready frame confirms that subscriptions have been registered": from   *)
(* the frame until the stream ends every requested topic is held, and       *)
(* however it ends, partial acquisition and cancellation included, no       *)
(* callback and no subscription outlives it.                                *)
HeldUntilTheEnd ==
    /\ ready /\ pc # "done" => registered /\ held = Requested
    /\ pc = "done" => ~registered /\ held = {}

(* A client that is still there when the stream ends is told why, unless    *)
(* the server itself cancelled the request; it is told once, and no data    *)
(* frame follows.                                                           *)
ToldOnceAndLast ==
    /\ (pc = "done" /\ ~gone /\ ~cancelled) => closeCode # NoCode
    /\ closes <= 1
    /\ closes = 1 => pc = "done" /\ sender \in {"none", "stopped"}

(* Once the token has expired at most the frame already under way is sent.  *)
OneLateFrame == lateFrames <= 1

(* A token that expires, a client that leaves and a queue that overflows    *)
(* each end the stream ("streams close when the token expires").            *)
StreamEnds == (running /\ (expired \/ gone \/ overflow)) ~> pc = "done"

==============================================================================
