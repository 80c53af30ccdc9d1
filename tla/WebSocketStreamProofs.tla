------------------------ MODULE WebSocketStreamProofs ------------------------
(***************************************************************************)
(* What one /ws connection promises, for every number of topics and every   *)
(* queue length.  Each promise is about the end of the stream, so the       *)
(* invariant says, for every await the endpoint can be in, what it holds    *)
(* and what it has already told the client.                                 *)
(***************************************************************************)
EXTENDS WebSocketStream, TLAPS

(* Nothing is held before the topics are acquired.                         *)
Before ==
    pc \in {"start", "authWait", "accepting"} =>
        ~registered /\ held = {} /\ ~ready /\ sender = "none" /\ closeMessage = NoCode

(* From then on everything is, until an error or the end of the group.      *)
Open ==
    /\ pc \in {"readying", "running"} => registered /\ held = Requested
    /\ pc = "readying" => sender = "none"
    /\ pc = "running" => sender # "none"
    /\ pc = "closing" =>
          /\ closeMessage # NoCode
          /\ sender \in {"none", "stopped"}
          /\ ready => registered /\ held = Requested

(* What is to be released is what is held; afterwards nothing is.           *)
Released ==
    /\ pc # "done" => acquired = held
    /\ pc = "done" => ~registered /\ held = {} /\ sender \in {"none", "stopped"}

(* Only the end of the endpoint says goodbye, and only a client that left   *)
(* ends the group without a code.                                           *)
Told ==
    /\ pc # "done" => closes = 0
    /\ closes <= 1
    /\ finished /\ closeMessage = NoCode => gone
    /\ pc = "done" /\ ~gone /\ ~cancelled => closeCode # NoCode

(* A frame is late only once: the clock is read before every get.           *)
Late ==
    /\ lateFrames <= 1
    /\ lateFrames = 1 => expired
    /\ sender = "get" => lateFrames = 0

Inv == TypeOK /\ Before /\ Open /\ Released /\ Told /\ Late

USE DEF NoCode, Policy, Unavailable, TooSlow, Codes

LEMMA InitInv == ASSUME Init PROVE Inv
<1>1. inbox \in 0..InboxSize
  BY StreamAssumption DEF Init
<1>2. TypeOK
  BY <1>1 DEF Init, TypeOK
<1> QED BY <1>2 DEF Init, Inv, Before, Open, Released, Told, Late

(* The finally block takes back exactly what was acquired.                  *)
LEMMA FinallyReleases ==
  ASSUME Inv, pc # "done", Finally
  PROVE  /\ registered' = FALSE /\ held' = {} /\ acquired' = acquired
         /\ acquired' \in SUBSET Requested
  BY DEF Inv, TypeOK, Released, Finally

(* The disconnect, the expiry and the packets.                             *)
LEMMA WorldInv ==
  ASSUME Inv, ClientGone \/ Expire \/ Deliver
  PROVE  Inv'
<1>1. CASE ClientGone
  BY <1>1 DEF ClientGone, broker, queue, tasks, history, Inv, TypeOK, Before, Open, Released, Told, Late
<1>2. CASE Expire
  BY <1>2 DEF Expire, broker, queue, tasks, history, Inv, TypeOK, Before, Open, Released, Told, Late
<1>3. CASE Deliver
  <2>1. inbox' \in 0..InboxSize /\ overflow' \in BOOLEAN
    BY <1>3, StreamAssumption DEF Deliver, Inv, TypeOK
  <2> QED BY <1>3, <2>1
        DEF Deliver, broker, tasks, world, history, Inv, TypeOK, Before, Open, Released, Told, Late
<1> QED BY <1>1, <1>2, <1>3

(* The endpoint before the stream is open.                                 *)
LEMMA RefusalInv ==
  ASSUME Inv, HeaderAccepted \/ HeaderRejected \/ NoHeader \/ AuthFrameRejected \/ AcceptFails
  PROVE  Inv'
<1> USE DEF broker, queue, tasks, world, history, Inv, TypeOK, Before, Open, Released, Told, Late
<1>1. CASE HeaderAccepted
  BY <1>1 DEF HeaderAccepted
<1>2. CASE HeaderRejected
  BY <1>2 DEF HeaderRejected, Reject
<1>3. CASE NoHeader
  BY <1>3 DEF NoHeader
<1>4. CASE AuthFrameRejected
  BY <1>4 DEF AuthFrameRejected, Reject
<1>5. CASE AcceptFails
  BY <1>5 DEF AcceptFails
<1> QED BY <1>1, <1>2, <1>3, <1>4, <1>5

(* The first k topics are acquired: all of them, or the stream closes.      *)
LEMMA OpenStreamInv ==
  ASSUME Inv, pc \in {"authWait", "accepting"},
         NEW k \in 0..NumTopics, OpenStream(k)
  PROVE  Inv'
<1>1. 1..k \in SUBSET Requested /\ (k = NumTopics => 1..k = Requested)
  BY StreamAssumption DEF Requested
<1> HIDE DEF Requested
<1>2. /\ registered' = TRUE /\ held' = 1..k /\ acquired' = 1..k
      /\ UNCHANGED <<inbox, overflow, sender, watching, finished, gone, expired, cancelled,
                     ready, lateFrames, closeCode, closes>>
  BY DEF OpenStream, Acquire, queue, world, history
<1>3. ~ready /\ sender = "none" /\ closeMessage = NoCode /\ closes = 0
  BY DEF Inv, Before, Told
<1>4. CASE k = NumTopics
  <2>1. pc' = "readying" /\ closeMessage' = NoCode
    BY <1>4 DEF OpenStream
  <2> QED BY <1>1, <1>2, <1>3, <1>4, <2>1 DEF Inv, TypeOK, Before, Open, Released, Told, Late
<1>5. CASE k # NumTopics
  <2>1. pc' = "closing" /\ closeMessage' = Unavailable
    BY <1>5 DEF OpenStream
  <2> QED BY <1>1, <1>2, <1>3, <2>1 DEF Inv, TypeOK, Before, Open, Released, Told, Late
<1> QED BY <1>4, <1>5

(* The endpoint ends: what is left to show is what the client was told.     *)
LEMMA EndInv ==
  ASSUME Inv, pc # "done", pc' = "done", Finally,
         sender' \in {"none", "stopped"}, watching' \in BOOLEAN,
         UNCHANGED <<inbox, overflow, finished, closeMessage, gone, expired, ready, lateFrames>>,
         cancelled' \in BOOLEAN, closeCode' \in Codes \cup {NoCode}, closes' \in {0, 1},
         gone \/ cancelled' \/ closeCode' # NoCode
  PROVE  Inv'
<1>1. ~registered' /\ held' = {} /\ acquired' \in SUBSET Requested
  BY FinallyReleases
<1>2. TypeOK'
  <2>1. registered' \in BOOLEAN
    BY FinallyReleases, Zenon
  <2> QED BY <1>1, <2>1 DEF Inv, TypeOK
<1>3. Before' /\ Open'
  BY DEF Before, Open
<1>4. Released'
  BY <1>1 DEF Released
<1>5. Told'
  BY DEF Inv, Told
<1>6. Late'
  BY DEF Inv, Late
<1> QED BY <1>2, <1>3, <1>4, <1>5, <1>6 DEF Inv

(* The ready frame and the ways out.                                       *)
LEMMA OwnerInv ==
  ASSUME Inv, ReadySent \/ ReadyFailed \/ GroupEnds \/ CloseDone \/ Cancel
  PROVE  Inv'
<1> USE DEF broker, queue, tasks, world, history
<1>1. CASE ReadySent
  BY <1>1 DEF ReadySent, Inv, TypeOK, Before, Open, Released, Told, Late
<1>2. CASE ReadyFailed
  BY <1>2 DEF ReadyFailed, Inv, TypeOK, Before, Open, Released, Told, Late
<1>3. CASE GroupEnds
  <2>0. /\ pc = "running" /\ finished /\ sender' = "stopped" /\ watching' = FALSE
        /\ UNCHANGED <<inbox, overflow, finished, closeMessage, gone, expired, cancelled,
                       ready, lateFrames, closeCode, closes>>
    BY <1>3 DEF GroupEnds, running
  <2>w. watching' \in BOOLEAN
    BY <2>0, Zenon
  <2>1. CASE closeMessage # NoCode /\ pc' = "closing" /\ UNCHANGED <<registered, held, acquired>>
    <3>1. TypeOK'
      BY <2>0, <2>1, <2>w DEF Inv, TypeOK
    <3>2. Before' /\ Open' /\ Released' /\ Told' /\ Late'
      BY <2>0, <2>1 DEF Inv, Before, Open, Released, Told, Late
    <3> QED BY <3>1, <3>2 DEF Inv
  <2>2. CASE closeMessage = NoCode /\ pc' = "done" /\ Finally
    <3>1. gone /\ closes = 0 /\ closeCode \in Codes \cup {NoCode} /\ cancelled \in BOOLEAN
      BY <2>0, <2>2 DEF Inv, TypeOK, Told
    <3> QED BY <2>0, <2>2, <2>w, <3>1, EndInv
  <2> QED BY <1>3, <2>1, <2>2 DEF GroupEnds
<1>4. CASE CloseDone
  <2>0. /\ pc = "closing" /\ pc' = "done" /\ Finally
        /\ UNCHANGED <<inbox, overflow, sender, watching, finished, closeMessage, gone, expired,
                       cancelled, ready, lateFrames>>
    BY <1>4 DEF CloseDone
  <2>1. /\ sender \in {"none", "stopped"} /\ watching \in BOOLEAN /\ cancelled \in BOOLEAN
        /\ closeMessage \in Codes /\ closes = 0 /\ closeCode \in Codes \cup {NoCode}
    BY <2>0 DEF Inv, TypeOK, Open, Told
  <2>2. CASE closes' = closes + 1 /\ closeCode' = closeMessage
    BY <2>0, <2>1, <2>2, EndInv
  <2>3. CASE gone /\ UNCHANGED <<closes, closeCode>>
    BY <2>0, <2>1, <2>3, EndInv
  <2> QED BY <1>4, <2>2, <2>3 DEF CloseDone, SendClose
<1>5. CASE Cancel
  <2>1. /\ pc # "done" /\ pc' = "done" /\ Finally /\ cancelled' = TRUE
        /\ sender' = "stopped" /\ watching' = FALSE
        /\ UNCHANGED <<inbox, overflow, finished, closeMessage, gone, expired, ready, lateFrames,
                       closeCode, closes>>
    BY <1>5 DEF Cancel
  <2>2. closes = 0 /\ closeCode \in Codes \cup {NoCode}
    BY <2>1 DEF Inv, TypeOK, Told
  <2>3. watching' \in BOOLEAN /\ cancelled' \in BOOLEAN
    BY <2>1, Zenon
  <2> QED BY <2>1, <2>2, <2>3, EndInv
<1> QED BY <1>1, <1>2, <1>3, <1>4, <1>5

(* A task of the group moves on or ends with a code; only the sender that    *)
(* leaves "get" may begin a frame.                                          *)
LEMMA TaskInv ==
  ASSUME Inv, pc = "running", inbox' \in 0..InboxSize, watching' \in BOOLEAN,
         finished' \in BOOLEAN, sender' \in {"check", "get", "send", "stopped"},
         closeMessage' \in Codes \cup {NoCode}, lateFrames' \in {0, 1},
         UNCHANGED <<pc, registered, held, acquired, overflow, gone, expired, cancelled,
                     ready, closeCode, closes>>,
         finished' /\ closeMessage' = NoCode => gone,
         lateFrames' = 1 => expired, sender' = "get" => lateFrames' = 0
  PROVE  Inv'
<1>1. TypeOK'
  BY DEF Inv, TypeOK
<1>2. Before' /\ Open' /\ Released'
  BY DEF Inv, Before, Open, Released
<1>3. Told' /\ Late'
  BY DEF Inv, Told, Late
<1> QED BY <1>1, <1>2, <1>3 DEF Inv

(* The sender, the receiver and the overflow watch.                        *)
LEMMA TasksInv ==
  ASSUME Inv, Sender \/ ReceiverEnds \/ OverflowEnds
  PROVE  Inv'
<1> USE DEF running, broker, queue, tasks, world, history
<1>0. /\ inbox \in 0..InboxSize /\ watching \in BOOLEAN /\ finished \in BOOLEAN
      /\ expired \in BOOLEAN /\ InboxSize \in Nat
      /\ sender \in {"none", "check", "get", "send", "stopped"}
      /\ closeMessage \in Codes \cup {NoCode} /\ lateFrames \in {0, 1}
      /\ finished /\ closeMessage = NoCode => gone
      /\ lateFrames = 1 => expired
      /\ sender = "get" => lateFrames = 0
  BY StreamAssumption DEF Inv, TypeOK, Told, Late
<1>1. CASE SenderCheck
  <2>1. CASE expired
    BY <1>0, <1>1, <2>1, TaskInv DEF SenderCheck, TaskEnds
  <2>2. CASE ~expired
    BY <1>0, <1>1, <2>2, TaskInv DEF SenderCheck
  <2> QED BY <2>1, <2>2
<1>2. CASE SenderGet
  <2>1. inbox' \in 0..InboxSize
    BY <1>0, <1>2 DEF SenderGet
  <2>2. lateFrames' \in {0, 1} /\ (lateFrames' = 1 => expired)
    BY <1>0, <1>2 DEF SenderGet, BeginSend
  <2> QED BY <1>0, <1>2, <2>1, <2>2, TaskInv DEF SenderGet, BeginSend
<1>3. CASE SenderGetTimeout
  <2>1. CASE expired
    BY <1>0, <1>3, <2>1, TaskInv DEF SenderGetTimeout
  <2>2. CASE ~expired
    <3>1. lateFrames' = 0
      BY <1>0, <1>3, <2>2 DEF SenderGetTimeout, BeginSend
    <3> QED BY <1>0, <1>3, <2>2, <3>1, TaskInv DEF SenderGetTimeout, BeginSend
  <2> QED BY <2>1, <2>2
<1>4. CASE SenderSent
  BY <1>0, <1>4, TaskInv DEF SenderSent
<1>5. CASE SenderSendTimeout
  BY <1>0, <1>5, TaskInv DEF SenderSendTimeout, TaskEnds
<1>6. CASE SenderSendFails
  BY <1>0, <1>6, TaskInv DEF SenderSendFails, TaskEnds
<1>7. CASE ReceiverEnds
  <2>1. sender # "none"
    BY <1>7 DEF ReceiverEnds, Inv, Open
  <2> QED BY <1>0, <1>7, <2>1, TaskInv DEF ReceiverEnds, TaskEnds
<1>8. CASE OverflowEnds
  <2>1. sender # "none"
    BY <1>8 DEF OverflowEnds, Inv, Open
  <2>2. watching' \in BOOLEAN
    BY <1>8, Zenon DEF OverflowEnds
  <2> QED BY <1>0, <1>8, <2>1, <2>2, TaskInv DEF OverflowEnds, TaskEnds
<1> QED BY <1>1, <1>2, <1>3, <1>4, <1>5, <1>6, <1>7, <1>8 DEF Sender

LEMMA NextInv == ASSUME Inv, [Next]_vars PROVE Inv'
<1>1. CASE \E k \in 0..NumTopics : AuthFrameAccepted(k) \/ AcceptDone(k)
  BY <1>1, OpenStreamInv DEF AuthFrameAccepted, AcceptDone
<1>2. CASE UNCHANGED vars
  BY <1>2 DEF vars, broker, queue, tasks, world, history,
              Inv, TypeOK, Before, Open, Released, Told, Late
<1> QED BY <1>1, <1>2, WorldInv, RefusalInv, OwnerInv, TasksInv DEF Next, Owner

(* The invariant holds throughout: every action of the endpoint, of its tasks *)
(* and of the world around it preserves it.                                 *)
THEOREM StreamInvariant == Spec => []Inv
<1>1. Init => Inv
  BY InitInv
<1>2. Inv /\ [Next]_vars => Inv'
  BY NextInv
<1> QED BY <1>1, <1>2, PTL DEF Spec

(* From the ready frame to the end every requested topic is held, and       *)
(* afterwards neither callback nor subscription is left, however the stream *)
(* ends (websocket_endpoint and its finally block).                         *)
THEOREM StreamHoldsAndReleases == Spec => []HeldUntilTheEnd
<1>1. Inv => HeldUntilTheEnd
  BY DEF Inv, TypeOK, Before, Open, Released, HeldUntilTheEnd
<1> QED BY <1>1, StreamInvariant, PTL

(* A client still there at the end is told why, once and after the last     *)
(* data frame, unless the server cancelled the request.                     *)
THEOREM StreamSaysWhy == Spec => []ToldOnceAndLast
<1>1. Inv => ToldOnceAndLast
  BY DEF Inv, TypeOK, Released, Told, ToldOnceAndLast
<1> QED BY <1>1, StreamInvariant, PTL

(* At most the frame under way is sent after the token's expiry             *)
(* (send_messages looks at the clock before each get).                      *)
THEOREM StreamOneLateFrame == Spec => []OneLateFrame
<1>1. Inv => OneLateFrame
  BY DEF Inv, Late, OneLateFrame
<1> QED BY <1>1, StreamInvariant, PTL

==============================================================================
