---------------------------- MODULE DispatchProofs ----------------------------
(***************************************************************************)
(* Broker ingress for every queue size, any number of packets, topics and  *)
(* consumers: one drain at a time, bounded queues, delivery in order, and  *)
(* no packet a consumer wants is missing without its overflow event.       *)
(***************************************************************************)
EXTENDS Dispatch, SequenceTheorems, TLAPS

(* Each part is inductive over TypeOK alone except that the order of log    *)
(* needs the order of what is still in batch and pending, and the bound on  *)
(* batch the bound on pending.                                              *)
IInv ==
    /\ TypeOK
    /\ SingleDrain
    /\ BoundedQueues
    /\ InOrder

(* Appending to and taking from a sequence, index by index. *)
LEMMA AppendFacts ==
    ASSUME NEW S, NEW s \in Seq(S), NEW e \in S
    PROVE  /\ Append(s, e) \in Seq(S)
           /\ Append(s, e) # <<>>
           /\ Len(Append(s, e)) = Len(s) + 1
           /\ \A i \in DOMAIN Append(s, e) :
                 \/ i \in DOMAIN s /\ Append(s, e)[i] = s[i]
                 \/ i = Len(s) + 1 /\ Append(s, e)[i] = e
OBVIOUS

LEMMA TailFacts ==
    ASSUME NEW S, NEW s \in Seq(S), s # <<>>
    PROVE  /\ Tail(s) \in Seq(S)
           /\ Len(s) \in Nat \ {0}
           /\ Len(Tail(s)) = Len(s) - 1
           /\ Head(s) \in S /\ Head(s) = s[1] /\ 1 \in DOMAIN s
           /\ \A i \in DOMAIN Tail(s) :
                 i \in Nat \ {0} /\ i + 1 \in DOMAIN s /\ Tail(s)[i] = s[i + 1]
OBVIOUS

(* A newer packet at the end keeps a sequence increasing. *)
LEMMA IncreasingAppend ==
    ASSUME NEW s \in Seq(Packet), NEW m \in Packet, Increasing(s),
           \A i \in DOMAIN s : s[i].num < m.num
    PROVE  Increasing(Append(s, m))
<1> SUFFICES ASSUME NEW i \in DOMAIN Append(s, m), NEW j \in DOMAIN Append(s, m),
                    i < j
             PROVE  Append(s, m)[i].num < Append(s, m)[j].num
  BY DEF Increasing
<1>1. i \in DOMAIN s /\ Append(s, m)[i] = s[i]
  BY AppendFacts
<1>2. CASE j \in DOMAIN s /\ Append(s, m)[j] = s[j]
  BY <1>1, <1>2 DEF Increasing
<1>3. CASE Append(s, m)[j] = m
  BY <1>1, <1>3
<1> QED BY <1>2, <1>3, AppendFacts

LEMMA IncreasingTail ==
    ASSUME NEW s \in Seq(Packet), s # <<>>, Increasing(s)
    PROVE  /\ Increasing(Tail(s))
           /\ \A i \in DOMAIN Tail(s) : Head(s).num < Tail(s)[i].num
BY TailFacts DEF Increasing

LEMMA BeforeAppend ==
    ASSUME NEW s \in Seq(Packet), NEW t \in Seq(Packet), NEW m \in Packet,
           Before(s, t)
    PROVE  /\ (\A i \in DOMAIN s : s[i].num < m.num) => Before(s, Append(t, m))
           /\ (\A i \in DOMAIN t : m.num < t[i].num) => Before(Append(s, m), t)
BY AppendFacts DEF Before

LEMMA BeforeTail ==
    ASSUME NEW s \in Seq(Packet), NEW t \in Seq(Packet), Before(s, t)
    PROVE  /\ s # <<>> => Before(Tail(s), t)
           /\ t # <<>> => Before(s, Tail(t))
BY TailFacts DEF Before

(* The deque after an append: bounded, typed, ending in the new packet. *)
LEMMA PendingFacts ==
    ASSUME NEW q \in Seq(Packet), NEW m \in Packet, Len(q) <= QueueSize
    PROVE  /\ AppendPending(q, m) \in Seq(Packet)
           /\ Len(AppendPending(q, m)) <= QueueSize
           /\ \E r \in Seq(Packet) : /\ r = q \/ (q # <<>> /\ r = Tail(q))
                                     /\ AppendPending(q, m) = Append(r, m)
<1>1. CASE Len(q) < QueueSize
  BY <1>1, AppendFacts, DispatchAssumption DEF AppendPending
<1>2. CASE ~(Len(q) < QueueSize)
  <2>1. q # <<>> /\ Len(q) = QueueSize
    BY <1>2, DispatchAssumption
  <2>2. Tail(q) \in Seq(Packet) /\ Len(Tail(q)) = Len(q) - 1
    BY <2>1, TailFacts
  <2>3. AppendPending(q, m) = Append(Tail(q), m)
    BY <1>2 DEF AppendPending
  <2>4. Len(Append(Tail(q), m)) = Len(Tail(q)) + 1 /\ Append(Tail(q), m) \in Seq(Packet)
    BY <2>2, AppendFacts
  <2>5. Len(Append(Tail(q), m)) <= QueueSize
    BY <2>1, <2>2, <2>4, DispatchAssumption
  <2> QED BY <2>1, <2>2, <2>3, <2>4, <2>5
<1> QED BY <1>1, <1>2

LEMMA PutFacts ==
    ASSUME NEW q \in Seq(Packet), NEW m \in Packet, Len(q) <= QueueSize
    PROVE  /\ PutMessage(q, m) \in Seq(Packet)
           /\ Len(PutMessage(q, m)) <= QueueSize
BY PendingFacts DEF PutMessage, AppendPending

LEMMA NumFacts == \A p \in Packet : p.num \in Int
BY DispatchAssumption DEF Packet

LEMMA EmptyFacts == \A S : <<>> \in Seq(S)
OBVIOUS

LEMMA InitIInv == Init => IInv
<1> SUFFICES ASSUME Init PROVE IInv
  OBVIOUS
<1>1. TypeOK
  <2>1. <<>> \in Seq(Packet)
    BY EmptyFacts
  <2>2. 0 \in 0..MaxMessages
    BY DispatchAssumption
  <2>3. /\ [c \in Consumers |-> <<>>] \in [Consumers -> Seq(Packet)]
        /\ [c \in Consumers |-> FALSE] \in [Consumers -> BOOLEAN]
        /\ [c \in Consumers |-> 0] \in [Consumers -> Nat]
    BY <2>1
  <2> QED BY <2>1, <2>2, <2>3 DEF Init, TypeOK
<1>2. SingleDrain /\ InOrder
  BY DEF Init, SingleDrain, InOrder, Increasing, Before
<1>3. BoundedQueues
  BY DispatchAssumption DEF Init, BoundedQueues
<1> QED BY <1>1, <1>2, <1>3 DEF IInv

LEMMA OnMessageIInv ==
    ASSUME IInv, NEW t \in Topics, OnMessage(t)
    PROVE  IInv'
<1> DEFINE m == [num |-> accepted + 1, topic |-> t]
<1>1. m \in Packet /\ accepted' \in 0..MaxMessages /\ accepted' = accepted + 1
  BY DispatchAssumption DEF IInv, TypeOK, OnMessage, Packet
<1>2. m.num = accepted + 1
  OBVIOUS
<1>3. pending' = AppendPending(pending, m)
  BY DEF OnMessage
<1> HIDE DEF m
<1>4. pending' \in Seq(Packet) /\ Len(pending') <= QueueSize
  BY <1>1, <1>3, PendingFacts DEF IInv, TypeOK, BoundedQueues
<1>5. PICK r \in Seq(Packet) :
         /\ r = pending \/ (pending # <<>> /\ r = Tail(pending))
         /\ pending' = Append(r, m)
  BY <1>1, <1>3, PendingFacts DEF IInv, TypeOK, BoundedQueues
<1>6. TypeOK'
  BY <1>1, <1>4 DEF IInv, TypeOK, OnMessage, history
<1>7. SingleDrain'
  BY DEF IInv, TypeOK, SingleDrain, OnMessage
<1>8. BoundedQueues'
  BY <1>4 DEF IInv, BoundedQueues, OnMessage
<1>9. InOrder'
  <2>1. /\ Increasing(r) /\ Before(log, r) /\ Before(batch, r)
        /\ \A i \in DOMAIN r : r[i] \in Packet /\ r[i].num <= accepted
    <3>1. CASE r = pending
      BY <3>1 DEF IInv, TypeOK, InOrder
    <3>2. CASE pending # <<>> /\ r = Tail(pending)
      <4>1. Increasing(r) /\ Before(log, r) /\ Before(batch, r)
        BY <3>2, IncreasingTail, BeforeTail DEF IInv, TypeOK, InOrder
      <4>2. \A i \in DOMAIN r : i + 1 \in DOMAIN pending /\ r[i] = pending[i + 1]
        BY <3>2, TailFacts DEF IInv, TypeOK
      <4> QED BY <4>1, <4>2 DEF IInv, TypeOK, InOrder
    <3> QED BY <1>5, <3>1, <3>2
  <2>2. /\ \A i \in DOMAIN r : r[i].num < m.num
        /\ \A i \in DOMAIN log : log[i].num < m.num
        /\ \A i \in DOMAIN batch : batch[i].num < m.num
    <3>1. \A n \in Int : n <= accepted => n < m.num
      BY <1>2 DEF IInv, TypeOK
    <3>2. /\ \A i \in DOMAIN log : log[i] \in Packet /\ log[i].num <= accepted
          /\ \A i \in DOMAIN batch : batch[i] \in Packet /\ batch[i].num <= accepted
      BY DEF IInv, TypeOK, InOrder
    <3> QED BY <2>1, <3>1, <3>2, NumFacts
  <2>3. /\ Increasing(pending') /\ Before(log, pending') /\ Before(batch, pending')
    BY <1>1, <1>5, <2>1, <2>2, IncreasingAppend, BeforeAppend DEF IInv, TypeOK
  <2>4. \A i \in DOMAIN pending' : pending'[i].num <= accepted'
    BY <1>1, <1>2, <1>5, <2>1, AppendFacts DEF IInv, TypeOK, Packet
  <2>5. UNCHANGED <<log, batch>>
    BY DEF OnMessage, history
  <2>6. /\ \A i \in DOMAIN log : log[i].num <= accepted'
        /\ \A i \in DOMAIN batch : batch[i].num <= accepted'
    <3>1. accepted' = m.num
      BY <1>1, <1>2
    <3>2. /\ \A i \in DOMAIN log : log[i].num \in Int
          /\ \A i \in DOMAIN batch : batch[i].num \in Int
          /\ m.num \in Int
      BY <1>1, NumFacts DEF IInv, TypeOK
    <3> QED BY <2>2, <3>1, <3>2
  <2> QED BY <2>3, <2>4, <2>5, <2>6 DEF IInv, InOrder
<1> QED BY <1>6, <1>7, <1>8, <1>9 DEF IInv

LEMMA DrainTakeIInv ==
    ASSUME IInv, DrainTake
    PROVE  IInv'
<1>1. TypeOK'
  <2>1. drains' \in Nat
    BY DEF IInv, TypeOK, DrainTake
  <2>2. <<>> \in Seq(Packet)
    BY EmptyFacts
  <2> QED BY <2>1, <2>2 DEF IInv, TypeOK, DrainTake, history
<1>2. SingleDrain'
  BY DEF IInv, TypeOK, SingleDrain, DrainTake
<1>3. BoundedQueues'
  BY DispatchAssumption DEF IInv, BoundedQueues, DrainTake
<1>4. InOrder'
  BY DEF IInv, InOrder, Increasing, Before, DrainTake, history
<1> QED BY <1>1, <1>2, <1>3, <1>4 DEF IInv

LEMMA DeliverMessageIInv ==
    ASSUME IInv, DeliverMessage
    PROVE  IInv'
<1> DEFINE m == Head(batch)
           called == {c \in callbacks : m.topic \in Wants[c]}
<1>1. /\ batch # <<>> /\ batch' = Tail(batch) /\ log' = Append(log, m)
      /\ messageQueue' = PutMessage(messageQueue, m)
      /\ inbox' = [c \in Consumers |->
                     IF c \in called /\ Len(inbox[c]) < InboxSize
                     THEN Append(inbox[c], m) ELSE inbox[c]]
      /\ overflow' = [c \in Consumers |->
                        overflow[c] \/ (c \in called /\ OverflowSet(c))]
      /\ UNCHANGED <<accepted, pending, dispatchPending, drains, callbacks,
                     since, taken>>
  BY DEF DeliverMessage, ingress
<1>2. m \in Packet /\ m = batch[1] /\ 1 \in DOMAIN batch /\ Tail(batch) \in Seq(Packet)
  BY <1>1, TailFacts DEF IInv, TypeOK
<1> HIDE DEF m, called
<1>3. \A c \in Consumers :
         inbox'[c] \in Seq(Packet) /\ Len(inbox'[c]) <= InboxSize
  BY <1>1, <1>2, AppendFacts, DispatchAssumption DEF IInv, TypeOK, BoundedQueues
<1>4. messageQueue' \in Seq(Packet) /\ Len(messageQueue') <= QueueSize
  BY <1>1, <1>2, PutFacts DEF IInv, TypeOK, BoundedQueues
<1>5. TypeOK'
  <2>1. inbox' \in [Consumers -> Seq(Packet)]
    BY <1>1, <1>3
  <2>2. overflow' \in [Consumers -> BOOLEAN]
    BY <1>1, Zenon DEF IInv, TypeOK
  <2>3. log' \in Seq(Packet) /\ batch' \in Seq(Packet)
    BY <1>1, <1>2, AppendFacts DEF IInv, TypeOK
  <2> QED BY <1>1, <1>4, <2>1, <2>2, <2>3 DEF IInv, TypeOK
<1>6. SingleDrain'
  BY <1>1 DEF IInv, SingleDrain
<1>7. BoundedQueues'
  <2>1. Len(batch') <= QueueSize
    <3>1. Len(batch') = Len(batch) - 1 /\ Len(batch) \in Nat
      BY <1>1, TailFacts DEF IInv, TypeOK
    <3> QED BY <3>1, DispatchAssumption DEF IInv, BoundedQueues
  <2> QED BY <1>1, <1>3, <1>4, <2>1 DEF IInv, BoundedQueues
<1>8. InOrder'
  <2> USE DEF IInv, TypeOK, InOrder
  <2>1. /\ \A i \in DOMAIN log : log[i].num < m.num
        /\ \A i \in DOMAIN pending : m.num < pending[i].num
        /\ m.num <= accepted
    BY <1>2 DEF Before
  <2>2. Increasing(log')
    BY <1>1, <1>2, <2>1, IncreasingAppend
  <2>3. Increasing(batch') /\ \A i \in DOMAIN batch' : m.num < batch'[i].num
    BY <1>1, IncreasingTail DEF m
  <2>4. Before(log, batch') /\ Before(batch', pending)
    BY <1>1, BeforeTail
  <2>5. Before(log', batch') /\ Before(log', pending)
    BY <1>1, <1>2, <2>1, <2>3, <2>4, BeforeAppend
  <2>6. /\ \A i \in DOMAIN log' : log'[i].num <= accepted
        /\ \A i \in DOMAIN batch' : batch'[i].num <= accepted
    BY <1>1, <1>2, <2>1, AppendFacts, TailFacts
  <2> QED BY <1>1, <2>2, <2>3, <2>4, <2>5, <2>6
<1> QED BY <1>5, <1>6, <1>7, <1>8 DEF IInv

(* The steps of readers and of the registration of callbacks. *)
LEMMA ConsumerIInv ==
    ASSUME IInv,
           \/ GetMessage
           \/ \E c \in Consumers : AddCallback(c) \/ RemoveCallback(c) \/ TakeFrame(c)
    PROVE  IInv'
<1> USE DEF ingress, history
<1>1. UNCHANGED <<accepted, pending, dispatchPending, drains, batch, log>>
  BY DEF GetMessage, AddCallback, RemoveCallback, TakeFrame
<1>2. InOrder' /\ SingleDrain'
  BY <1>1 DEF IInv, InOrder, Increasing, Before, SingleDrain
<1>3. TypeOK' /\ BoundedQueues'
  <2>1. CASE GetMessage
    <3>1. Tail(messageQueue) \in Seq(Packet) /\ Len(Tail(messageQueue)) = Len(messageQueue) - 1
      BY <2>1, TailFacts DEF GetMessage, IInv, TypeOK
    <3> QED BY <2>1, <3>1, DispatchAssumption
            DEF GetMessage, IInv, TypeOK, BoundedQueues
  <2>2. ASSUME NEW c \in Consumers, AddCallback(c) PROVE TypeOK' /\ BoundedQueues'
    BY <2>2, DispatchAssumption DEF AddCallback, IInv, TypeOK, BoundedQueues
  <2>3. ASSUME NEW c \in Consumers, RemoveCallback(c) PROVE TypeOK' /\ BoundedQueues'
    BY <2>3 DEF RemoveCallback, IInv, TypeOK, BoundedQueues
  <2>4. ASSUME NEW c \in Consumers, TakeFrame(c) PROVE TypeOK' /\ BoundedQueues'
    <3>1. /\ Tail(inbox[c]) \in Seq(Packet) /\ Head(inbox[c]) \in Packet
          /\ Len(Tail(inbox[c])) = Len(inbox[c]) - 1 /\ Len(inbox[c]) \in Nat
      BY <2>4, TailFacts DEF TakeFrame, IInv, TypeOK
    <3>2. Append(taken[c], Head(inbox[c])) \in Seq(Packet)
      BY <3>1, AppendFacts DEF IInv, TypeOK
    <3>3. TypeOK'
      BY <2>4, <3>1, <3>2 DEF TakeFrame, IInv, TypeOK
    <3>4. \A d \in Consumers : Len(inbox'[d]) <= InboxSize
      BY <2>4, <3>1, DispatchAssumption DEF TakeFrame, IInv, TypeOK, BoundedQueues
    <3> QED BY <1>1, <2>4, <3>3, <3>4 DEF TakeFrame, IInv, BoundedQueues
  <2> QED BY <2>1, <2>2, <2>3, <2>4
<1> QED BY <1>2, <1>3 DEF IInv

LEMMA StutterIInv == IInv /\ UNCHANGED vars => IInv'
BY DEF IInv, vars, TypeOK, SingleDrain, BoundedQueues, InOrder, Increasing, Before

LEMMA Inductive == Spec => []IInv
<1>1. IInv /\ [Next]_vars => IInv'
  BY OnMessageIInv, DrainTakeIInv, DeliverMessageIInv, ConsumerIInv, StutterIInv
  DEF Next
<1> QED BY <1>1, InitIInv, PTL DEF Spec

(* Every queue and flag keeps its type. *)
THEOREM TypeCorrect == Spec => []TypeOK
BY Inductive, PTL DEF IInv

(* _dispatch_pending neither loses a wake-up nor schedules two drains. *)
THEOREM OneDrain == Spec => []SingleDrain
BY Inductive, PTL DEF IInv

(* No interleaving makes a queue outgrow its configured size. *)
THEOREM QueuesAreBounded == Spec => []BoundedQueues
BY Inductive, PTL DEF IInv

(* Packets leave _deliver_message in the order paho received them. *)
THEOREM DeliveredInOrder == Spec => []InOrder
BY Inductive, PTL DEF IInv

------------------------------------------------------------------------------
(* The refinement: batch \o pending as the abstract channel.               *)

LEMMA SameSequence ==
    ASSUME NEW S, NEW s \in Seq(S), NEW t \in Seq(S), Len(s) = Len(t),
           \A i \in 1..Len(s) : s[i] = t[i]
    PROVE  s = t
OBVIOUS

(* A packet appended to the deque is appended to the channel. *)
LEMMA ConcatAppend ==
    ASSUME NEW S, NEW b \in Seq(S), NEW p \in Seq(S), NEW m \in S
    PROVE  b \o Append(p, m) = Append(b \o p, m)
<1>1. Append(p, m) = p \o <<m>> /\ b \o p \in Seq(S)
  BY AppendIsConcat, ConcatProperties
<1>2. Append(b \o p, m) = (b \o p) \o <<m>>
  BY <1>1, AppendIsConcat
<1>3. <<m>> \in Seq(S)
  OBVIOUS
<1> QED BY <1>1, <1>2, <1>3, ConcatAssociative

(* The deque's oldest packet is number Len(b) + 1 of the channel. *)
LEMMA ConcatRemove ==
    ASSUME NEW S, NEW b \in Seq(S), NEW p \in Seq(S), p # <<>>
    PROVE  SubSeq(b \o p, 1, Len(b)) \o SubSeq(b \o p, Len(b) + 2, Len(b \o p))
               = b \o Tail(p)
<1>1. /\ Len(b) \in Nat /\ Len(p) \in Nat \ {0}
      /\ Len(b \o p) = Len(b) + Len(p)
      /\ b \o p \in Seq(S)
  BY ConcatProperties, LenProperties, EmptySeq
<1>2. SubSeq(b \o p, 1, Len(b)) = b
  <2>1. CASE Len(b) = 0
    <3>1. b = <<>>
      BY <2>1
    <3>2. SubSeq(b \o p, 1, 0) = <<>>
      BY SubSeqEmpty
    <3> QED BY <2>1, <3>1, <3>2
  <2>2. CASE Len(b) # 0
    <3>1. 1 \in 1..Len(b) /\ Len(b) \in 1..Len(b)
      BY <1>1, <2>2
    <3> QED BY <3>1, SubSeqOfConcat1, SubSeqFull
  <2> QED BY <2>1, <2>2
<1>3. SubSeq(b \o p, Len(b) + 2, Len(b) + Len(p)) = Tail(p)
  <2>1. Tail(p) = SubSeq(p, 2, Len(p))
    BY TailIsSubSeq
  <2>2. CASE Len(p) = 1
    <3>1. SubSeq(b \o p, Len(b) + 2, Len(b) + 1) = <<>>
      BY <1>1, SubSeqEmpty
    <3>2. SubSeq(p, 2, 1) = <<>>
      BY SubSeqEmpty
    <3> QED BY <2>1, <2>2, <3>1, <3>2
  <2>3. CASE Len(p) # 1
    <3>0. Len(b) \in Nat /\ Len(p) \in Nat /\ Len(p) # 0
      BY <1>1
    <3>1. /\ Len(b) + 2 \in Len(b)+1 .. Len(b)+Len(p)
          /\ Len(b) + Len(p) \in Len(b)+1 .. Len(b)+Len(p)
          /\ (Len(b) + 2) - Len(b) = 2
          /\ (Len(b) + Len(p)) - Len(b) = Len(p)
      <4>1. \A x, y \in Nat : y # 0 /\ y # 1 =>
               /\ x + 2 \in x+1 .. x+y /\ x + y \in x+1 .. x+y
               /\ (x + 2) - x = 2 /\ (x + y) - x = y
        OBVIOUS
      <4> QED BY <2>3, <3>0, <4>1, Zenon
    <3>2. SubSeq(b \o p, Len(b) + 2, Len(b) + Len(p))
              = SubSeq(p, (Len(b) + 2) - Len(b), (Len(b) + Len(p)) - Len(b))
      BY <3>1, SubSeqOfConcat2
    <3> QED BY <2>1, <3>1, <3>2
  <2> QED BY <2>2, <2>3
<1> QED BY <1>1, <1>2, <1>3

(* The drain's next packet is the channel's. *)
LEMMA ConcatTail ==
    ASSUME NEW S, NEW b \in Seq(S), NEW p \in Seq(S), b # <<>>
    PROVE  /\ b \o p # <<>>
           /\ Head(b \o p) = Head(b)
           /\ Tail(b \o p) = Tail(b) \o p
<1>1. /\ Len(b) \in Nat \ {0} /\ Len(p) \in Nat
      /\ Len(b \o p) = Len(b) + Len(p)
      /\ b \o p \in Seq(S)
      /\ \A i \in 1 .. Len(b) + Len(p) : (b \o p)[i] =
             IF i <= Len(b) THEN b[i] ELSE p[i - Len(b)]
  BY ConcatProperties, LenProperties, EmptySeq
<1>2. b \o p # <<>>
  BY <1>1
<1>3. Head(b \o p) = Head(b)
  BY <1>1, <1>2
<1>4. /\ Tail(b \o p) \in Seq(S) /\ Len(Tail(b \o p)) = Len(b) + Len(p) - 1
      /\ \A i \in 1 .. Len(b) + Len(p) - 1 : Tail(b \o p)[i] = (b \o p)[i + 1]
  BY <1>1, <1>2, HeadTailProperties
<1>5. /\ Tail(b) \in Seq(S) /\ Len(Tail(b)) = Len(b) - 1
      /\ \A i \in 1 .. Len(b) - 1 : Tail(b)[i] = b[i + 1]
  BY HeadTailProperties
<1>6. /\ Tail(b) \o p \in Seq(S) /\ Len(Tail(b) \o p) = Len(b) - 1 + Len(p)
      /\ \A i \in 1 .. Len(b) - 1 + Len(p) : (Tail(b) \o p)[i] =
             IF i <= Len(b) - 1 THEN Tail(b)[i] ELSE p[i - (Len(b) - 1)]
  BY <1>5, ConcatProperties
<1>7. ASSUME NEW i \in 1 .. Len(b) + Len(p) - 1
      PROVE  Tail(b \o p)[i] = (Tail(b) \o p)[i]
  <2>1. /\ i + 1 \in 1 .. Len(b) + Len(p) /\ i \in 1 .. Len(b) - 1 + Len(p)
        /\ i + 1 <= Len(b) <=> i <= Len(b) - 1
        /\ (i + 1) - Len(b) = i - (Len(b) - 1)
        /\ i <= Len(b) - 1 => i \in 1 .. Len(b) - 1
    BY <1>1
  <2>2. CASE i <= Len(b) - 1
    BY <1>1, <1>4, <1>5, <1>6, <2>1, <2>2
  <2>3. CASE ~(i <= Len(b) - 1)
    BY <1>1, <1>4, <1>6, <2>1, <2>3
  <2> QED BY <2>2, <2>3
<1>8. Len(b) + Len(p) - 1 = Len(b) - 1 + Len(p)
  BY <1>1
<1>9. Tail(b \o p) = Tail(b) \o p
  BY <1>4, <1>6, <1>7, <1>8, SameSequence
<1> QED BY <1>2, <1>3, <1>9

LEMMA OnMessageSends ==
    ASSUME IInv, NEW t \in Topics, OnMessage(t)
    PROVE  Channel!Next
<1> DEFINE m == [num |-> accepted + 1, topic |-> t]
           flight == batch \o pending
<1>1. /\ m \in Packet
      /\ accepted' = accepted + 1 /\ UNCHANGED <<batch, log>>
      /\ pending' = AppendPending(pending, m)
      /\ batch \in Seq(Packet) /\ pending \in Seq(Packet)
  BY DispatchAssumption DEF IInv, TypeOK, OnMessage, Packet, history
<1>2. CASE Len(pending) < QueueSize
  <2>1. batch \o Append(pending, m) = Append(flight, m)
    BY <1>1, ConcatAppend
  <2>2. Channel!Accept(t)
    BY <1>1, <1>2, <2>1 DEF Channel!Accept, AppendPending
  <2> QED BY <2>2 DEF Channel!Next
<1>3. CASE ~(Len(pending) < QueueSize)
  <2>1. pending # <<>> /\ Len(pending) = QueueSize
    BY <1>1, <1>3, DispatchAssumption DEF IInv, BoundedQueues
  <2>2. /\ Tail(pending) \in Seq(Packet) /\ Len(batch) \in Nat
        /\ Len(flight) = Len(batch) + QueueSize
        /\ flight \in Seq(Packet)
    BY <1>1, <2>1, HeadTailProperties, ConcatProperties, LenProperties
  <2> DEFINE i == Len(batch) + 1
  <2>3. /\ i \in DOMAIN flight
        /\ Len(flight) - i >= QueueSize - 1
        /\ i - 1 = Len(batch) /\ i + 1 = Len(batch) + 2
    BY <2>2, DispatchAssumption
  <2>4. SubSeq(flight, 1, i - 1) \o SubSeq(flight, i + 1, Len(flight))
            = batch \o Tail(pending)
    BY <1>1, <2>1, <2>3, ConcatRemove
  <2>5. batch \o Append(Tail(pending), m) = Append(batch \o Tail(pending), m)
    BY <1>1, <2>2, ConcatAppend
  <2>6. pending' = Append(Tail(pending), m)
    BY <1>1, <1>3 DEF AppendPending
  <2>7. Channel!AcceptDropping(t, i)
    BY <1>1, <2>3, <2>4, <2>5, <2>6 DEF Channel!AcceptDropping, Channel!RemoveAt
  <2> QED BY <2>3, <2>7 DEF Channel!Next
<1> QED BY <1>2, <1>3

LEMMA DeliverMessageDelivers ==
    ASSUME IInv, DeliverMessage
    PROVE  Channel!Next
<1>1. /\ batch # <<>> /\ batch' = Tail(batch) /\ log' = Append(log, Head(batch))
      /\ UNCHANGED <<accepted, pending>>
      /\ batch \in Seq(Packet) /\ pending \in Seq(Packet)
  BY DEF IInv, TypeOK, DeliverMessage, ingress
<1>2. Channel!Deliver
  BY <1>1, ConcatTail DEF Channel!Deliver
<1> QED BY <1>2 DEF Channel!Next

(* A drain moves packets within the channel, and a reader touches none. *)
LEMMA OthersStutter ==
    ASSUME IInv,
           \/ DrainTake
           \/ GetMessage
           \/ \E c \in Consumers : AddCallback(c) \/ RemoveCallback(c) \/ TakeFrame(c)
           \/ UNCHANGED vars
    PROVE  UNCHANGED Channel!channelVars
<1>1. CASE DrainTake
  <2>1. batch = <<>> /\ batch' = pending /\ pending' = <<>>
    BY <1>1 DEF DrainTake, loopIdle
  <2>2. pending \o <<>> = pending /\ <<>> \o pending = pending
    BY ConcatEmptySeq DEF IInv, TypeOK
  <2> QED BY <1>1, <2>1, <2>2 DEF Channel!channelVars, DrainTake, history
<1>2. CASE ~DrainTake
  BY <1>2
  DEF Channel!channelVars, GetMessage, AddCallback, RemoveCallback, TakeFrame,
      ingress, history, vars
<1> QED BY <1>1, <1>2

(* The deque, the drain and the delivery loop together lose a packet only   *)
(* to QueueSize newer ones and never reorder: they implement LossyChannel.  *)
THEOREM Refinement == Spec => ImplementsChannel
<1>1. Init => Channel!Init
  BY ConcatEmptySeq, EmptyFacts DEF Init, Channel!Init
<1>2. IInv /\ [Next]_vars => [Channel!Next]_(Channel!channelVars)
  BY OnMessageSends, DeliverMessageDelivers, OthersStutter DEF Next
<1> QED BY <1>1, <1>2, Inductive, PTL DEF Spec, ImplementsChannel, Channel!Spec

------------------------------------------------------------------------------
(* No silent gap.                                                          *)

(* What c was handed is what it wants of the log, and nothing else. *)
Complete(h, l, from, topics) ==
    /\ \A i \in DOMAIN h : \E j \in DOMAIN l : j > from /\ l[j].topic \in topics /\ h[i] = l[j]
    /\ \A j \in DOMAIN l : (j > from /\ l[j].topic \in topics) => \E i \in DOMAIN h : h[i] = l[j]

(* q is the end of l. *)
EndOf(q, l) == Len(q) <= Len(l) /\ \A i \in 1..Len(q) : q[i] = l[Len(l) - Len(q) + i]

GapInv ==
    /\ IInv
    /\ \A c \in callbacks : since[c] <= Len(log)
    /\ \A c \in callbacks : ~overflow[c] =>
          Increasing(Handed(c)) /\ Complete(Handed(c), log, since[c], Wants[c])
    /\ EndOf(messageQueue, log)

LEMMA HandedIsTyped ==
    ASSUME TypeOK, NEW c \in Consumers
    PROVE  Handed(c) \in Seq(Packet)
BY ConcatProperties DEF TypeOK, Handed

LEMMA GapInit == Init => GapInv
BY InitIInv DEF Init, GapInv, EndOf

(* A packet the consumer wants, handed to it. *)
LEMMA CompleteGrows ==
    ASSUME NEW h \in Seq(Packet), NEW l \in Seq(Packet), NEW m \in Packet,
           NEW from \in Nat, from <= Len(l), NEW topics, Complete(h, l, from, topics)
    PROVE  /\ m.topic \in topics => Complete(Append(h, m), Append(l, m), from, topics)
           /\ m.topic \notin topics => Complete(h, Append(l, m), from, topics)
<1> DEFINE k == Append(l, m)
           g == Append(h, m)
<1>1. /\ Len(l) \in Nat /\ DOMAIN k = 1..(Len(l) + 1) /\ DOMAIN l = 1..Len(l)
      /\ k[Len(l) + 1] = m /\ \A j \in 1..Len(l) : k[j] = l[j]
  OBVIOUS
<1>2. /\ Len(h) \in Nat /\ DOMAIN g = 1..(Len(h) + 1) /\ DOMAIN h = 1..Len(h)
      /\ g[Len(h) + 1] = m /\ \A i \in 1..Len(h) : g[i] = h[i]
  OBVIOUS
<1> HIDE DEF k, g
<1>3. ASSUME NEW i \in DOMAIN h
      PROVE  \E j \in DOMAIN k : j > from /\ k[j].topic \in topics /\ h[i] = k[j]
  <2>1. PICK j \in DOMAIN l : j > from /\ l[j].topic \in topics /\ h[i] = l[j]
    BY DEF Complete
  <2>2. j \in DOMAIN k /\ k[j] = l[j]
    BY <1>1
  <2> QED BY <2>1, <2>2
<1>4. ASSUME NEW j \in DOMAIN l, j > from, l[j].topic \in topics
      PROVE  \E i \in DOMAIN h : h[i] = k[j]
  <2>1. PICK i \in DOMAIN h : h[i] = l[j]
    BY <1>4 DEF Complete
  <2> QED BY <1>1, <2>1
<1>5. ASSUME m.topic \notin topics PROVE Complete(h, k, from, topics)
  <2>1. ASSUME NEW j \in DOMAIN k, j > from, k[j].topic \in topics
        PROVE  \E i \in DOMAIN h : h[i] = k[j]
    <3>1. j \in DOMAIN l /\ k[j] = l[j]
      BY <1>1, <1>5, <2>1
    <3> QED BY <1>4, <2>1, <3>1
  <2> QED BY <1>3, <2>1 DEF Complete
<1>6. ASSUME m.topic \in topics PROVE Complete(g, k, from, topics)
  <2>1. ASSUME NEW i \in DOMAIN g
        PROVE  \E j \in DOMAIN k : j > from /\ k[j].topic \in topics /\ g[i] = k[j]
    <3>1. CASE i \in DOMAIN h
      BY <1>2, <1>3, <3>1
    <3>2. CASE i = Len(h) + 1
      <4>1. Len(l) + 1 \in DOMAIN k /\ Len(l) + 1 > from
        BY <1>1
      <4> QED BY <1>1, <1>2, <1>6, <3>2, <4>1
    <3> QED BY <1>2, <3>1, <3>2
  <2>2. ASSUME NEW j \in DOMAIN k, j > from, k[j].topic \in topics
        PROVE  \E i \in DOMAIN g : g[i] = k[j]
    <3>1. CASE j \in DOMAIN l
      <4>1. k[j] = l[j]
        BY <1>1, <3>1
      <4>2. PICK i \in DOMAIN h : h[i] = k[j]
        BY <1>4, <2>2, <3>1, <4>1
      <4>3. i \in DOMAIN g /\ g[i] = h[i]
        BY <1>2
      <4> QED BY <4>2, <4>3
    <3>2. CASE j = Len(l) + 1
      <4>1. Len(h) + 1 \in DOMAIN g
        BY <1>2
      <4> QED BY <1>1, <1>2, <3>2, <4>1
    <3> QED BY <1>1, <3>1, <3>2
  <2> QED BY <2>1, <2>2 DEF Complete
<1> QED BY <1>5, <1>6 DEF k, g

LEMMA EndGrows ==
    ASSUME NEW q \in Seq(Packet), NEW l \in Seq(Packet), NEW m \in Packet, EndOf(q, l)
    PROVE  /\ EndOf(Append(q, m), Append(l, m))
           /\ q # <<>> => EndOf(Tail(q), l)
<1>1. Len(q) \in Nat /\ Len(l) \in Nat /\ Len(Append(l, m)) = Len(l) + 1 /\ Len(Append(q, m)) = Len(q) + 1
  OBVIOUS
<1> DEFINE g == Append(q, m)
           k == Append(l, m)
<1>5. /\ \A i \in 1..Len(q) : g[i] = q[i]
      /\ \A i \in 1..Len(l) : k[i] = l[i]
      /\ g[Len(q) + 1] = m /\ k[Len(l) + 1] = m /\ Len(g) = Len(q) + 1 /\ Len(k) = Len(l) + 1
  OBVIOUS
<1> HIDE DEF g, k
<1>2. ASSUME NEW i \in 1..(Len(q) + 1)
      PROVE  g[i] = k[(Len(l) + 1) - (Len(q) + 1) + i]
  <2>1. (Len(l) + 1) - (Len(q) + 1) + i = Len(l) - Len(q) + i
    BY <1>1
  <2>2. CASE i = Len(q) + 1
    <3>1. Len(l) - Len(q) + i = Len(l) + 1
      BY <1>1, <2>2
    <3> QED BY <1>5, <2>1, <2>2, <3>1
  <2>3. CASE i \in 1..Len(q)
    <3>1. q[i] = l[Len(l) - Len(q) + i] /\ Len(l) - Len(q) + i \in 1..Len(l)
      BY <1>1, <2>3 DEF EndOf
    <3> QED BY <1>5, <2>1, <2>3, <3>1
  <2> QED BY <1>1, <2>2, <2>3
<1>3. EndOf(Append(q, m), Append(l, m))
  <2>1. Len(g) <= Len(k)
    BY <1>1, <1>5 DEF EndOf
  <2> QED BY <1>2, <1>5, <2>1 DEF EndOf, g, k
<1>4. ASSUME q # <<>> PROVE EndOf(Tail(q), l)
  <2>1. Len(Tail(q)) = Len(q) - 1 /\ Len(q) # 0
    BY <1>4
  <2>2. ASSUME NEW i \in 1..(Len(q) - 1) PROVE Tail(q)[i] = l[Len(l) - (Len(q) - 1) + i]
    <3>1. Tail(q)[i] = q[i + 1] /\ i + 1 \in 1..Len(q)
      BY <1>1, <1>4
    <3>2. Len(l) - Len(q) + (i + 1) = Len(l) - (Len(q) - 1) + i
      BY <1>1
    <3> QED BY <3>1, <3>2 DEF EndOf
  <2> QED BY <1>1, <2>1, <2>2 DEF EndOf
<1> QED BY <1>3, <1>4

LEMMA DeliverKeepsGap ==
    ASSUME GapInv, DeliverMessage
    PROVE  GapInv'
<1> DEFINE m == Head(batch)
           called == {c \in callbacks : m.topic \in Wants[c]}
<1>1. /\ batch # <<>> /\ log' = Append(log, m)
      /\ messageQueue' = PutMessage(messageQueue, m)
      /\ inbox' = [c \in Consumers |->
                     IF c \in called /\ Len(inbox[c]) < InboxSize
                     THEN Append(inbox[c], m) ELSE inbox[c]]
      /\ overflow' = [c \in Consumers |->
                        overflow[c] \/ (c \in called /\ OverflowSet(c))]
      /\ UNCHANGED <<callbacks, since, taken>>
  BY DEF DeliverMessage, ingress
<1>2. IInv /\ IInv' /\ TypeOK /\ BoundedQueues
  BY DeliverMessageIInv DEF GapInv, IInv
<1>3. m \in Packet /\ m = batch[1] /\ 1 \in DOMAIN batch
  BY <1>1, <1>2, TailFacts DEF TypeOK
<1> HIDE DEF m
<1>4. \A c \in callbacks' : since'[c] <= Len(log')
  <2>1. log \in Seq(Packet) /\ Len(log') = Len(log) + 1 /\ callbacks \subseteq Consumers /\ since \in [Consumers -> Nat]
    BY <1>1, <1>2, <1>3, AppendFacts DEF TypeOK
  <2> QED BY <1>1, <2>1 DEF GapInv
<1>5. ASSUME NEW c \in callbacks', ~overflow'[c]
      PROVE  Increasing(Handed(c)') /\ Complete(Handed(c)', log', since'[c], Wants[c])
  <2>1. c \in callbacks /\ c \in Consumers /\ ~overflow[c] /\ (c \in called => ~OverflowSet(c))
    BY <1>1, <1>2, <1>5 DEF TypeOK
  <2>2. /\ inbox[c] \in Seq(Packet) /\ taken[c] \in Seq(Packet) /\ log \in Seq(Packet)
        /\ since[c] \in Nat /\ since[c] <= Len(log) /\ Handed(c) \in Seq(Packet)
        /\ Increasing(Handed(c)) /\ Complete(Handed(c), log, since[c], Wants[c])
    BY <1>2, <2>1, HandedIsTyped DEF TypeOK, GapInv
  <2>3. CASE c \in called
    <3>1. Len(inbox[c]) < InboxSize
      BY <2>1, <2>2, <2>3, DispatchAssumption DEF OverflowSet
    <3>2. inbox'[c] = Append(inbox[c], m) /\ taken'[c] = taken[c]
      BY <1>1, <2>1, <2>3, <3>1
    <3>3. Handed(c)' = Append(Handed(c), m)
      <4>1. Handed(c)' = taken[c] \o Append(inbox[c], m)
        BY <3>2 DEF Handed
      <4>2. m \in Packet /\ inbox[c] \in Seq(Packet) /\ taken[c] \in Seq(Packet)
        BY <1>3, <2>2
      <4>3. taken[c] \o Append(inbox[c], m) = Append(taken[c] \o inbox[c], m)
        <5>1. \A a, q \in Seq(Packet) : \A x \in Packet : a \o Append(q, x) = Append(a \o q, x)
          BY ConcatAppend
        <5> QED BY <4>2, <5>1
      <4> QED BY <4>1, <4>3 DEF Handed
    <3>4. \A i \in DOMAIN Handed(c) : Handed(c)[i].num < m.num
      <4> SUFFICES ASSUME NEW i \in DOMAIN Handed(c) PROVE Handed(c)[i].num < m.num
        OBVIOUS
      <4>1. PICK j \in DOMAIN log : Handed(c)[i] = log[j]
        BY <2>2 DEF Complete
      <4>2. log[j].num < batch[1].num
        BY <1>2, <1>3 DEF IInv, InOrder, Before
      <4> QED BY <1>3, <4>1, <4>2
    <3>5. Increasing(Append(Handed(c), m))
      BY <1>3, <2>2, <3>4, IncreasingAppend
    <3>6. Complete(Append(Handed(c), m), Append(log, m), since[c], Wants[c])
      BY <1>3, <2>2, <2>3, CompleteGrows
    <3> QED BY <1>1, <3>3, <3>5, <3>6
  <2>4. CASE c \notin called
    <3>1. inbox'[c] = inbox[c] /\ taken'[c] = taken[c] /\ m.topic \notin Wants[c]
      BY <1>1, <2>1, <2>4
    <3>2. Handed(c)' = Handed(c)
      BY <3>1 DEF Handed
    <3>3. Complete(Handed(c), Append(log, m), since[c], Wants[c])
      BY <1>3, <2>2, <3>1, CompleteGrows
    <3> QED BY <1>1, <2>2, <3>2, <3>3
  <2> QED BY <2>3, <2>4
<1>6. EndOf(messageQueue', log')
  <2>1. messageQueue \in Seq(Packet) /\ log \in Seq(Packet) /\ EndOf(messageQueue, log)
    BY <1>2 DEF GapInv, TypeOK
  <2>2. CASE Len(messageQueue) < QueueSize
    BY <1>1, <1>3, <2>1, <2>2, EndGrows DEF PutMessage
  <2>3. CASE ~(Len(messageQueue) < QueueSize)
    <3>1. messageQueue # <<>>
      BY <2>3, DispatchAssumption
    <3>2. Tail(messageQueue) \in Seq(Packet) /\ EndOf(Tail(messageQueue), log)
      BY <1>3, <2>1, <3>1, EndGrows, TailFacts
    <3>3. EndOf(Append(Tail(messageQueue), m), Append(log, m))
      BY <1>3, <2>1, <3>2, EndGrows
    <3> QED BY <1>1, <2>3, <3>3 DEF PutMessage
  <2> QED BY <2>2, <2>3
<1> QED BY <1>2, <1>4, <1>5, <1>6 DEF GapInv

(* Steps that leave consumers and the log alone. *)
LEMMA IngressKeepsGap ==
    ASSUME GapInv, IInv', UNCHANGED <<callbacks, inbox, overflow, log, since, taken>>,
           EndOf(messageQueue', log)
    PROVE  GapInv'
BY DEF GapInv, Handed

(* The sender takes the oldest packet of its queue: nothing is lost between. *)
LEMMA ConcatMoves ==
    ASSUME NEW S, NEW a \in Seq(S), NEW q \in Seq(S), q # <<>>
    PROVE  Append(a, Head(q)) \o Tail(q) = a \o q
<1>1. Head(q) \in S /\ Tail(q) \in Seq(S) /\ <<Head(q)>> \in Seq(S)
  OBVIOUS
<1>2. Append(a, Head(q)) = a \o <<Head(q)>>
  BY <1>1, AppendIsConcat
<1>3. q = <<Head(q)>> \o Tail(q)
  BY HeadTailProperties, ConcatProperties
<1>4. (a \o <<Head(q)>>) \o Tail(q) = a \o (<<Head(q)>> \o Tail(q))
  BY <1>1, ConcatAssociative
<1> QED BY <1>2, <1>3, <1>4

LEMMA ConsumerKeepsGap ==
    ASSUME GapInv, NEW c \in Consumers, AddCallback(c) \/ RemoveCallback(c) \/ TakeFrame(c)
    PROVE  GapInv'
<1>1. IInv' /\ TypeOK /\ TypeOK' /\ UNCHANGED <<messageQueue, log>>
  BY ConsumerIInv DEF GapInv, IInv, AddCallback, RemoveCallback, TakeFrame, history
<1>2. EndOf(messageQueue', log')
  BY <1>1 DEF GapInv
<1>3. ASSUME NEW d \in callbacks'
      PROVE  /\ since'[d] <= Len(log')
             /\ ~overflow'[d] => Increasing(Handed(d)') /\ Complete(Handed(d)', log', since'[d], Wants[d])
  <2>1. d \in Consumers /\ log \in Seq(Packet) /\ since \in [Consumers -> Nat]
        /\ inbox \in [Consumers -> Seq(Packet)] /\ taken \in [Consumers -> Seq(Packet)] /\ overflow \in [Consumers -> BOOLEAN]
    BY <1>1 DEF TypeOK
  <2>2. CASE AddCallback(c) /\ d = c
    <3>1. inbox'[d] = <<>> /\ taken'[d] = <<>> /\ since'[d] = Len(log)
      BY <2>1, <2>2 DEF AddCallback
    <3>2. Handed(d)' = <<>>
      BY <3>1 DEF Handed
    <3>3. Increasing(<<>>) /\ Complete(<<>>, log, Len(log), Wants[d])
      BY <2>1 DEF Increasing, Complete
    <3> QED BY <1>1, <2>1, <3>1, <3>2, <3>3
  <2>3. CASE TakeFrame(c) /\ d = c
    <3>1. /\ inbox[d] # <<>> /\ inbox'[d] = Tail(inbox[d]) /\ taken'[d] = Append(taken[d], Head(inbox[d]))
          /\ since' = since /\ overflow' = overflow /\ d \in callbacks
      BY <2>1, <2>3 DEF TakeFrame
    <3>2. inbox[d] \in Seq(Packet) /\ taken[d] \in Seq(Packet)
      BY <2>1
    <3>3. Handed(d)' = Handed(d)
      BY <3>1, <3>2, ConcatMoves DEF Handed
    <3> QED BY <1>1, <3>1, <3>3 DEF GapInv
  <2>4. CASE ~(AddCallback(c) /\ d = c) /\ ~(TakeFrame(c) /\ d = c)
    <3>1. /\ inbox'[d] = inbox[d] /\ taken'[d] = taken[d] /\ since'[d] = since[d]
          /\ overflow'[d] = overflow[d] /\ d \in callbacks
      BY <2>1, <2>4 DEF AddCallback, RemoveCallback, TakeFrame, history
    <3>2. Handed(d)' = Handed(d)
      BY <3>1 DEF Handed
    <3> QED BY <1>1, <3>1, <3>2 DEF GapInv
  <2> QED BY <2>2, <2>3, <2>4
<1> QED BY <1>1, <1>2, <1>3 DEF GapInv

LEMMA GapKept == GapInv /\ [Next]_vars => GapInv'
<1> SUFFICES ASSUME GapInv, [Next]_vars PROVE GapInv'
  OBVIOUS
<1>1. IInv /\ EndOf(messageQueue, log)
  BY DEF GapInv
<1>2. ASSUME NEW t \in Topics, OnMessage(t) PROVE GapInv'
  BY <1>1, <1>2, OnMessageIInv, IngressKeepsGap DEF OnMessage, history
<1>3. CASE DrainTake
  BY <1>1, <1>3, DrainTakeIInv, IngressKeepsGap DEF DrainTake, history
<1>4. CASE GetMessage
  <2>1. messageQueue \in Seq(Packet) /\ log \in Seq(Packet) /\ messageQueue # <<>> /\ messageQueue' = Tail(messageQueue)
    BY <1>1, <1>4 DEF IInv, TypeOK, GetMessage
  <2>2. Head(messageQueue) \in Packet
    BY <2>1, TailFacts
  <2>3. EndOf(messageQueue', log)
    BY <1>1, <2>1, <2>2, EndGrows
  <2> QED BY <1>1, <1>4, <2>3, ConsumerIInv, IngressKeepsGap DEF GetMessage, history
<1>5. CASE UNCHANGED vars
  BY <1>1, <1>5, StutterIInv, IngressKeepsGap DEF vars
<1> QED BY <1>2, <1>3, <1>4, <1>5, DeliverKeepsGap, ConsumerKeepsGap DEF Next

(* For every queue size and any consumers: a registered consumer was handed   *)
(* all it wants, once and in order, or its overflow event is set, and        *)
(* _message_queue holds the newest packets.                                  *)
THEOREM GapsNeverSilent == Spec => []NoSilentGap
<1>1. GapInv => NoSilentGap
  <2> SUFFICES ASSUME GapInv PROVE NoSilentGap
    OBVIOUS
  <2>1. ASSUME NEW c \in callbacks, ~overflow[c]
        PROVE  {Handed(c)[i] : i \in DOMAIN Handed(c)} = Wanted(c)
    <3>1. /\ Complete(Handed(c), log, since[c], Wants[c])
          /\ DOMAIN log = 1..Len(log) /\ Len(log) \in Nat /\ since[c] \in Nat
      BY <2>1 DEF GapInv, IInv, TypeOK
    <3>2. \A j : (j \in DOMAIN log /\ j > since[c]) <=> j \in (since[c] + 1)..Len(log)
      BY <3>1
    <3> QED BY <3>1, <3>2 DEF Wanted, Complete
  <2>2. \E k \in 0..Len(log) : messageQueue = SubSeq(log, k + 1, Len(log))
    <3> DEFINE n == Len(log)
               k == n - Len(messageQueue)
               e == SubSeq(log, k + 1, n)
    <3>1. messageQueue \in Seq(Packet) /\ log \in Seq(Packet) /\ EndOf(messageQueue, log)
      BY DEF GapInv, IInv, TypeOK
    <3>2. /\ k \in 0..n /\ n \in Nat /\ Len(messageQueue) \in Nat /\ n - k = Len(messageQueue)
          /\ k + 1 \in 1..(n + 1) /\ n \in k..n
      BY <3>1 DEF EndOf
    <3> HIDE DEF k
    <3>3. /\ e \in Seq(Packet) /\ Len(e) = Len(messageQueue)
          /\ \A i \in 1..Len(messageQueue) : e[i] = log[k + i]
      BY <3>1, <3>2, SubSeqProperties
    <3>4. \A i \in 1..Len(messageQueue) : messageQueue[i] = log[k + i]
      BY <3>1 DEF EndOf, k
    <3>5. messageQueue = e
      BY <3>1, <3>3, <3>4, SameSequence
    <3> QED BY <3>2, <3>5
  <2> QED BY <2>1, <2>2 DEF NoSilentGap, GapInv
<1> QED BY <1>1, GapInit, GapKept, PTL DEF Spec

==============================================================================
