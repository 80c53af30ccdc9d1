----------------------------- MODULE LossyChannel -----------------------------
(***************************************************************************)
(* The promise of broker ingress, without threads, locks or drains: a FIFO *)
(* channel of numbered packets that may drop a packet only in favour of    *)
(* Capacity newer ones (README: "broker ingress keeps newest messages on   *)
(* overflow").                                                             *)
(***************************************************************************)
EXTENDS Integers, Sequences, SequencesExt

CONSTANTS Capacity, Payload

VARIABLES sent, inFlight, delivered

channelVars == <<sent, inFlight, delivered>>

Init ==
    /\ sent = 0
    /\ inFlight = <<>>
    /\ delivered = <<>>

Accept(p) ==
    /\ sent' = sent + 1
    /\ inFlight' = Append(inFlight, [num |-> sent + 1, topic |-> p])
    /\ UNCHANGED delivered

(* Packet i gives way: Capacity newer ones are in the channel afterwards. *)
AcceptDropping(p, i) ==
    /\ Len(inFlight) - i >= Capacity - 1
    /\ sent' = sent + 1
    /\ inFlight' = Append(RemoveAt(inFlight, i), [num |-> sent + 1, topic |-> p])
    /\ UNCHANGED delivered

Deliver ==
    /\ inFlight # <<>>
    /\ inFlight' = Tail(inFlight)
    /\ delivered' = Append(delivered, Head(inFlight))
    /\ UNCHANGED sent

Next ==
    \/ \E p \in Payload :
          \/ Accept(p)
          \/ \E i \in DOMAIN inFlight : AcceptDropping(p, i)
    \/ Deliver

Spec == Init /\ [][Next]_channelVars

==============================================================================
