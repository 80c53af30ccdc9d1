---------------------------- MODULE LifespanProofs ----------------------------
(***************************************************************************)
(* The application's end is final, for every number of reports and          *)
(* cancellations: the completion of loop_stop stands in the event loop's    *)
(* queue behind every report the network thread has made, and disconnect()  *)
(* does not finish before it.                                               *)
(***************************************************************************)
EXTENDS Lifespan, TLAPS

Callbacks == {"set", "clear", "stopped"}

Typed ==
    /\ app \in {"new", "starting", "serving", "stopping", "ended"}
    /\ thread \in {"none", "running", "ended"}
    /\ worker \in {"idle", "joining", "done"}
    /\ connected \in BOOLEAN /\ stopped \in BOOLEAN
    /\ callbacks \in Seq(Callbacks)
    /\ hits \in Nat

(* No report is queued behind the completion of loop_stop.                  *)
Ordered ==
    \A i \in 1..Len(callbacks) : callbacks[i] = "stopped" =>
        /\ worker = "done"
        /\ \A j \in 1..Len(callbacks) : j > i => callbacks[j] # "set"

(* Once it has run, no report is left.                                     *)
Drained ==
    stopped => worker = "done" /\ \A i \in 1..Len(callbacks) : callbacks[i] # "set"

(* The thread is started before it is joined, and never again.              *)
Joining ==
    /\ app \in {"new", "starting", "serving"} => worker = "idle"
    /\ worker = "done" => thread # "running"

(* disconnect() that was not cancelled twice has waited for the join.       *)
Waited == app = "ended" /\ hits < 2 => stopped /\ ~connected

Inv == Typed /\ Ordered /\ Drained /\ Joining /\ Waited

(* A callback other than "set" may be queued at any time.                   *)
LEMMA AppendClear ==
  ASSUME Typed, Ordered, Drained, worker' = worker, stopped' = stopped,
         callbacks' = Append(callbacks, "clear")
  PROVE  Ordered' /\ Drained' /\ callbacks' \in Seq(Callbacks)
<1>1. /\ callbacks' \in Seq(Callbacks) /\ Len(callbacks') = Len(callbacks) + 1
      /\ Len(callbacks) \in Nat
      /\ callbacks'[Len(callbacks) + 1] = "clear"
      /\ \A i \in 1..Len(callbacks) : callbacks'[i] = callbacks[i]
  BY DEF Typed, Callbacks
<1> QED BY <1>1 DEF Ordered, Drained

(* A report of the running thread comes before the join.                    *)
LEMMA AppendSet ==
  ASSUME Typed, Ordered, Drained, worker # "done", worker' = worker, stopped' = stopped,
         callbacks' = Append(callbacks, "set")
  PROVE  Ordered' /\ Drained' /\ callbacks' \in Seq(Callbacks)
<1>1. /\ callbacks' \in Seq(Callbacks) /\ Len(callbacks') = Len(callbacks) + 1
      /\ Len(callbacks) \in Nat
      /\ callbacks'[Len(callbacks) + 1] = "set"
      /\ \A i \in 1..Len(callbacks) : callbacks'[i] = callbacks[i]
  BY DEF Typed, Callbacks
<1> QED BY <1>1 DEF Ordered, Drained

LEMMA AppendStopped ==
  ASSUME Typed, Ordered, Drained, worker' = "done", stopped' = stopped,
         callbacks' = Append(callbacks, "stopped")
  PROVE  Ordered' /\ Drained' /\ callbacks' \in Seq(Callbacks)
<1>1. /\ callbacks' \in Seq(Callbacks) /\ Len(callbacks') = Len(callbacks) + 1
      /\ Len(callbacks) \in Nat
      /\ callbacks'[Len(callbacks) + 1] = "stopped"
      /\ \A i \in 1..Len(callbacks) : callbacks'[i] = callbacks[i]
  BY DEF Typed, Callbacks
<1> QED BY <1>1 DEF Ordered, Drained

(* Nothing the queue depends on has changed.                               *)
LEMMA SameQueue ==
  ASSUME Typed, Ordered, Drained, callbacks' = callbacks, stopped' = stopped,
         worker' = worker \/ worker # "done"
  PROVE  Ordered' /\ Drained' /\ callbacks' \in Seq(Callbacks)
  BY DEF Typed, Ordered, Drained

LEMMA ReportInv ==
  ASSUME Inv, Accepted \/ Refused \/ Lost
  PROVE  Inv'
<1>1. /\ thread = "running"
      /\ UNCHANGED <<app, connected, thread, worker, stopped, hits>>
      /\ \/ callbacks' = Append(callbacks, "set")
         \/ callbacks' = Append(callbacks, "clear")
  BY DEF Accepted, Refused, Lost, Report
<1>2. worker # "done"
  BY <1>1 DEF Inv, Joining
<1>3. Ordered' /\ Drained' /\ callbacks' \in Seq(Callbacks)
  BY <1>1, <1>2, AppendSet, AppendClear DEF Inv
<1> QED BY <1>1, <1>3 DEF Inv, Typed, Joining, Waited

LEMMA RunCallbackInv == ASSUME Inv, RunCallback PROVE Inv'
<1>1. /\ callbacks \in Seq(Callbacks) /\ callbacks # <<>>
      /\ connected \in BOOLEAN /\ stopped \in BOOLEAN
  BY DEF Inv, Typed, RunCallback
<1>2. /\ callbacks' \in Seq(Callbacks) /\ Len(callbacks) \in Nat
      /\ Len(callbacks') = Len(callbacks) - 1
      /\ \A i \in 1..Len(callbacks') : callbacks'[i] = callbacks[i + 1]
      /\ Head(callbacks) = callbacks[1] /\ 1 \in 1..Len(callbacks)
  BY <1>1 DEF RunCallback
<1>3. /\ UNCHANGED <<app, thread, worker, hits>>
      /\ connected' = (callbacks[1] = "set" \/ (callbacks[1] # "clear" /\ connected))
      /\ stopped' = (stopped \/ callbacks[1] = "stopped")
  BY <1>2 DEF RunCallback
<1>4. connected' \in BOOLEAN /\ stopped' \in BOOLEAN
  BY <1>3, Zenon
<1>5. (stopped' <=> (stopped \/ callbacks[1] = "stopped"))
  BY <1>3
<1>6. Ordered'
  BY <1>2, <1>3 DEF Inv, Ordered
<1>7. Drained'
  <2>1. CASE stopped
    BY <1>2, <1>3, <2>1 DEF Inv, Drained
  <2>2. CASE callbacks[1] = "stopped"
    <3>1. worker = "done" /\ \A j \in 1..Len(callbacks) : j > 1 => callbacks[j] # "set"
      BY <1>2, <2>2 DEF Inv, Ordered
    <3> QED BY <1>2, <1>3, <3>1 DEF Drained
  <2> QED BY <1>5, <2>1, <2>2 DEF Drained
<1>8. Waited'
  <2> SUFFICES ASSUME app' = "ended", hits' < 2 PROVE stopped' /\ ~connected'
    BY DEF Waited
  <2>1. stopped /\ ~connected
    BY <1>3 DEF Inv, Waited
  <2>2. callbacks[1] # "set"
    BY <1>2, <2>1 DEF Inv, Drained
  <2> QED BY <1>3, <2>1, <2>2
<1> QED BY <1>2, <1>3, <1>4, <1>6, <1>7, <1>8 DEF Inv, Typed, Joining

(* The worker, and the steps that start the thread or the join.             *)
LEMMA ThreadsInv ==
  ASSUME Inv, \/ ThreadEnds \/ Joined \/ Connect
              \/ (app \in {"new", "starting", "serving"} /\ BeginDisconnect)
  PROVE  Inv'
<1>1. CASE ThreadEnds
  <2>1. Ordered' /\ Drained' /\ callbacks' \in Seq(Callbacks)
    BY <1>1, SameQueue DEF ThreadEnds, Inv
  <2> QED BY <1>1, <2>1 DEF ThreadEnds, Inv, Typed, Joining, Waited
<1>2. CASE Joined
  <2>1. Ordered' /\ Drained' /\ callbacks' \in Seq(Callbacks)
    BY <1>2, AppendStopped DEF Joined, Inv
  <2> QED BY <1>2, <2>1 DEF Joined, Inv, Typed, Joining, Waited
<1>3. CASE Connect
  <2>1. Ordered' /\ Drained' /\ callbacks' \in Seq(Callbacks)
    BY <1>3, SameQueue DEF Connect, Inv
  <2> QED BY <1>3, <2>1 DEF Connect, Inv, Typed, Joining, Waited
<1>4. CASE app \in {"new", "starting", "serving"} /\ BeginDisconnect
  <2>1. worker # "done"
    BY <1>4 DEF Inv, Joining
  <2>2. Ordered' /\ Drained' /\ callbacks' \in Seq(Callbacks)
    BY <1>4, <2>1, SameQueue DEF BeginDisconnect, Inv
  <2> QED BY <1>4, <2>2 DEF BeginDisconnect, Inv, Typed, Joining, Waited
<1> QED BY <1>1, <1>2, <1>3, <1>4

(* disconnect() ends: after the join, or at its second cancellation.        *)
LEMMA FinishInv ==
  ASSUME Inv, app = "stopping", Finish, hits' \in Nat, stopped \/ hits' >= 2
  PROVE  Inv'
<1>1. Ordered' /\ Drained' /\ callbacks' \in Seq(Callbacks)
  <2>1. CASE link
    BY <2>1, AppendClear DEF Inv, Finish
  <2>2. CASE ~link
    BY <2>2, SameQueue DEF Inv, Finish
  <2> QED BY <2>1, <2>2
<1>2. connected' \in BOOLEAN /\ ~connected'
  BY Zenon DEF Finish
<1> QED BY <1>1, <1>2 DEF Finish, Inv, Typed, Joining, Waited

LEMMA CancelInDisconnectInv == ASSUME Inv, CancelInDisconnect PROVE Inv'
<1>1. app = "stopping" /\ hits' = hits + 1 /\ hits \in Nat
  BY DEF CancelInDisconnect, Inv, Typed
<1>2. CASE Patient(hits)
  <2>1. UNCHANGED <<app, connected, thread, worker, stopped, callbacks>>
    BY <1>2 DEF CancelInDisconnect
  <2>2. Ordered' /\ Drained' /\ callbacks' \in Seq(Callbacks)
    BY <2>1, SameQueue DEF Inv
  <2> QED BY <1>1, <2>1, <2>2 DEF Inv, Typed, Joining, Waited
<1>3. CASE ~Patient(hits)
  <2>1. hits' >= 2 /\ hits' \in Nat /\ Finish
    BY <1>1, <1>3 DEF CancelInDisconnect, Patient
  <2> QED BY <1>1, <2>1, FinishInv
<1> QED BY <1>2, <1>3

LEMMA NextInv == ASSUME Inv, [Next]_vars PROVE Inv'
<1>1. CASE Established
  <2>1. Ordered' /\ Drained' /\ callbacks' \in Seq(Callbacks)
    BY <1>1, SameQueue DEF Established, Inv
  <2> QED BY <1>1, <2>1 DEF Established, Inv, Typed, Joining, Waited
<1>2. CASE ConnectError \/ ConnectTimeout \/ Shutdown
  BY <1>2, ThreadsInv DEF ConnectError, ConnectTimeout, Shutdown
<1>3. CASE DisconnectDone
  BY <1>3, FinishInv DEF DisconnectDone, Inv, Typed
<1>4. CASE Cancel
  BY <1>4, ThreadsInv, CancelInDisconnectInv DEF Cancel
<1>5. CASE UNCHANGED vars
  <2>1. Ordered' /\ Drained' /\ callbacks' \in Seq(Callbacks)
    BY <1>5, SameQueue DEF vars, Inv
  <2> QED BY <1>5, <2>1 DEF vars, Inv, Typed, Joining, Waited
<1> QED BY <1>1, <1>2, <1>3, <1>4, <1>5, ReportInv, RunCallbackInv, ThreadsInv DEF Next

(* The invariant holds throughout, whichever thread moves.                  *)
THEOREM LifespanInvariant == Spec => []Inv
<1>1. Init => Inv
  <2> SUFFICES ASSUME Init PROVE Inv
    OBVIOUS
  <2>1. callbacks = <<>> /\ callbacks \in Seq(Callbacks) /\ Len(callbacks) = 0
    BY DEF Init
  <2>2. connected \in BOOLEAN /\ stopped \in BOOLEAN /\ ~stopped
    BY Zenon DEF Init
  <2>3. Typed
    BY <2>1, <2>2 DEF Init, Typed
  <2> QED BY <2>1, <2>2, <2>3 DEF Init, Inv, Ordered, Drained, Joining, Waited
<1>2. Inv /\ [Next]_vars => Inv'
  BY NextInv
<1> QED BY <1>1, <1>2, PTL DEF Spec

(* After an application that was not cancelled twice in disconnect(), paho's *)
(* thread is over and no queued report can mark the client connected again  *)
(* (MQTTClient.disconnect awaits loop_stop behind a shield).                *)
THEOREM LifespanEndsForGood == Spec => []EndedForGood
<1>1. Inv => EndedForGood
  <2> SUFFICES ASSUME Inv, app = "ended", hits < 2
               PROVE  thread # "running" /\ ~connected /\ "set" \notin ToSet(callbacks)
    BY DEF EndedForGood
  <2>1. stopped /\ ~connected
    BY DEF Inv, Waited
  <2>2. worker = "done" /\ \A i \in 1..Len(callbacks) : callbacks[i] # "set"
    BY <2>1 DEF Inv, Drained
  <2>3. DOMAIN callbacks = 1..Len(callbacks)
    BY DEF Inv, Typed
  <2> QED BY <2>1, <2>2, <2>3 DEF Inv, Joining, ToSet
<1> QED BY <1>1, LifespanInvariant, PTL

==============================================================================
