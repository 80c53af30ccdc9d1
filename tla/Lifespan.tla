------------------------------- MODULE Lifespan -------------------------------
(***************************************************************************)
(* The application's life (main.lifespan) around MQTTClient.connect and     *)
(* MQTTClient.disconnect.  Three threads take part: the event loop, paho's  *)
(* network thread, which reports connections by call_soon_threadsafe, and   *)
(* the worker thread that joins it (asyncio.to_thread(client.loop_stop)).   *)
(* The server may cancel the lifespan task at any await.                    *)
(***************************************************************************)
EXTENDS Naturals, Sequences, SequencesExt

CONSTANTS
    MaxReports,  \* bound: connection reports of the network thread
    MaxCancels   \* bound: cancellations of the lifespan task

ASSUME LifespanAssumption == MaxReports \in Nat /\ MaxCancels \in Nat

VARIABLES
    app,        \* "new", "starting", "serving", "stopping", "ended"
    woken,      \* _connected.wait() inside connect has been woken
    connected,  \* the _connected event
    thread,     \* paho's network thread: "none", "running", "ended"
    link,       \* paho's own view of the connection
    worker,     \* loop_stop in its thread: "idle", "joining", "done"
    stopped,    \* the task `stopping` is done
    callbacks,  \* the event loop's queue: "set", "clear", "stopped"
    reports, cancels,
    hits        \* cancellations that met disconnect()

vars == <<app, woken, connected, thread, link, worker, stopped, callbacks,
          reports, cancels, hits>>

TypeOK ==
    /\ app \in {"new", "starting", "serving", "stopping", "ended"}
    /\ thread \in {"none", "running", "ended"}
    /\ worker \in {"idle", "joining", "done"}
    /\ woken \in BOOLEAN /\ connected \in BOOLEAN /\ link \in BOOLEAN
    /\ stopped \in BOOLEAN
    /\ callbacks \in Seq({"set", "clear", "stopped"})
    /\ reports \in 0..MaxReports /\ cancels \in 0..MaxCancels /\ hits \in 0..cancels

Init ==
    /\ app = "new" /\ thread = "none" /\ worker = "idle"
    /\ woken = FALSE /\ connected = FALSE /\ link = FALSE /\ stopped = FALSE
    /\ callbacks = <<>> /\ reports = 0 /\ cancels = 0 /\ hits = 0
-----------------------------------------------------------------------------
(* The network thread.  _on_connect and _on_disconnect only queue a change. *)

Report(up, callback) ==
    /\ thread = "running" /\ reports < MaxReports
    /\ link' = up
    /\ reports' = reports + 1
    /\ callbacks' = Append(callbacks, callback)
    /\ UNCHANGED <<app, woken, connected, thread, worker, stopped, cancels, hits>>

Accepted == ~link /\ Report(TRUE, "set")
Refused == ~link /\ Report(FALSE, "clear")
Lost == link /\ Report(FALSE, "clear")

(* loop_stop has asked it to terminate; the current operation winds down.   *)
ThreadEnds ==
    /\ thread = "running" /\ worker = "joining"
    /\ thread' = "ended"
    /\ UNCHANGED <<app, woken, connected, link, worker, stopped, callbacks, reports, cancels, hits>>

(* The worker's join returns, at once when no thread was ever started; the  *)
(* result reaches the loop behind every report the thread has queued.       *)
Joined ==
    /\ worker = "joining" /\ thread # "running"
    /\ worker' = "done"
    /\ callbacks' = Append(callbacks, "stopped")
    /\ UNCHANGED <<app, woken, connected, thread, link, stopped, reports, cancels, hits>>
-----------------------------------------------------------------------------
(* The event loop.                                                         *)

(* _connection_changed, _connected.clear and the completion of `stopping`.  *)
RunCallback ==
    /\ callbacks # <<>>
    /\ callbacks' = Tail(callbacks)
    /\ LET c == Head(callbacks)
       IN  /\ connected' = (c = "set" \/ (c # "clear" /\ connected))
           /\ woken' = (woken \/ (c = "set" /\ app = "starting"))
           /\ stopped' = (stopped \/ c = "stopped")
    /\ UNCHANGED <<app, thread, link, worker, reports, cancels, hits>>

(* connect() up to its await: the client is built and its thread started.   *)
Connect ==
    /\ app = "new"
    /\ app' = "starting" /\ thread' = "running"
    /\ UNCHANGED <<woken, connected, link, worker, stopped, callbacks, reports, cancels, hits>>

(* disconnect() up to its await: the finally block of the lifespan.         *)
BeginDisconnect ==
    /\ app' = "stopping" /\ worker' = "joining"
    /\ UNCHANGED <<woken, connected, thread, link, stopped, callbacks, reports, hits>>

(* connect() raises before the thread exists: a certificate cannot be read. *)
ConnectError == app = "new" /\ BeginDisconnect /\ UNCHANGED cancels

(* The event was set: the application starts to serve.                      *)
Established ==
    /\ app = "starting" /\ woken
    /\ app' = "serving"
    /\ UNCHANGED <<woken, connected, thread, link, worker, stopped, callbacks, reports, cancels,
                   hits>>

(* The bug of a wait without its time-out.                                  *)
ConnectForever == FALSE /\ UNCHANGED vars

(* wait_for gives up after ten seconds, also against a wake-up not yet run. *)
ConnectTimeout == app = "starting" /\ BeginDisconnect /\ UNCHANGED cancels

(* The server ends the application.                                        *)
Shutdown == app = "serving" /\ BeginDisconnect /\ UNCHANGED cancels

(* client.disconnect() and _connected.clear(): the innermost finally.       *)
Finish ==
    /\ app' = "ended"
    /\ connected' = FALSE
    /\ link' = FALSE
    /\ callbacks' = IF link THEN Append(callbacks, "clear") ELSE callbacks
    /\ UNCHANGED <<woken, thread, worker, stopped, reports>>

DisconnectDone == app = "stopping" /\ stopped /\ Finish /\ UNCHANGED <<cancels, hits>>

(* The bug of a join awaited without the shield.                           *)
Impatient(n) == FALSE

(* Cancellation.  The first one met in disconnect() reaches the shield and  *)
(* the join is awaited again; a second one ends that await.                 *)
Patient(n) == n < 1

CancelInDisconnect ==
    /\ app = "stopping" /\ ~stopped
    /\ hits' = hits + 1
    /\ IF Patient(hits)
       THEN UNCHANGED <<app, woken, connected, thread, link, worker, stopped, callbacks,
                        reports>>
       ELSE Finish

Cancel ==
    /\ cancels < MaxCancels
    /\ cancels' = cancels + 1
    /\ \/ app \in {"starting", "serving"} /\ BeginDisconnect
       \/ CancelInDisconnect

Next ==
    \/ Accepted \/ Refused \/ Lost \/ ThreadEnds \/ Joined \/ RunCallback
    \/ Connect \/ ConnectError \/ Established \/ ConnectTimeout \/ Shutdown
    \/ DisconnectDone \/ Cancel

Spec == Init /\ [][Next]_vars

(* The loop runs its queue and its ready tasks, the timer of wait_for fires, *)
(* and paho's thread and the worker that joins it wind down.                *)
Fairness ==
    /\ WF_vars(RunCallback) /\ WF_vars(Established \/ ConnectTimeout)
    /\ WF_vars(DisconnectDone) /\ WF_vars(ThreadEnds) /\ WF_vars(Joined)

FairSpec == Spec /\ Fairness
-----------------------------------------------------------------------------
(* Once the application has ended, unless disconnect() was cancelled twice,*)
(* paho's thread has ended too and no report still queued can mark the      *)
(* client connected again, although reports, the join and a cancellation    *)
(* race (client.py:216-231).                                                *)
EndedForGood ==
    app = "ended" /\ hits < 2 =>
        thread # "running" /\ ~connected /\ "set" \notin ToSet(callbacks)

(* Start-up comes to an end, with the application serving or over, and so   *)
(* does a shutdown, whatever the broker and the server do meanwhile.        *)
LifespanEnds ==
    /\ app = "starting" ~> app \in {"serving", "ended"}
    /\ app = "stopping" ~> app = "ended"

==============================================================================
