------------------------------- MODULE RunGate -------------------------------
(***************************************************************************)
(* wait_for_executing_run: before it publishes, a job of a release run waits *)
(* until GitHub reports the run in progress and the run's "Release gate" job *)
(* successful, for at most Deadline ticks.  What GitHub reports lags behind  *)
(* what happened.  When a run is started again, jobs that had succeeded are  *)
(* carried over into the new attempt without executing.                     *)
(***************************************************************************)
EXTENDS Naturals, FiniteSets

CONSTANTS
    RunAttempts, \* bound: attempts of the run, from 1
    Deadline,    \* EXECUTING_RUN_WAIT_SECONDS
    Poll         \* the sleep between two polls, in the same ticks

ASSUME GateAssumption ==
    /\ RunAttempts \in Nat \ {0} /\ Deadline \in Nat /\ Poll \in Nat \ {0}

Waiting == {"queued", "waiting"}   \* queued, requested, pending, waiting
Outcomes == {"success", "failure", "skipped"}

VARIABLES
    attempt,   \* the attempt GitHub has started last
    myAttempt, \* the attempt the waiting job belongs to
    executed,  \* attempts whose gate job really ran, to success
    gates,     \* gate jobs listed for attempt `myAttempt': [status, fresh]
    status,    \* the run's reported status
    now,       \* time since the wait began
    gatePc,    \* "run", "jobs", "attempt", "clock", "sleep", or an outcome
    poll       \* what the poll in progress read: the gates

github == <<attempt, myAttempt, executed, gates, status>>
gateVars == <<github, now, gatePc, poll>>

Ended == {"go", "refused"}

GateInit ==
    /\ myAttempt \in 1..RunAttempts /\ attempt = myAttempt
    /\ executed = {}
    /\ gates \in {{}} \cup (IF myAttempt = 1 THEN {} ELSE {{[status |-> "success", fresh |-> FALSE]}})
    /\ status \in Waiting
    /\ now = 0 /\ gatePc = "run" /\ poll = {}
-----------------------------------------------------------------------------
(* GitHub.  The gate of this attempt executes and its listing follows; a     *)
(* re-run of failed jobs alone leaves the earlier gate in the listing; the    *)
(* run's own status catches up, ends or belongs to a later attempt.          *)
RunStatus(s) ==
    /\ status \notin Outcomes
    /\ status' = s
    /\ UNCHANGED <<attempt, myAttempt, executed, gates, now, gatePc, poll>>

ListGate ==
    /\ gates = {}
    /\ \E s \in Waiting \cup {"in_progress"} : gates' = {[status |-> s, fresh |-> TRUE]}
    /\ UNCHANGED <<attempt, myAttempt, executed, status, now, gatePc, poll>>

FinishGate(o) ==
    /\ \E g \in gates :
          /\ g.fresh /\ g.status \notin Outcomes
          /\ gates' = (gates \ {g}) \cup {[status |-> o, fresh |-> TRUE]}
    /\ executed' = IF o = "success" THEN executed \cup {myAttempt} ELSE executed
    /\ UNCHANGED <<attempt, myAttempt, status, now, gatePc, poll>>

DuplicateGate ==
    /\ Cardinality(gates) = 1
    /\ gates' = gates \cup {[status |-> "queued", fresh |-> TRUE]}
    /\ UNCHANGED <<attempt, myAttempt, executed, status, now, gatePc, poll>>

Rerun ==
    /\ attempt < RunAttempts
    /\ attempt' = attempt + 1
    /\ status' \in Waiting
    /\ UNCHANGED <<myAttempt, executed, gates, now, gatePc, poll>>
-----------------------------------------------------------------------------
GateGoto(next) == gatePc' = next /\ UNCHANGED <<github, now>>

(* A request takes time, up to a whole poll interval.                       *)
Elapse ==
    /\ gatePc \in {"run", "jobs", "attempt", "clock"}
    /\ now <= Deadline
    /\ now' = now + 1
    /\ UNCHANGED <<github, gatePc, poll>>

(* The run is read: its identity and attempt, no conclusion yet.            *)
ReadRun ==
    /\ gatePc = "run"
    /\ \/ (attempt # myAttempt \/ status \in Outcomes) /\ GateGoto("refused")
       \/ attempt = myAttempt /\ status = "in_progress" /\ GateGoto("jobs")
       \/ attempt = myAttempt /\ status \in Waiting /\ GateGoto("sleep")
    /\ UNCHANGED poll

(* release_gate_ready(allow_pending): the gate is not listed or not finished. *)
Pending(g) ==
    \/ g = {}
    \/ Cardinality(g) = 1 /\ \A j \in g : j.status \in Waiting \cup {"in_progress"}

Succeeded(g) == Cardinality(g) = 1 /\ \A j \in g : j.status = "success"

ReadJobs ==
    /\ gatePc = "jobs"
    /\ poll' = gates
    /\ CASE Pending(gates) -> GateGoto("sleep")
         [] ~Pending(gates) /\ Succeeded(gates) -> GateGoto("attempt")
         [] OTHER -> GateGoto("refused")

(* The bug of taking a carried-over success for this attempt's.              *)
CarriedOver(g) == TRUE

(* require_current_attempt_jobs: after the first attempt, a successful job   *)
(* must have started in this one.                                          *)
CurrentAttempt(g) == myAttempt = 1 \/ \A j \in g : j.fresh

ReadAttempt ==
    /\ gatePc = "attempt"
    /\ GateGoto(IF CurrentAttempt(poll) THEN "clock" ELSE "refused")
    /\ UNCHANGED poll

ReadClock ==
    /\ gatePc = "clock"
    /\ GateGoto(IF now < Deadline THEN "go" ELSE "refused")
    /\ UNCHANGED poll

(* The bug of a wait that starts its five minutes again with every poll.     *)
SleepAnew ==
    /\ gatePc = "sleep"
    /\ gatePc' = "run" /\ now' = 0
    /\ UNCHANGED <<github, poll>>

(* Not ready: the deadline is looked at, then the job sleeps.               *)
Sleep ==
    /\ gatePc = "sleep"
    /\ IF now >= Deadline
       THEN gatePc' = "refused" /\ UNCHANGED now
       ELSE gatePc' = "run" /\ now' = IF Deadline - now < Poll THEN Deadline ELSE now + Poll
    /\ UNCHANGED <<github, poll>>

GateStep == ReadRun \/ ReadJobs \/ ReadAttempt \/ ReadClock \/ Sleep

GateNext ==
    \/ \E s \in {"in_progress"} \cup Outcomes : RunStatus(s)
    \/ ListGate
    \/ \E o \in Outcomes : FinishGate(o)
    \/ DuplicateGate
    \/ Rerun
    \/ Elapse
    \/ GateStep

GateSpec == GateInit /\ [][GateNext]_gateVars
GateFairSpec == GateSpec /\ WF_gateVars(GateStep)
-----------------------------------------------------------------------------
(* The job goes on only if the gate of its own attempt executed to success,  *)
(* whatever an earlier attempt left in the listing (release_gate_ready,       *)
(* require_current_attempt_jobs).                                          *)
GateReallyPassed == gatePc = "go" => myAttempt \in executed

(* The wait ends, with a verdict, even if the metadata never catches up.     *)
WaitEnds == <>(gatePc \in Ended)
=============================================================================
