------------------------------- MODULE MCGitHub -------------------------------
(***************************************************************************)
(* What the release scripts do with GitHub, request by request: the         *)
(* transaction that makes a release, one read with its retries, the         *)
(* read-back of an inventory, and the wait for a run's gate.  A behaviour   *)
(* runs the one that `part` names.                                          *)
(*                                                                         *)
(* Transaction: two files, two releases and three interventions by others.  *)
(* Read: three attempts, as in the code, two pages, and a resource that     *)
(* others create and delete in between.                                     *)
(* Read-back: up to four releases at the start on pages of two, two more    *)
(* created and three deleted while two listings are read in seven calls.    *)
(* Gate: three attempts, a deadline of five ticks and polls of two.         *)
(***************************************************************************)
EXTENDS ReleaseTransaction, ApiReads, InventoryReadback, RunGate

MCFiles == {"wheel", "manifest"}
MCIds == {1, 2}

VARIABLE part

allVars == <<part, vars, readVars, readbackVars, gateVars>>

(* A part that does not run starts in one of its initial states.            *)
MCInit ==
    /\ part \in {"transaction", "read", "readback", "gate"}
    /\ Init /\ ReadInit /\ ReadbackInit /\ GateInit
    /\ part # "transaction" => tag = "absent"
    /\ part # "read" => ~paginated /\ exists
    /\ part # "readback" => created = 0
    /\ part # "gate" => myAttempt = 1 /\ status = "queued"

InTransaction == part = "transaction" /\ UNCHANGED <<part, readVars, readbackVars, gateVars>>
InRead == part = "read" /\ UNCHANGED <<part, vars, readbackVars, gateVars>>
InReadback == part = "readback" /\ UNCHANGED <<part, vars, readVars, gateVars>>
InGate == part = "gate" /\ UNCHANGED <<part, vars, readVars, readbackVars>>

MCNext ==
    \/ InTransaction /\ Next
    \/ InRead /\ ReadNext
    \/ InReadback /\ ReadbackNext
    \/ InGate /\ GateNext

(* The fairness of the components, each in its own part.                    *)
MCSpec ==
    /\ MCInit /\ [][MCNext]_allVars
    /\ WF_allVars(InRead /\ Attempt)
    /\ WF_allVars(InReadback /\ \E linked \in BOOLEAN : GetPage(linked))
    /\ WF_allVars(InReadback /\ CallLimit)
    /\ WF_allVars(InGate /\ GateStep)

(* A read, a read-back and the wait for a gate each come to an end, with an *)
(* answer or an error, whatever others do to what they look at.             *)
WaitsEnd ==
    /\ part = "read" => ReadEnds
    /\ part = "readback" => ReadbackEnds
    /\ part = "gate" => WaitEnds

==============================================================================
