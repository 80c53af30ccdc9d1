---------------------------- MODULE BuildReceipts ----------------------------
(* The receipts that bind the payloads of a release to the build that made  *)
(* them (scripts/stage_release_assets.py, scripts/version_receipt.py,       *)
(* release.py collect).                                                     *)
(*                                                                          *)
(* A platform job checks the source out, writes the planned version into    *)
(* the version inputs, builds its payloads and stages them: it copies them  *)
(* into a new directory, inspects the version inside them and writes a      *)
(* receipt naming every payload's bytes, the inputs and the workflow        *)
(* attempt.  The publisher gathers what the jobs uploaded and accepts it    *)
(* only when every payload is named by exactly one receipt.  Between those  *)
(* steps a packaging script may touch the inputs, a signing step may        *)
(* rewrite a staged payload, an artifact may lose a file, and a rerun of    *)
(* the failed jobs leaves the artifacts of an earlier attempt behind.       *)
EXTENDS Naturals, FiniteSets

CONSTANTS
    Targets,       \* the platform jobs
    Required,      \* versioning.required_build_receipts of the source policy
    Names,         \* the flat names a payload can have
    Declared,      \* names with a versioning.artifacts declaration
    MaxAttempts    \* bound on the attempts of the workflow run

ASSUME ReceiptConstants ==
    /\ Required \subseteq Targets
    /\ Declared \subseteq Names
    /\ MaxAttempts \in Nat \ {0}

VARIABLES
    attempt,    \* the current attempt of the workflow run
    inputs,     \* the version inputs in each job's checkout
    dist,       \* the payloads each job has built
    staged,     \* the job's release-assets/TARGET directory
    receipt,    \* the receipt in it: none or one
    uploaded,   \* artifacts of the run, of every attempt
    attested,   \* history: what receipts were written for
    accepted    \* the payloads the publisher accepted, and in which attempt

vars == <<attempt, inputs, dist, staged, receipt, uploaded, attested, accepted>>

\* The bytes of a payload: who built it and when, from which version inputs,
\* and whether a later step rewrote it.
Bytes == [target : Targets, attempt : 1..MaxAttempts,
          version : {"source", "plan", "altered"}, rewritten : BOOLEAN]
Payloads == [name : Names, bytes : Bytes]
Receipts == [target : Targets, attempt : 1..MaxAttempts,
             artifacts : SUBSET Payloads]
Artifacts == [payloads : SUBSET Payloads, receipt : Receipts]

Init ==
    /\ attempt = 1
    /\ inputs = [t \in Targets |-> "source"]
    /\ dist = [t \in Targets |-> {}]
    /\ staged = [t \in Targets |-> {}]
    /\ receipt = [t \in Targets |-> {}]
    /\ uploaded = {}
    /\ attested = {}
    /\ accepted = [attempt |-> 0, payloads |-> {}]

-----------------------------------------------------------------------------
(* The platform job. *)

\* version_plan.py sync before the build, or a script that puts an altered
\* input back.
Sync(t) ==
    /\ inputs[t] # "plan"
    /\ staged[t] = {}
    /\ inputs' = [inputs EXCEPT ![t] = "plan"]
    /\ UNCHANGED <<attempt, dist, staged, receipt, uploaded, attested, accepted>>

\* The repository's packaging script builds payloads from the inputs as they
\* are; a misconfigured job may produce another platform's name.
Build(t, names) ==
    /\ inputs[t] # "source"
    /\ dist[t] = {}
    /\ dist' = [dist EXCEPT ![t] = [name : names,
           bytes : {[target |-> t, attempt |-> attempt, version |-> inputs[t],
                     rewritten |-> FALSE]}]]
    /\ UNCHANGED <<attempt, inputs, staged, receipt, uploaded, attested, accepted>>

\* A build step edits a version input after the synchronisation.
Alter(t) ==
    /\ inputs[t] = "plan"
    /\ receipt[t] = {}
    /\ inputs' = [inputs EXCEPT ![t] = "altered"]
    /\ UNCHANGED <<attempt, dist, staged, receipt, uploaded, attested, accepted>>

\* sync_versions(check=True) and verify_staged_inputs: the inputs are those of
\* the plan, byte for byte.
InputsUnchanged(t) == inputs[t] = "plan"

\* collect_payloads: the patterns match, and no two payloads share a flat name.
Collectable(t) ==
    /\ dist[t] # {}
    /\ \A p, q \in dist[t] : p.name = q.name => p = q

\* stage up to the copies: the directory must be new and the payloads exist.
Stage(t) ==
    /\ staged[t] = {}
    /\ Collectable(t)
    /\ InputsUnchanged(t)
    /\ staged' = [staged EXCEPT ![t] = dist[t]]
    /\ UNCHANGED <<attempt, inputs, dist, receipt, uploaded, attested, accepted>>

\* verify_artifact: the package metadata of a declared payload carries the
\* version of the plan.
CarriesPlan(payloads) ==
    \A p \in payloads : p.name \in Declared => p.bytes.version = "plan"

\* receipt_packages: a nonempty directory without a receipt.
Attestable(t) == staged[t] # {} /\ receipt[t] = {}

\* write_staged_files: the receipt, completed with the inspected metadata.
WriteReceipt(t) ==
    /\ receipt' = [receipt EXCEPT ![t] =
           {[target |-> t, attempt |-> attempt, artifacts |-> staged[t]]}]
    /\ attested' = attested \cup
           {[attempt |-> attempt, payload |-> p] : p \in staged[t]}

\* inspect_staged_artifacts and create_receipt: the inputs are compared again
\* after the payloads were hashed.
Attest(t) ==
    /\ Attestable(t)
    /\ CarriesPlan(staged[t])
    /\ InputsUnchanged(t)
    /\ WriteReceipt(t)
    /\ UNCHANGED <<attempt, inputs, dist, staged, uploaded, accepted>>

\* write_staged_files raised: stage removes its directory.
CleanUp(t) ==
    /\ Attestable(t)
    /\ ~ (CarriesPlan(staged[t]) /\ InputsUnchanged(t))
    /\ staged' = [staged EXCEPT ![t] = {}]
    /\ UNCHANGED <<attempt, inputs, dist, receipt, uploaded, attested, accepted>>

\* The job has uploaded its artifact.
Done(t) == \E a \in uploaded : a.receipt \in receipt[t]

\* A later step of the job rewrites a staged payload.
Rewrite(t, p) ==
    /\ receipt[t] # {} /\ p \in staged[t]
    /\ ~ Done(t)
    /\ staged' = [staged EXCEPT ![t] = (@ \ {p}) \cup
           {[p EXCEPT !.bytes.rewritten = TRUE]}]
    /\ UNCHANGED <<attempt, inputs, dist, receipt, uploaded, attested, accepted>>

\* The upload step follows a staging that succeeded.
Upload(t) ==
    /\ ~ Done(t)
    /\ \E r \in receipt[t] :
           uploaded' = uploaded \cup {[payloads |-> staged[t], receipt |-> r]}
    /\ UNCHANGED <<attempt, inputs, dist, staged, receipt, attested, accepted>>

\* A rerun starts the chosen jobs from a clean checkout; the others, and all
\* artifacts of the run, stay as they are.
Rerun(jobs) ==
    /\ attempt < MaxAttempts
    /\ attempt' = attempt + 1
    /\ inputs' = [t \in Targets |-> IF t \in jobs THEN "source" ELSE inputs[t]]
    /\ dist' = [t \in Targets |-> IF t \in jobs THEN {} ELSE dist[t]]
    /\ staged' = [t \in Targets |-> IF t \in jobs THEN {} ELSE staged[t]]
    /\ receipt' = [t \in Targets |-> IF t \in jobs THEN {} ELSE receipt[t]]
    /\ UNCHANGED <<uploaded, attested, accepted>>

-----------------------------------------------------------------------------
(* The publisher. *)

\* collect_assets and stage_assets: one flat directory, no name twice.
Collected(artifacts) ==
    \A a, b \in artifacts : a # b =>
        /\ a.receipt.target # b.receipt.target
        /\ {p.name : p \in a.payloads} \cap {p.name : p \in b.payloads} = {}

\* The bug of accepting any attempt of the run.
AnyAttempt(r) == TRUE

\* verify_producer_identity: the receipt was written in this attempt.
ThisAttempt(r) == r.attempt = attempt

\* cover_receipt_artifacts and the coverage test of verify_receipts: every
\* payload is named once, with its exact bytes, and nothing else is.
Covered(receipts, payloads) ==
    /\ \A r \in receipts : r.artifacts # {} /\ r.artifacts \subseteq payloads
    /\ \A r, s \in receipts : r # s =>
           {p.name : p \in r.artifacts} \cap {p.name : p \in s.artifacts} = {}
    /\ payloads = UNION {r.artifacts : r \in receipts}

\* verify_required_build_receipts.
RequiredPresent(receipts) == {r.target : r \in receipts} = Required

\* publish_versioned from the download to verify_declared_artifacts.  The
\* artifact service hands over some artifacts of the run, of any attempt, and
\* may lose a file of them.
Accept(artifacts, lost) ==
    LET receipts == {a.receipt : a \in artifacts}
        payloads == UNION {a.payloads : a \in artifacts} \ lost
    IN  /\ accepted.attempt # attempt
        /\ artifacts # {}
        /\ Collected(artifacts)
        /\ \A r \in receipts : ThisAttempt(r)
        /\ Covered(receipts, payloads)
        /\ RequiredPresent(receipts)
        /\ CarriesPlan(payloads)
        /\ Declared \subseteq {p.name : p \in payloads}
        /\ accepted' = [attempt |-> attempt, payloads |-> payloads]
        /\ UNCHANGED <<attempt, inputs, dist, staged, receipt, uploaded, attested>>

Next ==
    \/ \E t \in Targets :
           \/ Sync(t)
           \/ \E names \in SUBSET Names \ {{}} : Build(t, names)
           \/ Alter(t)
           \/ Stage(t)
           \/ Attest(t)
           \/ CleanUp(t)
           \/ \E p \in staged[t] : Rewrite(t, p)
           \/ Upload(t)
    \/ Rerun(Targets)
    \/ Rerun({t \in Targets : ~ Done(t)})
    \/ \E artifacts \in SUBSET uploaded :
           \E lost \in SUBSET UNION {a.payloads : a \in artifacts} :
               Accept(artifacts, lost)

Spec == Init /\ [][Next]_vars

-----------------------------------------------------------------------------

TypeOK ==
    /\ attempt \in 1..MaxAttempts
    /\ inputs \in [Targets -> {"source", "plan", "altered"}]
    /\ dist \in [Targets -> SUBSET Payloads]
    /\ staged \in [Targets -> SUBSET Payloads]
    /\ \A t \in Targets : receipt[t] \subseteq Receipts
    /\ uploaded \subseteq Artifacts
    /\ attested \subseteq [attempt : 1..MaxAttempts, payload : Payloads]
    /\ accepted.attempt \in 0..MaxAttempts
    /\ accepted.payloads \subseteq Payloads

\* Whatever was rewritten, lost, left behind by an earlier attempt or built
\* under another platform's name on the way, the accepted payloads are, byte
\* for byte, payloads a receipt of the publishing attempt was written for
\* (version_receipt.py verify_receipts).
AcceptedIsFresh ==
    \A p \in accepted.payloads :
        [attempt |-> accepted.attempt, payload |-> p] \in attested

\* An accepted release lacks no platform: every required job contributes the
\* payloads of one staging of that attempt
\* (version_receipt.py verify_required_build_receipts).
AcceptedIsComplete ==
    accepted.attempt # 0 =>
        \A t \in Required : \E a \in uploaded :
            /\ a.receipt.target = t /\ a.receipt.attempt = accepted.attempt
            /\ a.receipt.artifacts \subseteq accepted.payloads
            /\ a.receipt.artifacts # {}

\* What the publisher accepts is all of what this attempt attested to, and
\* nothing else: the two parts above.
AcceptedIsAttested == AcceptedIsFresh /\ AcceptedIsComplete
=============================================================================
