---------------------------- MODULE ReleaseLedger ----------------------------
(***************************************************************************)
(* Version reservation and publication by release runs, through the ledger *)
(* file that GitHub guards by compare-and-swap on its blob SHA.            *)
(*                                                                         *)
(* Every GitHub request that writes is an action of its own.  A run may die *)
(* between any two of them, a write may take effect although its response   *)
(* is lost (the run fails; no write is ever retried), and a failed run may  *)
(* be started again under the same run ID.  The blob SHA is a digest of the *)
(* content, so "the SHA still matches" is "the ledger still equals the      *)
(* snapshot".  One base version is modelled, with its RC candidates and the *)
(* promotion of one of them to stable; tag 0 is the stable tag.             *)
(***************************************************************************)
EXTENDS Integers, FiniteSets

CONSTANTS Candidates,   \* runs that reserve, build and publish an RC
          Promotions,   \* runs that promote an RC's bytes to stable
          MaxAttempts   \* bound: attempts of one run

Runs == Candidates \cup Promotions
MaxNumber == Cardinality(Candidates)
NoPlan == [num |-> 0, tag |-> 0]
Stable == 0
Tags == 0..MaxNumber

ASSUME LedgerAssumption ==
    /\ IsFiniteSet(Candidates)
    /\ Candidates \cap Promotions = {}
    /\ MaxAttempts \in Nat

EmptyLedger ==
    [counter |-> 0, floor |-> 0, plans |-> [c \in Candidates |-> NoPlan]]

VARIABLES
    grouped,    \* the workflow's concurrency group is in force
    branch,     \* the branch release-version-state exists
    exists,     \* it holds the ledger file
    ledger,     \* the file's content
    release,    \* tag -> "none", "tag", "draft" or "published"
    number,     \* tag -> the build number published under it
    pc,         \* run -> the write it is about to make
    snap,       \* run -> the ledger it read, whose SHA it will send
    plan,       \* run -> the plan it builds, publishes or promotes
    attempt,    \* run -> attempts so far
    consumed,   \* history: run -> publications it has begun
    missing,    \* history: runs refused because the ledger is missing
    written     \* history: the ledger file has existed

remote == <<branch, exists, ledger, release, number, written>>
vars == <<grouped, branch, exists, ledger, release, number, pc, snap, plan,
          attempt, consumed, missing, written>>

Init ==
    /\ grouped \in BOOLEAN
    /\ branch = FALSE
    /\ exists = FALSE
    /\ ledger = EmptyLedger
    /\ release = [t \in Tags |-> "none"]
    /\ number = [t \in Tags |-> 0]
    /\ pc = [r \in Runs |-> "idle"]
    /\ snap = [r \in Runs |-> EmptyLedger]
    /\ plan = [r \in Runs |-> NoPlan]
    /\ attempt = [r \in Runs |-> 0]
    /\ consumed = [r \in Runs |-> 0]
    /\ missing = {}
    /\ written = FALSE

Active(r) == pc[r] \notin {"idle", "failed", "done"}

Goto(r, label) == pc' = [pc EXCEPT ![r] = label]

Proceed(r, label) == Goto(r, label) /\ UNCHANGED <<snap, plan>>

(* The process ends, and what it had read is gone with it. *)
Exit(r, label) ==
    /\ Goto(r, label)
    /\ snap' = [snap EXCEPT ![r] = EmptyLedger]
    /\ plan' = [plan EXCEPT ![r] = NoPlan]

Fail(r) == Exit(r, "failed")

------------------------------------------------------------------------------
(* GitHub, and the Actions runner.                                         *)

(* A new run, or a new attempt of a failed one. *)
Start(r) ==
    /\ pc[r] \in {"idle", "failed"}
    /\ attempt[r] < MaxAttempts
    /\ grouped => \A s \in Runs : ~Active(s)
    /\ attempt' = [attempt EXCEPT ![r] = @ + 1]
    /\ Goto(r, IF r \in Candidates THEN "prepare" ELSE "promote")
    /\ UNCHANGED <<remote, snap, plan, consumed, missing>>

(* The runner dies, is cancelled or meets a failing check. *)
Crash(r) ==
    /\ Active(r)
    /\ Fail(r)
    /\ UNCHANGED <<remote, attempt, consumed, missing>>

(* PUT contents/release-version-state.json with the SHA of the snapshot. *)
write_state(r, new) ==
    /\ snap[r] = ledger
    /\ ledger' = new
    /\ exists' = TRUE
    /\ written' = TRUE

Conflict(r) ==
    /\ snap[r] # ledger
    /\ Fail(r)
    /\ UNCHANGED <<remote, attempt, consumed, missing>>

(* The write succeeded; its response reaches the run or is lost. *)
Answered(r, label) ==
    \/ Proceed(r, label)
    \/ Fail(r)

------------------------------------------------------------------------------
(* prepare and reserve_plan.                                               *)

Readable == exists \/ ~branch

ReadFails(r) ==
    /\ pc[r] \in {"prepare", "verify", "promote", "begin"}
    /\ ~Readable
    /\ Fail(r)
    /\ missing' = missing \cup {r}
    /\ UNCHANGED <<remote, attempt, consumed>>

Absent(t) == release[t] = "none"

Reserved(l) == {c \in Candidates : l.plans[c] # NoPlan}

Largest(S) == CHOOSE n \in S : \A m \in S : m <= n

(* max(next_sequence, reserved + 1) *)
NextTag(l) ==
    1 + Largest({0} \cup {t \in Tags \ {Stable} : ~Absent(t)}
                    \cup {l.plans[c].tag : c \in Reserved(l)})

(* Read the ledger: a plan this run already reserved is used again,         *)
(* otherwise one is drawn up from the snapshot and the existing tags.       *)
Prepare(r) ==
    /\ pc[r] = "prepare"
    /\ Readable
    /\ Absent(Stable)
    /\ snap' = [snap EXCEPT ![r] = ledger]
    /\ IF ledger.plans[r] # NoPlan
       THEN /\ plan' = [plan EXCEPT ![r] = ledger.plans[r]]
            /\ Goto(r, "verify")
       ELSE /\ plan' = [plan EXCEPT ![r] = [num |-> ledger.counter + 1,
                                            tag |-> NextTag(ledger)]]
            /\ Goto(r, "ensureBranch")
    /\ UNCHANGED <<remote, attempt, consumed, missing>>

(* POST git/refs: the new branch starts without the ledger file. *)
EnsureBranch(r) ==
    /\ pc[r] = "ensureBranch"
    /\ branch' = TRUE
    /\ Answered(r, "reserve")
    /\ UNCHANGED <<exists, ledger, release, number, attempt, consumed, missing, written>>

(* The bug of recording the plan without moving the counter. *)
ReserveUncounted(r) ==
    /\ pc[r] = "reserve"
    /\ \/ /\ write_state(r, [snap[r] EXCEPT !.plans[r] = plan[r]])
          /\ Answered(r, "verify")
          /\ UNCHANGED <<branch, release, number, attempt, consumed, missing>>
       \/ Conflict(r)

(* reserve_plan's last step: counter and plan in one write. *)
Reserve(r) ==
    /\ pc[r] = "reserve"
    /\ \/ /\ write_state(r, [snap[r] EXCEPT !.counter = plan[r].num,
                                            !.plans[r] = plan[r]])
          /\ Answered(r, "verify")
          /\ UNCHANGED <<branch, release, number, attempt, consumed, missing>>
       \/ Conflict(r)

------------------------------------------------------------------------------
(* publish_versioned, promote and begin_publication.                       *)

Published(t) == release[t] = "published"

(* The bug of comparing with the published releases only. *)
NewerThanPublished(l, p) ==
    \A c \in Reserved(l) : Published(l.plans[c].tag) => l.plans[c].num < p.num

(* _verify_reservation on the ledger l. *)
VerifyReservation(l, p) ==
    /\ p.num > l.floor
    /\ \A c \in Reserved(l) : Published(l.plans[c].tag) => l.plans[c].num < p.num

(* The bug of promoting whatever RC was accepted. *)
PromotableAny(l, p) == Published(p.tag)

(* _verify_promotion_order on the ledger l. *)
Promotable(l, p) ==
    /\ Cardinality({c \in Reserved(l) : l.plans[c] = p}) = 1
    /\ p.num >= l.floor
    /\ Published(p.tag)
    /\ \A c \in Reserved(l) :
          (l.plans[c].tag # p.tag /\ Published(l.plans[c].tag)) => l.plans[c].num <= p.num

MayPublish(r) ==
    IF r \in Candidates
    THEN ledger.plans[r] = plan[r] /\ VerifyReservation(ledger, plan[r])
    ELSE Promotable(ledger, plan[r])

(* publish_versioned: the reservation and both tags, well before the write. *)
Verify(r) ==
    /\ pc[r] = "verify"
    /\ Readable
    /\ MayPublish(r)
    /\ Absent(plan[r].tag) /\ Absent(Stable)
    /\ Proceed(r, "begin")
    /\ UNCHANGED <<remote, attempt, consumed, missing>>

(* promote: an accepted RC is read and verified. *)
Promote(r) ==
    /\ pc[r] = "promote"
    /\ Readable
    /\ Absent(Stable)
    /\ \E c \in Reserved(ledger) :
          /\ Promotable(ledger, ledger.plans[c])
          /\ plan' = [plan EXCEPT ![r] = ledger.plans[c]]
    /\ Goto(r, "begin")
    /\ UNCHANGED <<remote, snap, attempt, consumed, missing>>

(* begin_publication up to its write: the ledger is read and verified again, *)
(* the tags are not.                                                        *)
Begin(r) ==
    /\ pc[r] = "begin"
    /\ Readable
    /\ MayPublish(r)
    /\ snap' = [snap EXCEPT ![r] = ledger]
    /\ Goto(r, "consume")
    /\ UNCHANGED <<remote, plan, attempt, consumed, missing>>

(* One of the checks above does not hold.  The base version is closed once  *)
(* its stable tag exists.                                                   *)
Refused(r) ==
    /\ Readable
    /\ \/ pc[r] \in {"prepare", "verify", "promote"} /\ ~Absent(Stable)
       \/ pc[r] = "verify" /\ ~(MayPublish(r) /\ Absent(plan[r].tag))
       \/ pc[r] = "promote" /\ \E c \in Reserved(ledger) : ~Promotable(ledger, ledger.plans[c])
       \/ pc[r] = "begin" /\ ~MayPublish(r)
    /\ Fail(r)
    /\ UNCHANGED <<remote, attempt, consumed, missing>>

(* The ledger this publication writes, kept as its confirmation. *)
Consuming(r) == [snap[r] EXCEPT !.floor = plan[r].num]

(* "Consume the package number with CAS before the first public mutation". *)
Consume(r) ==
    /\ pc[r] = "consume"
    /\ \/ /\ write_state(r, Consuming(r))
          /\ consumed' = [consumed EXCEPT ![r] = @ + 1]
          /\ Answered(r, "tag")
          /\ UNCHANGED <<branch, release, number, attempt, missing>>
       \/ Conflict(r)

------------------------------------------------------------------------------
(* _publish_prepared.                                                      *)

Target(r) == IF r \in Candidates THEN plan[r].tag ELSE Stable

CreateTag(r) ==
    /\ pc[r] = "tag"
    /\ \/ /\ Absent(Target(r))
          /\ release' = [release EXCEPT ![Target(r)] = "tag"]
          /\ Answered(r, "draft")
       \/ /\ ~Absent(Target(r))
          /\ Fail(r)
          /\ UNCHANGED release
    /\ UNCHANGED <<branch, exists, ledger, number, attempt, consumed, missing, written>>

(* create_release_once.  An ambiguous answer is reconciled by reading back: *)
(* it counts only if the draft is there and the ledger is still the one     *)
(* this publication wrote; a promotion does not reconcile.                  *)
CreateDraft(r) ==
    /\ pc[r] = "draft"
    /\ \/ /\ release' = [release EXCEPT ![Target(r)] = "draft"]
          /\ \/ Proceed(r, "publish")
             \/ r \in Candidates /\ Consuming(r) # ledger /\ Fail(r)
             \/ r \in Promotions /\ Fail(r)
       \/ /\ Fail(r)
          /\ UNCHANGED release
    /\ UNCHANGED <<branch, exists, ledger, number, attempt, consumed, missing, written>>

(* Upload, verify the bytes, PATCH draft to false. *)
Publish(r) ==
    /\ pc[r] = "publish"
    /\ release' = [release EXCEPT ![Target(r)] = "published"]
    /\ number' = [number EXCEPT ![Target(r)] = plan[r].num]
    /\ Exit(r, "done") \/ Fail(r)
    /\ UNCHANGED <<branch, exists, ledger, attempt, consumed, missing, written>>

------------------------------------------------------------------------------
Next ==
    /\ \/ \E r \in Runs :
             \/ Start(r) \/ Crash(r) \/ ReadFails(r) \/ Refused(r)
             \/ Begin(r) \/ Consume(r) \/ CreateTag(r) \/ CreateDraft(r) \/ Publish(r)
       \/ \E c \in Candidates :
             Prepare(c) \/ EnsureBranch(c) \/ Reserve(c) \/ Verify(c)
       \/ \E p \in Promotions : Promote(p)
    /\ UNCHANGED grouped

Spec == Init /\ [][Next]_vars

------------------------------------------------------------------------------
(* The ledger always passes the checks read_state makes of it, so no        *)
(* sequence of runs locks the next one out by what it wrote; and whatever   *)
(* races, lost responses and second attempts there are, no two runs hold    *)
(* the same build number.                                                   *)
LedgerConsistent ==
    /\ ledger.floor <= ledger.counter
    /\ \A c \in Reserved(ledger) :
          /\ ledger.plans[c].num <= ledger.counter
          /\ \A d \in Reserved(ledger) :
                ledger.plans[c].num = ledger.plans[d].num => c = d

(* "Publication failure still consumes the number": one run gets through    *)
(* begin_publication at most once, over all its attempts, under a tag of    *)
(* its own, and nothing public is ever ahead of the publication floor.      *)
PublishedOnce ==
    /\ \A c \in Candidates : consumed[c] <= 1
    /\ \A c, d \in Reserved(ledger) :
          ledger.plans[c].tag = ledger.plans[d].tag => c = d
    /\ \A c \in Reserved(ledger) :
          ~Absent(ledger.plans[c].tag) => ledger.plans[c].num <= ledger.floor

(* A step that publishes below a number that is already public.             *)
Downgrade ==
    \E t, u \in Tags :
        /\ ~Published(t) /\ Published(t)'
        /\ Published(u) /\ number[u] > number'[t]

(* verify_reservation and verify_promotion_order "prevent delayed numeric   *)
(* downgrades": under the concurrency group nothing is published below a    *)
(* number that is already public.                                           *)
NoDowngrade == [][grouped => ~Downgrade]_vars

(* read_state's error says "restore it from history": a run is refused for  *)
(* a missing ledger only when there was one.                                *)
MissingMeansLost == missing # {} => written

==============================================================================
