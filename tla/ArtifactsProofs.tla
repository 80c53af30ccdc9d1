------------------------- MODULE ArtifactsProofs -------------------------
(***************************************************************************)
(* What a release builds, for every value of the constants of the models:   *)
(*   receipts      what the publisher accepts is what a receipt of its own   *)
(*                 attempt was written for, and no platform is missing;      *)
(*   version sync  no edit is lost, no half-written file remains;            *)
(*   image merge   the output has what its index reaches, verified;          *)
(*   projections   package versions and Apple builds ascend;                 *)
(*   preparation   a push loses nobody's work on a topic;                    *)
(*   notes         accepted notes have visible guidance and ATX headings.    *)
(* Each part has its inductive invariant, a lemma per action that keeps it,  *)
(* and the theorem.                                                         *)
(***************************************************************************)
EXTENDS BuildReceipts, OciMerge, VersionSync, VersionPreparation, VersionProjection, ReleaseNotes,
        FiniteSetTheorems, SequenceTheorems, WellFoundedInduction, TLAPS

(* A receipt names only payloads it was written for.                        *)
Truthful(r) ==
    \A p \in r.artifacts : [attempt |-> r.attempt, payload |-> p] \in attested

(* Receipts are truthful in the job's directory and, whatever happened to    *)
(* the payloads beside them, as they are uploaded.                          *)
ReceiptsAreTruthful ==
    /\ DOMAIN receipt = Targets
    /\ \A t \in Targets : \A r \in receipt[t] : Truthful(r)
    /\ \A a \in uploaded : Truthful(a.receipt)

Inv == ReceiptsAreTruthful /\ AcceptedIsFresh /\ AcceptedIsComplete

LEMMA InitInv == Init => Inv
BY DEF Init, Inv, ReceiptsAreTruthful, AcceptedIsFresh, AcceptedIsComplete

(* Nothing is taken back: what was attested and uploaded stays.             *)
LEMMA AcceptedStays ==
  ASSUME Inv, UNCHANGED accepted, attested \subseteq attested', uploaded \subseteq uploaded'
  PROVE  AcceptedIsFresh' /\ AcceptedIsComplete'
<1>1. AcceptedIsFresh'
  BY DEF Inv, AcceptedIsFresh
<1>2. AcceptedIsComplete'
  BY DEF Inv, AcceptedIsComplete
<1> QED BY <1>1, <1>2

LEMMA JobStep ==
  ASSUME Inv, UNCHANGED <<receipt, uploaded, attested, accepted>>
  PROVE  Inv'
<1>1. ReceiptsAreTruthful'
  BY DEF Inv, ReceiptsAreTruthful, Truthful
<1> QED BY <1>1, AcceptedStays DEF Inv

LEMMA AttestStep ==
  ASSUME Inv, NEW t \in Targets, Attest(t)
  PROVE  Inv'
<1>1. attested \subseteq attested' /\ uploaded' = uploaded /\ accepted' = accepted
  BY DEF Attest, Attestable, WriteReceipt
<1> DEFINE new == [target |-> t, attempt |-> attempt, artifacts |-> staged[t]]
<1>2. \A p \in new.artifacts : [attempt |-> new.attempt, payload |-> p] \in attested'
  BY DEF Attest, Attestable, WriteReceipt
<1>3. receipt' = [receipt EXCEPT ![t] = {new}]
  BY DEF Attest, Attestable, WriteReceipt
<1>4. \A u \in Targets : \A r \in receipt'[u] : Truthful(r)'
  <2> SUFFICES ASSUME NEW u \in Targets, NEW r \in receipt'[u] PROVE Truthful(r)'
    OBVIOUS
  <2>1. CASE r \in receipt[u]
    BY <1>1, <2>1 DEF Inv, ReceiptsAreTruthful, Truthful
  <2>2. CASE r = new
    BY <1>2, <2>2 DEF Truthful
  <2> HIDE DEF new
  <2> QED BY <1>3, <2>1, <2>2 DEF Inv, ReceiptsAreTruthful
<1>5. ReceiptsAreTruthful'
  <2>1. \A a \in uploaded' : Truthful(a.receipt)'
    BY <1>1 DEF Inv, ReceiptsAreTruthful, Truthful
  <2>2. DOMAIN receipt' = Targets
    BY <1>3 DEF Inv, ReceiptsAreTruthful
  <2> QED BY <1>4, <2>1, <2>2 DEF ReceiptsAreTruthful
<1> QED BY <1>1, <1>5, AcceptedStays DEF Inv

LEMMA UploadStep ==
  ASSUME Inv, NEW t \in Targets, Upload(t)
  PROVE  Inv'
<1>1. PICK r \in receipt[t] : uploaded' = uploaded \cup {[payloads |-> staged[t], receipt |-> r]}
  BY DEF Upload
<1>2. UNCHANGED <<receipt, attested, accepted>>
  BY DEF Upload
<1>3. \A a \in uploaded' : Truthful(a.receipt)
  BY <1>1 DEF Inv, ReceiptsAreTruthful
<1>4. ReceiptsAreTruthful'
  BY <1>2, <1>3 DEF Inv, ReceiptsAreTruthful, Truthful
<1> QED BY <1>1, <1>2, <1>4, AcceptedStays DEF Inv

LEMMA RerunStep ==
  ASSUME Inv, NEW jobs, Rerun(jobs)
  PROVE  Inv'
<1>1. \A t \in Targets : receipt'[t] \subseteq receipt[t]
  BY DEF Rerun
<1>2. DOMAIN receipt' = Targets /\ UNCHANGED <<uploaded, attested, accepted>>
  BY DEF Rerun
<1>3. ReceiptsAreTruthful'
  BY <1>1, <1>2 DEF Inv, ReceiptsAreTruthful, Truthful
<1> QED BY <1>2, <1>3, AcceptedStays DEF Inv

(* The coverage test makes the accepted payloads the receipts' own, and the  *)
(* producer check makes those receipts the attempt's.                       *)
LEMMA AcceptStep ==
  ASSUME Inv, NEW artifacts \in SUBSET uploaded, NEW lost, Accept(artifacts, lost)
  PROVE  Inv'
<1> DEFINE receipts == {a.receipt : a \in artifacts}
           payloads == UNION {a.payloads : a \in artifacts} \ lost
<1>1. /\ \A r \in receipts : r.attempt = attempt
      /\ \A r \in receipts : r.artifacts # {} /\ r.artifacts \subseteq payloads
      /\ payloads = UNION {r.artifacts : r \in receipts}
      /\ {r.target : r \in receipts} = Required
  BY DEF Accept, ThisAttempt, Covered, RequiredPresent
<1>2. accepted' = [attempt |-> attempt, payloads |-> payloads]
  BY DEF Accept
<1>3. UNCHANGED <<receipt, uploaded, attested>>
  BY DEF Accept
<1>4. \A r \in receipts : Truthful(r)
  BY DEF Inv, ReceiptsAreTruthful
<1> HIDE DEF payloads
<1>5. AcceptedIsFresh'
  <2> SUFFICES ASSUME NEW p \in payloads
               PROVE  [attempt |-> attempt, payload |-> p] \in attested
    BY <1>2, <1>3 DEF AcceptedIsFresh
  <2> HIDE DEF receipts
  <2>1. PICK r \in receipts : p \in r.artifacts
    BY <1>1
  <2> QED BY <1>1, <1>4, <2>1 DEF Truthful
<1>6. AcceptedIsComplete'
  <2> SUFFICES ASSUME NEW t \in Required
               PROVE  \E a \in uploaded :
                         /\ a.receipt.target = t /\ a.receipt.attempt = attempt
                         /\ a.receipt.artifacts \subseteq payloads
                         /\ a.receipt.artifacts # {}
    BY <1>2, <1>3 DEF AcceptedIsComplete
  <2>1. PICK r \in receipts : r.target = t
    BY <1>1
  <2>2. PICK a \in artifacts : a.receipt = r
    BY <2>1
  <2> QED BY <1>1, <2>1, <2>2
<1>7. ReceiptsAreTruthful'
  BY <1>3 DEF Inv, ReceiptsAreTruthful, Truthful
<1> QED BY <1>5, <1>6, <1>7 DEF Inv

LEMMA NextInv == Inv /\ [Next]_vars => Inv'
<1> SUFFICES ASSUME Inv, [Next]_vars PROVE Inv'
  OBVIOUS
<1>1. ASSUME NEW t \in Targets,
             \/ Sync(t) \/ Alter(t) \/ Stage(t) \/ CleanUp(t)
             \/ \E names \in SUBSET Names \ {{}} : Build(t, names)
             \/ \E p \in staged[t] : Rewrite(t, p)
      PROVE  Inv'
  <2>1. UNCHANGED <<receipt, uploaded, attested, accepted>>
    BY <1>1 DEF Sync, Alter, Stage, CleanUp, Build, Rewrite
  <2> QED BY <2>1, JobStep
<1>2. ASSUME NEW t \in Targets, Attest(t) \/ Upload(t)
      PROVE  Inv'
  BY <1>2, AttestStep, UploadStep
<1>3. CASE UNCHANGED vars
  BY <1>3, JobStep DEF vars
<1>4. ASSUME NEW artifacts \in SUBSET uploaded,
             NEW lost \in SUBSET UNION {a.payloads : a \in artifacts},
             Accept(artifacts, lost)
      PROVE  Inv'
  BY <1>4, AcceptStep
<1> QED BY <1>1, <1>2, <1>3, <1>4, RerunStep DEF Next

(* Whatever was rewritten, lost, built under another platform's name or left *)
(* by an earlier attempt, verify_receipts and verify_required_build_receipts *)
(* let through exactly what the publishing attempt attested to.              *)
THEOREM AcceptedWasAttested == Spec => []AcceptedIsAttested
<1>1. Inv => AcceptedIsAttested
  BY DEF Inv, AcceptedIsAttested
<1> QED BY <1>1, InitInv, NextInv, PTL DEF Spec
-----------------------------------------------------------------------------
(* Version files.  With D(f) for "the disk has of f what was read": files    *)
(* that were read, and are still to be rechecked or replaced, are D unless    *)
(* others edited; the file about to be replaced is D unless it was edited     *)
(* late; and once all edits were computed they agree with each other.        *)
Contents == [Fields -> 0..Stranger]
Contradictory ==
    \E d, e \in policy : d.file = e.file /\ d.field = e.field /\ d.value # e.value
Computed == syncPc \in {"recheck", "stage", "replace"}
StillAsRead(f) ==
    \/ syncPc = "read" /\ f \notin syncTodo
    \/ syncPc = "recheck"
    \/ syncPc \in {"stage", "replace"} /\ f \in syncTodo

SyncTyped ==
    /\ policy \subseteq Declarations
    /\ disk \in [Files -> Contents] /\ originals \in [Files -> Contents]
    /\ edits \in Nat
    /\ syncTodo \subseteq Owned
    /\ syncPc \in {"idle", "read", "recheck", "stage", "replace"}
    /\ \A f \in compared : syncPc = "replace" /\ f \in syncTodo /\ compared = {f}

SyncInv ==
    /\ SyncTyped
    /\ Computed => Consistent
    /\ \A f \in compared : disk[f] # originals[f] => f \in late
    /\ edits = 0 => /\ \A f \in Owned : StillAsRead(f) => disk[f] = originals[f]
                    /\ Accounted
                    /\ verdict = "refused" => Contradictory

(* What the declarations of a file say of a field.                          *)
Values(f, k) == {d.value : d \in {e \in policy : e.file = f /\ e.field = k}}

LEMMA EditedIs ==
    ASSUME NEW f, NEW content
    PROVE  Edited(content, f) =
              {c \in Contents : \A k \in Fields :
                 IF Values(f, k) = {} THEN c[k] = content[k] ELSE c[k] \in Values(f, k)}
BY DEF Edited, Values, Contents

LEMMA SyncFacts ==
    ASSUME policy \subseteq Declarations
    PROVE  /\ Owned \subseteq Files
           /\ \A d \in policy : d.file \in Files /\ d.field \in Fields /\ d.value \in 0..Stranger
           /\ \A d \in policy : d.file \in Owned
           /\ \A f, k : Values(f, k) \subseteq 0..Stranger
           /\ \A d \in policy : d.value \in Values(d.file, d.field)
           /\ Committed \in [Files -> Contents]
<1>1. \A d \in policy : d.file \in Files /\ d.field \in Fields /\ d.value \in 0..Stranger
  BY SyncAssumption
<1>2. Owned \subseteq Files /\ \A d \in policy : d.file \in Owned
  BY <1>1 DEF Owned
<1>3. \A f, k : Values(f, k) \subseteq 0..Stranger
  BY <1>1 DEF Values
<1>4. \A d \in policy : d.value \in Values(d.file, d.field)
  BY DEF Values
<1>5. Committed \in [Files -> Contents]
  <2>1. 0 \in 0..Stranger BY SyncAssumption
  <2> QED BY <2>1 DEF Committed, Contents
<1> QED BY <1>1, <1>2, <1>3, <1>4, <1>5

(* _edit always has a result; it has the type of a content.                  *)
LEMMA PlannedIsEdited ==
    ASSUME policy \subseteq Declarations, originals \in [Files -> Contents], NEW f \in Files
    PROVE  Planned(f) \in Edited(originals[f], f) /\ Planned(f) \in Contents
<1> DEFINE c == [k \in Fields |-> IF Values(f, k) = {} THEN originals[f][k]
                                  ELSE CHOOSE v \in Values(f, k) : TRUE]
<1>1. ASSUME NEW k \in Fields
      PROVE  /\ c[k] \in 0..Stranger
             /\ IF Values(f, k) = {} THEN c[k] = originals[f][k] ELSE c[k] \in Values(f, k)
  <2>1. Values(f, k) \subseteq 0..Stranger
    BY SyncFacts
  <2>2. CASE Values(f, k) = {}
    <3>1. c[k] = originals[f][k] BY <2>2
    <3>2. originals[f] \in Contents OBVIOUS
    <3> QED BY <2>2, <3>1, <3>2 DEF Contents
  <2>3. CASE Values(f, k) # {}
    <3>1. c[k] = CHOOSE v \in Values(f, k) : TRUE BY <2>3
    <3> QED BY <2>1, <2>3, <3>1
  <2> QED BY <2>2, <2>3
<1>2. c \in Contents
  BY <1>1 DEF Contents
<1>3. c \in Edited(originals[f], f)
  BY <1>1, <1>2, EditedIs
<1>4. Planned(f) \in Edited(originals[f], f)
  BY <1>3 DEF Planned
<1> QED BY <1>4, EditedIs

(* Editing what was edited already gives nothing new.                       *)
LEMMA EditedAgain ==
    ASSUME NEW f, NEW content, NEW c \in Edited(content, f), NEW d \in Edited(c, f)
    PROVE  d \in Edited(content, f)
<1>1. ASSUME NEW k \in Fields
      PROVE  IF Values(f, k) = {} THEN d[k] = content[k] ELSE d[k] \in Values(f, k)
  BY EditedIs
<1> QED BY <1>1, EditedIs

(* A policy that cannot hold in full contradicts itself.                     *)
LEMMA InconsistentIsContradictory ==
    ASSUME policy \subseteq Declarations, ~Consistent
    PROVE  Contradictory
<1>0. PICK f \in Owned : \E c \in Edited(originals[f], f) : ~Holds(c, f)
  BY DEF Consistent
<1>1. PICK c \in Edited(originals[f], f) : ~Holds(c, f)
  BY <1>0
<1>2. PICK d \in policy : d.file = f /\ c[d.field] # d.value
  BY <1>1 DEF Holds
<1>3. d.field \in Fields /\ Values(f, d.field) # {}
  BY <1>2, SyncFacts
<1>4. c[d.field] \in Values(f, d.field)
  BY <1>3, EditedIs
<1>5. PICK e \in policy : e.file = f /\ e.field = d.field /\ e.value = c[d.field]
  BY <1>4 DEF Values
<1> QED BY <1>2, <1>5 DEF Contradictory

LEMMA SyncInvInit == SyncInit => SyncInv
<1> SUFFICES ASSUME SyncInit PROVE SyncInv
  OBVIOUS
<1>1. policy \subseteq Declarations
  BY DEF SyncInit
<1>2. SyncTyped
  BY <1>1, SyncFacts DEF SyncInit, SyncTyped
<1>3. Accounted
  BY DEF SyncInit, Accounted
<1> QED BY <1>2, <1>3 DEF SyncInit, SyncInv, Computed, StillAsRead

(* No step changes the policy, so what is said of it stays.                  *)
LEMMA PolicyStays ==
    ASSUME policy' = policy
    PROVE  /\ Owned' = Owned
           /\ Contradictory' <=> Contradictory
           /\ originals' = originals => (Consistent' <=> Consistent)
           /\ disk' = disk => (Accounted' <=> Accounted)
<1>1. Owned' = Owned
  BY DEF Owned
<1>2. Contradictory' <=> Contradictory
  BY DEF Contradictory
<1>3. \A f, c : Edited(c, f)' = Edited(c, f) /\ (Holds(c, f)' <=> Holds(c, f))
  BY DEF Edited, Holds
<1>4. originals' = originals => (Consistent' <=> Consistent)
  BY <1>1, <1>3 DEF Consistent, Edited, Holds
<1>5. disk' = disk => (Accounted' <=> Accounted)
  BY <1>1, <1>3 DEF Accounted, Edited
<1> QED BY <1>1, <1>2, <1>4, <1>5

(* A command that ends, having written nothing in this step.                 *)
LEMMA EndKeepsSync ==
    ASSUME SyncInv, syncPc' = "idle", compared' = {}, syncTodo' = {},
           UNCHANGED <<policy, disk, originals>>, edits' = edits,
           edits = 0 /\ verdict' = "refused" => Contradictory
    PROVE  SyncInv'
<1>1. SyncTyped'
  BY DEF SyncInv, SyncTyped
<1>2. edits' = 0 => Accounted' /\ (verdict' = "refused" => Contradictory')
  BY PolicyStays DEF SyncInv
<1> QED BY <1>1, <1>2 DEF SyncInv, Computed, StillAsRead

LEMMA EditKeepsSync ==
    ASSUME SyncInv, NEW f \in Files, NEW k \in Fields, Edit(f, k)
    PROVE  SyncInv'
<1>1. /\ disk' = [disk EXCEPT ![f][k] = Stranger] /\ edits' = edits + 1
      /\ late' = (IF compared = {f} THEN late \cup {f} ELSE late)
      /\ UNCHANGED <<policy, originals, syncPc, syncTodo, compared, stagedFiles, verdict>>
  BY DEF Edit, sync
<1>2. disk' \in [Files -> Contents] /\ \A g \in Files : g # f => disk'[g] = disk[g]
  <2>1. Stranger \in 0..Stranger
    BY SyncAssumption
  <2> QED BY <1>1, <2>1 DEF SyncInv, SyncTyped, Contents
<1>3. edits' \in Nat /\ edits' # 0
  BY <1>1 DEF SyncInv, SyncTyped
<1>4. SyncTyped'
  BY <1>1, <1>2, <1>3, PolicyStays DEF SyncInv, SyncTyped
<1>5. (Computed => Consistent)'
  BY <1>1, PolicyStays DEF SyncInv, Computed
<1>6. \A g \in compared' : disk'[g] # originals'[g] => g \in late'
  <2> SUFFICES ASSUME NEW g \in compared, disk'[g] # originals[g] PROVE g \in late'
    BY <1>1
  <2>1. compared = {g} /\ g \in Files
    BY SyncFacts DEF SyncInv, SyncTyped
  <2>2. CASE g = f
    BY <1>1, <2>1, <2>2
  <2>3. CASE g # f
    BY <1>1, <1>2, <2>1, <2>3 DEF SyncInv
  <2> QED BY <2>2, <2>3
<1> QED BY <1>3, <1>4, <1>5, <1>6 DEF SyncInv

LEMMA StartKeepsSync == ASSUME SyncInv, Start PROVE SyncInv'
<1>1. /\ syncPc = "idle" /\ syncPc' = "read" /\ syncTodo' = Owned /\ verdict' = "none"
      /\ UNCHANGED <<policy, disk, originals, compared, edits, late>>
  BY DEF Start, Enter
<1>2. compared = {}
  BY <1>1 DEF SyncInv, SyncTyped
<1>3. SyncTyped'
  BY <1>1, <1>2, PolicyStays DEF SyncInv, SyncTyped
<1>4. edits' = 0 => Accounted'
  BY <1>1, PolicyStays DEF SyncInv
<1> QED BY <1>1, <1>2, <1>3, <1>4, PolicyStays DEF SyncInv, Computed, StillAsRead

LEMMA ReadKeepsSync == ASSUME SyncInv, NEW f \in Owned, ReadFile(f) PROVE SyncInv'
<1>1. /\ syncPc = "read" /\ f \in syncTodo /\ originals' = [originals EXCEPT ![f] = disk[f]]
      /\ syncTodo' = syncTodo \ {f}
      /\ UNCHANGED <<policy, disk, syncPc, compared, verdict, edits, late>>
  BY DEF ReadFile
<1>2. compared = {} /\ Owned \subseteq Files
  BY <1>1, SyncFacts DEF SyncInv, SyncTyped
<1>3. SyncTyped'
  BY <1>1, <1>2, PolicyStays DEF SyncInv, SyncTyped
<1>4. edits' = 0 => Accounted' /\ (verdict' = "refused" => Contradictory')
  BY <1>1, PolicyStays DEF SyncInv
<1>5. edits' = 0 => \A g \in Owned' : StillAsRead(g)' => disk'[g] = originals'[g]
  BY <1>1, <1>2, PolicyStays DEF SyncInv, SyncTyped, StillAsRead
<1> QED BY <1>1, <1>2, <1>3, <1>4, <1>5 DEF SyncInv, Computed

LEMMA PlanKeepsSync == ASSUME SyncInv, Plan PROVE SyncInv'
<1>1. CASE Consistent
  <2>1. /\ syncPc = "read" /\ syncTodo = {} /\ syncPc' = "recheck" /\ syncTodo' = Owned
        /\ UNCHANGED <<policy, disk, originals, compared, verdict, edits, late>>
    BY <1>1 DEF Plan, Enter
  <2>2. compared = {}
    BY <2>1 DEF SyncInv, SyncTyped
  <2>3. SyncTyped'
    BY <2>1, <2>2, PolicyStays DEF SyncInv, SyncTyped
  <2>4. edits' = 0 => Accounted' /\ (verdict' = "refused" => Contradictory')
    BY <2>1, PolicyStays DEF SyncInv
  <2>5. edits' = 0 => \A g \in Owned' : disk'[g] = originals'[g]
    BY <2>1, PolicyStays DEF SyncInv, StillAsRead
  <2> QED BY <1>1, <2>1, <2>2, <2>3, <2>4, <2>5, PolicyStays DEF SyncInv
<1>2. CASE ~Consistent
  <2>1. Contradictory
    BY <1>2, InconsistentIsContradictory DEF SyncInv, SyncTyped
  <2> QED BY <1>2, <2>1, EndKeepsSync DEF Plan, Refuse
<1> QED BY <1>1, <1>2

LEMMA RecheckKeepsSync == ASSUME SyncInv, NEW f \in Owned, RecheckFile(f) PROVE SyncInv'
<1>1. CASE disk[f] = originals[f]
  <2>1. /\ syncPc = "recheck"
        /\ \/ syncPc' = "stage" /\ syncTodo' = Drift
           \/ syncPc' = "recheck" /\ syncTodo' = syncTodo \ {f}
        /\ UNCHANGED <<policy, disk, originals, compared, verdict, edits, late>>
    BY <1>1 DEF RecheckFile, Enter
  <2>2. compared = {} /\ syncTodo' \subseteq Owned
    BY <2>1 DEF SyncInv, SyncTyped, Drift
  <2>3. SyncTyped'
    BY <2>1, <2>2, PolicyStays DEF SyncInv, SyncTyped
  <2>4. edits' = 0 => Accounted' /\ (verdict' = "refused" => Contradictory')
    BY <2>1, PolicyStays DEF SyncInv
  <2>5. edits' = 0 => \A g \in Owned' : disk'[g] = originals'[g]
    BY <2>1, PolicyStays DEF SyncInv, StillAsRead
  <2>6. Consistent'
    BY <2>1, PolicyStays DEF SyncInv, Computed
  <2> QED BY <2>2, <2>1, <2>3, <2>4, <2>5, <2>6 DEF SyncInv
<1>2. CASE disk[f] # originals[f]
  <2>1. edits # 0
    BY <1>2 DEF RecheckFile, SyncInv, StillAsRead
  <2> QED BY <1>2, <2>1, EndKeepsSync DEF RecheckFile, Refuse
<1> QED BY <1>1, <1>2

LEMMA StageKeepsSync == ASSUME SyncInv, StageFiles PROVE SyncInv'
<1>1. /\ syncPc = "stage" /\ syncPc' = "replace" /\ syncTodo' = syncTodo
      /\ UNCHANGED <<policy, disk, originals, compared, verdict, edits, late>>
  BY DEF StageFiles, Enter
<1>2. compared = {}
  BY <1>1 DEF SyncInv, SyncTyped
<1>3. SyncTyped'
  BY <1>1, <1>2, PolicyStays DEF SyncInv, SyncTyped
<1>4. edits' = 0 => Accounted' /\ (verdict' = "refused" => Contradictory')
  BY <1>1, PolicyStays DEF SyncInv
<1>5. edits' = 0 => \A g \in Owned' : StillAsRead(g)' => disk'[g] = originals'[g]
  BY <1>1, PolicyStays DEF SyncInv, StillAsRead
<1>6. Consistent'
  BY <1>1, PolicyStays DEF SyncInv, Computed
<1> QED BY <1>1, <1>2, <1>3, <1>4, <1>5, <1>6 DEF SyncInv

LEMMA CompareKeepsSync == ASSUME SyncInv, NEW f \in Owned, Compare(f) PROVE SyncInv'
<1>1. CASE disk[f] = originals[f]
  <2>1. /\ syncPc = "replace" /\ f \in syncTodo /\ compared' = {f}
        /\ UNCHANGED <<policy, disk, originals, syncPc, syncTodo, verdict, edits>>
    BY <1>1 DEF Compare, UnchangedOnDisk
  <2>2. SyncTyped'
    BY <2>1, PolicyStays DEF SyncInv, SyncTyped
  <2>3. edits' = 0 => Accounted' /\ (verdict' = "refused" => Contradictory')
    BY <2>1, PolicyStays DEF SyncInv
  <2>4. edits' = 0 => \A g \in Owned' : StillAsRead(g)' => disk'[g] = originals'[g]
    BY <2>1, PolicyStays DEF SyncInv, StillAsRead
  <2>5. Consistent'
    BY <2>1, PolicyStays DEF SyncInv, Computed
  <2> QED BY <1>1, <2>1, <2>2, <2>3, <2>4, <2>5 DEF SyncInv
<1>2. CASE disk[f] # originals[f]
  <2>1. edits # 0
    BY <1>2 DEF Compare, SyncInv, StillAsRead
  <2> QED BY <1>2, <2>1, EndKeepsSync DEF Compare, UnchangedOnDisk, Refuse
<1> QED BY <1>1, <1>2

LEMMA ReplaceKeepsSync == ASSUME SyncInv, NEW f \in Owned, Replace(f) PROVE SyncInv'
<1>1. /\ compared = {f} /\ disk' = [disk EXCEPT ![f] = Planned(f)]
      /\ syncTodo' = syncTodo \ {f} /\ compared' = {}
      /\ UNCHANGED <<policy, originals, syncPc, verdict, edits, late>>
  BY DEF Replace
<1>2. syncPc = "replace" /\ f \in syncTodo /\ f \in Files /\ Owned \subseteq Files
      /\ disk \in [Files -> Contents]
  BY <1>1, SyncFacts DEF SyncInv, SyncTyped
<1>3. Planned(f) \in Edited(originals[f], f) /\ Planned(f) \in Contents
  BY <1>2, PlannedIsEdited DEF SyncInv, SyncTyped
<1>4. disk' \in [Files -> Contents] /\ disk'[f] = Planned(f)
      /\ \A g \in Files : g # f => disk'[g] = disk[g]
  BY <1>1, <1>2, <1>3
<1>5. SyncTyped'
  BY <1>1, <1>4, PolicyStays DEF SyncInv, SyncTyped
<1>6. Consistent'
  BY <1>1, <1>2, PolicyStays DEF SyncInv, Computed
<1>7. edits' = 0 => \A g \in Owned' : StillAsRead(g)' => disk'[g] = originals'[g]
  BY <1>1, <1>2, <1>4, PolicyStays DEF SyncInv, StillAsRead
<1>8. edits' = 0 => (verdict' = "refused" => Contradictory')
  BY <1>1, PolicyStays DEF SyncInv
<1>9. ASSUME edits' = 0 PROVE Accounted'
  <2>1. \A g \in Owned : disk[g] = Committed[g] \/ disk[g] \in Edited(Committed[g], g)
    BY <1>1, <1>9 DEF SyncInv, Accounted
  <2>2. disk[f] = originals[f]
    BY <1>1, <1>2, <1>9 DEF SyncInv, StillAsRead
  <2>3. Planned(f) \in Edited(Committed[f], f)
    BY <1>3, <2>1, <2>2, EditedAgain
  <2>4. \A g \in Owned : disk'[g] = Committed[g] \/ disk'[g] \in Edited(Committed[g], g)
    BY <1>2, <1>4, <2>1, <2>3
  <2>5. \A g, c : Edited(c, g)' = Edited(c, g)
    BY <1>1 DEF Edited
  <2>6. Owned' = Owned
    BY <1>1, PolicyStays
  <2> QED BY <1>1, <2>4, <2>6 DEF Accounted, Edited
<1> QED BY <1>1, <1>5, <1>6, <1>7, <1>8, <1>9 DEF SyncInv

LEMMA SyncInvKept == SyncInv /\ [SyncNext]_syncVars => SyncInv'
<1> SUFFICES ASSUME SyncInv, [SyncNext]_syncVars PROVE SyncInv'
  OBVIOUS
<1>1. CASE KillSync
  BY <1>1, EndKeepsSync DEF KillSync
<1>2. CASE Finish
  BY <1>2, EndKeepsSync DEF Finish
<1>3. CASE VerifyCheckout
  <2>1. syncTodo = {} \/ syncTodo' \subseteq Owned
    BY <1>3 DEF VerifyCheckout, SyncInv, SyncTyped
  <2>2. /\ syncPc = "idle" /\ verdict' = (IF Accounted THEN "verified" ELSE "refused")
        /\ UNCHANGED <<policy, disk, originals, syncPc, syncTodo, compared, edits, late>>
    BY <1>3 DEF VerifyCheckout
  <2>3. SyncTyped'
    BY <2>2, PolicyStays DEF SyncInv, SyncTyped
  <2>4. edits' = 0 => Accounted' /\ verdict' # "refused"
    BY <2>2, PolicyStays DEF SyncInv
  <2>5. compared = {}
    BY <2>2 DEF SyncInv, SyncTyped
  <2> QED BY <2>2, <2>3, <2>4, <2>5 DEF SyncInv, Computed, StillAsRead
<1>4. CASE UNCHANGED syncVars
  <2>1. UNCHANGED <<policy, disk, originals, syncPc, syncTodo, compared, verdict, edits, late>>
    BY <1>4 DEF syncVars, sync
  <2>2. SyncTyped' /\ (edits' = 0 => Accounted' /\ (verdict' = "refused" => Contradictory'))
    BY <2>1, PolicyStays DEF SyncInv, SyncTyped
  <2>3. edits' = 0 => \A g \in Owned' : StillAsRead(g)' => disk'[g] = originals'[g]
    BY <2>1, PolicyStays DEF SyncInv, StillAsRead
  <2> QED BY <2>1, <2>2, <2>3, PolicyStays DEF SyncInv, Computed
<1> QED BY <1>1, <1>2, <1>3, <1>4, EditKeepsSync, StartKeepsSync, PlanKeepsSync, StageKeepsSync,
           ReadKeepsSync, RecheckKeepsSync, CompareKeepsSync, ReplaceKeepsSync DEF SyncNext

(* However edits, kills and new attempts interleave with the replacement of  *)
(* the files one by one (version_plan.py:1041-1130), for any files, fields   *)
(* and policies: an edit is destroyed only between the last comparison of its *)
(* file and the rename, a file is written only in agreement with the whole   *)
(* policy, and a kill makes neither a later sync nor verify_checkout refuse. *)
THEOREM SyncAlwaysSafe == SyncSpec => SyncIsSafe
<1>1. ASSUME SyncInv, SyncNext, NEW f \in Owned, disk'[f] # disk[f], edits' = edits
      PROVE  /\ disk[f] # originals[f] => f \in late
             /\ Holds(disk'[f], f)
  <2>1. ASSUME NEW g \in Files, NEW k \in Fields, Edit(g, k) PROVE FALSE
    BY <1>1, <2>1 DEF Edit, SyncInv, SyncTyped
  <2>2. PICK g \in Owned : Replace(g)
    BY <1>1, <2>1 DEF SyncNext, KillSync, Start, Plan, StageFiles, Finish, VerifyCheckout,
       ReadFile, RecheckFile, Compare, Refuse
  <2>3. g = f
    BY <1>1, <2>2, SyncFacts DEF Replace, SyncInv, SyncTyped
  <2>4. compared = {f} /\ disk'[f] = Planned(f) /\ f \in Files /\ syncPc = "replace"
    BY <1>1, <2>2, <2>3, SyncFacts DEF Replace, SyncInv, SyncTyped
  <2>5. Planned(f) \in Edited(originals[f], f)
    BY <1>1, <2>4, PlannedIsEdited DEF SyncInv, SyncTyped
  <2>6. Holds(Planned(f), f)
    BY <1>1, <2>4, <2>5 DEF SyncInv, Computed, Consistent
  <2>7. disk[f] # originals[f] => f \in late
    BY <1>1, <2>4 DEF SyncInv
  <2> QED BY <2>4, <2>6, <2>7
<1>2. SyncInv /\ SyncNext => EditsSurvive /\ WritesAgree
  BY <1>1 DEF EditsSurvive, WritesAgree
<1>3. SyncInv => KillsAreHarmless
  BY DEF SyncInv, KillsAreHarmless, Contradictory
<1>4. SyncInv' => KillsAreHarmless'
  BY <1>3, PTL
<1>5. SyncInv /\ [SyncNext]_syncVars =>
         [EditsSurvive /\ WritesAgree /\ KillsAreHarmless']_syncVars
  BY <1>2, <1>4, SyncInvKept
<1>6. SyncSpec => []SyncInv
  BY SyncInvInit, SyncInvKept, PTL DEF SyncSpec
<1> QED BY <1>5, <1>6, PTL DEF SyncSpec, SyncIsSafe
-----------------------------------------------------------------------------
(* Facts about numbers and about the elements of sequences.                  *)
LEMMA LeastOf ==
  ASSUME NEW S \in SUBSET Nat, S # {}
  PROVE  \E n \in S : \A m \in S : n <= m
<1> DEFINE R == OpToRel(<,Nat)
<1>1. IsWellFoundedOn(R, Nat)
  BY NatLessThanWellFounded
<1>2. PICK x \in S : \A y \in S : ~(<<y, x>> \in R)
  <2> HIDE DEF R
  <2> QED BY <1>1, WFMin
<1>3. \A y \in S : y < x => <<y, x>> \in R
  BY DEF OpToRel
<1>4. \A y \in S : x <= y
  <2> SUFFICES ASSUME NEW y \in S PROVE x <= y
    OBVIOUS
  <2>1. ~(y < x)
    BY <1>2, <1>3
  <2> QED BY <2>1
<1> QED BY <1>4

LEMMA ConcatSet ==
    ASSUME NEW S, NEW s \in Seq(S), NEW t \in Seq(S)
    PROVE  s \o t \in Seq(S) /\ ToSet(s \o t) = ToSet(s) \cup ToSet(t)
<1>1. /\ s \o t \in Seq(S) /\ Len(s \o t) = Len(s) + Len(t)
      /\ \A i \in 1..(Len(s) + Len(t)) :
            (s \o t)[i] = IF i <= Len(s) THEN s[i] ELSE t[i - Len(s)]
  BY ConcatProperties
<1>2. Len(s) \in Nat /\ Len(t) \in Nat /\ DOMAIN s = 1..Len(s) /\ DOMAIN t = 1..Len(t)
  OBVIOUS
<1>3. DOMAIN (s \o t) = 1..(Len(s) + Len(t))
  BY <1>1
<1>4. ToSet(s \o t) \subseteq ToSet(s) \cup ToSet(t)
  <2> SUFFICES ASSUME NEW i \in 1..(Len(s) + Len(t)) PROVE (s \o t)[i] \in ToSet(s) \cup ToSet(t)
    BY <1>3 DEF ToSet
  <2>1. CASE i <= Len(s)
    <3>1. i \in DOMAIN s /\ (s \o t)[i] = s[i]
      BY <1>1, <1>2, <2>1
    <3> QED BY <3>1 DEF ToSet
  <2>2. CASE ~(i <= Len(s))
    <3>1. i - Len(s) \in DOMAIN t /\ (s \o t)[i] = t[i - Len(s)]
      BY <1>1, <1>2, <2>2
    <3> QED BY <3>1 DEF ToSet
  <2> QED BY <2>1, <2>2
<1>5. ToSet(s) \subseteq ToSet(s \o t)
  <2> SUFFICES ASSUME NEW i \in 1..Len(s) PROVE s[i] \in ToSet(s \o t)
    BY <1>2 DEF ToSet
  <2>1. i \in 1..(Len(s) + Len(t)) /\ (s \o t)[i] = s[i]
    BY <1>1, <1>2
  <2> QED BY <1>3, <2>1 DEF ToSet
<1>6. ToSet(t) \subseteq ToSet(s \o t)
  <2> SUFFICES ASSUME NEW i \in 1..Len(t) PROVE t[i] \in ToSet(s \o t)
    BY <1>2 DEF ToSet
  <2>1. i + Len(s) \in 1..(Len(s) + Len(t)) /\ (s \o t)[i + Len(s)] = t[i]
    BY <1>1, <1>2
  <2> QED BY <1>3, <2>1 DEF ToSet
<1> QED BY <1>1, <1>4, <1>5, <1>6

LEMMA AppendSet ==
    ASSUME NEW S, NEW s \in Seq(S), NEW e \in S
    PROVE  Append(s, e) \in Seq(S) /\ ToSet(Append(s, e)) = ToSet(s) \cup {e}
<1> DEFINE n == Len(s)
           a == Append(s, e)
<1>1. /\ a \in Seq(S) /\ Len(a) = n + 1 /\ n \in Nat
      /\ \A i \in 1..n : a[i] = s[i]
      /\ a[n + 1] = e
  OBVIOUS
<1>2. DOMAIN a = 1..(n + 1) /\ DOMAIN s = 1..n
  BY <1>1
<1> HIDE DEF n, a
<1>3. \A i \in 1..(n + 1) : i \in 1..n \/ i = n + 1
  BY <1>1
<1>4. n + 1 \in 1..(n + 1) /\ \A i \in 1..n : i \in 1..(n + 1)
  BY <1>1
<1>5. ToSet(a) = ToSet(s) \cup {e}
  BY <1>1, <1>2, <1>3, <1>4 DEF ToSet
<1> QED BY <1>1, <1>5 DEF a

LEMMA TailSet ==
    ASSUME NEW S, NEW s \in Seq(S), s # <<>>
    PROVE  /\ Tail(s) \in Seq(S) /\ Head(s) \in S
           /\ ToSet(s) = {Head(s)} \cup ToSet(Tail(s))
<1> DEFINE t == Tail(s)
           n == Len(s)
<1>1. /\ t \in Seq(S) /\ n \in Nat /\ n >= 1 /\ Len(t) = n - 1 /\ Head(s) = s[1]
      /\ \A i \in 1..(n - 1) : t[i] = s[i + 1]
  OBVIOUS
<1>2. DOMAIN t = 1..(n - 1) /\ DOMAIN s = 1..n /\ s[1] \in S
  BY <1>1
<1> HIDE DEF n, t
<1>3. ToSet(s) \subseteq {Head(s)} \cup ToSet(t)
  <2> SUFFICES ASSUME NEW i \in 1..n PROVE s[i] \in {Head(s)} \cup ToSet(t)
    BY <1>2 DEF ToSet
  <2>1. CASE i = 1
    BY <1>1, <2>1
  <2>2. CASE i # 1
    <3>1. i - 1 \in 1..(n - 1) /\ t[i - 1] = s[i]
      BY <1>1, <2>2
    <3> QED BY <1>2, <3>1 DEF ToSet
  <2> QED BY <2>1, <2>2
<1>4. ASSUME NEW i \in 1..(n - 1) PROVE t[i] \in ToSet(s)
  <2>1. i + 1 \in 1..n /\ t[i] = s[i + 1]
    BY <1>1
  <2> QED BY <1>2, <2>1 DEF ToSet
<1>5. ToSet(t) \subseteq ToSet(s)
  BY <1>2, <1>4 DEF ToSet
<1>6. Head(s) \in ToSet(s) /\ 1 \in 1..n
  BY <1>1, <1>2 DEF ToSet
<1> QED BY <1>1, <1>2, <1>3, <1>5, <1>6 DEF t

(* The sum over the layers exists and is a number: by the least length, and   *)
(* then the least position, at which it would not be.                        *)
LEMMA UnpackedIsNat ==
    ASSUME NEW layers \in Seq(Digests)
    PROVE  Unpacked(layers) \in Nat
<1> DEFINE n == Len(layers)
           Step(g, i) == IF i = 0 THEN 0 ELSE g[i - 1] + Size[layers[i]]
           Upto(m) == \E g \in [0..m -> Nat] : \A i \in 0..m : g[i] = Step(g, i)
           h == CHOOSE g : g = [i \in 0..n |-> IF i = 0 THEN 0 ELSE g[i - 1] + Size[layers[i]]]
<1>1. n \in Nat /\ \A i \in 1..n : layers[i] \in Digests
  OBVIOUS
<1>2. \A i \in 1..n : Size[layers[i]] \in Nat
  BY <1>1, OciAssumption
<1>3. ASSUME NEW m \in 0..n, m # 0, Upto(m - 1) PROVE Upto(m)
  <2>1. PICK g \in [0..(m - 1) -> Nat] : \A i \in 0..(m - 1) : g[i] = Step(g, i)
    BY <1>3
  <2> DEFINE k == [i \in 0..m |-> IF i = m THEN g[m - 1] + Size[layers[m]] ELSE g[i]]
  <2>2. m - 1 \in 0..(m - 1) /\ m \in 1..n /\ \A i \in 0..m : i # m => i \in 0..(m - 1)
    BY <1>1, <1>3
  <2>3. g[m - 1] \in Nat /\ Size[layers[m]] \in Nat
    BY <1>2, <2>1, <2>2
  <2>4. k \in [0..m -> Nat]
    BY <2>1, <2>2, <2>3
  <2>5. ASSUME NEW i \in 0..m PROVE k[i] = Step(k, i)
    <3>1. CASE i = m
      <4>1. m - 1 \in 0..m /\ m - 1 # m
        BY <1>1, <2>2
      <4> QED BY <1>3, <3>1, <4>1
    <3>2. CASE i # m /\ i = 0
      BY <2>1, <2>2, <3>2
    <3>3. CASE i # m /\ i # 0
      <4>1. i - 1 \in 0..m /\ i - 1 # m /\ i \in 0..(m - 1)
        BY <1>1, <2>2, <3>3
      <4>2. g[i] = g[i - 1] + Size[layers[i]]
        BY <2>1, <3>3, <4>1
      <4> QED BY <3>3, <4>1, <4>2
    <3> QED BY <3>1, <3>2, <3>3
  <2> QED BY <2>4, <2>5
<1>4. Upto(0)
  <2>1. [i \in 0..0 |-> 0] \in [0..0 -> Nat] /\ \A i \in 0..0 : i = 0
    OBVIOUS
  <2> QED BY <2>1
<1> HIDE DEF Upto
<1>5. Upto(n)
  <2> SUFFICES ASSUME ~Upto(n) PROVE FALSE
    OBVIOUS
  <2> DEFINE Bad == {m \in 0..n : ~Upto(m)}
  <2>1. Bad \in SUBSET Nat /\ Bad # {}
    BY <1>1
  <2>2. PICK m \in Bad : \A k \in Bad : m <= k
    BY <2>1, LeastOf
  <2>3. m # 0 /\ m \in 0..n
    BY <1>4, <2>2
  <2>4. m - 1 \in 0..n /\ m - 1 < m
    BY <1>1, <2>3
  <2>5. Upto(m - 1)
    BY <2>2, <2>4
  <2> QED BY <1>3, <2>2, <2>3, <2>5
<1>6. PICK g \in [0..n -> Nat] : \A i \in 0..n : g[i] = Step(g, i)
  BY <1>5 DEF Upto
<1>7. g = [i \in 0..n |-> IF i = 0 THEN 0 ELSE g[i - 1] + Size[layers[i]]]
  BY <1>6
<1>8. h = [i \in 0..n |-> IF i = 0 THEN 0 ELSE h[i - 1] + Size[layers[i]]]
  BY <1>7
<1>9. Unpacked(layers) = h[n]
  BY DEF Unpacked
<1> HIDE DEF h, n
<1>10. \A i \in 0..n : h[i] \in Nat
  <2> SUFFICES ASSUME NEW j \in 0..n, h[j] \notin Nat PROVE FALSE
    OBVIOUS
  <2> DEFINE Bad == {i \in 0..n : h[i] \notin Nat}
  <2>1. Bad \in SUBSET Nat /\ Bad # {}
    <3>1. j \in Bad
      OBVIOUS
    <3>2. \A i \in Bad : i \in 0..n
      OBVIOUS
    <3> HIDE DEF Bad
    <3> QED BY <1>1, <3>1, <3>2
  <2>2. PICK i \in Bad : \A k \in Bad : i <= k
    BY <2>1, LeastOf
  <2>3. i # 0
    BY <1>8, <2>2
  <2>4. i - 1 \in 0..n /\ i - 1 < i /\ i \in 1..n
    BY <1>1, <2>2, <2>3
  <2>5. h[i - 1] \in Nat
    BY <2>2, <2>4
  <2>6. h[i] = h[i - 1] + Size[layers[i]]
    BY <1>8, <2>2, <2>3
  <2> QED BY <1>2, <2>2, <2>4, <2>5, <2>6 DEF n
<1>11. n \in 0..n
  BY <1>1
<1> QED BY <1>9, <1>10, <1>11
-----------------------------------------------------------------------------
(* The merge.  While an archive is walked, the digests opened so far (W) and  *)
(* those on the stack together contain the root and, for each opened index,   *)
(* its children; they are in every closed set that has the root; and the      *)
(* leaves are what W has besides indexes.  With the stack empty, W is what    *)
(* is reachable.                                                            *)
MergeDescriptors == [digest : Digests, depth : Nat]
DigestsOf(s) == {x.digest : x \in ToSet(s)}

Explores(found, root, S, W) ==
    /\ W \subseteq Digests
    /\ ToSet(root) \subseteq W \cup S
    /\ \A d \in W : Kind(d) = "index" => ToSet(Content[d].children) \subseteq W \cup S
    /\ ToSet(found) = {d \in W : Kind(d) # "index"}
    /\ \A T \in ClosedSets : ToSet(root) \subseteq T => W \cup S \subseteq T

Explored(p, S) == \E W : Explores(leaves[p], input[p].root, S, W)

MergeTyped ==
    /\ input \in [Platforms -> Archives]
    /\ leaves \in [Platforms -> Seq(Digests)]
    /\ stack \in Seq(MergeDescriptors)
    /\ walked \subseteq Platforms
    /\ expanded \in Nat /\ rewritten \subseteq Platforms
    /\ mergePc \in {"walk", "copy", "link", "done", "failed", "killed"}
    /\ output \in {"none", "theirs", "ours"}

WalkInv ==
    /\ walked # Platforms
    /\ Explored(Current, DigestsOf(stack))
    /\ \A q \in Platforms \ walked : q # Current => leaves[q] = <<>>

LeavesSound ==
    \A p \in Platforms : \A d \in ToSet(leaves[p]) :
       /\ {d} \cup ToSet(Content[d].layers) \subseteq input[p].blobs
       /\ Kind(d) = "image" => Rootfs(d) <= MaxRootfs

MergeInv ==
    /\ MergeTyped
    /\ LeavesSound
    /\ \A p \in walked : Complete(p) /\ Explored(p, {})
    /\ mergePc = "walk" => WalkInv
    /\ mergePc \in {"copy", "link", "done"} => walked = Platforms
    /\ mergePc \in {"link", "done"} => temporary = Blobs /\ tainted = {}
    /\ tainted \subseteq rewritten
    /\ output = "ours" => mergePc = "done"

LEMMA CurrentIs ==
    ASSUME NEW done \in SUBSET Platforms, done # Platforms
    PROVE  \E p \in Platforms \ done : \A q \in Platforms \ done : p <= q
<1>1. Platforms \ done \in SUBSET Nat /\ Platforms \ done # {}
  BY OciAssumption
<1> QED BY <1>1, LeastOf

LEMMA CurrentInPlatforms ==
    ASSUME walked \subseteq Platforms, walked # Platforms
    PROVE  Current \in Platforms \ walked
BY CurrentIs DEF Current

LEMMA DescriptorsAre ==
    ASSUME NEW children \in Seq(Digests), NEW depth \in Nat
    PROVE  /\ Descriptors(children, depth) \in Seq(MergeDescriptors)
           /\ DigestsOf(Descriptors(children, depth)) = ToSet(children)
<1> DEFINE s == Descriptors(children, depth)
<1>1. /\ DOMAIN children = 1..Len(children) /\ Len(children) \in Nat
      /\ \A i \in DOMAIN children : children[i] \in Digests
  OBVIOUS
<1>2. /\ DOMAIN s = DOMAIN children
      /\ \A i \in DOMAIN children : s[i] = [digest |-> children[i], depth |-> depth]
  BY DEF Descriptors
<1>3. \A i \in DOMAIN children : s[i] \in MergeDescriptors /\ s[i].digest = children[i]
  BY <1>1, <1>2 DEF MergeDescriptors
<1>4. s \in [1..Len(children) -> MergeDescriptors]
  BY <1>1, <1>3 DEF Descriptors, MergeDescriptors
<1>5. s \in Seq(MergeDescriptors)
  BY <1>1, <1>4
<1> HIDE DEF s
<1>6. DigestsOf(s) = ToSet(children)
  BY <1>2, <1>3 DEF DigestsOf, ToSet
<1> QED BY <1>5, <1>6 DEF s

LEMMA NothingFound == ToSet(<<>>) = {} /\ DigestsOf(<<>>) = {}
BY DEF ToSet, DigestsOf

(* A new walk: nothing is opened, the root is on the stack.                  *)
LEMMA ExplorationBegins ==
    ASSUME NEW root \in Seq(Digests)
    PROVE  Explores(<<>>, root, ToSet(root), {})
BY NothingFound DEF Explores

LEMMA MergeInvInit == MergeInit => MergeInv
<1> SUFFICES ASSUME MergeInit PROVE MergeInv
  OBVIOUS
<1>1. walked = {} /\ walked # Platforms /\ walked \subseteq Platforms
  BY OciAssumption DEF MergeInit
<1>2. Current \in Platforms
  BY <1>1, CurrentInPlatforms
<1>3. input[Current].root \in Seq(Digests)
  BY <1>2, OciAssumption DEF MergeInit
<1>4. stack \in Seq(MergeDescriptors) /\ DigestsOf(stack) = ToSet(input[Current].root)
  BY <1>3, DescriptorsAre DEF MergeInit
<1>5. \A p \in Platforms : leaves[p] = <<>> /\ leaves[p] \in Seq(Digests)
  BY DEF MergeInit
<1>6. MergeTyped
  BY <1>1, <1>4, <1>5 DEF MergeInit, MergeTyped
<1>7. Explored(Current, DigestsOf(stack))
  BY <1>2, <1>3, <1>4, <1>5, ExplorationBegins DEF Explored
<1>8. WalkInv
  BY <1>1, <1>5, <1>7 DEF WalkInv
<1>9. LeavesSound
  BY <1>5, NothingFound DEF LeavesSound
<1> QED BY <1>1, <1>6, <1>8, <1>9 DEF MergeInit, MergeInv

(* Steps that leave what was read alone and do not go back to the walk.       *)
LEMMA LaterKeepsMerge ==
    ASSUME MergeInv, UNCHANGED <<input, reading>>,
           mergePc' \in {"walk", "copy", "link", "done", "failed", "killed"},
           mergePc' = "walk" => mergePc = "walk",
           mergePc' \in {"copy", "link", "done"} => walked = Platforms,
           mergePc' \in {"link", "done"} => temporary' = Blobs /\ tainted' = {},
           tainted' \subseteq rewritten', rewritten' \subseteq Platforms,
           output' \in {"none", "theirs", "ours"},
           output' = "ours" => mergePc' = "done"
    PROVE  MergeInv'
<1>1. input' = input /\ walked' = walked /\ stack' = stack /\ leaves' = leaves /\ expanded' = expanded
  BY DEF reading
<1>2. MergeTyped' /\ LeavesSound'
  BY <1>1 DEF MergeInv, MergeTyped, LeavesSound
<1>3. \A p \in walked' : (Complete(p) /\ Explored(p, {}))'
  BY <1>1 DEF MergeInv, Complete, Explored
<1>4. Current' = Current
  BY <1>1 DEF Current
<1>5. mergePc' = "walk" => WalkInv'
  BY <1>1, <1>4 DEF MergeInv, WalkInv, Explored
<1>6. Blobs' = Blobs
  BY <1>1 DEF Blobs
<1> QED BY <1>1, <1>2, <1>3, <1>5, <1>6 DEF MergeInv

LEMMA FailKeepsMerge ==
    ASSUME MergeInv, FailMerge, output # "ours", UNCHANGED <<input, rewritten>>, tainted' \subseteq rewritten
    PROVE  MergeInv'
BY LaterKeepsMerge DEF FailMerge, MergeInv, MergeTyped

(* One descriptor is taken from the stack and opened.                       *)
LEMMA ExplorationGoesOn ==
    ASSUME NEW found \in Seq(Digests), NEW root, NEW W, NEW d \in Digests,
           NEW rest \in SUBSET Digests,
           Explores(found, root, {d} \cup rest, W)
    PROVE  /\ Kind(d) = "index" =>
                 Explores(found, root, ToSet(Content[d].children) \cup rest, W \cup {d})
           /\ Kind(d) # "index" => Explores(Append(found, d), root, rest, W \cup {d})
<1> DEFINE V == W \cup {d}
<1>1. \A T \in ClosedSets : ToSet(root) \subseteq T => V \cup rest \subseteq T
  BY DEF Explores
<1>2. ASSUME Kind(d) = "index"
      PROVE  Explores(found, root, ToSet(Content[d].children) \cup rest, V)
  <2>1. \A T \in ClosedSets : d \in T => ToSet(Content[d].children) \subseteq T
    BY <1>2 DEF ClosedSets
  <2>2. ToSet(found) = {e \in V : Kind(e) # "index"}
    BY <1>2 DEF Explores
  <2> QED BY <1>1, <2>1, <2>2 DEF Explores
<1>3. ASSUME Kind(d) # "index"
      PROVE  Explores(Append(found, d), root, rest, V)
  <2>1. ToSet(Append(found, d)) = ToSet(found) \cup {d}
    BY AppendSet
  <2>2. ToSet(Append(found, d)) = {e \in V : Kind(e) # "index"}
    BY <1>3, <2>1 DEF Explores
  <2> QED BY <1>1, <1>3, <2>2 DEF Explores
<1> QED BY <1>2, <1>3

LEMMA WalkKeepsMerge == ASSUME MergeInv, Walk PROVE MergeInv'
<1> DEFINE p == Current
           x == Head(stack)
           d == Head(stack).digest
           depth == Head(stack).depth
           t == Tail(stack)
           sound == /\ depth <= MaxDepth /\ visited < MaxVisited
                    /\ Present(p, {d})
                    /\ Kind(d) = "index" \/ LeafSound(p, d)
           open == IF Kind(d) = "index" THEN Children(d, depth) ELSE <<>>
<1>1. /\ mergePc = "walk" /\ stack # <<>>
      /\ tainted' = tainted \cup (rewritten \cap {p}) /\ UNCHANGED <<input, rewritten>>
  BY DEF Walk, Reads
<1>2. tainted' \subseteq rewritten'
  BY <1>1 DEF MergeInv
<1>3. /\ p \in Platforms \ walked /\ WalkInv /\ MergeTyped /\ walked \subseteq Platforms
      /\ output # "ours" /\ leaves[p] \in Seq(Digests)
  BY <1>1, CurrentInPlatforms DEF MergeInv, WalkInv, MergeTyped
<1>4. /\ t \in Seq(MergeDescriptors) /\ x \in MergeDescriptors
      /\ ToSet(stack) = {x} \cup ToSet(t)
  BY <1>1, <1>3, TailSet DEF MergeTyped
<1>5. d \in Digests /\ depth \in Nat /\ depth + 1 \in Nat
  BY <1>4 DEF MergeDescriptors
<1>6. /\ Content[d].children \in Seq(Digests) /\ Content[d].layers \in Seq(Digests)
      /\ Rootfs(d) \in Nat /\ MaxRootfs \in Nat
  BY <1>5, OciAssumption, UnpackedIsNat DEF Rootfs
<1>7. DigestsOf(t) \in SUBSET Digests /\ DigestsOf(stack) = {d} \cup DigestsOf(t)
  <2>1. \A y \in ToSet(t) : y \in MergeDescriptors
    BY <1>4 DEF ToSet
  <2>2. DigestsOf(t) \subseteq Digests
    BY <2>1 DEF DigestsOf, MergeDescriptors
  <2> QED BY <1>4, <2>2 DEF DigestsOf
<1>8. CASE FailMerge
  BY <1>1, <1>2, <1>3, <1>8, FailKeepsMerge
<1>9. CASE /\ sound
           /\ visited' = visited + 1
           /\ stack' = open \o t
           /\ leaves' = IF Kind(d) = "index" THEN leaves
                        ELSE [leaves EXCEPT ![p] = Append(@, d)]
           /\ expanded' = IF Kind(d) = "image" THEN expanded + Rootfs(d) ELSE expanded
           /\ UNCHANGED <<mergePc, walked, temporary, output>>
  <2>1. /\ open \in Seq(MergeDescriptors)
        /\ DigestsOf(open) = IF Kind(d) = "index" THEN ToSet(Content[d].children) ELSE {}
    <3>1. CASE Kind(d) = "index"
      BY <1>5, <1>6, <3>1, DescriptorsAre DEF Children
    <3>2. CASE Kind(d) # "index"
      BY <3>2, NothingFound
    <3> QED BY <3>1, <3>2
  <2> HIDE DEF open
  <2>2. stack' \in Seq(MergeDescriptors) /\ ToSet(stack') = ToSet(open) \cup ToSet(t)
    BY <1>4, <1>9, <2>1, ConcatSet
  <2>3. DigestsOf(stack') = DigestsOf(open) \cup DigestsOf(t)
    BY <2>2 DEF DigestsOf
  <2>4. /\ leaves' \in [Platforms -> Seq(Digests)]
        /\ \A q \in Platforms : q # p => leaves'[q] = leaves[q]
        /\ leaves'[p] = (IF Kind(d) = "index" THEN leaves[p] ELSE Append(leaves[p], d))
    BY <1>3, <1>5, <1>9 DEF MergeTyped
  <2>5. expanded' \in Nat
    BY <1>3, <1>6, <1>9 DEF MergeTyped
  <2>6. MergeTyped'
    BY <1>1, <1>3, <1>9, <2>2, <2>4, <2>5 DEF MergeTyped
  <2>7. Kind(d) # "index" =>
           /\ {d} \cup ToSet(Content[d].layers) \subseteq input[p].blobs
           /\ Kind(d) = "image" => Rootfs(d) <= MaxRootfs
    <3>1. Kind(d) # "index" => /\ {d} \subseteq input[p].blobs
                               /\ ToSet(Content[d].layers) \subseteq input[p].blobs
      BY <1>9 DEF Present, LeafSound, ImageSound, AttestationSound
    <3>2. Kind(d) = "image" => expanded + Rootfs(d) <= MaxRootfs
      BY <1>9 DEF LeafSound, ImageSound
    <3>3. Kind(d) = "image" => Rootfs(d) <= MaxRootfs
      BY <1>3, <1>6, <3>2 DEF MergeTyped
    <3> QED BY <3>1, <3>3
  <2>8. LeavesSound'
    <3> SUFFICES ASSUME NEW q \in Platforms, NEW e \in ToSet(leaves'[q])
                 PROVE  /\ {e} \cup ToSet(Content[e].layers) \subseteq input[q].blobs
                        /\ Kind(e) = "image" => Rootfs(e) <= MaxRootfs
      BY <1>1 DEF LeavesSound, Kind, Rootfs, Unpacked
    <3>1. CASE e \in ToSet(leaves[q])
      BY <3>1 DEF MergeInv, LeavesSound
    <3>2. CASE e \notin ToSet(leaves[q])
      <4>1. q = p /\ Kind(d) # "index" /\ leaves'[p] = Append(leaves[p], d)
        BY <2>4, <3>2
      <4>2. ToSet(leaves'[p]) = ToSet(leaves[p]) \cup {d}
        BY <1>3, <1>5, <4>1, AppendSet
      <4>3. e = d
        BY <3>2, <4>1, <4>2
      <4> QED BY <2>7, <4>1, <4>3
    <3> QED BY <3>1, <3>2
  <2>9. \A q \in walked' : (Complete(q) /\ Explored(q, {}))'
    <3> SUFFICES ASSUME NEW q \in walked PROVE (Complete(q) /\ Explored(q, {}))'
      BY <1>9
    <3>1. leaves'[q] = leaves[q] /\ input' = input
      BY <1>1, <1>3, <2>4
    <3>2. Complete(q) /\ Explored(q, {})
      BY DEF MergeInv
    <3> QED BY <3>1, <3>2 DEF Complete, Explored
  <2>10. Current' = Current
    BY <1>9 DEF Current
  <2>11. PICK W : Explores(leaves[p], input[p].root, {d} \cup DigestsOf(t), W)
    BY <1>3, <1>7 DEF WalkInv, Explored
  <2> DEFINE root == input[p].root
             rest == DigestsOf(t)
             found == leaves[p]
  <2>12. /\ found \in Seq(Digests) /\ d \in Digests /\ rest \in SUBSET Digests
         /\ Explores(found, root, {d} \cup rest, W)
    BY <1>3, <1>5, <1>7, <2>11
  <2>13. /\ leaves'[p] = (IF Kind(d) = "index" THEN found ELSE Append(found, d))
         /\ DigestsOf(stack') = (IF Kind(d) = "index" THEN ToSet(Content[d].children) \cup rest ELSE rest)
    BY <2>1, <2>3, <2>4
  <2> HIDE DEF root, rest, found, d
  <2>14. /\ Kind(d) = "index" =>
               Explores(found, root, ToSet(Content[d].children) \cup rest, W \cup {d})
         /\ Kind(d) # "index" => Explores(Append(found, d), root, rest, W \cup {d})
    BY <2>12, ExplorationGoesOn
  <2>15. Explores(leaves'[p], root, DigestsOf(stack'), W \cup {d})
    <3>1. CASE Kind(d) = "index"
      <4>1. leaves'[p] = found /\ DigestsOf(stack') = ToSet(Content[d].children) \cup rest
        BY <2>13, <3>1
      <4>2. Explores(found, root, ToSet(Content[d].children) \cup rest, W \cup {d})
        BY <2>14, <3>1
      <4> QED BY <4>1, <4>2, Zenon
    <3>2. CASE Kind(d) # "index"
      <4>1. leaves'[p] = Append(found, d) /\ DigestsOf(stack') = rest
        BY <2>13, <3>2
      <4>2. Explores(Append(found, d), root, rest, W \cup {d})
        BY <2>14, <3>2
      <4> QED BY <4>1, <4>2, Zenon
    <3> QED BY <3>1, <3>2
  <2>16. \E V : Explores(leaves'[p], input'[p].root, DigestsOf(stack'), V)
    BY <1>1, <2>15 DEF root
  <2>17. Explored(Current, DigestsOf(stack))'
    BY <2>10, <2>16 DEF Explored, Explores, DigestsOf
  <2>18. WalkInv'
    BY <1>3, <1>9, <2>4, <2>10, <2>17 DEF WalkInv
  <2> QED BY <1>1, <1>2, <1>3, <1>9, <2>6, <2>8, <2>9, <2>18 DEF MergeInv
<1> QED BY <1>8, <1>9 DEF Walk

LEMMA VerifyKeepsMerge == ASSUME MergeInv, VerifyArchive PROVE MergeInv'
<1> DEFINE p == Current
<1>1. /\ mergePc = "walk" /\ stack = <<>> /\ UNCHANGED <<input, rewritten, tainted>>
      /\ tainted' \subseteq rewritten
  BY DEF VerifyArchive, MergeInv
<1>2. /\ p \in Platforms \ walked /\ WalkInv /\ MergeTyped /\ walked \subseteq Platforms
      /\ output # "ours"
  BY <1>1, CurrentInPlatforms DEF MergeInv, WalkInv, MergeTyped
<1>3. CASE FailMerge
  BY <1>1, <1>2, <1>3, FailKeepsMerge
<1>4. CASE ~FailMerge
  <2>1. /\ Complete(p) /\ walked' = walked \cup {p}
        /\ mergePc' = (IF walked' = Platforms THEN "copy" ELSE "walk")
        /\ stack' = (IF walked' = Platforms THEN <<>> ELSE Descriptors(input[Current'].root, 0))
        /\ expanded' = 0 /\ UNCHANGED <<leaves, temporary, output>>
    BY <1>4 DEF VerifyArchive
  <2>2. Explored(p, {})
    BY <1>1, <1>2, NothingFound DEF WalkInv
  <2>3. \A q \in walked' : (Complete(q) /\ Explored(q, {}))'
    <3> SUFFICES ASSUME NEW q \in walked \cup {p} PROVE (Complete(q) /\ Explored(q, {}))'
      BY <2>1
    <3>1. Complete(q) /\ Explored(q, {})
      BY <2>1, <2>2 DEF MergeInv
    <3> QED BY <1>1, <2>1, <3>1 DEF Complete, Explored
  <2>4. LeavesSound'
    BY <1>1, <2>1 DEF MergeInv, LeavesSound, Kind, Rootfs, Unpacked
  <2>5. walked' \subseteq Platforms
    BY <1>2, <2>1
  <2>6. CASE walked' = Platforms
    <3>1. stack' = <<>> /\ stack' \in Seq(MergeDescriptors)
      BY <2>1, <2>6
    <3>2. MergeTyped'
      BY <1>1, <1>2, <2>1, <2>5, <3>1 DEF MergeTyped
    <3> QED BY <1>1, <1>2, <2>1, <2>3, <2>4, <2>6, <3>2 DEF MergeInv
  <2>7. CASE walked' # Platforms
    <3> DEFINE n == Current'
    <3>1. n \in Platforms \ walked'
      <4>1. \E r \in Platforms \ walked' : \A q \in Platforms \ walked' : r <= q
        BY <2>5, <2>7, CurrentIs
      <4> QED BY <4>1 DEF Current
    <3>2. input[n].root \in Seq(Digests)
      BY <1>2, <3>1, OciAssumption DEF MergeTyped
    <3>3. stack' = Descriptors(input[n].root, 0)
      BY <2>1, <2>7
    <3> HIDE DEF n
    <3>4. stack' \in Seq(MergeDescriptors) /\ DigestsOf(stack') = ToSet(input[n].root)
      BY <3>2, <3>3, DescriptorsAre
    <3>5. MergeTyped'
      BY <1>1, <1>2, <2>1, <2>5, <3>4 DEF MergeTyped
    <3>6. \A q \in Platforms \ walked' : leaves'[q] = <<>>
      BY <1>2, <2>1 DEF WalkInv
    <3>7. Explores(leaves'[n], input'[n].root, DigestsOf(stack'), {})
      BY <1>1, <3>1, <3>2, <3>4, <3>6, ExplorationBegins
    <3>8. \E V : Explores(leaves'[n], input'[n].root, DigestsOf(stack'), V)
      BY <3>7
    <3>9. Explored(Current, DigestsOf(stack))'
      BY <3>8 DEF Explored, Explores, DigestsOf, n
    <3>10. WalkInv'
      BY <2>7, <3>6, <3>9 DEF WalkInv
    <3> QED BY <1>1, <1>2, <2>1, <2>3, <2>4, <2>7, <3>5, <3>10 DEF MergeInv
  <2> QED BY <2>6, <2>7
<1> QED BY <1>3, <1>4

LEMMA CopyKeepsMerge == ASSUME MergeInv, Copy PROVE MergeInv'
<1>1. PICK b \in Blobs : /\ Reads(From(b))
                         /\ \/ temporary' = temporary \cup {b} /\ UNCHANGED <<mergePc, reading, output>>
                            \/ FailMerge
  BY DEF Copy
<1>2. mergePc = "copy" /\ UNCHANGED <<input, rewritten>> /\ tainted' \subseteq rewritten
  BY <1>1 DEF Copy, Reads, MergeInv
<1>3. CASE FailMerge
  BY <1>2, <1>3, FailKeepsMerge DEF MergeInv
<1>4. CASE UNCHANGED <<mergePc, reading, output>>
  BY <1>2, <1>4, LaterKeepsMerge DEF MergeInv, MergeTyped
<1> QED BY <1>1, <1>3, <1>4

LEMMA RecheckKeepsMerge == ASSUME MergeInv, RecheckInputs PROVE MergeInv'
<1>1. /\ mergePc = "copy" /\ temporary = Blobs /\ UNCHANGED <<input, rewritten, tainted>>
      /\ tainted' \subseteq rewritten
  BY DEF RecheckInputs, MergeInv
<1>2. CASE Unchanged(Platforms)
  <2>1. mergePc' = "link" /\ UNCHANGED <<reading, temporary, output>>
    BY <1>2 DEF RecheckInputs
  <2>2. tainted' = {}
    BY <1>1, <1>2 DEF Unchanged, MergeInv, MergeTyped
  <2> QED BY <1>1, <2>1, <2>2, LaterKeepsMerge DEF MergeInv, MergeTyped
<1>3. CASE ~Unchanged(Platforms)
  BY <1>1, <1>3, FailKeepsMerge DEF RecheckInputs, MergeInv
<1> QED BY <1>2, <1>3

LEMMA LinkKeepsMerge == ASSUME MergeInv, Link PROVE MergeInv'
<1>1. /\ mergePc = "link" /\ UNCHANGED <<input, rewritten, tainted>> /\ tainted' \subseteq rewritten
  BY DEF Link, MergeInv
<1>2. CASE output = "none"
  <2>1. mergePc' = "done" /\ output' = "ours" /\ UNCHANGED <<reading, temporary>>
    BY <1>2 DEF Link
  <2> QED BY <1>1, <2>1, LaterKeepsMerge DEF MergeInv, MergeTyped
<1>3. CASE output # "none"
  BY <1>1, <1>3, FailKeepsMerge DEF Link, MergeInv
<1> QED BY <1>2, <1>3

LEMMA OthersKeepMerge ==
    ASSUME MergeInv, (\E p \in Platforms : RewriteInput(p)) \/ Occupy \/ KillMerge
    PROVE  MergeInv'
<1>1. CASE \E p \in Platforms : RewriteInput(p)
  <2>1. UNCHANGED <<input, tainted, mergePc, reading, temporary, output>> /\ rewritten \subseteq rewritten'
        /\ Running /\ rewritten' \subseteq Platforms
    BY <1>1 DEF RewriteInput, MergeInv, MergeTyped
  <2> QED BY <2>1, LaterKeepsMerge DEF MergeInv, MergeTyped, Running
<1>2. CASE Occupy
  BY <1>2, LaterKeepsMerge DEF MergeInv, MergeTyped, Occupy, Running
<1>3. CASE KillMerge
  BY <1>3, LaterKeepsMerge DEF MergeInv, MergeTyped, KillMerge, Running
<1> QED BY <1>1, <1>2, <1>3

LEMMA MergeInvKept == MergeInv /\ [MergeNext]_mergeVars => MergeInv'
<1> SUFFICES ASSUME MergeInv, [MergeNext]_mergeVars PROVE MergeInv'
  OBVIOUS
<1>1. CASE UNCHANGED mergeVars
  BY <1>1, LaterKeepsMerge DEF mergeVars, MergeInv, MergeTyped
<1> QED BY <1>1, WalkKeepsMerge, VerifyKeepsMerge, CopyKeepsMerge, RecheckKeepsMerge,
           LinkKeepsMerge, OthersKeepMerge DEF MergeNext

(* Whatever the inputs contain (merge_oci_archives.py:126-529): a merged     *)
(* archive names exactly the manifests reachable in each input through        *)
(* indexes of any depth, one image for each platform, within the limit, with *)
(* attestations about it only, and has every blob they need.                 *)
THEOREM OutputAlwaysClosed == MergeSpec => []OutputIsClosed
<1>1. MergeInv => OutputIsClosed
  <2> SUFFICES ASSUME MergeInv, output = "ours", NEW p \in Platforms
               PROVE  LET manifests == ToSet(leaves[p])
                          images == {d \in manifests : Kind(d) = "image"}
                      IN /\ manifests = Reachable(p)
                         /\ Cardinality(images) = 1
                         /\ \A d \in images : Rootfs(d) <= MaxRootfs
                         /\ \A d \in manifests :
                               /\ {d} \cup ToSet(Content[d].layers) \subseteq temporary
                               /\ d \notin images => Content[d].subject \in images
    BY DEF OutputIsClosed
  <2> DEFINE manifests == ToSet(leaves[p])
             images == {d \in manifests : Kind(d) = "image"}
  <2>1. p \in walked /\ temporary = Blobs
    BY DEF MergeInv
  <2>2. Complete(p) /\ Explored(p, {})
    BY <2>1 DEF MergeInv
  <2>3. PICK W : Explores(leaves[p], input[p].root, {}, W)
    BY <2>2 DEF Explored
  <2>4. W \in ClosedSets /\ ToSet(input[p].root) \subseteq W
    BY <2>3 DEF Explores, ClosedSets
  <2>5. manifests = Reachable(p)
    BY <2>3, <2>4 DEF Explores, Reachable
  <2>6. PICK image \in manifests :
           images = {image} /\ \A d \in manifests \ {image} : Content[d].subject = image
    BY <2>2 DEF Complete
  <2>7. Cardinality(images) = 1
    BY <2>6, FS_Singleton
  <2>8. \A d \in images : Rootfs(d) <= MaxRootfs
    BY DEF MergeInv, LeavesSound
  <2>9. input[p].blobs \subseteq Blobs
    BY DEF Blobs
  <2>10. \A d \in manifests : {d} \cup ToSet(Content[d].layers) \subseteq temporary
    BY <2>1, <2>9 DEF MergeInv, LeavesSound
  <2>11. \A d \in manifests : d \notin images => Content[d].subject \in images
    BY <2>6
  <2> QED BY <2>5, <2>7, <2>8, <2>10, <2>11
<1>2. MergeSpec => []MergeInv
  BY MergeInvInit, MergeInvKept, PTL DEF MergeSpec
<1> QED BY <1>1, <1>2, PTL

(* Whenever inputs are rewritten and outputs created (merge_oci_archives.py:  *)
(* 530-541, 602-678): nothing read from a rewritten input is published, and  *)
(* an output another process created is never replaced.                      *)
THEOREM OutputAlwaysVerified == MergeSpec => OutputIsVerified
<1>1. ASSUME MergeInv, MergeNext, MergeInv'
      PROVE  /\ output' = "ours" => tainted' = {}
             /\ output = "theirs" => output' = "theirs"
  <2>1. output' = "ours" => tainted' = {}
    BY <1>1 DEF MergeInv
  <2>2. output = "theirs" => output' = "theirs"
    BY <1>1 DEF MergeNext, RewriteInput, Occupy, KillMerge, Walk, VerifyArchive, Copy,
       RecheckInputs, Link, FailMerge
  <2> QED BY <2>1, <2>2
<1>2. MergeInv /\ [MergeNext]_mergeVars =>
         [/\ output' = "ours" => tainted' = {}
          /\ output = "theirs" => output' = "theirs"]_mergeVars
  BY <1>1, MergeInvKept
<1>3. MergeSpec => []MergeInv
  BY MergeInvInit, MergeInvKept, PTL DEF MergeSpec
<1> QED BY <1>2, <1>3, PTL DEF MergeSpec, OutputIsVerified
-----------------------------------------------------------------------------
(* The version projections, for every width of their components and any     *)
(* number of runs, attempts and plans.                                      *)

LEMMA DivMod ==
  ASSUME NEW x \in Nat, NEW k \in Nat \ {0}
  PROVE  /\ x \div k \in Nat /\ x % k \in Nat /\ x % k < k
         /\ x = k * (x \div k) + (x % k)
OBVIOUS

LEMMA DivIs ==
  ASSUME NEW k \in Nat \ {0}, NEW q \in Nat, NEW s \in Nat, s < k
  PROVE  (k * q + s) \div k = q
OBVIOUS

(* The greater quotient decides, whatever the remainders.                   *)
LEMMA Scaled ==
  ASSUME NEW k \in Nat \ {0}, NEW q \in Nat, NEW r \in Nat, q < r,
         NEW s \in Nat, s < k, NEW t \in Nat
  PROVE  q * k + s < r * k + t
<1>1. (q + 1) * k <= r * k
  OBVIOUS
<1> QED BY <1>1

LEMMA DivMonotone ==
  ASSUME NEW k \in Nat \ {0}, NEW x \in Nat, NEW y \in Nat, x <= y
  PROVE  x \div k <= y \div k
<1> DEFINE q == x \div k
           r == y \div k
<1>1. /\ q \in Nat /\ x % k \in Nat /\ x = k * q + (x % k)
      /\ r \in Nat /\ y % k \in Nat /\ y = k * r + (y % k) /\ y % k < k
  BY DivMod
<1> HIDE DEF q, r
<1>2. CASE r < q
  BY <1>1, <1>2, Scaled
<1> QED BY <1>1, <1>2 DEF q, r

(* Dividing twice is dividing by the square: the carry from the middle      *)
(* component of an Apple build goes to the upper one.                       *)
LEMMA DivTwice ==
  ASSUME NEW k \in Nat \ {0}, NEW x \in Nat
  PROVE  (x \div k) \div k = x \div (k * k)
<1> DEFINE q == x \div k
           s == x % k
           u == q \div k
           t == q % k
<1>1. q \in Nat /\ s \in Nat /\ s < k /\ x = k * q + s
  BY DivMod
<1>2. u \in Nat /\ t \in Nat /\ t < k /\ q = k * u + t
  BY <1>1, DivMod
<1> HIDE DEF q, s, u, t
<1>3. k * k \in Nat \ {0}
  OBVIOUS
<1>4. k * t + s \in Nat /\ k * t + s < k * k
  <2>1. (t + 1) * k <= k * k
    BY <1>2
  <2> QED BY <1>1, <1>2, <2>1
<1>5. x = (k * k) * u + (k * t + s)
  BY <1>1, <1>2
<1> DEFINE d == k * k
           w == k * t + s
<1> HIDE DEF d, w
<1>6. (d * u + w) \div d = u
  BY <1>2, <1>3, <1>4, DivIs DEF d, w
<1> QED BY <1>5, <1>6 DEF q, u, d, w

LEMMA AppleIs ==
  ASSUME NEW n \in Nat, NEW v \in Apple(n)
  PROVE  /\ n > 0 /\ n <= AppleMajor * Centi * Centi /\ n - 1 \in Nat
         /\ v = <<(n - 1) \div (Centi * Centi) + 1, ((n - 1) \div Centi) % Centi, (n - 1) % Centi>>
BY DEF Apple

(* Within the components Apple accepts.                                     *)
LEMMA AppleFits ==
  ASSUME NEW n \in Nat, NEW v \in Apple(n)
  PROVE  v[1] \in 1..AppleMajor /\ v[2] < Centi /\ v[3] < Centi
<1> DEFINE x == n - 1
           d == Centi * Centi
           q == x \div d
<1>1. Centi \in Nat \ {0} /\ AppleMajor \in Nat \ {0}
  BY ProjectionAssumption
<1>2. x \in Nat /\ x < AppleMajor * Centi * Centi /\ v = <<q + 1, (x \div Centi) % Centi, x % Centi>>
  BY <1>1, AppleIs
<1>3. d \in Nat \ {0}
  BY <1>1
<1> HIDE DEF x
<1>4. x % Centi < Centi /\ (x \div Centi) % Centi < Centi
  BY <1>1, <1>2, DivMod
<1>5. x < AppleMajor * d
  BY <1>1, <1>2
<1> HIDE DEF d
<1>6. q \in Nat /\ x % d \in Nat /\ x = d * q + (x % d)
  BY <1>2, <1>3, DivMod
<1> HIDE DEF q
<1>7. q < AppleMajor
  <2>1. CASE AppleMajor < q
    BY <1>1, <1>3, <1>5, <1>6, <2>1, Scaled
  <2>2. CASE AppleMajor = q
    BY <1>1, <1>3, <1>5, <1>6, <2>2
  <2> QED BY <1>1, <1>6, <2>1, <2>2
<1> QED BY <1>1, <1>2, <1>4, <1>6, <1>7

(* A greater build number has a greater Apple build.                        *)
LEMMA AppleAscends ==
  ASSUME NEW m \in Nat, NEW n \in Nat, m < n, NEW v \in Apple(m), NEW w \in Apple(n)
  PROVE  Before(v, w)
<1> DEFINE x == m - 1
           y == n - 1
           p == x \div Centi
           q == y \div Centi
<1>1. Centi \in Nat \ {0} /\ Centi * Centi \in Nat \ {0}
  BY ProjectionAssumption
<1>2. /\ x \in Nat /\ v = <<x \div (Centi * Centi) + 1, p % Centi, x % Centi>>
      /\ y \in Nat /\ w = <<y \div (Centi * Centi) + 1, q % Centi, y % Centi>>
      /\ x < y
  BY AppleIs
<1> HIDE DEF x, y
<1>3. /\ p \in Nat /\ x % Centi \in Nat /\ x = Centi * p + (x % Centi)
      /\ q \in Nat /\ y % Centi \in Nat /\ y = Centi * q + (y % Centi)
      /\ p <= q
  <2>1. p \in Nat /\ x % Centi \in Nat /\ x = Centi * p + (x % Centi)
    BY <1>1, <1>2, DivMod
  <2>2. q \in Nat /\ y % Centi \in Nat /\ y = Centi * q + (y % Centi)
    BY <1>1, <1>2, DivMod
  <2>3. x <= y
    BY <1>2
  <2>4. p <= q
    BY <1>1, <1>2, <2>3, DivMonotone
  <2> QED BY <2>1, <2>2, <2>4
<1>4. x \div (Centi * Centi) = p \div Centi /\ y \div (Centi * Centi) = q \div Centi
  BY <1>1, <1>2, DivTwice
<1> HIDE DEF p, q
<1> DEFINE a == p \div Centi
           b == q \div Centi
<1>5. /\ a \in Nat /\ p % Centi \in Nat /\ p = Centi * a + (p % Centi)
      /\ b \in Nat /\ q % Centi \in Nat /\ q = Centi * b + (q % Centi)
      /\ a <= b
  BY <1>1, <1>3, DivMod, DivMonotone
<1>6. v = <<a + 1, p % Centi, x % Centi>> /\ w = <<b + 1, q % Centi, y % Centi>>
  BY <1>2, <1>4
<1> HIDE DEF a, b
<1>7. DOMAIN v = 1..3
  BY <1>6
<1>8. CASE a < b
  <2>1. v[1] < w[1]
    BY <1>5, <1>6, <1>8
  <2> QED BY <1>7, <2>1 DEF Before
<1>9. CASE a = b /\ p < q
  <2>1. v[1] = w[1]
    BY <1>6, <1>9
  <2>2. v[2] < w[2]
    <3>1. p % Centi < q % Centi
      BY <1>1, <1>3, <1>5, <1>9
    <3> QED BY <1>6, <3>1
  <2>3. \A j \in 1..(2 - 1) : v[j] = w[j]
    BY <2>1
  <2> QED BY <1>7, <2>2, <2>3 DEF Before
<1>10. CASE a = b /\ p = q
  <2>1. v[1] = w[1] /\ v[2] = w[2]
    BY <1>6, <1>10
  <2>2. v[3] < w[3]
    <3>1. x % Centi < y % Centi
      BY <1>1, <1>2, <1>3, <1>10
    <3> QED BY <1>6, <3>1
  <2>3. \A j \in 1..(3 - 1) : v[j] = w[j]
    BY <2>1
  <2> QED BY <1>7, <2>2, <2>3 DEF Before
<1> QED BY <1>3, <1>5, <1>8, <1>9, <1>10

(* Runs and attempts in order give greater dev numbers: no attempt of one    *)
(* run reaches into the numbers of the next.                                *)
LEMMA NightlyAscends ==
  ASSUME NEW q \in Nat, NEW r \in Nat, NEW a \in Nat, NEW b \in Nat,
         q < r \/ (q = r /\ a < b), NEW m \in Nightly(q, a), NEW n \in Nightly(r, b)
  PROVE  m \in Nat /\ n \in Nat /\ m < n
<1>1. AttemptSpan \in Nat \ {0}
  BY ProjectionAssumption
<1>2. m = q * AttemptSpan + a /\ a < AttemptSpan /\ n = r * AttemptSpan + b
  BY DEF Nightly
<1>3. CASE q < r
  BY <1>1, <1>2, <1>3, Scaled
<1>4. CASE q = r /\ a < b
  BY <1>1, <1>2, <1>4
<1> QED BY <1>3, <1>4

(* Pep440 with the promotion as a parameter.                                *)
PepUnder(p, c, number) == IF c = "stable" \/ (c = "rc" /\ p = "promote-bytes")
                          THEN {<<Rank["stable"], 0>>}
                          ELSE {<<Rank[c], n>> : n \in number}

CandidatePep(p, c, n) == PepUnder(p, c, {n})

(* What a plan records.                                                     *)
PlanRecords == [channel : Channels, by : (1..MaxRun) \X Nat,
                pep : SUBSET (Nat \X Nat), apple : SUBSET (Nat \X Nat \X Nat)]

ProjectionTypeOK ==
    /\ build \in Nat /\ promotion \in {"final-build", "promote-bytes"}
    /\ attempts \in [1..MaxRun -> Nat] /\ sequence \in [{"beta", "rc"} -> Nat]
    /\ plans \in Seq(PlanRecords)

(* The Apple builds of the plans belong to increasing build numbers.        *)
BuildsNumbered ==
    \A j \in DOMAIN plans : \E n \in 1..build :
       /\ plans[j].apple = Apple(n)
       /\ \A i \in 1..(j - 1) : \E m \in 1..(n - 1) : plans[i].apple = Apple(m)

(* A nightly's PEP 440 version is that of its run and attempt.              *)
NightliesNumbered ==
    \A i \in DOMAIN plans : plans[i].channel = "nightly" =>
       plans[i].pep = PepUnder(promotion, "nightly", Nightly(plans[i].by[1], plans[i].by[2]))

(* The candidates of a channel have increasing sequence numbers.            *)
CandidatesNumbered ==
    \A j \in DOMAIN plans, c \in {"beta", "rc"} : plans[j].channel = c =>
       \E n \in 1..sequence[c] :
          /\ plans[j].pep = CandidatePep(promotion, c, n)
          /\ \A i \in 1..(j - 1) : plans[i].channel = c =>
                \E m \in 1..(n - 1) : plans[i].pep = CandidatePep(promotion, c, m)

(* A base version is released once, and nothing is reserved for it then.     *)
StableIsLast ==
    \A i \in DOMAIN plans : plans[i].channel = "stable" => i = Len(plans)

ProjectionInv ==
    /\ ProjectionTypeOK
    /\ BuildsNumbered /\ NightliesNumbered /\ CandidatesNumbered /\ StableIsLast

LEMMA ProjectionInvInit == ProjectionInit => ProjectionInv
<1> SUFFICES ASSUME ProjectionInit PROVE ProjectionInv
  OBVIOUS
<1>1. DOMAIN plans = {}
  BY DEF ProjectionInit
<1>2. ProjectionTypeOK
  BY DEF ProjectionInit, ProjectionTypeOK
<1> QED
  BY <1>1, <1>2 DEF ProjectionInv, BuildsNumbered, NightliesNumbered, CandidatesNumbered, StableIsLast

LEMMA PepIsTyped ==
  ASSUME NEW c \in Channels, NEW number \in SUBSET Nat
  PROVE  Pep440(c, number) \in SUBSET (Nat \X Nat)
<1>1. Rank[c] \in Nat /\ Rank["stable"] \in Nat
  BY DEF Rank, Channels
<1> QED BY <1>1 DEF Pep440

LEMMA AppleIsTyped ==
  ASSUME NEW n \in Nat
  PROVE  Apple(n) \in SUBSET (Nat \X Nat \X Nat)
<1> SUFFICES ASSUME NEW v \in Apple(n) PROVE v \in Nat \X Nat \X Nat
  OBVIOUS
<1>1. Centi \in Nat \ {0} /\ Centi * Centi \in Nat \ {0}
  BY ProjectionAssumption
<1> DEFINE x == n - 1
<1>2. x \in Nat /\ v = <<x \div (Centi * Centi) + 1, (x \div Centi) % Centi, x % Centi>>
  BY AppleIs
<1> HIDE DEF x
<1>3. x \div Centi \in Nat /\ x % Centi \in Nat
  BY <1>1, <1>2, DivMod
<1>4. x \div (Centi * Centi) \in Nat
  BY <1>1, <1>2, DivMod
<1>5. (x \div Centi) % Centi \in Nat
  BY <1>1, <1>3, DivMod
<1> QED BY <1>2, <1>3, <1>4, <1>5

LEMMA NightlyIsTyped ==
  ASSUME NEW r \in Nat, NEW a \in Nat
  PROVE  Nightly(r, a) \in SUBSET Nat
<1>1. r * AttemptSpan + a \in Nat
  BY ProjectionAssumption
<1> QED BY <1>1 DEF Nightly

(* Steps that reserve nothing.                                              *)
LEMMA NothingReserved ==
  ASSUME ProjectionInv, UNCHANGED <<promotion, plans, sequence>>,
         attempts' \in [1..MaxRun -> Nat], build' \in Nat, build <= build'
  PROVE  ProjectionInv'
<1>1. ProjectionTypeOK'
  BY DEF ProjectionInv, ProjectionTypeOK
<1>2. BuildsNumbered'
  <2>1. build \in Nat /\ \A n \in 1..build : n \in 1..build'
    BY DEF ProjectionInv, ProjectionTypeOK
  <2> QED BY <2>1 DEF ProjectionInv, BuildsNumbered
<1>3. NightliesNumbered'
  BY DEF ProjectionInv, NightliesNumbered
<1>4. CandidatesNumbered'
  BY DEF ProjectionInv, CandidatesNumbered
<1>5. StableIsLast'
  BY DEF ProjectionInv, StableIsLast
<1> QED BY <1>1, <1>2, <1>3, <1>4, <1>5 DEF ProjectionInv

LEMMA ReserveKeepsProjection ==
  ASSUME ProjectionInv, NEW r \in 1..MaxRun, NEW c \in Channels, Reserve(c, r)
  PROVE  ProjectionInv'
<1> USE DEF ProjectionInv
<1> DEFINE next == IF c \in {"beta", "rc"} THEN sequence[c] + 1 ELSE 0
           number == IF c = "nightly" THEN Nightly(r, attempts[r] + 1) ELSE {next}
           plan == [channel |-> c, by |-> <<r, attempts[r] + 1>>,
                    pep |-> Pep440(c, number), apple |-> Apple(build + 1)]
           l == Len(plans)
<1>1. /\ plans' = Append(plans, plan)
      /\ sequence' = [d \in DOMAIN sequence |-> IF d = c THEN next ELSE sequence[d]]
      /\ build' = build + 1 /\ promotion' = promotion
      /\ attempts' = [attempts EXCEPT ![r] = @ + 1]
      /\ "stable" \notin {plans[i].channel : i \in DOMAIN plans}
  BY DEF Reserve
<1>2. /\ build \in Nat /\ promotion \in {"final-build", "promote-bytes"}
      /\ attempts \in [1..MaxRun -> Nat] /\ sequence \in [{"beta", "rc"} -> Nat]
      /\ plans \in Seq(PlanRecords)
  BY DEF ProjectionTypeOK
<1>3. next \in Nat /\ number \in SUBSET Nat /\ attempts[r] + 1 \in Nat
  <2>1. next \in Nat /\ attempts[r] + 1 \in Nat
    BY <1>2
  <2>2. r \in Nat
    BY ProjectionAssumption
  <2> QED BY <2>1, <2>2, NightlyIsTyped
<1>4. plan \in PlanRecords
  <2>1. Pep440(c, number) \in SUBSET (Nat \X Nat)
    BY <1>3, PepIsTyped
  <2>2. Apple(build + 1) \in SUBSET (Nat \X Nat \X Nat)
    BY <1>2, AppleIsTyped
  <2> QED BY <1>3, <2>1, <2>2 DEF PlanRecords
<1>5. /\ plan.channel = c /\ plan.by = <<r, attempts[r] + 1>>
      /\ plan.pep = PepUnder(promotion, c, number) /\ plan.apple = Apple(build + 1)
  BY DEF Pep440, PepUnder
<1> HIDE DEF plan, next, number
<1>6. /\ plans' \in Seq(PlanRecords) /\ l \in Nat /\ DOMAIN plans' = 1..(l + 1) /\ DOMAIN plans = 1..l
      /\ Len(plans') = l + 1
      /\ plans'[l + 1] = plan /\ \A i \in 1..l : plans'[i] = plans[i]
  BY <1>1, <1>2, <1>4
<1>7. sequence' \in [{"beta", "rc"} -> Nat]
  BY <1>1, <1>2, <1>3
<1>8. ProjectionTypeOK'
  <2>1. attempts' \in [1..MaxRun -> Nat]
    BY <1>1, <1>2
  <2>2. build' \in Nat
    BY <1>1, <1>2
  <2> QED BY <1>1, <1>2, <1>6, <1>7, <2>1, <2>2 DEF ProjectionTypeOK
<1>9. BuildsNumbered'
  <2> SUFFICES ASSUME NEW j \in DOMAIN plans'
               PROVE  \E n \in 1..build' :
                         /\ plans'[j].apple = Apple(n)
                         /\ \A i \in 1..(j - 1) : \E m \in 1..(n - 1) : plans'[i].apple = Apple(m)
    BY DEF BuildsNumbered
  <2>1. \A k \in 1..l : \E n \in 1..build :
           /\ plans[k].apple = Apple(n)
           /\ \A i \in 1..(k - 1) : \E m \in 1..(n - 1) : plans[i].apple = Apple(m)
    BY <1>6 DEF BuildsNumbered
  <2>2. CASE j = l + 1
    <3>1. \A i \in 1..l : \E m \in 1..build : plans'[i].apple = Apple(m)
      BY <1>6, <2>1
    <3>2. build + 1 \in 1..build' /\ (build + 1) - 1 = build /\ j - 1 = l
      BY <1>1, <1>2, <1>6, <2>2
    <3> QED BY <1>5, <1>6, <2>2, <3>1, <3>2
  <2>3. CASE j \in 1..l
    <3>1. PICK n \in 1..build : /\ plans[j].apple = Apple(n)
                                /\ \A i \in 1..(j - 1) : \E m \in 1..(n - 1) : plans[i].apple = Apple(m)
      BY <2>1, <2>3
    <3>2. \A i \in 1..(j - 1) : plans'[i] = plans[i]
      BY <1>6, <2>3
    <3>3. n \in 1..build' /\ plans'[j] = plans[j]
      BY <1>1, <1>2, <1>6, <2>3
    <3> QED BY <3>1, <3>2, <3>3
  <2> QED BY <1>6, <2>2, <2>3
<1>10. NightliesNumbered'
  <2> SUFFICES ASSUME NEW i \in 1..(l + 1), plans'[i].channel = "nightly"
               PROVE  plans'[i].pep = PepUnder(promotion, "nightly", Nightly(plans'[i].by[1], plans'[i].by[2]))
    BY <1>1, <1>6 DEF NightliesNumbered
  <2>1. CASE i = l + 1
    BY <1>5, <1>6, <2>1 DEF number
  <2>2. CASE i \in 1..l
    BY <1>6, <2>2 DEF NightliesNumbered
  <2> QED BY <1>6, <2>1, <2>2
<1>11. CandidatesNumbered'
  <2> SUFFICES ASSUME NEW j \in DOMAIN plans', NEW d \in {"beta", "rc"}, plans'[j].channel = d
               PROVE  \E n \in 1..sequence'[d] :
                         /\ plans'[j].pep = CandidatePep(promotion', d, n)
                         /\ \A i \in 1..(j - 1) : plans'[i].channel = d =>
                               \E m \in 1..(n - 1) : plans'[i].pep = CandidatePep(promotion', d, m)
    BY DEF CandidatesNumbered
  <2>1. \A k \in 1..l : plans[k].channel = d =>
           \E n \in 1..sequence[d] :
              /\ plans[k].pep = CandidatePep(promotion, d, n)
              /\ \A i \in 1..(k - 1) : plans[i].channel = d =>
                    \E m \in 1..(n - 1) : plans[i].pep = CandidatePep(promotion, d, m)
    <3>1. DOMAIN plans = 1..l /\ CandidatesNumbered
      BY <1>6
    <3> SUFFICES ASSUME NEW k \in DOMAIN plans, plans[k].channel = d
                 PROVE  \E n \in 1..sequence[d] :
                           /\ plans[k].pep = CandidatePep(promotion, d, n)
                           /\ \A i \in 1..(k - 1) : plans[i].channel = d =>
                                 \E m \in 1..(n - 1) : plans[i].pep = CandidatePep(promotion, d, m)
      BY <3>1
    <3> QED BY <3>1 DEF CandidatesNumbered
  <2>2. CASE j = l + 1
    <3>1. c = d
      BY <1>5, <1>6, <2>2
    <3>2. number = {next} /\ next = sequence[d] + 1 /\ sequence'[d] = next
      BY <1>1, <1>2, <3>1 DEF number, next
    <3>3. \A i \in 1..l : plans[i].channel = d =>
             \E m \in 1..sequence[d] : plans[i].pep = CandidatePep(promotion, d, m)
      BY <2>1
    <3>4. sequence[d] \in Nat /\ next \in 1..sequence'[d] /\ next - 1 = sequence[d] /\ j - 1 = l
      BY <1>2, <1>6, <2>2, <3>1, <3>2
    <3>5. plans'[j].pep = CandidatePep(promotion', d, next)
      BY <1>1, <1>5, <1>6, <2>2, <3>1, <3>2 DEF CandidatePep
    <3>6. \A i \in 1..(j - 1) : plans'[i].channel = d =>
             \E m \in 1..(next - 1) : plans'[i].pep = CandidatePep(promotion', d, m)
      BY <1>1, <1>6, <3>3, <3>4
    <3> QED BY <3>4, <3>5, <3>6
  <2>3. CASE j \in 1..l
    <3>1. plans'[j] = plans[j]
      BY <1>6, <2>3
    <3>2. PICK n \in 1..sequence[d] :
             /\ plans[j].pep = CandidatePep(promotion, d, n)
             /\ \A i \in 1..(j - 1) : plans[i].channel = d =>
                   \E m \in 1..(n - 1) : plans[i].pep = CandidatePep(promotion, d, m)
      BY <2>1, <2>3, <3>1
    <3>3. \A i \in 1..(j - 1) : plans'[i] = plans[i]
      BY <1>6, <2>3
    <3>4. sequence[d] <= sequence'[d] /\ sequence[d] \in Nat /\ sequence'[d] \in Nat
      BY <1>1, <1>2 DEF next
    <3>5. n \in 1..sequence'[d]
      BY <3>4
    <3> QED BY <1>1, <3>1, <3>2, <3>3, <3>5
  <2> QED BY <1>6, <2>2, <2>3
<1>12. StableIsLast'
  BY <1>1, <1>6 DEF StableIsLast
<1> QED BY <1>8, <1>9, <1>10, <1>11, <1>12

LEMMA ProjectionInvKept == ProjectionInv /\ [ProjectionNext]_projectionVars => ProjectionInv'
<1> SUFFICES ASSUME ProjectionInv, [ProjectionNext]_projectionVars PROVE ProjectionInv'
  OBVIOUS
<1>1. build \in Nat /\ attempts \in [1..MaxRun -> Nat]
  BY DEF ProjectionInv, ProjectionTypeOK
<1>2. ASSUME NEW r \in 1..MaxRun, NEW c \in Channels, Reserve(c, r) PROVE ProjectionInv'
  BY <1>2, ReserveKeepsProjection
<1>3. ASSUME NEW r \in 1..MaxRun, FailAttempt(r) PROVE ProjectionInv'
  <2>1. attempts' \in [1..MaxRun -> Nat]
    BY <1>1, <1>3 DEF FailAttempt
  <2> QED BY <1>1, <1>3, <2>1, NothingReserved DEF FailAttempt
<1>4. ASSUME NEW n \in 1..MaxBuild, Floor(n) PROVE ProjectionInv'
  <2>1. n \in Nat /\ build' = n /\ build < n
    BY <1>4, ProjectionAssumption DEF Floor
  <2> QED BY <1>1, <1>4, <2>1, NothingReserved DEF Floor
<1>5. CASE UNCHANGED projectionVars
  BY <1>1, <1>5, NothingReserved DEF projectionVars
<1> QED BY <1>2, <1>3, <1>4, <1>5 DEF ProjectionNext

LEMMA PackagesInOrder == ProjectionInv => PackagesAscend
<1> SUFFICES ASSUME ProjectionInv, NEW i \in DOMAIN plans, NEW j \in DOMAIN plans,
                    IF plans[i].channel = "nightly" THEN Before(plans[i].by, plans[j].by) ELSE i < j,
                    plans[i].channel = plans[j].channel,
                    plans[i].channel = "rc" => promotion = "final-build",
                    NEW v \in plans[i].pep, NEW w \in plans[j].pep
             PROVE  Before(v, w)
  BY DEF PackagesAscend
<1> USE DEF ProjectionInv
<1> DEFINE c == plans[i].channel
<1>1. /\ c \in Channels /\ DOMAIN plans = 1..Len(plans) /\ Len(plans) \in Nat
      /\ plans[i].by \in (1..MaxRun) \X Nat /\ plans[j].by \in (1..MaxRun) \X Nat
      /\ sequence \in [{"beta", "rc"} -> Nat]
  <2>1. plans \in Seq(PlanRecords) /\ sequence \in [{"beta", "rc"} -> Nat]
    BY DEF ProjectionTypeOK
  <2>2. plans[i] \in PlanRecords /\ plans[j] \in PlanRecords
    BY <2>1
  <2> QED BY <2>1, <2>2 DEF PlanRecords
<1>2. ASSUME NEW k \in Nat, NEW m \in Nat, NEW n \in Nat, m < n, v = <<k, m>>, w = <<k, n>>
      PROVE  Before(v, w)
  <2>1. DOMAIN v = 1..2 /\ v[2] < w[2] /\ v[1] = w[1]
    BY <1>2
  <2>2. \A h \in 1..(2 - 1) : v[h] = w[h]
    BY <2>1
  <2> QED BY <2>1, <2>2 DEF Before
<1>3. CASE c = "nightly"
  <2> DEFINE q == plans[i].by[1]
             a == plans[i].by[2]
             r == plans[j].by[1]
             b == plans[j].by[2]
  <2>1. q \in Nat /\ a \in Nat /\ r \in Nat /\ b \in Nat /\ DOMAIN plans[i].by = 1..2
    <3>1. \A h \in 1..MaxRun : h \in Nat
      BY ProjectionAssumption
    <3> QED BY <1>1, <3>1
  <2>2. q < r \/ (q = r /\ a < b)
    <3>1. PICK h \in 1..2 : /\ plans[i].by[h] < plans[j].by[h]
                            /\ \A g \in 1..(h - 1) : plans[i].by[g] = plans[j].by[g]
      BY <1>3, <2>1 DEF Before
    <3>2. CASE h = 1
      BY <3>1, <3>2
    <3>3. CASE h = 2
      <4>1. 1 \in 1..(h - 1)
        BY <3>3
      <4> QED BY <3>1, <3>3, <4>1
    <3> QED BY <3>2, <3>3
  <2>3. plans[i].pep = PepUnder(promotion, "nightly", Nightly(q, a)) /\ plans[j].pep = PepUnder(promotion, "nightly", Nightly(r, b))
    BY <1>3 DEF NightliesNumbered
  <2> HIDE DEF q, a, r, b
  <2>4. PICK m \in Nightly(q, a) : v = <<0, m>>
    BY <2>3 DEF PepUnder, Rank
  <2>5. PICK n \in Nightly(r, b) : w = <<0, n>>
    BY <2>3 DEF PepUnder, Rank
  <2>6. m \in Nat /\ n \in Nat /\ m < n
    BY <2>1, <2>2, NightlyAscends
  <2> QED BY <1>2, <2>4, <2>5, <2>6
<1>4. CASE c \in {"beta", "rc"}
  <2>1. i < j /\ plans[j].channel = c /\ i \in 1..(j - 1) /\ sequence[c] \in Nat
    BY <1>1, <1>4
  <2>2. PICK n \in 1..sequence[c] :
           /\ plans[j].pep = CandidatePep(promotion, c, n)
           /\ \A k \in 1..(j - 1) : plans[k].channel = c =>
                 \E m \in 1..(n - 1) : plans[k].pep = CandidatePep(promotion, c, m)
    BY <1>1, <1>4, <2>1 DEF CandidatesNumbered
  <2>3. PICK m \in 1..(n - 1) : plans[i].pep = CandidatePep(promotion, c, m)
    BY <2>1, <2>2
  <2>4. Rank[c] \in Nat
    BY <1>1 DEF Rank, Channels
  <2>5. ~(c = "stable" \/ (c = "rc" /\ promotion = "promote-bytes"))
    BY <1>4
  <2>6. v = <<Rank[c], m>> /\ w = <<Rank[c], n>>
    BY <2>2, <2>3, <2>5 DEF PepUnder, CandidatePep
  <2>7. m \in Nat /\ n \in Nat /\ m < n
    BY <2>1, <2>2, <2>3
  <2> QED BY <1>2, <2>4, <2>6, <2>7
<1>5. CASE c = "stable"
  BY <1>1, <1>5 DEF StableIsLast
<1> QED BY <1>1, <1>3, <1>4, <1>5 DEF Channels

LEMMA AppleInOrder == ProjectionInv => AppleBuildsAscend
<1> SUFFICES ASSUME ProjectionInv, NEW j \in DOMAIN plans, NEW w \in plans[j].apple
             PROVE  /\ w[1] \in 1..AppleMajor /\ w[2] < Centi /\ w[3] < Centi
                    /\ \A i \in 1..(j - 1) : \A v \in plans[i].apple : Before(v, w)
  BY DEF AppleBuildsAscend
<1>1. build \in Nat
  BY DEF ProjectionInv, ProjectionTypeOK
<1>2. PICK n \in 1..build :
         /\ plans[j].apple = Apple(n)
         /\ \A i \in 1..(j - 1) : \E m \in 1..(n - 1) : plans[i].apple = Apple(m)
  BY DEF ProjectionInv, BuildsNumbered
<1>3. n \in Nat /\ w \in Apple(n)
  BY <1>1, <1>2
<1>4. ASSUME NEW i \in 1..(j - 1), NEW v \in plans[i].apple PROVE Before(v, w)
  <2>1. PICK m \in 1..(n - 1) : plans[i].apple = Apple(m)
    BY <1>2
  <2>2. m \in Nat /\ m < n
    BY <1>1, <1>2, <2>1
  <2> QED BY <1>3, <2>1, <2>2, AppleAscends
<1>5. w[1] \in 1..AppleMajor /\ w[2] < Centi /\ w[3] < Centi
  BY <1>3, AppleFits
<1> QED BY <1>4, <1>5

(* Whatever the widths of the components, runs, attempts and build numbers:  *)
(* what projections writes into packages orders them as they were reserved.  *)
THEOREM BuildsAlwaysAscend == ProjectionSpec => []BuildsAscend
<1>1. ProjectionInv => BuildsAscend
  BY PackagesInOrder, AppleInOrder DEF BuildsAscend
<1> QED BY ProjectionInvInit, ProjectionInvKept, <1>1, PTL DEF ProjectionSpec
-----------------------------------------------------------------------------
(* Version preparation, for any number of operators, versions and commits.   *)

Trees == [on : Nat, version : Nat, extra : Nat]
Objects == [tree : Trees, anc : SUBSET Nat]

(* Anc, of the commits s.                                                   *)
Line(s, c) == s[c].anc \cup {c}

(* The commits are a graph in which ancestors are older, the first commit is *)
(* an ancestor of all, people's work is in the commit it names or in a later *)
(* one, and no commit has less of the default branch than an ancestor.       *)
GraphOK(s) ==
    /\ s \in Seq(Objects) /\ Len(s) \in Nat \ {0}
    /\ \A c \in 1..Len(s) :
          /\ s[c].anc \subseteq 1..(c - 1)
          /\ c = 1 \/ 1 \in s[c].anc
          /\ s[c].tree.on <= c
          /\ s[c].tree.extra \in {None, c} \cup s[c].anc
          /\ \A d \in s[c].anc : s[d].anc \subseteq s[c].anc /\ s[d].tree.on <= s[c].tree.on

(* What an operator r relies on, when the commits are s, the default branch  *)
(* is m and the topics are t: the commit it fetched is part of the default    *)
(* branch; the topic it verified is that commit's or an ancestor's tree with  *)
(* the version changed, and the branch was since moved to newer commits only. *)
OperatorOK(r, s, m, t) ==
    r.pc # "idle" =>
       /\ r.target \in Versions /\ r.head \in 1..Len(s) /\ r.head \in Line(s, m)
       /\ (r.pc = "push" /\ r.seen # None) =>
             /\ r.seen \in 1..Len(s)
             /\ t[r.target] = None \/ t[r.target] >= r.seen
             /\ \E b \in Line(s, r.head) : s[r.seen].tree = [s[b].tree EXCEPT !.version = r.target]

OperatorRecords == [pc : {"idle", "list", "topic", "push", "create"},
                    head : Nat, target : Nat, pull : Nat, seen : Nat]

PreparationInv ==
    /\ GraphOK(commits)
    /\ main \in 1..Len(commits)
    /\ topic \in [Versions -> {None} \cup 1..Len(commits)]
    /\ DOMAIN pulls = Versions /\ \A v \in Versions : pulls[v] => topic[v] # None
    /\ op \in [Operators -> OperatorRecords]
    /\ \A o \in Operators : OperatorOK(op[o], commits, main, topic)

LEMMA PreparationInvInit == PreparationInit => PreparationInv
<1> SUFFICES ASSUME PreparationInit PROVE PreparationInv
  OBVIOUS
<1> DEFINE initial == [tree |-> [on |-> 1, version |-> 1, extra |-> None], anc |-> {}]
<1>1. commits = <<initial>> /\ initial \in Objects /\ Len(commits) = 1 /\ commits[1] = initial
  BY DEF PreparationInit, Objects, Trees, None
<1>2. initial.anc = {} /\ initial.tree.on = 1 /\ initial.tree.extra = None
  OBVIOUS
<1> HIDE DEF initial
<1>3. GraphOK(commits)
  BY <1>1, <1>2 DEF GraphOK
<1>4. main \in 1..Len(commits)
  BY <1>1 DEF PreparationInit
<1>5. topic \in [Versions -> {None} \cup 1..Len(commits)]
  BY DEF PreparationInit
<1>6. DOMAIN pulls = Versions /\ \A v \in Versions : pulls[v] => topic[v] # None
  BY DEF PreparationInit
<1>7. Idle \in OperatorRecords /\ Idle.pc = "idle"
  BY DEF Idle, None, OperatorRecords
<1>8. op \in [Operators -> OperatorRecords] /\ \A o \in Operators : op[o] = Idle
  BY <1>7 DEF PreparationInit
<1>9. \A o \in Operators : OperatorOK(op[o], commits, main, topic)
  BY <1>7, <1>8 DEF OperatorOK
<1> QED BY <1>3, <1>4, <1>5, <1>6, <1>8, <1>9 DEF PreparationInv

(* A commit on top of others.                                               *)
LEMMA GraphGrows ==
  ASSUME NEW s, GraphOK(s), NEW new \in Objects, NEW P \in SUBSET (1..Len(s)), P # {},
         new.anc = UNION {Line(s, p) : p \in P},
         new.tree.on <= Len(s) + 1,
         new.tree.extra \in {None, Len(s) + 1} \cup new.anc,
         \A d \in new.anc : s[d].tree.on <= new.tree.on
  PROVE  GraphOK(Append(s, new))
<1> DEFINE l == Len(s)
           u == Append(s, new)
<1>1. /\ s \in Seq(Objects) /\ l \in Nat \ {0}
      /\ \A c \in 1..l :
          /\ s[c].anc \subseteq 1..(c - 1)
          /\ c = 1 \/ 1 \in s[c].anc
          /\ s[c].tree.on <= c
          /\ s[c].tree.extra \in {None, c} \cup s[c].anc
          /\ \A d \in s[c].anc : s[d].anc \subseteq s[c].anc /\ s[d].tree.on <= s[c].tree.on
  BY DEF GraphOK
<1>2. /\ u \in Seq(Objects) /\ Len(u) = l + 1 /\ Len(u) \in Nat \ {0}
      /\ u[l + 1] = new /\ \A c \in 1..l : u[c] = s[c]
  BY <1>1
<1>3. new.anc \subseteq 1..l
  <2> SUFFICES ASSUME NEW p \in P, NEW d \in Line(s, p) PROVE d \in 1..l
    OBVIOUS
  <2>1. s[p].anc \subseteq 1..(p - 1) /\ p \in 1..l
    BY <1>1
  <2> QED BY <1>1, <2>1 DEF Line
<1>4. 1 \in new.anc
  <2>1. PICK p \in P : TRUE
    OBVIOUS
  <2>2. 1 \in Line(s, p)
    BY <1>1 DEF Line
  <2> QED BY <2>2
<1>5. \A d \in new.anc : s[d].anc \subseteq new.anc
  <2> SUFFICES ASSUME NEW p \in P, NEW d \in Line(s, p), NEW e \in s[d].anc PROVE e \in Line(s, p)
    OBVIOUS
  <2>1. p \in 1..l
    OBVIOUS
  <2> QED BY <1>1, <2>1 DEF Line
<1> HIDE DEF u, l
<1> SUFFICES ASSUME NEW c \in 1..(l + 1)
             PROVE  /\ u[c].anc \subseteq 1..(c - 1)
                    /\ c = 1 \/ 1 \in u[c].anc
                    /\ u[c].tree.on <= c
                    /\ u[c].tree.extra \in {None, c} \cup u[c].anc
                    /\ \A d \in u[c].anc : u[d].anc \subseteq u[c].anc /\ u[d].tree.on <= u[c].tree.on
  BY <1>2 DEF GraphOK, u
<1>6. CASE c = l + 1
  <2>1. u[c] = new /\ c - 1 = l
    BY <1>1, <1>2, <1>6
  <2>2. \A d \in new.anc : u[d] = s[d]
    BY <1>2, <1>3
  <2> QED BY <1>3, <1>4, <1>5, <1>6, <2>1, <2>2 DEF l
<1>7. CASE c \in 1..l
  <2>1. u[c] = s[c]
    BY <1>2, <1>7
  <2>2. \A d \in s[c].anc : u[d] = s[d]
    BY <1>1, <1>2, <1>7
  <2> QED BY <1>1, <1>7, <2>1, <2>2
<1> QED BY <1>1, <1>6, <1>7

(* A step of the remote: the default branch moves to a descendant, a topic   *)
(* to a new commit or away.  Operators keep what they rely on.              *)
LEMMA RemoteMoves ==
  ASSUME NEW s, GraphOK(s), NEW new \in Objects, NEW m \in 1..Len(s), NEW n \in 1..(Len(s) + 1),
         NEW t \in [Versions -> Nat], NEW w \in [Versions -> Nat],
         n = m \/ (n = Len(s) + 1 /\ Line(s, m) \subseteq new.anc),
         \A v \in Versions : w[v] \in {t[v], None, Len(s) + 1},
         NEW r \in OperatorRecords, OperatorOK(r, s, m, t)
  PROVE  OperatorOK(r, Append(s, new), n, w)
<1> DEFINE l == Len(s)
           u == Append(s, new)
<1>1. s \in Seq(Objects) /\ l \in Nat \ {0} /\ \A c \in 1..l : s[c].anc \subseteq 1..(c - 1)
  BY DEF GraphOK
<1>2. Len(u) = l + 1 /\ u[l + 1] = new /\ \A c \in 1..l : u[c] = s[c]
  BY <1>1
<1> HIDE DEF u, l
<1> SUFFICES ASSUME r.pc # "idle"
             PROVE  OperatorOK(r, u, n, w)
  BY DEF OperatorOK, u
<1>3. r.target \in Versions /\ r.head \in 1..l /\ r.head \in Line(s, m)
  BY DEF OperatorOK, l
<1>4. r.head \in 1..Len(u)
  BY <1>1, <1>2, <1>3
<1>5. r.head \in Line(u, n)
  <2>1. CASE n = m
    BY <1>2, <1>3, <2>1 DEF Line, l
  <2>2. CASE n = l + 1 /\ Line(s, m) \subseteq new.anc
    BY <1>2, <1>3, <2>2 DEF Line
  <2> QED BY <2>1, <2>2 DEF l
<1>6. ASSUME r.pc = "push", r.seen # None
      PROVE  /\ r.seen \in 1..Len(u)
             /\ w[r.target] = None \/ w[r.target] >= r.seen
             /\ \E b \in Line(u, r.head) : u[r.seen].tree = [u[b].tree EXCEPT !.version = r.target]
  <2>1. r.seen \in 1..l /\ (t[r.target] = None \/ t[r.target] >= r.seen)
    BY <1>6 DEF OperatorOK, l
  <2>2. PICK b \in Line(s, r.head) : s[r.seen].tree = [s[b].tree EXCEPT !.version = r.target]
    BY <1>6 DEF OperatorOK
  <2>3. b \in 1..l
    BY <1>1, <1>3 DEF Line
  <2>4. u[b] = s[b] /\ u[r.seen] = s[r.seen] /\ b \in Line(u, r.head)
    BY <1>2, <1>3, <2>1, <2>3 DEF Line
  <2>5. w[r.target] = None \/ w[r.target] >= r.seen
    <3>1. w[r.target] \in {t[r.target], None, l + 1}
      BY <1>3 DEF l
    <3> QED BY <1>1, <2>1, <3>1
  <2>6. r.seen \in 1..Len(u)
    BY <1>1, <1>2, <2>1
  <2> QED BY <2>2, <2>4, <2>5, <2>6
<1> QED BY <1>3, <1>4, <1>5, <1>6 DEF OperatorOK

(* verify_owned_topic compares with a common ancestor: there is a latest.    *)
LEMMA MergeBaseIsCommon ==
  ASSUME GraphOK(commits), NEW t \in 1..Len(commits), NEW h \in 1..Len(commits)
  PROVE  MergeBase(t, h) \in Anc(t) \cap Anc(h)
<1> DEFINE S == Anc(t) \cap Anc(h)
           B == {n \in Nat : \A x \in S : x <= n}
<1>1. Len(commits) \in Nat /\ \A c \in 1..Len(commits) :
         commits[c].anc \subseteq 1..(c - 1) /\ (c = 1 \/ 1 \in commits[c].anc)
  BY DEF GraphOK
<1>2. S \subseteq 1..Len(commits) /\ 1 \in S
  BY <1>1 DEF Anc
<1>3. Len(commits) \in B
  BY <1>1, <1>2
<1>4. PICK n \in B : \A m \in B : n <= m
  BY <1>3, LeastOf
<1> HIDE DEF S
<1>5. n \in S
  <2> SUFFICES ASSUME n \notin S PROVE FALSE
    OBVIOUS
  <2>1. 1 <= n /\ n \in Nat
    BY <1>2
  <2>2. \A x \in S : x \in Nat /\ x <= n /\ x # n
    BY <1>1, <1>2
  <2>3. n - 1 \in B
    BY <2>1, <2>2
  <2> QED BY <1>4, <2>1, <2>3
<1>6. \A d \in S : n \notin commits[d].anc
  <2> SUFFICES ASSUME NEW d \in S, n \in commits[d].anc PROVE FALSE
    OBVIOUS
  <2>1. n \in 1..(d - 1) /\ d \in 1..Len(commits) /\ d <= n
    BY <1>1, <1>2
  <2> QED BY <1>1, <2>1
<1> QED BY <1>5, <1>6 DEF MergeBase, S

(* The objects of the remote after a commit, and the operators' view.        *)
LEMMA RemoteCommit ==
  ASSUME PreparationInv, NEW new \in Objects, commits' = Append(commits, new),
         NEW P \in SUBSET (1..Len(commits)), P # {},
         new.anc = UNION {Anc(p) : p \in P},
         new.tree.on <= NewId,
         new.tree.extra \in {None, NewId} \cup new.anc,
         \A d \in new.anc : Tree(d).on <= new.tree.on,
         main' = main \/ (main' = NewId /\ main \in P),
         topic' \in [Versions -> {None} \cup 1..NewId],
         \A v \in Versions : topic'[v] \in {topic[v], None, NewId}
  PROVE  /\ GraphOK(commits') /\ main' \in 1..Len(commits')
         /\ topic' \in [Versions -> {None} \cup 1..Len(commits')]
         /\ \A o \in Operators : OperatorOK(op[o], commits', main', topic')
<1>1. /\ GraphOK(commits) /\ main \in 1..Len(commits)
      /\ topic \in [Versions -> {None} \cup 1..Len(commits)]
      /\ op \in [Operators -> OperatorRecords]
      /\ \A o \in Operators : OperatorOK(op[o], commits, main, topic)
  BY DEF PreparationInv
<1>2. commits \in Seq(Objects) /\ Len(commits) \in Nat \ {0} /\ NewId = Len(commits) + 1
  BY <1>1 DEF GraphOK, NewId
<1>3. Len(commits') = NewId
  BY <1>2
<1>4. new.anc = UNION {Line(commits, p) : p \in P}
  BY DEF Line, Anc
<1>5. GraphOK(commits')
  <2>1. \A d \in new.anc : commits[d].tree.on <= new.tree.on
    BY DEF Tree
  <2> QED BY <1>1, <1>2, <1>4, <2>1, GraphGrows
<1>6. main' \in 1..NewId
  BY <1>1, <1>2
<1>7. main' = main \/ (main' = Len(commits) + 1 /\ Line(commits, main) \subseteq new.anc)
  BY <1>2, <1>4
<1>8. topic \in [Versions -> Nat] /\ topic' \in [Versions -> Nat]
  BY <1>1, <1>2 DEF None
<1>9. ASSUME NEW o \in Operators PROVE OperatorOK(op[o], commits', main', topic')
  <2>1. op[o] \in OperatorRecords /\ OperatorOK(op[o], commits, main, topic)
    BY <1>1
  <2>2. main' \in 1..(Len(commits) + 1) /\ \A v \in Versions : topic'[v] \in {topic[v], None, Len(commits) + 1}
    BY <1>2, <1>6
  <2> QED BY <1>1, <1>7, <1>8, <2>1, <2>2, RemoteMoves
<1> QED BY <1>3, <1>5, <1>6, <1>9

LEMMA CommitsAre ==
  ASSUME PreparationInv
  PROVE  /\ commits \in Seq(Objects) /\ Len(commits) \in Nat \ {0}
         /\ NewId = Len(commits) + 1 /\ NewId \in Nat
         /\ \A c \in 1..Len(commits) :
               /\ commits[c] \in Objects /\ Tree(c) \in Trees
               /\ Tree(c).on <= c /\ Tree(c).extra \in {None} \cup Anc(c)
               /\ Anc(c) \subseteq 1..Len(commits) /\ c \in Anc(c)
               /\ \A d \in Anc(c) : Tree(d).on <= Tree(c).on /\ Anc(d) \subseteq Anc(c)
<1>1. GraphOK(commits)
  BY DEF PreparationInv
<1>2. commits \in Seq(Objects) /\ Len(commits) \in Nat \ {0} /\ NewId = Len(commits) + 1 /\ NewId \in Nat
  BY <1>1 DEF GraphOK, NewId
<1>3. ASSUME NEW c \in 1..Len(commits)
      PROVE  /\ commits[c] \in Objects /\ Tree(c) \in Trees
             /\ Tree(c).on <= c /\ Tree(c).extra \in {None} \cup Anc(c)
             /\ Anc(c) \subseteq 1..Len(commits) /\ c \in Anc(c)
             /\ \A d \in Anc(c) : Tree(d).on <= Tree(c).on /\ Anc(d) \subseteq Anc(c)
  <2>1. commits[c] \in Objects /\ Tree(c) \in Trees
    <3>1. commits[c] \in Objects
      BY <1>2
    <3> QED BY <3>1 DEF Tree, Objects
  <2>2. Tree(c).on \in Nat
    BY <2>1 DEF Trees
  <2>3. /\ commits[c].anc \subseteq 1..(c - 1)
        /\ Tree(c).on <= c /\ Tree(c).extra \in {None, c} \cup commits[c].anc
        /\ \A d \in commits[c].anc : commits[d].anc \subseteq commits[c].anc /\ Tree(d).on <= Tree(c).on
    BY <1>1 DEF GraphOK, Tree
  <2>4. Anc(c) \subseteq 1..Len(commits) /\ c \in Anc(c)
    BY <1>2, <2>3 DEF Anc
  <2> QED BY <2>1, <2>2, <2>3, <2>4 DEF Anc
<1> QED BY <1>2, <1>3

LEMMA DevelopKeepsPreparation == ASSUME PreparationInv, Develop PROVE PreparationInv'
<1> DEFINE tree == [Tree(main) EXCEPT !.on = NewId]
           new == Commit(tree, {main})
<1>1. commits' = Append(commits, new) /\ main' = NewId /\ UNCHANGED <<topic, pulls, op>>
  BY DEF Develop
<1>2. main \in 1..Len(commits) /\ topic \in [Versions -> {None} \cup 1..Len(commits)]
  BY DEF PreparationInv
<1>3. tree \in Trees /\ tree.on = NewId /\ tree.extra = Tree(main).extra
  BY <1>2, CommitsAre DEF Trees
<1> HIDE DEF tree
<1>4. new.tree = tree /\ new.anc = UNION {Anc(p) : p \in {main}} /\ new.anc = Anc(main)
  BY DEF Commit
<1>5. new \in Objects
  BY <1>2, <1>3, CommitsAre DEF Commit, Objects
<1> HIDE DEF new
<1>6. \A d \in new.anc : Tree(d).on <= new.tree.on
  <2> SUFFICES ASSUME NEW d \in Anc(main) PROVE Tree(d).on <= NewId
    BY <1>3, <1>4
  <2>1. d \in 1..Len(commits) /\ Tree(d) \in Trees /\ Tree(d).on <= d /\ NewId = Len(commits) + 1 /\ Len(commits) \in Nat
    BY <1>2, CommitsAre
  <2> QED BY <2>1 DEF Trees
<1>7. new.tree.extra \in {None, NewId} \cup new.anc
  BY <1>2, <1>3, <1>4, CommitsAre
<1>8. topic' \in [Versions -> {None} \cup 1..NewId]
  BY <1>1, <1>2, CommitsAre
<1>9. \A v \in Versions : topic'[v] \in {topic[v], None, NewId}
  BY <1>1
<1>10. new.tree.on <= NewId
  BY <1>3, <1>4, CommitsAre
<1>11. /\ GraphOK(commits') /\ main' \in 1..Len(commits')
       /\ topic' \in [Versions -> {None} \cup 1..Len(commits')]
       /\ \A o \in Operators : OperatorOK(op[o], commits', main', topic')
  <2>1. {main} \in SUBSET (1..Len(commits)) /\ {main} # {} /\ main \in {main}
    BY <1>2
  <2> QED BY <1>1, <1>4, <1>5, <1>6, <1>7, <1>8, <1>9, <1>10, <2>1, RemoteCommit
<1> QED BY <1>1, <1>11 DEF PreparationInv

LEMMA WorkKeepsPreparation ==
  ASSUME PreparationInv, NEW v \in Versions, WorkOnTopic(v)
  PROVE  PreparationInv'
<1> DEFINE t == topic[v]
           tree == [Tree(t) EXCEPT !.extra = NewId]
           new == Commit(tree, {t})
<1>1. /\ commits' = Append(commits, new) /\ topic' = [topic EXCEPT ![v] = NewId] /\ t # None
      /\ UNCHANGED <<main, pulls, op>>
  BY DEF WorkOnTopic
<1>2. t \in 1..Len(commits) /\ topic \in [Versions -> {None} \cup 1..Len(commits)]
  BY <1>1 DEF PreparationInv
<1> HIDE DEF t
<1>3. tree \in Trees /\ tree.on = Tree(t).on /\ tree.extra = NewId
  BY <1>2, CommitsAre DEF Trees
<1> HIDE DEF tree
<1>4. new.tree = tree /\ new.anc = UNION {Anc(p) : p \in {t}} /\ new.anc = Anc(t)
  BY DEF Commit
<1>5. new \in Objects
  BY <1>2, <1>3, CommitsAre DEF Commit, Objects
<1> HIDE DEF new
<1>6. \A d \in new.anc : Tree(d).on <= new.tree.on
  BY <1>2, <1>3, <1>4, CommitsAre
<1>7. new.tree.extra \in {None, NewId} \cup new.anc
  BY <1>3, <1>4
<1>8. topic' \in [Versions -> {None} \cup 1..NewId]
  BY <1>1, <1>2, CommitsAre
<1>9. \A w \in Versions : topic'[w] \in {topic[w], None, NewId}
  BY <1>1, <1>2
<1>10. new.tree.on <= NewId
  <2>1. Tree(t) \in Trees /\ Tree(t).on <= t /\ NewId = Len(commits) + 1 /\ Len(commits) \in Nat
    BY <1>2, CommitsAre
  <2> QED BY <1>2, <1>3, <1>4, <2>1 DEF Trees
<1>11. /\ GraphOK(commits') /\ main' \in 1..Len(commits')
       /\ topic' \in [Versions -> {None} \cup 1..Len(commits')]
       /\ \A o \in Operators : OperatorOK(op[o], commits', main', topic')
  <2>1. {t} \in SUBSET (1..Len(commits)) /\ {t} # {}
    BY <1>2
  <2> QED BY <1>1, <1>4, <1>5, <1>6, <1>7, <1>8, <1>9, <1>10, <2>1, RemoteCommit
<1>12. \A w \in Versions : pulls'[w] => topic'[w] # None
  BY <1>1, <1>2, CommitsAre DEF PreparationInv, None
<1> QED BY <1>1, <1>11, <1>12 DEF PreparationInv

LEMMA MergeKeepsPreparation ==
  ASSUME PreparationInv, NEW v \in Versions, NEW keep \in BOOLEAN,
         NEW parents \in {{main}, {main, topic[v]}}, Merge(v, parents, keep)
  PROVE  PreparationInv'
<1> DEFINE tree == [on |-> NewId, version |-> Tree(topic[v]).version, extra |-> None]
           new == Commit(tree, parents)
<1>1. /\ commits' = Append(commits, new) /\ main' = NewId
      /\ pulls' = [pulls EXCEPT ![v] = FALSE] /\ pulls[v]
      /\ topic' = [topic EXCEPT ![v] = IF keep THEN @ ELSE None]
      /\ op' = op
  BY DEF Merge
<1>2. /\ main \in 1..Len(commits) /\ topic[v] \in 1..Len(commits)
      /\ topic \in [Versions -> {None} \cup 1..Len(commits)] /\ DOMAIN pulls = Versions
  BY <1>1 DEF PreparationInv
<1>3. tree \in Trees /\ tree.on = NewId /\ tree.extra = None
  BY <1>2, CommitsAre DEF Trees, None
<1> HIDE DEF tree
<1>4. new.tree = tree /\ new.anc = UNION {Anc(p) : p \in parents}
  BY DEF Commit
<1>5. parents \in SUBSET (1..Len(commits)) /\ parents # {} /\ main \in parents
  BY <1>2
<1>6. new.anc \subseteq 1..Len(commits)
  BY <1>4, <1>5, CommitsAre
<1>7. new \in Objects
  <2>1. new.anc \in SUBSET Nat
    BY <1>6
  <2> QED BY <1>3, <2>1 DEF Commit, Objects
<1> HIDE DEF new
<1>8. \A d \in new.anc : Tree(d).on <= new.tree.on
  <2> SUFFICES ASSUME NEW d \in new.anc PROVE Tree(d).on <= NewId
    BY <1>3, <1>4
  <2>1. d \in 1..Len(commits) /\ Tree(d) \in Trees /\ Tree(d).on <= d /\ NewId = Len(commits) + 1 /\ Len(commits) \in Nat
    BY <1>6, CommitsAre
  <2> QED BY <2>1 DEF Trees
<1>9. topic' \in [Versions -> {None} \cup 1..NewId]
  BY <1>1, <1>2, CommitsAre
<1>10. \A w \in Versions : topic'[w] \in {topic[w], None, NewId}
  BY <1>1, <1>2
<1>11. new.tree.on <= NewId /\ new.tree.extra \in {None, NewId} \cup new.anc
  BY <1>3, <1>4, CommitsAre
<1>12. /\ GraphOK(commits') /\ main' \in 1..Len(commits')
       /\ topic' \in [Versions -> {None} \cup 1..Len(commits')]
       /\ \A o \in Operators : OperatorOK(op[o], commits', main', topic')
  BY <1>1, <1>4, <1>5, <1>7, <1>8, <1>9, <1>10, <1>11, RemoteCommit
<1>13. DOMAIN pulls' = Versions /\ \A w \in Versions : pulls'[w] => topic'[w] # None
  BY <1>1, <1>2 DEF PreparationInv
<1> QED BY <1>1, <1>12, <1>13 DEF PreparationInv

LEMMA IdleIsOK ==
  Idle \in OperatorRecords /\ \A s, m, t : OperatorOK(Idle, s, m, t)
BY DEF Idle, None, OperatorRecords, OperatorOK

(* A step of one operator that leaves the branches alone.                   *)
LEMMA OperatorMoves ==
  ASSUME PreparationInv, UNCHANGED <<commits, main, topic>>,
         DOMAIN pulls' = Versions, \A v \in Versions : pulls'[v] => topic[v] # None,
         NEW o \in Operators, NEW x \in OperatorRecords, op' = [op EXCEPT ![o] = x],
         OperatorOK(x, commits, main, topic)
  PROVE  PreparationInv'
<1>1. op' \in [Operators -> OperatorRecords]
  BY DEF PreparationInv
<1>2. ASSUME NEW p \in Operators PROVE OperatorOK(op'[p], commits, main, topic)
  <2>1. op'[p] = x \/ op'[p] = op[p]
    BY DEF PreparationInv
  <2> QED BY <2>1 DEF PreparationInv
<1> QED BY <1>1, <1>2 DEF PreparationInv

LEMMA PullsStay ==
  ASSUME PreparationInv, UNCHANGED pulls
  PROVE  DOMAIN pulls' = Versions /\ \A v \in Versions : pulls'[v] => topic[v] # None
BY DEF PreparationInv

LEMMA EndKeepsPreparation ==
  ASSUME PreparationInv, UNCHANGED remote, NEW o \in Operators, End(o)
  PROVE  PreparationInv'
BY IdleIsOK, PullsStay, OperatorMoves DEF End, remote

LEMMA FetchKeepsPreparation ==
  ASSUME PreparationInv, NEW o \in Operators, Fetch(o)
  PROVE  PreparationInv'
<1> DEFINE v == NextPatch(Tree(main).version)
           x == [Idle EXCEPT !.pc = "list", !.head = main, !.target = v]
<1>1. /\ UNCHANGED <<commits, main, topic, pulls>>
      /\ op' = [op EXCEPT ![o] = x] /\ v \in Versions
  BY DEF Fetch, remote
<1>2. main \in 1..Len(commits) /\ Len(commits) \in Nat
  BY CommitsAre DEF PreparationInv
<1> HIDE DEF v
<1>3. v \in Nat
  BY <1>1, PreparationAssumption DEF Versions
<1>4. x \in OperatorRecords /\ x.pc = "list" /\ x.head = main /\ x.target = v
  <2>1. Idle \in OperatorRecords /\ main \in Nat
    BY <1>2, IdleIsOK
  <2> QED BY <1>3, <2>1 DEF OperatorRecords
<1> HIDE DEF x
<1>5. OperatorOK(x, commits, main, topic)
  BY <1>1, <1>2, <1>4 DEF OperatorOK, Line
<1> QED BY <1>1, <1>4, <1>5, PullsStay, OperatorMoves

LEMMA ListKeepsPreparation ==
  ASSUME PreparationInv, NEW o \in Operators, ListPulls(o)
  PROVE  PreparationInv'
<1> DEFINE r == op[o]
           known == IF pulls[r.target] THEN topic[r.target] ELSE None
           x == [r EXCEPT !.pull = known, !.pc = "topic"]
<1>1. r \in OperatorRecords /\ OperatorOK(r, commits, main, topic)
  BY DEF PreparationInv
<1>2. r.pc = "list" /\ UNCHANGED <<commits, main, topic, pulls>>
  BY DEF ListPulls, remote
<1>3. op' = [op EXCEPT ![o] = x]
  BY DEF ListPulls, PreparationInv
<1>4. r.target \in Versions /\ r.head \in 1..Len(commits) /\ r.head \in Line(commits, main)
  BY <1>1, <1>2 DEF OperatorOK
<1>5. known \in Nat
  <2>1. topic[r.target] \in {None} \cup 1..Len(commits)
    BY <1>4 DEF PreparationInv
  <2> QED BY <2>1 DEF None
<1> HIDE DEF known
<1>6. x \in OperatorRecords /\ x.pc = "topic" /\ x.head = r.head /\ x.target = r.target
  BY <1>1, <1>5 DEF OperatorRecords
<1> HIDE DEF x
<1>7. OperatorOK(x, commits, main, topic)
  BY <1>4, <1>6 DEF OperatorOK
<1> QED BY <1>2, <1>3, <1>6, <1>7, PullsStay, OperatorMoves

(* What is verified is the tree of a commit the operator's head contains.     *)
LEMMA ReadKeepsPreparation ==
  ASSUME PreparationInv, NEW o \in Operators, ReadTopic(o)
  PROVE  PreparationInv'
<1> DEFINE r == op[o]
           t == topic[r.target]
           x == [r EXCEPT !.seen = t, !.pc = "push"]
<1>1. r \in OperatorRecords /\ OperatorOK(r, commits, main, topic)
  BY DEF PreparationInv
<1>2. r.pc = "topic" /\ UNCHANGED remote /\ UNCHANGED <<commits, main, topic, pulls>>
  BY DEF ReadTopic, remote
<1>3. r.target \in Versions /\ r.head \in 1..Len(commits) /\ r.head \in Line(commits, main)
  BY <1>1, <1>2 DEF OperatorOK
<1>4. t \in {None} \cup 1..Len(commits)
  BY <1>3 DEF PreparationInv
<1>5. CASE End(o)
  BY <1>2, <1>5, EndKeepsPreparation
<1>6. CASE /\ op' = [op EXCEPT ![o].seen = t, ![o].pc = "push"]
           /\ t # None => OwnedTopic(t, r.head, r.target)
  <2>1. op' = [op EXCEPT ![o] = x]
    BY <1>6 DEF PreparationInv
  <2>2. t \in Nat
    BY <1>4 DEF None
  <2> HIDE DEF t
  <2>3. x \in OperatorRecords /\ x.pc = "push" /\ x.head = r.head /\ x.target = r.target /\ x.seen = t
    BY <1>1, <2>2 DEF OperatorRecords
  <2>4. ASSUME t # None
        PROVE  \E b \in Line(commits, r.head) : commits[t].tree = [commits[b].tree EXCEPT !.version = r.target]
    <3>1. MergeBase(t, r.head) \in Anc(r.head)
      BY <1>3, <1>4, <2>4, MergeBaseIsCommon DEF PreparationInv
    <3>2. Tree(t) = Prepared(MergeBase(t, r.head), r.target)
      BY <1>6, <2>4 DEF OwnedTopic
    <3> QED BY <3>1, <3>2 DEF Prepared, Tree, Anc, Line
  <2> HIDE DEF x
  <2>5. OperatorOK(x, commits, main, topic)
    <3>1. t # None => t \in 1..Len(commits)
      BY <1>4
    <3>2. topic[x.target] = t /\ t >= t
      BY <2>2, <2>3 DEF t
    <3> QED BY <1>3, <2>3, <2>4, <3>1, <3>2 DEF OperatorOK
  <2> QED BY <1>2, <2>1, <2>3, <2>5, PullsStay, OperatorMoves
<1> QED BY <1>5, <1>6 DEF ReadTopic, RemoteTopic

LEMMA CreateKeepsPreparation ==
  ASSUME PreparationInv, NEW o \in Operators, CreatePull(o)
  PROVE  PreparationInv'
<1> DEFINE v == op[o].target
<1>1. /\ pulls' = [pulls EXCEPT ![v] = @ \/ (topic[v] # None /\ topic[v] \notin Anc(main))]
      /\ UNCHANGED <<commits, main, topic>> /\ op' = [op EXCEPT ![o] = Idle] /\ op[o].pc = "create"
  BY DEF CreatePull, End
<1>2. v \in Versions
  BY <1>1 DEF PreparationInv, OperatorOK
<1> HIDE DEF v
<1>3. DOMAIN pulls' = Versions
  BY <1>1 DEF PreparationInv
<1>4. \A w \in Versions : pulls'[w] => topic[w] # None
  BY <1>1, <1>2 DEF PreparationInv
<1> QED BY <1>1, <1>3, <1>4, IdleIsOK, OperatorMoves

Parents(r) == {r.head} \cup (IF r.seen = None THEN {} ELSE {r.seen})

(* Everything below the pushed commit is in the operator's head or below the *)
(* topic it verified; a topic it may replace is one of these.               *)
LEMMA PushFacts ==
  ASSUME PreparationInv, NEW r \in OperatorRecords, OperatorOK(r, commits, main, topic), r.pc = "push"
  PROVE  /\ r.target \in Versions /\ Parents(r) \in SUBSET (1..Len(commits)) /\ Parents(r) # {}
         /\ r.head \in 1..Len(commits) /\ r.head \in Anc(main)
         /\ \A d \in UNION {Anc(p) : p \in Parents(r)} :
               /\ Tree(d).on <= Tree(r.head).on
               /\ d = topic[r.target] => Tree(d).extra \in {None} \cup Anc(main)
<1>1. r.target \in Versions /\ r.head \in 1..Len(commits) /\ r.head \in Anc(main)
  BY DEF OperatorOK, Line, Anc
<1>2. ASSUME r.seen # None
      PROVE  /\ r.seen \in 1..Len(commits)
             /\ topic[r.target] = None \/ topic[r.target] >= r.seen
             /\ \E b \in Anc(r.head) : Tree(r.seen) = [Tree(b) EXCEPT !.version = r.target]
  BY <1>2 DEF OperatorOK, Line, Anc, Tree
<1>3. Parents(r) \in SUBSET (1..Len(commits)) /\ Parents(r) # {}
  BY <1>1, <1>2 DEF Parents
<1>4. main \in 1..Len(commits)
  BY DEF PreparationInv
<1>5. ASSUME NEW d \in Anc(r.head)
      PROVE  Tree(d).on <= Tree(r.head).on /\ Tree(d).extra \in {None} \cup Anc(main)
  <2>1. d \in 1..Len(commits) /\ Tree(d).on <= Tree(r.head).on /\ Anc(d) \subseteq Anc(r.head)
    BY <1>1, CommitsAre
  <2>2. Anc(r.head) \subseteq Anc(main) /\ Tree(d).extra \in {None} \cup Anc(d)
    BY <1>1, <1>4, <2>1, CommitsAre
  <2> QED BY <2>1, <2>2
<1>6. ASSUME NEW d \in Anc(r.seen), r.seen # None
      PROVE  /\ Tree(d).on <= Tree(r.head).on
             /\ d = topic[r.target] => Tree(d).extra \in {None} \cup Anc(main)
  <2>1. PICK b \in Anc(r.head) : Tree(r.seen) = [Tree(b) EXCEPT !.version = r.target]
    BY <1>2, <1>6
  <2>2. b \in 1..Len(commits) /\ Tree(b) \in Trees
    BY <1>1, CommitsAre
  <2>3. Tree(r.seen).on = Tree(b).on /\ Tree(r.seen).extra = Tree(b).extra
    BY <2>1, <2>2 DEF Trees
  <2>4. /\ r.seen \in 1..Len(commits) /\ d \in 1..Len(commits) /\ Tree(d).on <= Tree(r.seen).on
        /\ Tree(d) \in Trees /\ Tree(r.head) \in Trees
    BY <1>1, <1>2, <1>6, CommitsAre
  <2>5. Tree(d).on <= Tree(r.head).on
    BY <1>5, <2>2, <2>3, <2>4 DEF Trees
  <2>6. ASSUME d = topic[r.target] PROVE d = r.seen
    <3>1. d # None /\ d >= r.seen
      BY <1>2, <1>6, <2>4, <2>6 DEF None
    <3>2. d = r.seen \/ d \in 1..(r.seen - 1)
      BY <2>4 DEF Anc, PreparationInv, GraphOK
    <3> QED BY <2>4, <3>1, <3>2
  <2> QED BY <1>5, <2>1, <2>3, <2>5, <2>6
<1>7. ASSUME NEW d \in UNION {Anc(p) : p \in Parents(r)}
      PROVE  d \in Anc(r.head) \/ (r.seen # None /\ d \in Anc(r.seen))
  BY DEF Parents
<1> QED BY <1>1, <1>3, <1>5, <1>6, <1>7

LEMMA PushKeepsPreparation ==
  ASSUME PreparationInv, NEW o \in Operators, Push(o)
  PROVE  PreparationInv'
<1> DEFINE r == op[o]
           tree == Prepared(r.head, r.target)
           new == Commit(tree, Parents(r))
           x == IF r.pull = None THEN [r EXCEPT !.pc = "create"] ELSE Idle
           next == IF r.pull = None THEN Goto(o, "create") ELSE [op EXCEPT ![o] = Idle]
<1>1. r \in OperatorRecords /\ OperatorOK(r, commits, main, topic) /\ r.pc = "push"
  BY DEF PreparationInv, Push
<1>2. /\ r.target \in Versions /\ Parents(r) \in SUBSET (1..Len(commits)) /\ Parents(r) # {}
      /\ r.head \in 1..Len(commits) /\ r.head \in Anc(main)
      /\ \A d \in UNION {Anc(p) : p \in Parents(r)} : Tree(d).on <= Tree(r.head).on
  BY <1>1, PushFacts
<1>3. next = [op EXCEPT ![o] = x]
  BY DEF Goto, PreparationInv
<1>4. x \in OperatorRecords /\ \A s, m, t : OperatorOK(r, s, m, t) => OperatorOK(x, s, m, t)
  <2>1. CASE r.pull = None
    <3>1. x \in OperatorRecords /\ x.pc = "create" /\ x.head = r.head /\ x.target = r.target
      BY <1>1, <2>1 DEF OperatorRecords
    <3> QED BY <1>1, <3>1 DEF OperatorOK
  <2>2. CASE r.pull # None
    BY <2>2, IdleIsOK
  <2> QED BY <2>1, <2>2
<1> HIDE DEF x, next
<1>5. CASE End(o) /\ UNCHANGED remote
  BY <1>5, EndKeepsPreparation
<1>6. CASE op' = next /\ UNCHANGED remote
  BY <1>1, <1>3, <1>4, <1>6, PullsStay, OperatorMoves DEF remote
<1>7. CASE /\ commits' = Append(commits, new)
           /\ topic' = [topic EXCEPT ![r.target] = NewId]
           /\ op' = next
           /\ UNCHANGED <<main, tags, elsewhere, pulls>>
  <2>1. /\ topic \in [Versions -> {None} \cup 1..Len(commits)]
        /\ op \in [Operators -> OperatorRecords]
    BY DEF PreparationInv
  <2>2. tree \in Trees /\ tree.on = Tree(r.head).on /\ tree.extra = Tree(r.head).extra
    <3>1. Tree(r.head) \in Trees /\ r.target \in Nat
      BY <1>1, <1>2, CommitsAre DEF OperatorRecords
    <3> QED BY <3>1 DEF Prepared, Trees
  <2> HIDE DEF tree, r
  <2>3. new.tree = tree /\ new.anc = UNION {Anc(p) : p \in Parents(r)}
    BY DEF Commit
  <2>4. new.anc \subseteq 1..Len(commits)
    BY <1>2, <2>3, CommitsAre
  <2>5. new \in Objects
    <3>1. new.anc \in SUBSET Nat
      BY <2>4
    <3> QED BY <2>2, <3>1 DEF Commit, Objects
  <2>6. Anc(r.head) \subseteq new.anc
    BY <2>3 DEF Parents
  <2> HIDE DEF new
  <2>7. new.tree.extra \in {None, NewId} \cup new.anc
    BY <1>2, <2>2, <2>3, <2>6, CommitsAre
  <2>8. new.tree.on <= NewId
    <3>1. Tree(r.head) \in Trees /\ Tree(r.head).on <= r.head /\ NewId = Len(commits) + 1 /\ Len(commits) \in Nat
      BY <1>2, CommitsAre
    <3> QED BY <1>2, <2>2, <2>3, <3>1 DEF Trees
  <2>9. \A d \in new.anc : Tree(d).on <= new.tree.on
    BY <1>2, <2>2, <2>3
  <2>10. topic' \in [Versions -> {None} \cup 1..NewId]
    <3>1. NewId \in 1..NewId /\ \A n \in 1..Len(commits) : n \in 1..NewId
      BY CommitsAre
    <3> QED BY <1>7, <2>1, <3>1
  <2>11. \A v \in Versions : topic'[v] \in {topic[v], None, NewId}
    BY <1>7, <2>1
  <2>12. /\ GraphOK(commits') /\ main' \in 1..Len(commits')
         /\ topic' \in [Versions -> {None} \cup 1..Len(commits')]
         /\ \A p \in Operators : OperatorOK(op[p], commits', main', topic')
    BY <1>2, <1>7, <2>3, <2>5, <2>7, <2>8, <2>9, <2>10, <2>11, RemoteCommit
  <2>13. op' \in [Operators -> OperatorRecords]
    BY <1>3, <1>4, <1>7, <2>1
  <2>14. ASSUME NEW p \in Operators PROVE OperatorOK(op'[p], commits', main', topic')
    <3>1. CASE p = o
      <4>1. op'[p] = x
        BY <1>3, <1>7, <2>1, <3>1
      <4> QED BY <1>4, <2>12, <4>1 DEF r
    <3>2. CASE p # o
      <4>1. op'[p] = op[p]
        BY <1>3, <1>7, <2>1, <3>2
      <4> QED BY <2>12, <4>1
    <3> QED BY <3>1, <3>2
  <2>15. DOMAIN pulls' = Versions /\ \A v \in Versions : pulls'[v] => topic'[v] # None
    <3>1. NewId # None
      BY CommitsAre DEF None
    <3> QED BY <1>7, <2>1, <3>1 DEF PreparationInv
  <2> QED BY <2>12, <2>13, <2>14, <2>15 DEF PreparationInv
<1> QED BY <1>5, <1>6, <1>7 DEF Push, next, Parents

LEMMA PreparationInvKept == PreparationInv /\ [PreparationNext]_preparationVars => PreparationInv'
<1> SUFFICES ASSUME PreparationInv, [PreparationNext]_preparationVars PROVE PreparationInv'
  OBVIOUS
<1>1. CASE Develop
  BY <1>1, DevelopKeepsPreparation
<1>2. CASE Release
  BY <1>2 DEF Release, PreparationInv
<1>3. ASSUME NEW v \in Versions, WorkOnTopic(v) PROVE PreparationInv'
  BY <1>3, WorkKeepsPreparation
<1>4. ASSUME NEW v \in Versions, NEW keep \in BOOLEAN,
             Merge(v, {main}, keep) \/ Merge(v, {main, topic[v]}, keep)
      PROVE  PreparationInv'
  BY <1>4, MergeKeepsPreparation
<1>5. ASSUME NEW o \in Operators,
             Fetch(o) \/ ListPulls(o) \/ ReadTopic(o) \/ Push(o) \/ CreatePull(o)
      PROVE  PreparationInv'
  BY <1>5, FetchKeepsPreparation, ListKeepsPreparation, ReadKeepsPreparation,
     PushKeepsPreparation, CreateKeepsPreparation
<1>6. ASSUME NEW o \in Operators, KillOperator(o) PROVE PreparationInv'
  BY <1>6, EndKeepsPreparation DEF KillOperator
<1>7. CASE UNCHANGED preparationVars
  BY <1>7 DEF preparationVars, remote, PreparationInv
<1> QED BY <1>1, <1>2, <1>3, <1>4, <1>5, <1>6, <1>7 DEF PreparationNext

(* Only the operator that pushes changes both its own state and a topic.      *)
LEMMA OnlyThePusher ==
  ASSUME PreparationInv, [PreparationNext]_preparationVars,
         NEW v \in Versions, NEW o \in Operators, Pushed(v, o)
  PROVE  /\ v = op[o].target
         /\ LET r == op[o]
                new == Commit(Prepared(r.head, r.target), Parents(r))
            IN  /\ topic[v] \in new.anc
                /\ commits' = Append(commits, new) /\ topic'[v] = NewId
<1>1. op[o].pc = "push" /\ op'[o] # op[o] /\ topic[v] # None /\ topic'[v] # topic[v]
  BY DEF Pushed
<1>2. PICK p \in Operators : Push(p)
  BY <1>1 DEF PreparationNext, Develop, Release, WorkOnTopic, Merge, Fetch, ListPulls, ReadTopic,
     CreatePull, KillOperator, preparationVars, remote
<1>3. op \in [Operators -> OperatorRecords] /\ topic \in [Versions -> {None} \cup 1..Len(commits)]
  BY DEF PreparationInv
<1>4. p = o
  BY <1>1, <1>2, <1>3 DEF Push, End, Goto
<1> DEFINE r == op[o]
           new == Commit(Prepared(r.head, r.target), Parents(r))
<1>5. /\ PushAccepted(topic[r.target], new) /\ commits' = Append(commits, new)
      /\ topic' = [topic EXCEPT ![r.target] = NewId]
  BY <1>1, <1>2, <1>4 DEF Push, remote, Parents
<1> HIDE DEF new
<1>6. v = r.target
  BY <1>1, <1>3, <1>5
<1>7. topic[v] \in new.anc
  BY <1>1, <1>5, <1>6 DEF PushAccepted
<1>8. topic'[v] = NewId
  BY <1>3, <1>5, <1>6
<1> QED BY <1>5, <1>6, <1>7, <1>8 DEF new

(* Whatever operators, people and merges do in between: a push by prepare     *)
(* loses nobody's work on a topic and brings no topic back to an older state *)
(* of the default branch.                                                   *)
THEOREM TopicsNeverRegress == PreparationSpec => TopicNeverRegresses
<1>1. PreparationInv /\ [PreparationNext]_preparationVars =>
         [\A v \in Versions, o \in Operators :
             Pushed(v, o) =>
                /\ Tree(topic[v]).extra \in {None} \cup Anc(main)
                /\ Tree(topic[v]).on <= commits'[topic'[v]].tree.on]_preparationVars
  <2> SUFFICES ASSUME PreparationInv, [PreparationNext]_preparationVars,
                      NEW v \in Versions, NEW o \in Operators, Pushed(v, o)
               PROVE  /\ Tree(topic[v]).extra \in {None} \cup Anc(main)
                      /\ Tree(topic[v]).on <= commits'[topic'[v]].tree.on
    OBVIOUS
  <2> DEFINE r == op[o]
             new == Commit(Prepared(r.head, r.target), Parents(r))
  <2>1. /\ v = r.target /\ topic[v] \in new.anc
        /\ commits' = Append(commits, new) /\ topic'[v] = NewId
    BY OnlyThePusher
  <2>2. r \in OperatorRecords /\ OperatorOK(r, commits, main, topic) /\ r.pc = "push"
    BY DEF PreparationInv, Pushed
  <2> HIDE DEF r
  <2>3. new.tree = Prepared(r.head, r.target) /\ new.anc = UNION {Anc(p) : p \in Parents(r)}
    BY DEF Commit
  <2> HIDE DEF new
  <2>4. /\ r.head \in 1..Len(commits)
        /\ Tree(topic[v]).on <= Tree(r.head).on
        /\ Tree(topic[v]).extra \in {None} \cup Anc(main)
    BY <2>1, <2>2, <2>3, PushFacts
  <2>5. commits'[topic'[v]] = new
    BY <2>1, CommitsAre
  <2>6. new.tree.on = Tree(r.head).on
    BY <2>3, <2>4, CommitsAre DEF Prepared, Trees
  <2> QED BY <2>4, <2>5, <2>6
<1> QED BY PreparationInvInit, PreparationInvKept, <1>1, PTL DEF PreparationSpec, TopicNeverRegresses
-----------------------------------------------------------------------------
(* Release notes: the four scans agree on what is a heading, an example or a *)
(* comment, as long as no fence follows "-->" on its line and no comment      *)
(* opens on the version's heading.                                          *)

Scanners == [fence : Nat, comment : BOOLEAN]

LEMMA LineFacts ==
  ASSUME NEW l \in Lines, ~FenceAfterComment, ~CommentOnHeading
  PROVE  /\ l \in AnyLine /\ l.lead \in {"none", "shut"} /\ l.body \in Bodies /\ l.tail \in BOOLEAN
         /\ l.lead = "shut" => Fence([l EXCEPT !.lead = "pad", !.tail = FALSE]) = 0
         /\ l.body = "version" => ~l.tail
<1>1. l \in AnyLine /\ l.lead # "pad"
  BY DEF Lines
<1>2. l.lead \in {"none", "shut"} /\ l.body \in Bodies /\ l.tail \in BOOLEAN
  BY <1>1 DEF AnyLine
<1>3. l.body = "version" => ~l.tail
  BY DEF Lines
<1>4. ASSUME l.lead = "shut" PROVE Fence([l EXCEPT !.lead = "pad", !.tail = FALSE]) = 0
  <2> DEFINE k == [l EXCEPT !.lead = "pad", !.tail = FALSE]
  <2>1. l.body \notin {"fence", "longfence"}
    BY <1>4 DEF Lines
  <2>2. k.lead = "pad" /\ k.body = l.body
    BY <1>1 DEF AnyLine
  <2> HIDE DEF k
  <2>3. Fence(k) = 0
    BY <2>1, <2>2 DEF Fence
  <2> QED BY <2>3 DEF k
<1> QED BY <1>1, <1>2, <1>3, <1>4

(* What the scanner hands on when it is outside a fence.                    *)
LEMMA MaskedFacts ==
  ASSUME NEW l \in Lines, ~FenceAfterComment, ~CommentOnHeading, NEW comment \in BOOLEAN,
         comment \/ Fence(l) = 0
  PROVE  LET m == Masked(l, comment)
         IN  m \in AnyLine /\ m.tail = FALSE /\ Fence(m) = 0
<1>1. CASE ~comment
  <2> DEFINE m == [l EXCEPT !.tail = FALSE]
  <2>1. m \in AnyLine /\ m.tail = FALSE /\ m.lead = l.lead /\ m.body = l.body
    BY LineFacts DEF AnyLine
  <2> HIDE DEF m
  <2>2. Fence(m) = Fence(l)
    BY <2>1 DEF Fence
  <2> QED BY <1>1, <2>1, <2>2 DEF Masked, m
<1>2. CASE comment /\ l.lead = "shut"
  <2> DEFINE m == [l EXCEPT !.lead = "pad", !.tail = FALSE]
  <2>1. m \in AnyLine /\ m.tail = FALSE
    BY LineFacts DEF AnyLine
  <2>2. Fence(m) = 0
    BY <1>2, LineFacts
  <2> HIDE DEF m
  <2> QED BY <1>2, <2>1, <2>2 DEF Masked, m
<1>3. CASE comment /\ l.lead # "shut"
  <2>1. Blank \in AnyLine /\ Blank.tail = FALSE /\ Fence(Blank) = 0
    BY DEF Blank, AnyLine, Bodies, Fence
  <2> QED BY <1>3, <2>1 DEF Masked
<1> QED BY <1>1, <1>2, <1>3

(* A second scan, of the masked text, repeats the first.                    *)
LEMMA ScansAgree ==
  ASSUME NEW l \in Lines, ~FenceAfterComment, ~CommentOnHeading,
         NEW s \in Scanners, s.fence > 0 => ~s.comment
  PROVE  LET r == Scan(s, l)
             q == Scan([fence |-> s.fence, comment |-> FALSE], r.line)
         IN  /\ q.line = r.line /\ q.allowed = r.allowed /\ q.guidance = r.guidance
             /\ q.next = [fence |-> r.next.fence, comment |-> FALSE]
             /\ r.next \in Scanners /\ (r.next.fence > 0 => ~r.next.comment)
             /\ r.line \in AnyLine
             /\ r.allowed \in BOOLEAN
             /\ r.allowed => r.line.tail = FALSE /\ r.next.fence = 0
             /\ Title(r) = "version" => r.next = Fresh
<1> DEFINE t == [fence |-> s.fence, comment |-> FALSE]
<1>1. l \in AnyLine /\ l.tail \in BOOLEAN /\ s.fence \in Nat /\ s.comment \in BOOLEAN
  BY LineFacts DEF Scanners
<1>2. t.fence = s.fence /\ t.comment = FALSE
  OBVIOUS
<1>3. CASE s.fence > 0
  <2>1. s = t
    BY <1>3 DEF Scanners
  <2> DEFINE r == Scan(s, l)
  <2>2. r.line = l /\ r.allowed = FALSE /\ r.next \in {Fresh, s}
    BY <1>3 DEF Scan
  <2>3. Fresh.fence = 0 /\ Fresh.comment = FALSE /\ Fresh \in Scanners
    BY DEF Fresh, Scanners
  <2>4. r.next = [fence |-> r.next.fence, comment |-> FALSE]
    BY <2>1, <2>2, <2>3 DEF Fresh, Scanners
  <2>5. Title(r) # "version"
    BY <2>2 DEF Title
  <2> HIDE DEF r, t
  <2>6. Scan(t, r.line) = r
    BY <2>1, <2>2 DEF r
  <2> QED BY <1>1, <1>3, <2>1, <2>2, <2>3, <2>4, <2>5, <2>6 DEF r, t
<1>4. CASE s.fence = 0 /\ ~s.comment /\ Fence(l) > 0
  <2>1. s = t
    BY <1>4 DEF Scanners
  <2> DEFINE r == Scan(s, l)
  <2>2. r.line = l /\ r.allowed = FALSE /\ r.next = [fence |-> Fence(l), comment |-> FALSE]
    BY <1>4 DEF Scan
  <2>3. Fence(l) \in Nat
    BY DEF Fence
  <2>4. r.next \in Scanners /\ r.next.fence = Fence(l) /\ r.next.comment = FALSE
    BY <2>2, <2>3 DEF Scanners
  <2>5. Title(r) # "version"
    BY <2>2 DEF Title
  <2> HIDE DEF r, t
  <2>6. Scan(t, r.line) = r
    BY <2>1, <2>2 DEF r
  <2> QED BY <1>1, <2>2, <2>4, <2>5, <2>6 DEF r, t
<1>5. CASE s.fence = 0 /\ (s.comment \/ Fence(l) = 0)
  <2> DEFINE r == Scan(s, l)
             m == Masked(l, s.comment)
  <2>1. r = [line |-> m, allowed |-> TRUE, guidance |-> TRUE,
             next |-> [fence |-> 0, comment |-> StaysComment(l, s.comment)]]
    BY <1>1, <1>5 DEF Scan
  <2>2. m \in AnyLine /\ m.tail = FALSE /\ Fence(m) = 0
    BY <1>1, <1>5, MaskedFacts
  <2>3. StaysComment(l, s.comment) \in BOOLEAN
    BY <1>1, Zenon DEF StaysComment
  <2>4. ASSUME m.lead # "shut", m.body = "version" PROVE StaysComment(l, s.comment) = FALSE
    <3>1. CASE ~s.comment
      <4>1. l.body = "version"
        BY <1>1, <2>4, <3>1 DEF Masked, AnyLine
      <4> QED BY <1>1, <3>1, <4>1, LineFacts DEF StaysComment
    <3>2. CASE s.comment /\ l.lead = "shut"
      <4>1. l.body = "version"
        BY <1>1, <2>4, <3>2 DEF Masked, AnyLine
      <4> QED BY <1>1, <3>2, <4>1, LineFacts DEF StaysComment
    <3>3. CASE s.comment /\ l.lead # "shut"
      BY <2>4, <3>3 DEF Masked, Blank
    <3> QED BY <1>1, <3>1, <3>2, <3>3
  <2> DEFINE stays == StaysComment(l, s.comment)
  <2> HIDE DEF m, stays
  <2>5. /\ r.line = m /\ r.allowed = TRUE /\ r.guidance = TRUE
        /\ r.next = [fence |-> 0, comment |-> stays] /\ r.next.fence = 0
    BY <2>1 DEF stays
  <2>6. r.next \in Scanners
    BY <2>3, <2>5 DEF Scanners, stays
  <2>7. Title(r) = "version" => r.next = Fresh
    BY <2>4, <2>5 DEF Title, Fresh, stays
  <2> HIDE DEF r
  <2>8. Masked(m, FALSE) = m
    <3>1. [m EXCEPT !.tail = FALSE] = m
      BY <2>2 DEF AnyLine
    <3> QED BY <3>1 DEF Masked
  <2>9. StaysComment(m, FALSE) = FALSE
    BY <2>2 DEF StaysComment
  <2>10. Scan(t, m) = [line |-> m, allowed |-> TRUE, guidance |-> TRUE, next |-> [fence |-> 0, comment |-> FALSE]]
    <3>1. t.fence = 0 /\ t.comment = FALSE /\ ~(0 > 0)
      BY <1>2, <1>5
    <3> HIDE DEF t
    <3> QED BY <2>2, <2>8, <2>9, <3>1 DEF Scan
  <2> DEFINE q == Scan(t, m)
  <2>11. q = [line |-> m, allowed |-> TRUE, guidance |-> TRUE, next |-> [fence |-> 0, comment |-> FALSE]]
    BY <2>10
  <2> HIDE DEF q
  <2>12. q.line = m /\ q.allowed = TRUE /\ q.guidance = TRUE /\ q.next = [fence |-> 0, comment |-> FALSE]
    BY <2>11
  <2>13. r.next.fence > 0 => ~r.next.comment
    BY <2>5
  <2>14. q = Scan([fence |-> s.fence, comment |-> FALSE], r.line)
    BY <2>5 DEF q
  <2> HIDE DEF t
  <2>15. /\ q.line = r.line /\ q.allowed = r.allowed /\ q.guidance = r.guidance
         /\ q.next = [fence |-> r.next.fence, comment |-> FALSE]
         /\ r.line \in AnyLine /\ r.allowed \in BOOLEAN /\ r.line.tail = FALSE
    BY <2>2, <2>5, <2>12
  <2>16. r = Scan(s, l)
    BY DEF r
  <2> QED BY <2>5, <2>6, <2>7, <2>13, <2>14, <2>15, <2>16
<1>6. s.fence > 0 \/ (s.fence = 0 /\ ~s.comment /\ Fence(l) > 0) \/ (s.fence = 0 /\ (s.comment \/ Fence(l) = 0))
  <2>1. Fence(l) \in Nat
    BY DEF Fence
  <2> QED BY <1>1, <2>1
<1> QED BY <1>3, <1>4, <1>5, <1>6
-----------------------------------------------------------------------------
(* What the second to fourth scans know follows from the first scan and from *)
(* what its reader has been shown.                                          *)
ScansMatch ==
    /\ plain = first
    /\ second = [fence |-> first.fence, comment |-> FALSE]
    /\ upgrade = "in" => third = second
ReaderMatches ==
    /\ upgrade = "before" <=> ~shown.seen
    /\ upgrade = "in" <=> shown.under
    /\ paragraph <=> shown.paragraph

NotesInv ==
    /\ first \in Scanners /\ (first.fence > 0 => ~first.comment)
    /\ section \in {"before", "in", "after"} /\ upgrade \in {"before", "in", "after"}
    /\ section = "in" => ScansMatch
    /\ section # "after" => ReaderMatches
    /\ section = "before" => upgrade = "before" /\ ~paragraph
    /\ guided => shown.guided
    /\ shown.underlined => underlined

\* The scans of one line, by name.
LEMMA ReadScans ==
  ASSUME NotesInv, ~FenceAfterComment, ~CommentOnHeading, NEW l \in Lines,
         NEW r, r = Scan(first, l)
  PROVE  /\ r.next \in Scanners /\ (r.next.fence > 0 => ~r.next.comment)
         /\ r.line \in AnyLine /\ r.allowed \in BOOLEAN
         /\ r.allowed => r.line.tail = FALSE /\ r.next.fence = 0
         /\ Title(r) = "version" => r.next = Fresh
         /\ section = "in" =>
               \A q : q = Scan(second, r.line) =>
                  /\ q.line = r.line /\ q.allowed = r.allowed /\ q.guidance = r.guidance
                  /\ q.next = [fence |-> r.next.fence, comment |-> FALSE]
                  /\ Title(q) = Title(r)
<1>1. first \in Scanners /\ (first.fence > 0 => ~first.comment)
  BY DEF NotesInv
<1> DEFINE p == Scan([fence |-> first.fence, comment |-> FALSE], r.line)
<1>2. /\ p.line = r.line /\ p.allowed = r.allowed /\ p.guidance = r.guidance
      /\ p.next = [fence |-> r.next.fence, comment |-> FALSE]
      /\ r.next \in Scanners /\ (r.next.fence > 0 => ~r.next.comment)
      /\ r.line \in AnyLine
      /\ r.allowed \in BOOLEAN
      /\ r.allowed => r.line.tail = FALSE /\ r.next.fence = 0
      /\ Title(r) = "version" => r.next = Fresh
  BY <1>1, ScansAgree
<1>3. section = "in" => Scan(second, r.line) = p
  BY DEF NotesInv, ScansMatch
<1> HIDE DEF p
<1>4. Title(p) = Title(r)
  BY <1>2 DEF Title
<1> QED BY <1>2, <1>3, <1>4

(* Guidance that release_notes accepts is text or an example's line.         *)
LEMMA GuidanceIsText ==
  ASSUME NEW r, r.line \in AnyLine, r.allowed \in BOOLEAN,
         r.allowed => r.line.tail = FALSE, Guidance(r)
  PROVE  /\ r.guidance
         /\ IF r.allowed THEN r.line.lead = "shut" \/ r.line.body \in {"text", "fence", "longfence"}
                         ELSE Shows(r.line)
<1>1. r.line.body \in Bodies
  BY DEF AnyLine
<1>2. CASE ~r.allowed
  BY <1>2 DEF Guidance
<1>3. CASE r.allowed /\ r.line.lead # "shut"
  <2>1. r.line.body # "blank" /\ r.line.body # "rule" /\ Level(r.line.body) = 9
    BY <1>3 DEF Guidance, Shows
  <2>2. r.line.body \notin {"version", "other", "upgrade", "heading"}
    BY <2>1 DEF Level
  <2> QED BY <1>1, <1>3, <2>1, <2>2 DEF Guidance, Bodies
<1>4. CASE r.allowed /\ r.line.lead = "shut"
  BY <1>4 DEF Guidance
<1> QED BY <1>2, <1>3, <1>4

(* A paragraph is open for _release_has_setext_heading exactly when a reader *)
(* sees text.                                                               *)
LEMMA ParagraphIsText ==
  ASSUME NEW l \in Lines, NEW r, r.line \in AnyLine, r.allowed \in BOOLEAN,
         r.allowed => r.line.tail = FALSE, paragraph <=> shown.paragraph
  PROVE  Paragraph(r, l) <=> Shown(r, l).paragraph
<1> DEFINE text == r.line.lead = "shut" \/ r.line.body \in {"text", "fence", "longfence"}
           hidden == ~Shows(r.line) /\ Shows(l)
<1>1. Shown(r, l).paragraph = (IF ~r.allowed THEN FALSE ELSE IF hidden THEN shown.paragraph ELSE text)
  BY DEF Shown
<1>2. r.line.body \in Bodies /\ r.line.lead \in {"none", "shut", "pad"}
  BY DEF AnyLine
<1>3. CASE ~r.allowed
  BY <1>1, <1>3 DEF Paragraph
<1>4. CASE r.allowed /\ r.line.lead = "shut"
  <2>1. Shows(r.line) /\ Title(r) = "text"
    BY <1>4 DEF Shows, Title
  <2>2. Title(r) # "rule" /\ Level(Title(r)) = 9
    BY <2>1 DEF Level
  <2> QED BY <1>1, <1>4, <2>1, <2>2 DEF Paragraph
<1>5. CASE r.allowed /\ r.line.lead # "shut"
  <2>1. Title(r) = r.line.body /\ (Shows(r.line) <=> r.line.body # "blank")
    BY <1>5 DEF Shows, Title
  <2>2. Title(r) # "rule" /\ Level(Title(r)) = 9 /\ r.line.body # "blank"
           <=> r.line.body \in {"text", "fence", "longfence"}
    BY <1>2, <2>1 DEF Level, Bodies
  <2>3. text <=> r.line.body \in {"text", "fence", "longfence"}
    BY <1>5
  <2> HIDE DEF text
  <2>4. CASE hidden
    <3>1. Paragraph(r, l) <=> paragraph
      BY <1>5, <2>4 DEF Paragraph
    <3> QED BY <1>1, <1>5, <2>4, <3>1
  <2>5. CASE ~hidden
    <3>1. Paragraph(r, l) <=> text
      BY <1>5, <2>1, <2>2, <2>3, <2>5 DEF Paragraph
    <3> QED BY <1>1, <1>5, <2>5, <3>1
  <2> QED BY <2>4, <2>5
<1> QED BY <1>3, <1>4, <1>5

LEMMA LevelFacts ==
  ASSUME NEW title
  PROVE  /\ Level(title) \in {2, 3, 9}
         /\ title = "upgrade" => Level(title) = 3
         /\ title = "version" => Level(title) = 2
BY DEF Level

(* A line of the section.                                                   *)
LEMMA NotesBody ==
  ASSUME NotesInv, ~FenceAfterComment, ~CommentOnHeading, NEW l \in Lines, Read(l),
         section = "in", Section(Scan(first, l)) = "in"
  PROVE  NotesInv'
<1> DEFINE r == Scan(first, l)
           masked == Scan(second, r.line)
           under == Scan(third, masked.line)
           raw == Scan(plain, l)
           more == IF Level(Title(masked)) > 3 THEN upgrade
                   ELSE IF upgrade = "before" /\ Title(masked) = "upgrade" THEN "in"
                   ELSE IF upgrade = "in" THEN "after" ELSE upgrade
<1>1. /\ first' = r.next /\ section' = "in" /\ second' = masked.next
      /\ upgrade' = more
      /\ third' = (IF upgrade = "in" THEN under.next ELSE Fresh)
      /\ guided' <=> guided \/ (upgrade = "in" /\ more = "in" /\ Guidance(under))
      /\ plain' = raw.next
      /\ paragraph' <=> Paragraph(raw, l)
      /\ underlined' <=> underlined \/ (paragraph /\ raw.allowed /\ Title(raw) = "rule")
      /\ shown' = Shown(r, l)
  <2> DEFINE body == section = "in" /\ Section(r) = "in"
             begins == section = "before" /\ Section(r) = "in"
  <2>1. body /\ Section(r) = "in"
    OBVIOUS
  <2>2. /\ first' = r.next /\ section' = Section(r)
        /\ second' = IF body THEN masked.next ELSE IF begins THEN Fresh ELSE second
        /\ upgrade' = IF body THEN more ELSE upgrade
        /\ third' = IF body /\ upgrade = "in" THEN under.next ELSE Fresh
        /\ guided' = (guided \/ (body /\ upgrade = "in" /\ more = "in" /\ Guidance(under)))
        /\ plain' = IF body THEN raw.next ELSE IF begins THEN Fresh ELSE plain
        /\ paragraph' = (body /\ Paragraph(raw, l))
        /\ underlined' = (underlined \/ (/\ body /\ paragraph
                                         /\ raw.allowed /\ Title(raw) = "rule"))
        /\ shown' = IF body THEN Shown(r, l) ELSE shown
    BY Zenon DEF Read
  <2> HIDE DEF r, masked, under, raw, more, body, begins
  <2> QED BY <2>1, <2>2
<1>2. raw = r
  BY DEF NotesInv, ScansMatch
<1>3. r = Scan(first, l) /\ masked = Scan(second, r.line)
  OBVIOUS
<1>4. /\ r.next \in Scanners /\ (r.next.fence > 0 => ~r.next.comment)
      /\ r.line \in AnyLine /\ r.allowed \in BOOLEAN
      /\ r.allowed => r.line.tail = FALSE /\ r.next.fence = 0
      /\ masked.line = r.line /\ masked.allowed = r.allowed /\ masked.guidance = r.guidance
      /\ masked.next = [fence |-> r.next.fence, comment |-> FALSE]
      /\ Title(masked) = Title(r)
  <2> HIDE DEF r, masked, under, raw
  <2>1. /\ r.next \in Scanners /\ (r.next.fence > 0 => ~r.next.comment)
        /\ r.line \in AnyLine /\ r.allowed \in BOOLEAN
        /\ r.allowed => r.line.tail = FALSE /\ r.next.fence = 0
    BY <1>3, ReadScans
  <2>2. \A q : q = Scan(second, r.line) =>
            /\ q.line = r.line /\ q.allowed = r.allowed /\ q.guidance = r.guidance
            /\ q.next = [fence |-> r.next.fence, comment |-> FALSE]
            /\ Title(q) = Title(r)
    BY <1>3, ReadScans
  <2> QED BY <1>3, <2>1, <2>2
<1>5. upgrade = "in" => under = masked
  BY <1>4 DEF NotesInv, ScansMatch
<1>6. /\ upgrade = "before" <=> ~shown.seen
      /\ upgrade = "in" <=> shown.under
      /\ paragraph <=> shown.paragraph
      /\ upgrade \in {"before", "in", "after"}
      /\ guided => shown.guided
      /\ shown.underlined => underlined
  BY DEF NotesInv, ReaderMatches
<1> DEFINE text == r.line.lead = "shut" \/ r.line.body \in {"text", "fence", "longfence"}
<1>7. /\ shown'.under = (IF Level(Title(r)) > 3 THEN shown.under ELSE Title(r) = "upgrade" /\ ~shown.seen)
      /\ shown'.seen = (shown.seen \/ Title(r) = "upgrade")
      /\ shown'.guided = (shown.guided \/ (/\ shown.under /\ r.guidance
                                           /\ IF r.allowed THEN text ELSE Shows(r.line)))
      /\ shown'.underlined = (shown.underlined \/ (r.allowed /\ shown.paragraph /\ Title(r) = "rule"))
  BY <1>1 DEF Shown
<1>8. shown'.paragraph <=> paragraph'
  BY <1>1, <1>2, <1>4, <1>6, ParagraphIsText
<1> HIDE DEF r, masked, under, raw
<1>9. more = (IF Level(Title(r)) > 3 THEN upgrade
              ELSE IF upgrade = "before" /\ Title(r) = "upgrade" THEN "in"
              ELSE IF upgrade = "in" THEN "after" ELSE upgrade)
  BY <1>4
<1> HIDE DEF more
<1>10. /\ more \in {"before", "in", "after"}
       /\ more = "before" <=> ~shown'.seen
       /\ more = "in" <=> shown'.under
  <2> DEFINE level == Level(Title(r))
  <2>1. level \in {2, 3, 9} /\ (Title(r) = "upgrade" => level = 3)
    BY LevelFacts
  <2> HIDE DEF level
  <2>2. CASE level > 3
    <3>1. more = upgrade /\ Title(r) # "upgrade"
      BY <1>9, <2>1, <2>2 DEF level
    <3>2. shown'.under <=> shown.under
      BY <1>7, <2>2 DEF level
    <3>3. shown'.seen <=> shown.seen
      BY <1>7, <3>1
    <3> QED BY <1>6, <3>1, <3>2, <3>3
  <2>3. CASE ~(level > 3)
    <3>1. more = (IF upgrade = "before" /\ Title(r) = "upgrade" THEN "in"
                  ELSE IF upgrade = "in" THEN "after" ELSE upgrade)
      BY <1>9, <2>3 DEF level
    <3>2. shown'.under <=> Title(r) = "upgrade" /\ ~shown.seen
      BY <1>7, <2>3 DEF level
    <3>3. shown'.seen <=> shown.seen \/ Title(r) = "upgrade"
      BY <1>7
    <3> QED BY <1>6, <3>1, <3>2, <3>3
  <2> QED BY <2>2, <2>3
<1>11. guided' => shown'.guided
  <2> SUFFICES ASSUME guided' PROVE shown'.guided
    OBVIOUS
  <2>1. CASE guided
    BY <1>6, <1>7, <2>1
  <2>2. CASE upgrade = "in" /\ Guidance(under)
    <3>1. Guidance(masked)
      BY <1>5, <2>2
    <3>2. /\ masked.guidance
          /\ IF masked.allowed THEN masked.line.lead = "shut" \/ masked.line.body \in {"text", "fence", "longfence"}
                               ELSE Shows(masked.line)
      BY <1>4, <3>1, GuidanceIsText
    <3> QED BY <1>4, <1>6, <1>7, <2>2, <3>2
  <2> QED BY <1>1, <2>1, <2>2
<1>12. shown'.underlined => underlined'
  BY <1>1, <1>2, <1>6, <1>7
<1>13. ScansMatch'
  <2>1. plain' = first' /\ second' = [fence |-> first'.fence, comment |-> FALSE]
    BY <1>1, <1>2, <1>4
  <2>2. ASSUME upgrade' = "in" PROVE third' = second'
    <3>1. CASE upgrade = "in"
      BY <1>1, <1>5, <3>1
    <3>2. CASE upgrade # "in"
      <4>1. Title(r) = "upgrade"
        BY <1>1, <1>9, <2>2, <3>2
      <4>2. r.allowed
        BY <4>1 DEF Title
      <4> QED BY <1>1, <1>4, <3>2, <4>2 DEF Fresh
    <3> QED BY <3>1, <3>2
  <2> QED BY <2>1, <2>2 DEF ScansMatch
<1>14. ReaderMatches'
  BY <1>1, <1>8, <1>10 DEF ReaderMatches
<1> QED BY <1>1, <1>4, <1>10, <1>11, <1>12, <1>13, <1>14 DEF NotesInv

(* Any other line, the version's heading included.                          *)
LEMMA NotesOther ==
  ASSUME NotesInv, ~FenceAfterComment, ~CommentOnHeading, NEW l \in Lines, Read(l),
         ~(section = "in" /\ Section(Scan(first, l)) = "in")
  PROVE  NotesInv'
<1> DEFINE r == Scan(first, l)
<1>1. /\ first' = r.next /\ section' = Section(r) /\ upgrade' = upgrade
      /\ section = "before" /\ Section(r) = "in" => second' = Fresh /\ plain' = Fresh
      /\ third' = Fresh
      /\ guided' = (guided \/ FALSE) /\ paragraph' = FALSE
      /\ underlined' = (underlined \/ FALSE) /\ shown' = shown
  BY DEF Read
<1>2. /\ r.next \in Scanners /\ (r.next.fence > 0 => ~r.next.comment)
      /\ Title(r) = "version" => r.next = Fresh
  BY ReadScans
<1>3. section \in {"before", "in", "after"} /\ upgrade \in {"before", "in", "after"}
  BY DEF NotesInv
<1> HIDE DEF r
<1>4. /\ section' \in {"before", "in", "after"}
      /\ section' = "in" => section = "before" /\ Title(r) = "version"
      /\ section' # "after" => section = "before"
  BY <1>1, <1>3, LevelFacts DEF Section, r
<1>5. section' = "in" => ScansMatch'
  <2> SUFFICES ASSUME section' = "in" PROVE ScansMatch'
    OBVIOUS
  <2>1. first' = Fresh /\ second' = Fresh /\ plain' = Fresh /\ third' = Fresh
    BY <1>1, <1>2, <1>4
  <2>2. Fresh = [fence |-> Fresh.fence, comment |-> FALSE]
    BY DEF Fresh
  <2> QED BY <2>1, <2>2 DEF ScansMatch
<1>6. section' # "after" => ReaderMatches'
  BY <1>1, <1>4 DEF ReaderMatches, NotesInv
<1>7. section' = "before" => upgrade' = "before" /\ ~paragraph'
  BY <1>1, <1>4 DEF NotesInv
<1>8. (guided' => shown'.guided) /\ (shown'.underlined => underlined')
  BY <1>1 DEF NotesInv
<1> QED BY <1>1, <1>2, <1>3, <1>4, <1>5, <1>6, <1>7, <1>8 DEF NotesInv

(* A changelog whose "-->" never precedes a fence on its line, and whose      *)
(* version heading opens no comment: the notes release_notes accepts have    *)
(* visible guidance under "### Upgrade" and no underlined heading, however    *)
(* long the changelog and wherever its examples and comments are.            *)
THEOREM NotesAlwaysReadable ==
  ASSUME ~FenceAfterComment, ~CommentOnHeading
  PROVE  NotesSpec => []NotesAreReadable
<1>1. NotesInit => NotesInv
  BY DEF NotesInit, NotesInv, ReaderMatches, Scanners, Fresh, Nothing
<1>2. NotesInv /\ [NotesNext]_notesVars => NotesInv'
  <2> SUFFICES ASSUME NotesInv, [NotesNext]_notesVars PROVE NotesInv'
    OBVIOUS
  <2>1. CASE UNCHANGED notesVars
    BY <2>1 DEF notesVars, NotesInv, ScansMatch, ReaderMatches
  <2>2. ASSUME NEW l \in Lines, Read(l) PROVE NotesInv'
    BY <2>2, NotesBody, NotesOther
  <2> QED BY <2>1, <2>2 DEF NotesNext
<1>3. NotesInv => NotesAreReadable
  BY DEF NotesInv, NotesAreReadable, GuidanceIsVisible, Accepted
<1> QED BY <1>1, <1>2, <1>3, PTL DEF NotesSpec

=============================================================================
