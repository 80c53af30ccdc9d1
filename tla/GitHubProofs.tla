---------------------------- MODULE GitHubProofs ----------------------------
(***************************************************************************)
(* What is proved of the release scripts' dealings with GitHub, for any     *)
(* number of files, releases, pages, attempts and interventions by others:  *)
(* the transaction, one read, the read-back of an inventory and the wait    *)
(* for a run's gate.                                                        *)
(***************************************************************************)
EXTENDS ReleaseTransaction, ApiReads, InventoryReadback, RunGate,
        FiniteSetTheorems, SequenceTheorems, TLAPS

-----------------------------------------------------------------------------
(* ReleaseTransaction.                                                      *)

(* Only what the POST made has the request's fields or is worked on, and     *)
(* there is nothing of the sort before the POST.                            *)
OwnWork ==
    /\ exact \subseteq mine /\ id \subseteq mine
    /\ \A i, j \in mine : i = j
    /\ pc \in {"absent", "tag", "create"} => mine = {}

(* What the last checks established stays until others disturb it.           *)
ChecksHold ==
    /\ pc \in {"retag", "patch"} /\ ~disturbed => \A i \in id : InventoryMatches(i)
    /\ pc = "patch" /\ ~disturbed => tag = "ours"

TransactionIInv == TypeOK /\ OwnWork /\ ChecksHold

LEMMA AtMostOne ==
    ASSUME NEW S, \A i, j \in S : i = j
    PROVE  IsFiniteSet(S) /\ Cardinality(S) \in Nat /\ Cardinality(S) <= 1
<1>1. CASE S = {}
  BY <1>1, FS_EmptySet
<1>2. CASE S # {}
  <2>1. PICK i \in S : TRUE
    BY <1>2
  <2>2. S = {i}
    BY <2>1
  <2> QED BY <2>2, FS_Singleton
<1> QED BY <1>1, <1>2

LEMMA TransactionInit == Init => TransactionIInv
<1> SUFFICES ASSUME Init PROVE TransactionIInv
  OBVIOUS
<1>1. Cardinality(id) <= 1
  BY AtMostOne DEF Init
<1>2. TypeOK
  <2>1. NoAssets \in [AllFiles -> {"none", "good", "bad"}]
    BY DEF NoAssets
  <2>2. disturbed \in BOOLEAN
    BY Zenon DEF Init
  <2>3. assets \in [Ids -> [AllFiles -> {"none", "good", "bad"}]]
    BY <2>1 DEF Init
  <2> QED BY <1>1, <2>2, <2>3, TransactionAssumption DEF Init, TypeOK, Steps
<1>3. OwnWork /\ ChecksHold
  BY DEF Init, OwnWork, ChecksHold
<1> QED BY <1>2, <1>3 DEF TransactionIInv

(* Steps of others.                                                         *)
LEMMA TransactionForeign ==
    ASSUME TransactionIInv, NEW i \in Ids, NEW f \in AllFiles,
           ForeignRelease(i) \/ ForeignEdit(i) \/ ForeignAsset(i, f)
    PROVE  TransactionIInv'
<1>1. foreign' \in 0..MaxForeign
  BY TransactionAssumption
  DEF TransactionIInv, TypeOK, Foreign, ForeignRelease, ForeignEdit, ForeignAsset
<1>2. disturbed' \in BOOLEAN
  BY Zenon DEF Foreign, ForeignRelease, ForeignEdit, ForeignAsset
<1>3. TypeOK'
  BY <1>1, <1>2
  DEF TransactionIInv, TypeOK, Foreign, ForeignRelease, ForeignEdit, ForeignAsset
<1>4. OwnWork'
  BY DEF TransactionIInv, TypeOK, OwnWork, Foreign, ForeignRelease, ForeignEdit,
         ForeignAsset
<1>5. ChecksHold'
  BY DEF TransactionIInv, ChecksHold, Foreign, ForeignRelease, ForeignEdit,
         ForeignAsset
<1> QED BY <1>3, <1>4, <1>5 DEF TransactionIInv

LEMMA TransactionTag ==
    ASSUME TransactionIInv, ForeignTag \/ CreateTag
    PROVE  TransactionIInv'
<1>1. CASE ForeignTag
  <2>1. disturbed' \in BOOLEAN /\ (pc = "patch" => disturbed')
    BY <1>1, Zenon DEF ForeignTag, Foreign
  <2>2. TypeOK'
    BY <1>1, <2>1, TransactionAssumption DEF ForeignTag, Foreign, TransactionIInv, TypeOK
  <2>3. OwnWork'
    BY <1>1 DEF ForeignTag, Foreign, TransactionIInv, OwnWork
  <2>4. ChecksHold'
    BY <1>1 DEF ForeignTag, Foreign, TransactionIInv, ChecksHold
  <2> QED BY <2>2, <2>3, <2>4 DEF TransactionIInv
<1>2. CASE CreateTag
  BY <1>2 DEF CreateTag, Goto, TransactionIInv, TypeOK, OwnWork, ChecksHold, Steps
<1> QED BY <1>1, <1>2

(* Steps that only read, up to the last check before the PATCH.              *)
LEMMA TransactionReads ==
    ASSUME TransactionIInv, Fails \/ EnsureAbsent \/ Inventory \/ Retag
    PROVE  TransactionIInv'
<1>1. TypeOK'
  BY DEF TransactionIInv, TypeOK, Fails, EnsureAbsent, Inventory, Retag, Goto, server,
         Steps, Readback
<1>2. OwnWork'
  BY DEF TransactionIInv, OwnWork, Fails, EnsureAbsent, Inventory, Retag, Goto, server
<1>3. ChecksHold'
  BY DEF TransactionIInv, ChecksHold, Fails, EnsureAbsent, Inventory, Retag, Goto, server,
         InventoryMatches
<1> QED BY <1>1, <1>2, <1>3 DEF TransactionIInv

LEMMA TransactionReadback ==
    ASSUME TransactionIInv, ReadbackStep
    PROVE  TransactionIInv'
<1>1. UNCHANGED <<server, pending, foreign, disturbed>>
  BY DEF ReadbackStep, Goto
<1>2. pc \in Readback /\ pc' \in Readback \cup {"upload", "failed"}
  BY DEF ReadbackStep, Goto, Readback
<1>3. listed' \subseteq Ids
  BY DEF ReadbackStep, TransactionIInv, TypeOK, Named
<1>4. id' = id \/ \E i \in Ids : i \in exact /\ id' = {i}
  BY DEF ReadbackStep, Checked
<1>5. OwnWork'
  BY <1>1, <1>2, <1>4 DEF TransactionIInv, OwnWork, server, Readback
<1>6. Cardinality(id') <= 1 /\ id' \subseteq Ids
  BY <1>4, <1>5, AtMostOne DEF TransactionIInv, TypeOK, OwnWork
<1>7. TypeOK'
  BY <1>1, <1>2, <1>3, <1>6 DEF TransactionIInv, TypeOK, server, Steps
<1>8. ChecksHold'
  BY <1>2 DEF ChecksHold, Readback
<1> QED BY <1>5, <1>7, <1>8 DEF TransactionIInv

LEMMA TransactionCreate ==
    ASSUME TransactionIInv, NEW learns,
           (\E i \in Ids : CreateDraft(i, learns)) \/ CreateRefused(learns)
    PROVE  TransactionIInv'
<1>1. ASSUME NEW i \in Ids, CreateDraft(i, learns)
      PROVE  TransactionIInv'
  <2>1. mine = {} /\ exact = {} /\ id = {}
    BY <1>1 DEF CreateDraft, TransactionIInv, OwnWork
  <2>2. mine' = {i} /\ exact' = {i} /\ id' \subseteq {i}
    BY <1>1, <2>1 DEF CreateDraft
  <2>3. pc' \in {"upload", "confirm1", "failed"} /\ UNCHANGED <<foreign, disturbed>>
    BY <1>1 DEF CreateDraft, Goto
  <2>4. Cardinality(id') <= 1
    BY <2>2, AtMostOne
  <2>5. TypeOK'
    BY <1>1, <2>2, <2>3, <2>4 DEF CreateDraft, TransactionIInv, TypeOK, Steps, Readback
  <2>6. OwnWork' /\ ChecksHold'
    BY <2>2, <2>3 DEF OwnWork, ChecksHold
  <2> QED BY <2>5, <2>6 DEF TransactionIInv
<1>2. CASE CreateRefused(learns)
  BY <1>2 DEF CreateRefused, Goto, server, TransactionIInv, TypeOK, OwnWork, ChecksHold,
              Steps, Readback
<1> QED BY <1>1, <1>2

LEMMA TransactionUpload ==
    ASSUME TransactionIInv, NEW f \in Files, Upload(f)
    PROVE  TransactionIInv'
<1>1. UNCHANGED <<tag, release, mine, exact, id, listed, foreign, disturbed>>
  BY DEF Upload, Goto
<1>2. pc = "upload" /\ pc' \in {"inventory", "upload", "failed"} /\ pending' \subseteq pending
  BY DEF Upload, Goto
<1>3. assets' \in [Ids -> [AllFiles -> {"none", "good", "bad"}]]
  <2>1. assets' = assets \/ \E i \in Ids, a \in {"good", "bad"} : assets' = [assets EXCEPT ![i][f] = a]
    BY DEF Upload, TransactionIInv, TypeOK
  <2>2. f \in AllFiles
    BY DEF AllFiles
  <2> QED BY <2>1, <2>2 DEF TransactionIInv, TypeOK
<1>4. TypeOK'
  BY <1>1, <1>2, <1>3 DEF TransactionIInv, TypeOK, Steps
<1>5. OwnWork' /\ ChecksHold'
  BY <1>1, <1>2 DEF TransactionIInv, OwnWork, ChecksHold
<1> QED BY <1>4, <1>5 DEF TransactionIInv

LEMMA TransactionPatch ==
    ASSUME TransactionIInv, Patch
    PROVE  TransactionIInv'
<1>1. TypeOK'
  BY DEF Patch, Goto, TransactionIInv, TypeOK, Steps
<1>2. OwnWork' /\ ChecksHold'
  BY DEF Patch, Goto, TransactionIInv, OwnWork, ChecksHold
<1> QED BY <1>1, <1>2 DEF TransactionIInv

LEMMA TransactionInductive == Spec => []TransactionIInv
<1>1. TransactionIInv /\ [Next]_vars => TransactionIInv'
  <2> SUFFICES ASSUME TransactionIInv, [Next]_vars PROVE TransactionIInv'
    OBVIOUS
  <2>1. CASE Next
    <3>1. Extra \in AllFiles
      BY DEF AllFiles
    <3>2. ASSUME NEW i \in Ids, ForeignRelease(i) \/ ForeignEdit(i) PROVE TransactionIInv'
      BY <3>1, <3>2, TransactionForeign
    <3>3. ASSUME NEW i \in Ids, NEW f \in AllFiles, ForeignAsset(i, f) PROVE TransactionIInv'
      BY <3>3, TransactionForeign
    <3>4. ForeignTag \/ CreateTag => TransactionIInv'
      BY TransactionTag
    <3>5. Fails \/ EnsureAbsent \/ Inventory \/ Retag => TransactionIInv'
      BY TransactionReads
    <3>6. ASSUME NEW i \in Ids, NEW learns, CreateDraft(i, learns) PROVE TransactionIInv'
      BY <3>6, TransactionCreate
    <3>7. ASSUME NEW learns, CreateRefused(learns) PROVE TransactionIInv'
      BY <3>7, TransactionCreate
    <3>8. ReadbackStep \/ Patch => TransactionIInv'
      BY TransactionReadback, TransactionPatch
    <3>9. ASSUME NEW f \in Files, Upload(f) PROVE TransactionIInv'
      BY <3>9, TransactionUpload
    <3> QED BY <2>1, <3>2, <3>3, <3>4, <3>5, <3>6, <3>7, <3>8, <3>9 DEF Next
  <2>2. CASE UNCHANGED vars
    BY <2>2 DEF vars, server, TransactionIInv, TypeOK, OwnWork, ChecksHold, InventoryMatches
  <2> QED BY <2>1, <2>2
<1> QED BY <1>1, TransactionInit, PTL DEF Spec

(* Every variable of a publication keeps its type.                           *)
THEOREM TransactionTypeCorrect == Spec => []TypeOK
BY TransactionInductive, PTL DEF TransactionIInv

(* The publisher works only on the release its own POST made, and makes at   *)
(* most one, whatever answers are lost and whatever others do.               *)
THEOREM WorksOnOwnDraft == Spec => []OneOwnDraft
<1>1. TransactionIInv => OneOwnDraft
  BY AtMostOne DEF TransactionIInv, OwnWork, OneOwnDraft
<1> QED BY <1>1, TransactionInductive, PTL

(* What becomes public in one step is what the last checks saw.              *)
LEMMA PatchIsExact ==
    ASSUME TransactionIInv, [Next]_vars, NEW i \in Ids,
           release[i] # "public", release'[i] = "public", ~disturbed
    PROVE  /\ \A f \in Files : assets[i][f] = "good"
           /\ assets[i][Extra] = "none" /\ tag = "ours"
<1>1. Patch /\ i \in id
  <2>1. release' # release
    OBVIOUS
  <2>2. ASSUME NEW j \in Ids, ForeignRelease(j) PROVE FALSE
    BY <2>2 DEF ForeignRelease, TransactionIInv, TypeOK
  <2>3. ASSUME NEW j \in Ids, NEW learns, CreateDraft(j, learns) PROVE FALSE
    BY <2>3 DEF CreateDraft, TransactionIInv, TypeOK
  <2>4. ~UNCHANGED vars
    BY <2>1 DEF vars, server
  <2>5. Patch
    BY <2>1, <2>2, <2>3, <2>4
    DEF Next, ForeignEdit, ForeignAsset, ForeignTag, Fails, EnsureAbsent, CreateTag,
        CreateRefused, ReadbackStep, Upload, Inventory, Retag, server
  <2> QED BY <2>5 DEF Patch, TransactionIInv, TypeOK
<1>2. InventoryMatches(i) /\ tag = "ours"
  BY <1>1 DEF Patch, TransactionIInv, ChecksHold
<1>3. Extra \in AllFiles /\ Files \subseteq AllFiles
  BY DEF AllFiles
<1> QED BY <1>2, <1>3, TransactionAssumption DEF InventoryMatches

(* Unless others interfere after the last check, what becomes public is the  *)
(* staged files, each with its bytes, under the tag on the released commit.  *)
THEOREM PublicAlwaysExact == Spec => PublicIsExact
<1>1. TransactionIInv /\ [Next]_vars =>
        [\A i \in Ids : release[i] # "public" /\ release'[i] = "public" /\ ~disturbed
           => /\ \A f \in Files : assets[i][f] = "good"
              /\ assets[i][Extra] = "none" /\ tag = "ours"]_vars
  BY PatchIsExact
<1> QED BY <1>1, TransactionInductive, PTL DEF Spec, PublicIsExact

-----------------------------------------------------------------------------
(* ApiReads.                                                                *)

(* What an attempt leaves behind, with its pages as a sequence.              *)
LEMMA HeadsAreSequences ==
    ASSUME NEW o \in Outputs
    PROVE  /\ o.heads \in Seq(Status) /\ o.cut \in BOOLEAN
           /\ \A i \in DOMAIN o.heads : i < Len(o.heads) => Ok(o.heads[i])
<1>1. o \in Output /\ \A i \in DOMAIN o.heads : i < Len(o.heads) => Ok(o.heads[i])
  BY DEF Outputs
<1>2. PICK n \in 0..Pages : o.heads \in [1..n -> Status]
  BY <1>1 DEF Output
<1> QED BY <1>1, <1>2, ReadsAssumption DEF Output

(* The answer an attempt gives, when it gives one, is sound.                 *)
LEMMA AttemptIsSound == Attempt => AnswersAreSound'
<1> SUFFICES ASSUME Attempt PROVE AnswersAreSound'
  OBVIOUS
<1> DEFINE size == IF paginated THEN Pages ELSE 1
<1>1. PICK o \in Outputs :
        /\ Possible(o)
        /\ seen' = o
        /\ readOutcome' = IF Retryable(o) /\ MayRetry(tries') THEN "reading"
                          ELSE IF Complete(o) THEN "value"
                          ELSE IF Missing(o) THEN "absent" ELSE "raised"
  BY DEF Attempt
<1>2. UNCHANGED <<paginated, exists>>
  BY DEF Attempt
<1>3. /\ o.heads \in Seq(Status)
      /\ \A i \in DOMAIN o.heads : i < Len(o.heads) => Ok(o.heads[i])
  BY HeadsAreSequences
<1>4. ASSUME readOutcome' = "value"
      PROVE  /\ ~o.cut /\ Len(o.heads) = size
             /\ \A i \in DOMAIN o.heads : Ok(o.heads[i])
  <2>1. o.code = 0 /\ Ok(Last(o.heads))
    BY <1>1, <1>4 DEF Complete, HttpStatus
  <2>2. ~o.cut
    BY <2>1 DEF Outputs
  <2>3. Len(o.heads) = size
    BY <1>1, <2>1 DEF Possible
  <2>4. \A i \in DOMAIN o.heads : Ok(o.heads[i])
    <3> SUFFICES ASSUME NEW i \in DOMAIN o.heads PROVE Ok(o.heads[i])
      OBVIOUS
    <3>1. i \in 1..Len(o.heads)
      BY <1>3
    <3> QED BY <1>3, <2>1, <3>1 DEF Last
  <2> QED BY <2>2, <2>3, <2>4
<1>5. ASSUME readOutcome' = "absent"
      PROVE  ~exists /\ o.heads # <<>> /\ Last(o.heads) = 404
  <2>1. o.heads # <<>> /\ Last(o.heads) = 404
    BY <1>1, <1>5 DEF Missing, Framed, HttpStatus
  <2>2. Len(o.heads) \in DOMAIN o.heads
    BY <1>3, <2>1
  <2>3. ~exists
    BY <1>1, <2>1, <2>2 DEF Possible, Last
  <2> QED BY <2>1, <2>3
<1> QED BY <1>1, <1>2, <1>4, <1>5 DEF AnswersAreSound

(* A read returns one whole response or an error, and reports absence only   *)
(* of what the server said is missing, for any number of attempts and pages. *)
THEOREM ReadsAnswerSoundly == ReadSpec => []AnswersAreSound
<1>1. ReadInit => AnswersAreSound
  BY DEF ReadInit, AnswersAreSound
<1>2. AnswersAreSound /\ [ReadNext]_readVars => AnswersAreSound'
  <2>1. Change => AnswersAreSound'
    BY DEF Change, AnswersAreSound
  <2>2. AnswersAreSound /\ UNCHANGED readVars => AnswersAreSound'
    BY DEF readVars, AnswersAreSound
  <2> QED BY <2>1, <2>2, AttemptIsSound DEF ReadNext
<1> QED BY <1>1, <1>2, PTL DEF ReadSpec
-----------------------------------------------------------------------------
(* RunGate.                                                                 *)

(* What a listing of gate jobs says about this attempt: a fresh success      *)
(* executed, and the first attempt has nothing to carry over.                *)
Trustworthy(g) ==
    /\ \A j \in g : j.fresh /\ j.status = "success" => myAttempt \in executed
    /\ myAttempt = 1 => \A j \in g : j.fresh

GateIInv ==
    /\ Trustworthy(gates) /\ Trustworthy(poll)
    /\ gatePc \in {"attempt", "clock"} => Succeeded(poll)
    /\ gatePc = "clock" => CurrentAttempt(poll)
    /\ GateReallyPassed

LEMMA GateInitIInv == GateInit => GateIInv
BY DEF GateInit, GateIInv, Trustworthy, GateReallyPassed

(* What GitHub does, and time.                                              *)
LEMMA GateEnvironment ==
    ASSUME GateIInv,
           \/ \E s \in {"in_progress"} \cup Outcomes : RunStatus(s)
           \/ ListGate \/ DuplicateGate \/ Rerun \/ Elapse
           \/ \E o \in Outcomes : FinishGate(o)
    PROVE  GateIInv'
<1>1. myAttempt' = myAttempt /\ executed \subseteq executed' /\ poll' = poll /\ gatePc' = gatePc
  BY DEF RunStatus, ListGate, DuplicateGate, Rerun, Elapse, FinishGate, github
<1>2. Trustworthy(gates)'
  <2>1. CASE ListGate
    BY <2>1 DEF ListGate, Trustworthy, Waiting
  <2>2. CASE DuplicateGate
    BY <1>1, <2>2 DEF DuplicateGate, Trustworthy, GateIInv
  <2>3. ASSUME NEW o \in Outcomes, FinishGate(o) PROVE Trustworthy(gates)'
    BY <1>1, <2>3 DEF FinishGate, Trustworthy, GateIInv
  <2>4. ASSUME gates' = gates PROVE Trustworthy(gates)'
    BY <1>1, <2>4 DEF Trustworthy, GateIInv
  <2> QED BY <2>1, <2>2, <2>3, <2>4 DEF RunStatus, Rerun, Elapse, github
<1> QED BY <1>1, <1>2 DEF GateIInv, Trustworthy, CurrentAttempt, Succeeded, GateReallyPassed

(* The wait.                                                                *)
LEMMA GateSteps ==
    ASSUME GateIInv, GateStep
    PROVE  GateIInv'
<1>1. UNCHANGED github
  BY DEF GateStep, ReadRun, ReadJobs, ReadAttempt, ReadClock, Sleep, GateGoto
<1>2. CASE ReadRun \/ Sleep
  <2>1. gatePc' \in {"refused", "jobs", "sleep", "run"} /\ poll' = poll
    BY <1>2 DEF ReadRun, Sleep, GateGoto, Outcomes, Waiting
  <2> QED BY <1>1, <2>1 DEF GateIInv, Trustworthy, GateReallyPassed, github
<1>3. CASE ReadJobs
  <2>1. poll' = gates /\ gatePc' \in {"sleep", "attempt", "refused"}
    BY <1>3 DEF ReadJobs, GateGoto
  <2>2. gatePc' = "attempt" => Succeeded(gates)
    BY <1>3 DEF ReadJobs, GateGoto
  <2> QED BY <1>1, <2>1, <2>2 DEF GateIInv, Trustworthy, Succeeded, GateReallyPassed, github
<1>4. CASE ReadAttempt
  BY <1>1, <1>4
  DEF ReadAttempt, GateGoto, GateIInv, Trustworthy, Succeeded, CurrentAttempt,
      GateReallyPassed, github
<1>5. CASE ReadClock
  <2>1. gatePc' \in {"go", "refused"} /\ poll' = poll
    BY <1>5 DEF ReadClock, GateGoto
  <2>2. Succeeded(poll) /\ CurrentAttempt(poll) /\ Trustworthy(poll)
    BY <1>5 DEF ReadClock, GateIInv
  <2>3. PICK j : j \in poll
    <3>1. Cardinality(poll) = 1
      BY <2>2 DEF Succeeded
    <3> QED BY <3>1, FS_EmptySet
  <2>4. j.fresh /\ j.status = "success"
    BY <2>2, <2>3 DEF Succeeded, CurrentAttempt, Trustworthy
  <2>5. myAttempt \in executed
    BY <2>2, <2>3, <2>4 DEF Trustworthy
  <2> QED BY <1>1, <2>1, <2>5 DEF GateIInv, Trustworthy, GateReallyPassed, github
<1> QED BY <1>2, <1>3, <1>4, <1>5 DEF GateStep

(* The publishing job goes on only after the gate of its own attempt really  *)
(* executed to success, whatever was carried over from earlier attempts.     *)
THEOREM GateIsReal == GateSpec => []GateReallyPassed
<1>1. GateIInv /\ [GateNext]_gateVars => GateIInv'
  <2>1. GateIInv /\ UNCHANGED gateVars => GateIInv'
    BY DEF gateVars, github, GateIInv, Trustworthy, Succeeded, CurrentAttempt, GateReallyPassed
  <2>2. GateIInv /\ GateNext => GateIInv'
    BY GateEnvironment, GateSteps DEF GateNext
  <2> QED BY <2>1, <2>2
<1>2. GateIInv => GateReallyPassed
  BY DEF GateIInv
<1> QED BY <1>1, <1>2, GateInitIInv, PTL DEF GateSpec
-----------------------------------------------------------------------------
(* InventoryReadback.                                                       *)

(* GitHub's order: newest first, and an ID is given out once.                *)
NewestFirst(s) == \A i, j \in 1..Len(s) : i < j => s[i] > s[j]

Live == ToSet(list)

ServerTypes ==
    /\ created \in Nat
    /\ list \in Seq(Nat) /\ NewestFirst(list)
    /\ Live \subseteq 1..created /\ stayed \subseteq Live

ReaderTypes ==
    /\ listing \in {1, 2} /\ page \in Nat \ {0}
    /\ records \in [1..2 -> SUBSET (1..created)]

(* While the first listing is read: as long as nothing that it recorded has  *)
(* been deleted, its pages were full, and what it has not seen of the        *)
(* releases that stayed is older than everything it has.                     *)
FirstPages ==
    listing = 1 =>
        /\ records[2] = {} /\ listOutcome # "agreed"
        /\ records[1] \subseteq Live =>
              /\ Cardinality(records[1]) = (page - 1) * PageSize
              /\ \A x \in stayed \ records[1], r \in records[1] : x < r

(* Afterwards it is complete, or holds a release that is gone and that the   *)
(* second listing therefore cannot have.                                     *)
FirstDone ==
    listing = 2 =>
        \/ stayed \subseteq records[1]
        \/ \E r \in records[1] : r \notin Live /\ r \notin records[2]

ReadbackIInv ==
    /\ ServerTypes /\ ReaderTypes /\ FirstPages /\ FirstDone
    /\ listOutcome = "agreed" => records[1] = records[2]

LEMMA IntervalSize ==
    ASSUME NEW n \in Nat
    PROVE  IsFiniteSet(1..n) /\ Cardinality(1..n) = n
BY FS_Interval

(* Entries newer than the one at position k are fewer than k.                *)
LEMMA NewerAreFewer ==
    ASSUME NEW s \in Seq(Nat), NewestFirst(s), NEW k \in 1..Len(s),
           NEW S, S \subseteq ToSet(s), \A r \in S : r > s[k]
    PROVE  Cardinality(S) \in Nat /\ Cardinality(S) <= k - 1
<1> DEFINE at == [r \in S |-> CHOOSE i \in 1..Len(s) : s[i] = r]
<1>1. \A r \in S : at[r] \in 1..Len(s) /\ s[at[r]] = r
  BY DEF ToSet
<1>2. \A r \in S : at[r] < k
  <2> SUFFICES ASSUME NEW r \in S, ~(at[r] < k) PROVE FALSE
    OBVIOUS
  <2>1. at[r] \in 1..Len(s) /\ s[at[r]] = r /\ s[at[r]] \in Nat /\ s[k] \in Nat /\ r > s[k]
    BY <1>1
  <2> HIDE DEF at
  <2> QED BY <2>1 DEF NewestFirst
<1>3. at \in Injection(S, 1..(k - 1))
  <2>1. at \in [S -> 1..(k - 1)]
    BY <1>1, <1>2
  <2>2. \A a, b \in S : at[a] = at[b] => a = b
    BY <1>1
  <2> HIDE DEF at
  <2> QED BY <2>1, <2>2 DEF Injection, IsInjective
<1>4. IsFiniteSet(1..(k - 1)) /\ Cardinality(1..(k - 1)) = k - 1
  BY IntervalSize
<1> HIDE DEF at
<1>5. IsFiniteSet(S) /\ Cardinality(S) <= k - 1
  BY <1>3, <1>4, FS_Injection
<1> QED BY <1>5, FS_CardinalityType

(* A full page has as many entries as it is long.                            *)
LEMMA DistinctEntries ==
    ASSUME NEW s \in Seq(Nat), NewestFirst(s)
    PROVE  IsFiniteSet(ToSet(s)) /\ Cardinality(ToSet(s)) = Len(s)
<1>1. s \in [1..Len(s) -> ToSet(s)]
  BY DEF ToSet
<1>2. \A t \in ToSet(s) : \E i \in 1..Len(s) : s[i] = t
  BY DEF ToSet
<1>3. \A i, j \in 1..Len(s) : s[i] = s[j] => i = j
  BY DEF NewestFirst
<1>4. s \in Surjection(1..Len(s), ToSet(s)) /\ s \in Injection(1..Len(s), ToSet(s))
  BY <1>1, <1>2, <1>3 DEF Surjection, Injection, IsInjective
<1>5. IsFiniteSet(1..Len(s)) /\ Cardinality(1..Len(s)) = Len(s)
  <2>1. Len(s) \in Nat
    OBVIOUS
  <2> QED BY <2>1, IntervalSize
<1> QED BY <1>4, <1>5, FS_Surjection

(* A deletion keeps the order and takes out one entry.                       *)
LEMMA Removed ==
    ASSUME NEW s \in Seq(Nat), NewestFirst(s), NEW i \in 1..Len(s)
    PROVE  /\ RemoveAt(s, i) \in Seq(Nat) /\ NewestFirst(RemoveAt(s, i))
           /\ ToSet(RemoveAt(s, i)) = ToSet(s) \ {s[i]}
<1> DEFINE t == RemoveAt(s, i)
<1>1. /\ t \in Seq(Nat) /\ Len(t) = Len(s) - 1
      /\ \A j \in 1..Len(t) : t[j] = IF j < i THEN s[j] ELSE s[j + 1]
  <2> DEFINE a == SubSeq(s, 1, i - 1)
             b == SubSeq(s, i + 1, Len(s))
  <2>1. a \in Seq(Nat) /\ Len(a) = i - 1 /\ \A j \in 1..(i - 1) : a[j] = s[j]
    OBVIOUS
  <2>2. /\ b \in Seq(Nat) /\ Len(b) = Len(s) - i
        /\ \A j \in 1..(Len(s) - i) : b[j] = s[i + j]
    OBVIOUS
  <2>3. t = a \o b
    BY DEF RemoveAt
  <2> HIDE DEF a, b, t
  <2>4. /\ t \in Seq(Nat) /\ Len(t) = Len(a) + Len(b)
        /\ \A j \in 1..(Len(a) + Len(b)) : t[j] = IF j <= Len(a) THEN a[j] ELSE b[j - Len(a)]
    BY <2>1, <2>2, <2>3, ConcatProperties
  <2>n. Len(s) \in Nat /\ i \in Nat /\ i <= Len(s)
    OBVIOUS
  <2>5. ASSUME NEW j \in 1..Len(t) PROVE t[j] = IF j < i THEN s[j] ELSE s[j + 1]
    <3>1. CASE j < i
      <4>1. t[j] = a[j] /\ j \in 1..(i - 1)
        BY <2>1, <2>2, <2>4, <2>n, <3>1
      <4> QED BY <2>1, <3>1, <4>1
    <3>2. CASE ~(j < i)
      <4>1. t[j] = b[j - (i - 1)] /\ j - (i - 1) \in 1..(Len(s) - i)
        BY <2>1, <2>2, <2>4, <2>n, <3>2
      <4>2. b[j - (i - 1)] = s[j + 1]
        BY <2>2, <4>1
      <4> QED BY <3>2, <4>1, <4>2
    <3> QED BY <3>1, <3>2
  <2>6. Len(t) = Len(s) - 1
    BY <2>1, <2>2, <2>4, <2>n
  <2> QED BY <2>4, <2>5, <2>6
<1> HIDE DEF t
<1>n. Len(s) \in Nat /\ Len(t) \in Nat /\ \A j \in 1..Len(s) : s[j] \in Nat
  BY <1>1
<1>2. NewestFirst(t)
  <2> SUFFICES ASSUME NEW j \in 1..Len(t), NEW k \in 1..Len(t), j < k PROVE t[j] > t[k]
    BY DEF NewestFirst
  <2>1. PICK a, b \in 1..Len(s) : t[j] = s[a] /\ t[k] = s[b] /\ a < b
    <3> DEFINE a == IF j < i THEN j ELSE j + 1
               b == IF k < i THEN k ELSE k + 1
    <3>1. a \in 1..Len(s) /\ b \in 1..Len(s) /\ a < b
      BY <1>1, <1>n
    <3>2. t[j] = s[a] /\ t[k] = s[b]
      BY <1>1
    <3> QED BY <3>1, <3>2
  <2> QED BY <2>1 DEF NewestFirst
<1>3. \A j \in 1..Len(s) : s[j] = s[i] => j = i
  BY DEF NewestFirst
<1>4. ToSet(t) \subseteq ToSet(s) \ {s[i]}
  <2> SUFFICES ASSUME NEW j \in 1..Len(t) PROVE t[j] \in ToSet(s) /\ t[j] # s[i]
    BY <1>1 DEF ToSet
  <2>1. PICK k \in 1..Len(s) : t[j] = s[k] /\ k # i
    <3>1. CASE j < i
      BY <1>1, <1>n, <3>1
    <3>2. CASE ~(j < i)
      <4>1. j + 1 \in 1..Len(s) /\ j + 1 # i /\ t[j] = s[j + 1]
        BY <1>1, <1>n, <3>2
      <4> QED BY <4>1
    <3> QED BY <3>1, <3>2
  <2> QED BY <1>3, <2>1 DEF ToSet
<1>5. ToSet(s) \ {s[i]} \subseteq ToSet(t)
  <2> SUFFICES ASSUME NEW j \in 1..Len(s), j # i PROVE s[j] \in ToSet(t)
    BY DEF ToSet
  <2>1. PICK k \in 1..Len(t) : t[k] = s[j]
    <3>1. CASE j < i
      <4>1. j \in 1..Len(t) /\ t[j] = s[j]
        BY <1>1, <1>n, <3>1
      <4> QED BY <4>1
    <3>2. CASE j > i
      <4>1. j - 1 \in 1..Len(t) /\ t[j - 1] = s[j]
        BY <1>1, <1>n, <3>2
      <4> QED BY <4>1
    <3> QED BY <3>1, <3>2
  <2> QED BY <1>1, <2>1 DEF ToSet
<1> QED BY <1>1, <1>2, <1>4, <1>5 DEF t

LEMMA ReadbackInitIInv == ReadbackInit => ReadbackIInv
<1> SUFFICES ASSUME ReadbackInit PROVE ReadbackIInv
  OBVIOUS
<1>1. PICK n \in 0..MaxInitial :
        /\ list = [i \in 1..n |-> n + 1 - i]
        /\ created = n /\ listing = 1 /\ page = 1
        /\ records = [i \in 1..2 |-> {}]
        /\ listOutcome = "reading" /\ stayed = 1..n
  BY DEF ReadbackInit
<1>2. n \in Nat
  BY InventoryAssumption
<1>3. list \in Seq(Nat) /\ Len(list) = n /\ NewestFirst(list)
  BY <1>1, <1>2 DEF NewestFirst
<1>4. Live = 1..n
  <2>1. \A x \in 1..n : n + 1 - x \in 1..n /\ list[n + 1 - x] = x
    BY <1>1, <1>2
  <2>2. \A i \in 1..n : list[i] \in 1..n
    BY <1>1, <1>2
  <2>3. DOMAIN list = 1..n
    BY <1>1
  <2> QED BY <2>1, <2>2, <2>3 DEF Live, ToSet
<1>5. ServerTypes /\ ReaderTypes
  BY <1>1, <1>2, <1>3, <1>4 DEF ServerTypes, ReaderTypes
<1>6. FirstPages
  <2>1. Cardinality(records[1]) = (page - 1) * PageSize
    BY <1>1, FS_EmptySet, InventoryAssumption
  <2> QED BY <1>1, <2>1 DEF FirstPages
<1> QED BY <1>1, <1>5, <1>6 DEF ReadbackIInv, FirstDone

(* What a change on the server has to respect: it revives nothing.           *)
LEMMA ServerKeepsIInv ==
    ASSUME ReadbackIInv, ServerTypes',
           UNCHANGED <<listing, page, records, listOutcome>>,
           created <= created', stayed' \subseteq stayed,
           Live' \cap (1..created) \subseteq Live
    PROVE  ReadbackIInv'
<1>1. ReaderTypes'
  BY DEF ReadbackIInv, ServerTypes, ReaderTypes
<1>2. \A i \in {1, 2} : records[i] \subseteq 1..created
  BY DEF ReadbackIInv, ReaderTypes
<1>3. FirstPages'
  BY <1>2 DEF ReadbackIInv, FirstPages
<1>4. FirstDone'
  BY <1>2 DEF ReadbackIInv, FirstDone
<1> QED BY <1>1, <1>3, <1>4 DEF ReadbackIInv

LEMMA ReadbackCreate ==
    ASSUME ReadbackIInv, Create
    PROVE  ReadbackIInv'
<1>1. created' = created + 1 /\ list' = <<created + 1>> \o list
  BY DEF Create
<1>2. created \in Nat /\ list \in Seq(Nat) /\ NewestFirst(list) /\ Live \subseteq 1..created
  BY DEF ReadbackIInv, ServerTypes
<1>3. /\ list' \in Seq(Nat) /\ Len(list') = 1 + Len(list) /\ Len(list) \in Nat
      /\ \A i \in 1..(1 + Len(list)) : list'[i] = IF i <= 1 THEN created + 1 ELSE list[i - 1]
  <2>1. <<created + 1>> \in Seq(Nat) /\ Len(<<created + 1>>) = 1
    BY <1>2
  <2> QED BY <1>1, <1>2, <2>1, ConcatProperties
<1>4. \A i \in 1..Len(list) : list[i] \in 1..created
  BY <1>2 DEF Live, ToSet
<1>5. NewestFirst(list')
  <2> SUFFICES ASSUME NEW i \in 1..Len(list'), NEW j \in 1..Len(list'), i < j
               PROVE  list'[i] > list'[j]
    BY DEF NewestFirst
  <2>1. j - 1 \in 1..Len(list) /\ list'[j] = list[j - 1]
    BY <1>3
  <2>2. CASE i = 1
    <3>1. list'[i] = created + 1 /\ list[j - 1] \in 1..created
      BY <1>3, <1>4, <2>1, <2>2
    <3> QED BY <1>2, <2>1, <3>1
  <2>3. CASE i > 1
    <3>1. i - 1 \in 1..Len(list) /\ list'[i] = list[i - 1] /\ i - 1 < j - 1
      BY <1>3, <2>3
    <3> QED BY <1>2, <2>1, <3>1 DEF NewestFirst
  <2> QED BY <2>2, <2>3
<1>6. Live' = Live \cup {created + 1}
  <2>1. ASSUME NEW i \in 1..Len(list') PROVE list'[i] \in Live \cup {created + 1}
    <3>1. CASE i = 1
      BY <1>3, <3>1
    <3>2. CASE i > 1
      <4>1. i - 1 \in DOMAIN list /\ list'[i] = list[i - 1]
        BY <1>2, <1>3, <3>2
      <4> QED BY <4>1 DEF Live, ToSet
    <3> QED BY <3>1, <3>2
  <2>2. list'[1] = created + 1 /\ 1 \in 1..Len(list')
    BY <1>3
  <2>3. ASSUME NEW i \in 1..Len(list) PROVE i + 1 \in 1..Len(list') /\ list'[i + 1] = list[i]
    BY <1>3
  <2>4. DOMAIN list = 1..Len(list) /\ DOMAIN list' = 1..Len(list')
    BY <1>2, <1>3
  <2>5. Live' \subseteq Live \cup {created + 1}
    BY <2>1, <2>4 DEF Live, ToSet
  <2>6. Live \subseteq Live'
    <3> SUFFICES ASSUME NEW i \in 1..Len(list) PROVE list[i] \in Live'
      BY <2>4 DEF Live, ToSet
    <3> QED BY <2>3, <2>4 DEF Live, ToSet
  <2>7. created + 1 \in Live'
    BY <2>2, <2>4 DEF Live, ToSet
  <2> QED BY <2>5, <2>6, <2>7
<1>7. stayed' = stayed /\ UNCHANGED <<listing, page, records, listOutcome>>
  BY DEF Create
<1>8. ServerTypes'
  BY <1>1, <1>2, <1>3, <1>5, <1>6, <1>7 DEF ReadbackIInv, ServerTypes
<1>9. created <= created' /\ Live' \cap (1..created) \subseteq Live
  BY <1>1, <1>2, <1>6
<1> QED BY <1>7, <1>8, <1>9, ServerKeepsIInv

LEMMA ReadbackDelete ==
    ASSUME ReadbackIInv, NEW i \in DOMAIN list, Delete(i)
    PROVE  ReadbackIInv'
<1>1. list \in Seq(Nat) /\ NewestFirst(list) /\ i \in 1..Len(list)
  BY DEF ReadbackIInv, ServerTypes
<1>2. list' = RemoveAt(list, i) /\ stayed' = stayed \ {list[i]} /\ created' = created
  BY DEF Delete
<1>3. list' \in Seq(Nat) /\ NewestFirst(list') /\ ToSet(list') = ToSet(list) \ {list[i]}
  BY <1>1, <1>2, Removed
<1>4. ServerTypes'
  BY <1>2, <1>3 DEF ReadbackIInv, ServerTypes, Live
<1>5. created <= created' /\ Live' \cap (1..created) \subseteq Live
  BY <1>2, <1>3 DEF ReadbackIInv, ServerTypes, Live
<1>6. stayed' \subseteq stayed /\ UNCHANGED <<listing, page, records, listOutcome>>
  BY <1>2 DEF Delete
<1> QED BY <1>4, <1>5, <1>6, ServerKeepsIInv

(* Pages are full as long as there is a next one, and the last one reaches   *)
(* the end of the list.                                                     *)
LEMMA PageOfList ==
    ASSUME list \in Seq(Nat), NewestFirst(list), page \in Nat \ {0}
    PROVE  LET first == (page - 1) * PageSize
           IN  /\ first \in Nat /\ page * PageSize = first + PageSize
               /\ Values \in Seq(Nat) /\ NewestFirst(Values) /\ ToSet(Values) \subseteq Live
               /\ \A k \in 1..Len(list) : k > first /\ k <= first + PageSize => list[k] \in ToSet(Values)
               /\ \A k \in 1..Len(list), r \in ToSet(Values) : k > first + PageSize => list[k] < r
               /\ first + PageSize <= Len(list) => Len(Values) = PageSize
               /\ first + PageSize > Len(list) => Len(Values) < PageSize
<1> DEFINE first == (page - 1) * PageSize
           last == IF first + PageSize < Len(list) THEN first + PageSize ELSE Len(list)
<1>1. PageSize \in Nat /\ PageSize > 0 /\ Len(list) \in Nat
  BY InventoryAssumption
<1>2. first \in Nat /\ page * PageSize = first + PageSize
  BY <1>1
<1>3. Values = SubSeq(list, first + 1, last)
  BY <1>2 DEF Values
<1>4. last \in Nat /\ last <= Len(list) /\ last <= first + PageSize
  <2> HIDE DEF first
  <2> QED BY <1>1, <1>2
<1>5. last = first + PageSize \/ (last = Len(list) /\ last <= first + PageSize)
  <2> HIDE DEF first
  <2> QED BY <1>1, <1>2
<1>n. first + PageSize <= Len(list) => last = first + PageSize
  <2> HIDE DEF first
  <2> QED BY <1>1, <1>2
<1>m. first + PageSize > Len(list) => last = Len(list)
  <2> HIDE DEF first
  <2> QED BY <1>1, <1>2
<1> HIDE DEF first, last
<1>6. /\ Values \in Seq(Nat)
      /\ Len(Values) = IF first + 1 <= last THEN last - first ELSE 0
      /\ \A i \in 1..(last - first) : Values[i] = list[first + i]
  <2>1. \A i \in (first + 1)..last : list[i] \in Nat
    BY <1>1, <1>2, <1>4
  <2>2. /\ SubSeq(list, first + 1, last) \in Seq(Nat)
        /\ Len(SubSeq(list, first + 1, last)) =
              IF first + 1 <= last THEN last - (first + 1) + 1 ELSE 0
        /\ \A i \in 1..(last - (first + 1) + 1) :
              SubSeq(list, first + 1, last)[i] = list[(first + 1) + i - 1]
    <3>1. first + 1 \in Int /\ last \in Int
      BY <1>2, <1>4
    <3> QED BY <2>1, <3>1, SubSeqProperties
  <2> QED BY <1>2, <1>3, <1>4, <2>2
<1>7. \A i \in 1..Len(Values) : first + i \in 1..Len(list) /\ first + i <= last /\ Values[i] = list[first + i]
  BY <1>1, <1>2, <1>4, <1>6
<1>8. NewestFirst(Values)
  <2> SUFFICES ASSUME NEW i \in 1..Len(Values), NEW j \in 1..Len(Values), i < j
               PROVE  Values[i] > Values[j]
    BY DEF NewestFirst
  <2>1. first + i < first + j
    BY <1>2
  <2> QED BY <1>7, <2>1 DEF NewestFirst
<1>9. \A r \in ToSet(Values) : \E k \in 1..Len(list) : r = list[k] /\ k <= last
  <2>1. DOMAIN Values = 1..Len(Values)
    BY <1>6
  <2> HIDE DEF Values
  <2> QED BY <1>7, <2>1 DEF ToSet
<1>10. ToSet(Values) \subseteq Live
  BY <1>9 DEF Live, ToSet
<1>11. ASSUME NEW k \in 1..Len(list), k > first, k <= first + PageSize
       PROVE  list[k] \in ToSet(Values)
  <2>1. k <= last
    BY <1>1, <1>2, <1>5, <1>11
  <2>2. k - first \in 1..Len(Values) /\ first + (k - first) = k
    BY <1>1, <1>2, <1>4, <1>6, <1>11, <2>1
  <2>3. Values[k - first] = list[k]
    BY <1>7, <2>2
  <2> QED BY <1>6, <2>2, <2>3 DEF ToSet
<1>12. ASSUME NEW k \in 1..Len(list), NEW r \in ToSet(Values), k > first + PageSize
       PROVE  list[k] < r
  <2>1. PICK j \in 1..Len(list) : r = list[j] /\ j <= last
    BY <1>9
  <2>2. j < k
    BY <1>1, <1>2, <1>4, <1>12, <2>1
  <2> QED BY <2>1, <2>2 DEF NewestFirst
<1>13. first + PageSize <= Len(list) => Len(Values) = PageSize
  BY <1>1, <1>2, <1>6, <1>n
<1>14. first + PageSize > Len(list) => Len(Values) < PageSize
  BY <1>1, <1>2, <1>4, <1>6, <1>m
<1> QED BY <1>2, <1>6, <1>8, <1>10, <1>11, <1>12, <1>13, <1>14 DEF first

(* While nothing recorded is gone, a release that the first listing has not  *)
(* seen lies beyond the pages it has read.                                   *)
LEMMA UnseenIsAhead ==
    ASSUME ReadbackIInv, listing = 1, records[1] \subseteq Live,
           NEW x \in stayed \ records[1]
    PROVE  \E k \in 1..Len(list) : list[k] = x /\ k > (page - 1) * PageSize
<1>1. list \in Seq(Nat) /\ NewestFirst(list) /\ x \in Live
  BY DEF ReadbackIInv, ServerTypes
<1>2. PICK k \in 1..Len(list) : list[k] = x
  BY <1>1 DEF Live, ToSet
<1>3. \A r \in records[1] : r > list[k]
  BY <1>2 DEF ReadbackIInv, FirstPages, ReaderTypes, ServerTypes
<1>4. Cardinality(records[1]) <= k - 1
  BY <1>1, <1>2, <1>3, NewerAreFewer DEF Live
<1>5. Cardinality(records[1]) = (page - 1) * PageSize
  BY DEF ReadbackIInv, FirstPages
<1>6. (page - 1) * PageSize \in Nat
  BY <1>1, PageOfList DEF ReadbackIInv, ReaderTypes
<1> QED BY <1>2, <1>4, <1>5, <1>6

LEMMA ReadbackPage ==
    ASSUME ReadbackIInv, NEW linked \in BOOLEAN, GetPage(linked)
    PROVE  ReadbackIInv'
<1> DEFINE first == (page - 1) * PageSize
           got == ToSet(Values)
           more == (linked /\ page * PageSize < Len(list)) \/ Len(Values) = PageSize
<1>1. /\ list \in Seq(Nat) /\ NewestFirst(list) /\ page \in Nat \ {0} /\ listing \in {1, 2}
      /\ created \in Nat /\ Live \subseteq 1..created
      /\ records \in [1..2 -> SUBSET (1..created)]
  BY DEF ReadbackIInv, ServerTypes, ReaderTypes
<1>2. /\ first \in Nat /\ page * PageSize = first + PageSize
      /\ Values \in Seq(Nat) /\ NewestFirst(Values) /\ got \subseteq Live
      /\ \A k \in 1..Len(list) : k > first /\ k <= first + PageSize => list[k] \in got
      /\ \A k \in 1..Len(list), r \in got : k > first + PageSize => list[k] < r
      /\ first + PageSize <= Len(list) => Len(Values) = PageSize
      /\ first + PageSize > Len(list) => Len(Values) < PageSize
  BY <1>1, PageOfList
<1>3. PageSize \in Nat /\ PageSize > 0 /\ Len(list) \in Nat /\ Len(Values) \in Nat
  BY <1>1, <1>2, InventoryAssumption
<1>4. CASE ~Fresh(Values)
  <2>1. listOutcome' = "raised" /\ UNCHANGED <<list, created, stayed, listing, page, records>>
    BY <1>4 DEF GetPage, Raise
  <2> QED
    BY <2>1 DEF ReadbackIInv, ServerTypes, ReaderTypes, FirstPages, FirstDone, Live
<1>5. CASE Fresh(Values)
  <2>1. /\ records' = [records EXCEPT ![listing] = @ \cup got]
        /\ UNCHANGED <<list, created, stayed>>
        /\ more => page' = page + 1 /\ UNCHANGED <<listing, listOutcome>>
        /\ ~more => /\ page' = 1 /\ listing' = 2
                    /\ listOutcome' = IF listing = 1 THEN "reading"
                          ELSE IF Agree(records'[1], records'[2]) THEN "agreed" ELSE "raised"
    BY <1>5 DEF GetPage
  <2>2. ~more => first + PageSize > Len(list)
    BY <1>2, <1>3
  <2>3. more => Len(Values) = PageSize
    BY <1>2, <1>3
  <2>4. Live' = Live
    BY <2>1 DEF Live
  <2>5. ServerTypes'
    BY <2>1, <2>4 DEF ReadbackIInv, ServerTypes
  <2>6. ReaderTypes'
    <3>1. page' \in Nat \ {0} /\ listing' \in {1, 2}
      BY <1>1, <2>1
    <3>2. records' \in [1..2 -> SUBSET (1..created)]
      BY <1>1, <1>2, <2>1
    <3> QED BY <2>1, <3>1, <3>2 DEF ReaderTypes
  <2> HIDE DEF first, got, more
  <2>7. CASE listing = 1
    <3>1. records'[1] = records[1] \cup got /\ records'[2] = {}
      BY <1>1, <2>1, <2>7 DEF ReadbackIInv, FirstPages
    <3>2. listOutcome # "agreed" /\ listOutcome' # "agreed"
      BY <2>1, <2>7 DEF ReadbackIInv, FirstPages
    <3>3. ASSUME records'[1] \subseteq Live, NEW x \in stayed \ records'[1]
          PROVE  \E k \in 1..Len(list) : list[k] = x /\ k > first + PageSize
      <4>1. records[1] \subseteq Live /\ x \in stayed \ records[1] /\ x \notin got
        BY <3>1, <3>3
      <4>2. PICK k \in 1..Len(list) : list[k] = x /\ k > first
        BY <2>7, <4>1, UnseenIsAhead DEF first
      <4>3. k > first + PageSize
        BY <1>2, <1>3, <4>1, <4>2
      <4> QED BY <4>2, <4>3
    <3>4. CASE more
      <4>1. listing' = 1 /\ page' = page + 1
        BY <2>1, <2>7, <3>4
      <4>2. ASSUME records'[1] \subseteq Live
            PROVE  Cardinality(records'[1]) = (page' - 1) * PageSize
        <5>1. records[1] \subseteq Live /\ Cardinality(records[1]) = first
          BY <2>7, <3>1, <4>2 DEF ReadbackIInv, FirstPages, first
        <5>2. IsFiniteSet(got) /\ Cardinality(got) = PageSize
          BY <1>2, <2>3, <3>4, DistinctEntries DEF got
        <5>3. IsFiniteSet(records[1])
          <6>1. IsFiniteSet(1..created) /\ records[1] \in SUBSET (1..created)
            BY <1>1, IntervalSize
          <6> QED BY <6>1, FS_Subset
        <5>4. records[1] \cap got = {}
          BY <1>5, <2>7 DEF Fresh, got
        <5>5. Cardinality(records[1] \cup got) = first + PageSize - Cardinality({})
          BY <5>1, <5>2, <5>3, <5>4, FS_Union
        <5>6. Cardinality({}) = 0
          BY FS_EmptySet
        <5>7. (page' - 1) * PageSize = first + PageSize
          <6>1. page' - 1 = page
            BY <1>1, <4>1
          <6> QED BY <1>2, <6>1
        <5> QED BY <1>2, <1>3, <3>1, <5>5, <5>6, <5>7
      <4>3. ASSUME records'[1] \subseteq Live, NEW x \in stayed \ records'[1], NEW r \in records'[1]
            PROVE  x < r
        <5>1. CASE r \in records[1]
          BY <2>7, <3>1, <4>3, <5>1 DEF ReadbackIInv, FirstPages
        <5>2. CASE r \in got
          BY <1>2, <3>3, <4>3, <5>2
        <5> QED BY <3>1, <4>3, <5>1, <5>2
      <4>4. FirstPages'
        BY <2>1, <2>4, <3>1, <3>2, <4>2, <4>3 DEF FirstPages
      <4>5. FirstDone'
        BY <4>1 DEF FirstDone
      <4> QED BY <2>5, <2>6, <3>2, <4>4, <4>5 DEF ReadbackIInv
    <3>5. CASE ~more
      <4>1. listing' = 2
        BY <2>1, <3>5
      <4>2. records'[1] \subseteq Live => stayed \subseteq records'[1]
        BY <1>2, <1>3, <2>2, <3>3, <3>5
      <4>3. FirstDone'
        BY <2>1, <2>4, <3>1, <4>2 DEF FirstDone
      <4>4. FirstPages'
        BY <4>1 DEF FirstPages
      <4> QED BY <2>5, <2>6, <3>2, <4>3, <4>4 DEF ReadbackIInv
    <3> QED BY <3>4, <3>5
  <2>8. CASE listing = 2
    <3>1. records'[1] = records[1] /\ records'[2] = records[2] \cup got /\ listing' = 2
      BY <1>1, <2>1, <2>8
    <3>2. FirstPages'
      BY <3>1 DEF FirstPages
    <3>3. FirstDone'
      BY <1>2, <2>1, <2>4, <2>8, <3>1 DEF ReadbackIInv, FirstDone
    <3>4. listOutcome' = "agreed" => records'[1] = records'[2]
      <4>1. listOutcome # "agreed"
        BY DEF GetPage
      <4> QED BY <2>1, <2>8, <4>1 DEF Agree
    <3> QED BY <2>5, <2>6, <3>2, <3>3, <3>4 DEF ReadbackIInv
  <2> QED BY <1>1, <2>7, <2>8
<1> QED BY <1>4, <1>5

(* Two agreeing listings hold every release that was there all along, for    *)
(* any page size and any creations and deletions between the requests.       *)
THEOREM AgreementIsComplete == ReadbackSpec => []AgreedIsComplete
<1>1. ReadbackIInv /\ [ReadbackNext]_readbackVars => ReadbackIInv'
  <2> SUFFICES ASSUME ReadbackIInv, [ReadbackNext]_readbackVars PROVE ReadbackIInv'
    OBVIOUS
  <2>1. CASE GetFails \/ CallLimit
    <3>1. listOutcome' = "raised" /\ UNCHANGED <<list, created, stayed, listing, page, records>>
      BY <2>1 DEF GetFails, CallLimit, Raise
    <3> QED
      BY <3>1 DEF ReadbackIInv, ServerTypes, ReaderTypes, FirstPages, FirstDone, Live
  <2>2. CASE UNCHANGED readbackVars
    BY <2>2 DEF readbackVars, ReadbackIInv, ServerTypes, ReaderTypes, FirstPages, FirstDone, Live
  <2>3. ASSUME NEW i \in DOMAIN list, Delete(i) PROVE ReadbackIInv'
    BY <2>3, ReadbackDelete
  <2>4. ASSUME NEW linked \in BOOLEAN, GetPage(linked) PROVE ReadbackIInv'
    BY <2>4, ReadbackPage
  <2> QED BY <2>1, <2>2, <2>3, <2>4, ReadbackCreate DEF ReadbackNext
<1>2. ReadbackIInv => AgreedIsComplete
  <2> SUFFICES ASSUME ReadbackIInv, listOutcome = "agreed" PROVE stayed \subseteq records[2]
    BY DEF AgreedIsComplete
  <2>1. listing = 2 /\ records[1] = records[2]
    BY DEF ReadbackIInv, ReaderTypes, FirstPages
  <2> QED BY <2>1 DEF ReadbackIInv, FirstDone
<1> QED BY <1>1, <1>2, ReadbackInitIInv, PTL DEF ReadbackSpec

=============================================================================
