------------------------- MODULE PublicationProofs -------------------------
(***************************************************************************)
(* What publishing rests on, for any number of runs, attempts, files,        *)
(* commits, images and publishers, and any number of changes by others.      *)
(*                                                                         *)
(* Ledger: it stays consistent and every reservation is published at most   *)
(* once, serialized or not; serialized, no promotion goes below what is      *)
(* public.  The compare-and-swap carries the proof: a write succeeds only    *)
(* where the snapshot it was computed from is the ledger, so facts about a   *)
(* run's snapshot become facts about the ledger it replaces.                 *)
(* Candidate: what an acceptance rests on was public, and nothing that was   *)
(* read before the last change of its kind is part of it.                    *)
(* Source: what a publisher has learnt of the branch, as a function of how   *)
(* far it is and of what moved since.                                        *)
(* Images: what the commands still to run say about the registry.            *)
(***************************************************************************)
EXTENDS ReleaseLedger, CandidateVerification, PublicationSource, ImagePublication,
        FiniteSetTheorems, WellFoundedInduction, TLAPS

Plans == [num : Nat, tag : Tags]
Ledgers == [counter : Nat, floor : Nat, plans : [Candidates -> Plans]]

Labels == {"idle", "prepare", "ensureBranch", "reserve", "verify", "promote", "begin",
           "consume", "tag", "draft", "publish", "failed", "done"}

Typed ==
    /\ ledger \in Ledgers
    /\ release \in [Tags -> {"none", "tag", "draft", "published"}]
    /\ pc \in [Runs -> Labels]
    /\ snap \in [Runs -> Ledgers]
    /\ plan \in [Runs -> Plans]
    /\ consumed \in [Runs -> Nat]

(* Numbers are handed out without a gap, tags never run ahead of them, and   *)
(* neither is handed out twice.                                             *)
Numbered ==
    /\ ledger.counter = Cardinality(Reserved(ledger))
    /\ ledger.floor <= ledger.counter
    /\ \A c \in Reserved(ledger) :
          /\ ledger.plans[c].num <= ledger.counter
          /\ 1 <= ledger.plans[c].tag /\ ledger.plans[c].tag <= ledger.counter
    /\ \A c, d \in Reserved(ledger) :
          c # d => /\ ledger.plans[c].num # ledger.plans[d].num
                   /\ ledger.plans[c].tag # ledger.plans[d].tag

(* A plan p drawn up from the snapshot s is new with respect to it.          *)
DrawnFrom(s, p, c) ==
    /\ s.plans[c] = NoPlan
    /\ p.num = s.counter + 1
    /\ 1 <= p.tag /\ p.tag <= p.num
    /\ \A d \in Reserved(s) : s.plans[d].tag < p.tag

Drawn ==
    \A c \in Candidates :
        pc[c] \in {"ensureBranch", "reserve"} => DrawnFrom(snap[c], plan[c], c)

(* A publication of p about to begin moves the floor of its snapshot s up.   *)
AdmittedBy(s, p, r) ==
    /\ s.floor <= p.num /\ p.num <= s.counter
    /\ r \in Candidates => s.plans[r] = p /\ s.floor < p.num

Admitted == \A r \in Runs : pc[r] = "consume" => AdmittedBy(snap[r], plan[r], r)

Covered(c) == c \in Reserved(ledger) /\ ledger.plans[c].num <= ledger.floor

(* A publication that has begun, in this attempt or an earlier one, is of a  *)
(* reserved number at or below the floor; so is everything that is public.   *)
Begun ==
    /\ \A c \in Candidates : pc[c] \in {"tag", "draft", "publish"} =>
          ledger.plans[c] = plan[c] /\ Covered(c)
    /\ \A c \in Candidates : consumed[c] <= 1 /\ (consumed[c] = 1 => Covered(c))
    /\ \A t \in Tags \ {Stable} : ~Absent(t) =>
          \E c \in Candidates : Covered(c) /\ ledger.plans[c].tag = t

Inv == Typed /\ Numbered /\ Drawn /\ Admitted /\ Begun
-----------------------------------------------------------------------------
(* Facts about numbers and sets.                                            *)
LEMMA LeastOf ==
  ASSUME NEW S \in SUBSET Nat, S # {}
  PROVE  \E n \in S : \A m \in S : n <= m
<1> DEFINE R == OpToRel(<,Nat)
<1>1. IsWellFoundedOn(R, Nat)
  BY NatLessThanWellFounded
<1>2. PICK x \in S : \A y \in S : ~(<<y, x>> \in R)
  <2> HIDE DEF R
  <2> QED BY <1>1, WFMin
<1>3. \A y \in S : y < x => <<y, x>> \in R
  BY DEF OpToRel
<1>4. \A y \in S : x <= y
  <2> SUFFICES ASSUME NEW y \in S PROVE x <= y
    OBVIOUS
  <2>1. ~(y < x)
    BY <1>2, <1>3
  <2> QED BY <2>1
<1> QED BY <1>4

(* What max() returns, for a set that has a bound.                          *)
LEMMA LargestOf ==
  ASSUME NEW S \in SUBSET Nat, S # {}, NEW b \in Nat, \A n \in S : n <= b
  PROVE  Largest(S) \in S /\ \A m \in S : m <= Largest(S)
<1> DEFINE D == {b - n : n \in S}
<1>1. D \in SUBSET Nat
  OBVIOUS
<1>2. D # {}
  <2>1. PICK n \in S : TRUE
    OBVIOUS
  <2> QED BY <2>1
<1>3. PICK d \in D : \A m \in D : d <= m
  BY <1>1, <1>2, LeastOf
<1>4. PICK n \in S : d = b - n
  OBVIOUS
<1>5. \A m \in S : m <= n
  <2> SUFFICES ASSUME NEW m \in S PROVE m <= n
    OBVIOUS
  <2>1. d <= b - m
    BY <1>3
  <2> QED BY <2>1, <1>4
<1> QED BY <1>5 DEF Largest

LEMMA Bounds ==
  /\ IsFiniteSet(Candidates)
  /\ MaxNumber \in Nat
  /\ \A S \in SUBSET Candidates : Cardinality(S) \in Nat /\ Cardinality(S) <= MaxNumber
<1>1. IsFiniteSet(Candidates)
  BY LedgerAssumption
<1> QED BY <1>1, FS_CardinalityType, FS_Subset DEF MaxNumber

LEMMA ReservedIs ==
  ASSUME NEW l
  PROVE  \A c : c \in Reserved(l) <=> c \in Candidates /\ l.plans[c] # NoPlan
BY DEF Reserved

LEMMA InitInv == Init => Inv
<1> SUFFICES ASSUME Init PROVE Inv
  OBVIOUS
<1>1. Reserved(EmptyLedger) = {} /\ Reserved(ledger) = {}
  BY DEF Init, Reserved, EmptyLedger
<1>2. NoPlan \in Plans
  BY Bounds DEF NoPlan, Plans, Tags
<1>3. EmptyLedger \in Ledgers
  BY <1>2 DEF EmptyLedger, Ledgers
<1>4. Typed
  BY <1>2, <1>3 DEF Init, Typed, Labels
<1>5. Numbered
  <2>1. ledger.counter = 0 /\ ledger.floor = 0
    BY DEF Init, EmptyLedger
  <2>2. Cardinality(Reserved(ledger)) = 0
    BY <1>1, FS_EmptySet
  <2>3. ledger.counter = Cardinality(Reserved(ledger)) /\ ledger.floor <= ledger.counter
    BY <2>1, <2>2
  <2> QED BY <1>1, <2>3, Zenon DEF Numbered
<1>6. Drawn /\ Admitted
  BY DEF Init, Drawn, Admitted, Runs
<1>7. Begun
  BY DEF Init, Begun, Absent, Runs
<1> QED BY <1>4, <1>5, <1>6, <1>7 DEF Inv
-----------------------------------------------------------------------------
(* A step of run r that gives it the label, the snapshot s and the plan p.   *)
Moves(r, label, s, p) ==
    /\ pc' = [pc EXCEPT ![r] = label]
    /\ snap' = [snap EXCEPT ![r] = s]
    /\ plan' = [plan EXCEPT ![r] = p]

(* What the step has to bring for the parts of the invariant about runs.     *)
Justified(r, label, s, p) ==
    /\ label \in Labels /\ s \in Ledgers /\ p \in Plans
    /\ r \in Candidates /\ label \in {"ensureBranch", "reserve"} => DrawnFrom(s, p, r)
    /\ label = "consume" => AdmittedBy(s, p, r)

LEMMA MovesPrivate ==
  ASSUME Inv, NEW r \in Runs, NEW label, NEW s, NEW p,
         Moves(r, label, s, p), Justified(r, label, s, p)
  PROVE  /\ pc' \in [Runs -> Labels] /\ snap' \in [Runs -> Ledgers] /\ plan' \in [Runs -> Plans]
         /\ Drawn' /\ Admitted'
<1>1. /\ pc \in [Runs -> Labels] /\ snap \in [Runs -> Ledgers] /\ plan \in [Runs -> Plans]
  BY DEF Inv, Typed
<1>2. pc' \in [Runs -> Labels] /\ snap' \in [Runs -> Ledgers] /\ plan' \in [Runs -> Plans]
  BY <1>1 DEF Moves, Justified
<1>3. /\ pc'[r] = label /\ snap'[r] = s /\ plan'[r] = p
      /\ \A q \in Runs : q # r => pc'[q] = pc[q] /\ snap'[q] = snap[q] /\ plan'[q] = plan[q]
  BY <1>1 DEF Moves
<1>4. Drawn'
  <2> SUFFICES ASSUME NEW c \in Candidates, pc'[c] \in {"ensureBranch", "reserve"}
               PROVE  DrawnFrom(snap'[c], plan'[c], c)
    BY DEF Drawn, DrawnFrom, Reserved, NoPlan
  <2>1. CASE c = r
    BY <2>1, <1>3 DEF Justified
  <2>2. CASE c # r
    BY <2>2, <1>3 DEF Inv, Drawn, Runs
  <2> QED BY <2>1, <2>2
<1>5. Admitted'
  <2> SUFFICES ASSUME NEW q \in Runs, pc'[q] = "consume"
               PROVE  AdmittedBy(snap'[q], plan'[q], q)
    BY DEF Admitted, AdmittedBy
  <2>1. CASE q = r
    BY <2>1, <1>3 DEF Justified
  <2>2. CASE q # r
    BY <2>2, <1>3 DEF Inv, Admitted
  <2> QED BY <2>1, <2>2
<1> QED BY <1>2, <1>4, <1>5

(* A step that makes nothing public, or only the tag of a covered plan.      *)
Releases(r) ==
    /\ release' \in [Tags -> {"none", "tag", "draft", "published"}]
    /\ \A t \in Tags \ {Stable} : ~Absent(t)' =>
          ~Absent(t) \/ (r \in Candidates /\ Covered(r) /\ ledger.plans[r].tag = t)

LEMMA Quiet ==
  ASSUME Inv, NEW r, UNCHANGED release
  PROVE  Releases(r)
BY DEF Inv, Typed, Releases, Absent

(* A step that leaves the ledger alone.                                     *)
LEMMA PrivateStep ==
  ASSUME Inv, NEW r \in Runs, NEW label, NEW s, NEW p,
         Moves(r, label, s, p), Justified(r, label, s, p),
         r \in Candidates /\ label \in {"tag", "draft", "publish"}
            => ledger.plans[r] = p /\ Covered(r),
         Releases(r), UNCHANGED <<ledger, consumed>>
  PROVE  Inv'
<1>1. Typed' /\ Drawn' /\ Admitted'
  BY MovesPrivate DEF Inv, Typed, Releases
<1>2. Numbered'
  BY DEF Inv, Numbered, Reserved
<1>3. \A c : Covered(c)' <=> Covered(c)
  BY DEF Covered, Reserved
<1>4. \A c \in Candidates : pc'[c] \in {"tag", "draft", "publish"} =>
         ledger'.plans[c] = plan'[c] /\ Covered(c)'
  <2> SUFFICES ASSUME NEW c \in Candidates, pc'[c] \in {"tag", "draft", "publish"}
               PROVE  ledger.plans[c] = plan'[c] /\ Covered(c)
    BY <1>3
  <2>1. pc \in [Runs -> Labels] /\ plan \in [Runs -> Plans] /\ c \in Runs
    BY DEF Inv, Typed, Runs
  <2>2. CASE c = r
    BY <2>1, <2>2 DEF Moves
  <2>3. CASE c # r
    BY <2>1, <2>3 DEF Moves, Inv, Begun
  <2> QED BY <2>2, <2>3
<1>5. /\ \A c \in Candidates : consumed'[c] <= 1 /\ (consumed'[c] = 1 => Covered(c)')
      /\ \A t \in Tags \ {Stable} : ~Absent(t)' =>
            \E c \in Candidates : Covered(c)' /\ ledger'.plans[c].tag = t
  BY <1>3 DEF Inv, Begun, Releases
<1>6. Begun'
  BY <1>4, <1>5 DEF Begun
<1> QED BY <1>1, <1>2, <1>6 DEF Inv

(* Whatever a run does, it may end: nothing depends on its plan any more.    *)
LEMMA ExitStep ==
  ASSUME Inv, NEW r \in Runs, NEW label \in {"failed", "done"}, Exit(r, label),
         Releases(r), UNCHANGED <<ledger, consumed>>
  PROVE  Inv'
<1>1. NoPlan \in Plans /\ EmptyLedger \in Ledgers
  BY Bounds DEF NoPlan, Plans, Tags, EmptyLedger, Ledgers
<1>2. Moves(r, label, EmptyLedger, NoPlan)
  BY DEF Exit, Goto, Moves
<1>3. Justified(r, label, EmptyLedger, NoPlan)
  BY <1>1 DEF Justified, Labels
<1> QED BY <1>2, <1>3, PrivateStep

(* next_sequence and reserve_plan's sequence draw a tag nobody has had.      *)
LEMMA NextTagIsNew ==
  ASSUME Inv, NEW r \in Candidates, ledger.plans[r] = NoPlan
  PROVE  /\ NextTag(ledger) \in Tags
         /\ 1 <= NextTag(ledger) /\ NextTag(ledger) <= ledger.counter + 1
         /\ \A d \in Reserved(ledger) : ledger.plans[d].tag < NextTag(ledger)
<1> DEFINE S == {0} \cup {t \in Tags \ {Stable} : ~Absent(t)}
                    \cup {ledger.plans[c].tag : c \in Reserved(ledger)}
<1>1. ledger.counter \in Nat /\ \A c \in Candidates : ledger.plans[c].tag \in Tags
  BY DEF Inv, Typed, Ledgers, Plans
<1>2. Tags \in SUBSET Nat
  BY Bounds DEF Tags
<1>3. \A c \in Reserved(ledger) : c \in Candidates /\ ledger.plans[c].tag <= ledger.counter
  BY DEF Inv, Numbered, Reserved
<1>4. \A t \in Tags \ {Stable} : ~Absent(t) => t <= ledger.counter
  BY <1>3 DEF Inv, Begun, Covered
<1>5. S \in SUBSET Nat /\ S # {} /\ \A n \in S : n <= ledger.counter
  <2>1. 0 \in S /\ 0 <= ledger.counter
    BY <1>1
  <2>2. \A n \in S : n = 0 \/ (n \in Tags /\ n <= ledger.counter)
    BY <1>1, <1>3, <1>4
  <2> HIDE DEF S
  <2>3. \A n \in S : n \in Nat
    <3>1. 0 \in Nat
      OBVIOUS
    <3> QED BY <1>2, <2>2, <3>1, Zenon
  <2>4. \A n \in S : n <= ledger.counter
    BY <2>1, <2>2
  <2> QED BY <2>1, <2>3, <2>4, Zenon
<1>6. Largest(S) \in S /\ \A m \in S : m <= Largest(S)
  <2> HIDE DEF S
  <2> QED BY <1>1, <1>5, LargestOf
<1>7. NextTag(ledger) = 1 + Largest(S)
  BY DEF NextTag
<1>8. Largest(S) \in Nat /\ Largest(S) <= ledger.counter
  <2> HIDE DEF S
  <2> QED BY <1>5, <1>6
<1>9. \A d \in Reserved(ledger) : ledger.plans[d].tag \in Nat /\ ledger.plans[d].tag <= Largest(S)
  <2> SUFFICES ASSUME NEW d \in Reserved(ledger)
               PROVE  ledger.plans[d].tag \in Nat /\ ledger.plans[d].tag <= Largest(S)
    OBVIOUS
  <2>1. ledger.plans[d].tag \in S
    OBVIOUS
  <2> HIDE DEF S
  <2> QED BY <2>1, <1>5, <1>6
<1>10. ledger.counter + 1 <= MaxNumber
  <2>1. r \notin Reserved(ledger) /\ Reserved(ledger) \in SUBSET Candidates
    BY DEF Reserved
  <2>2. IsFiniteSet(Reserved(ledger))
    BY <2>1, Bounds, FS_Subset
  <2>3. Cardinality(Reserved(ledger) \cup {r}) = ledger.counter + 1
    BY <2>1, <2>2, FS_AddElement DEF Inv, Numbered
  <2>4. Reserved(ledger) \cup {r} \in SUBSET Candidates
    BY <2>1
  <2> QED BY <2>3, <2>4, Bounds
<1> HIDE DEF S
<1> QED BY <1>1, <1>7, <1>8, <1>9, <1>10, Bounds DEF Tags

LEMMA PrepareStep ==
  ASSUME Inv, NEW r \in Candidates, Prepare(r)
  PROVE  Inv'
<1>1. Releases(r) /\ r \in Runs
  BY Quiet DEF Prepare, remote, Runs
<1>2. ledger \in Ledgers /\ ledger.plans[r] \in Plans
  BY DEF Inv, Typed, Ledgers
<1>3. CASE ledger.plans[r] # NoPlan
  <2>1. Moves(r, "verify", ledger, ledger.plans[r])
    BY <1>3 DEF Prepare, Goto, Moves
  <2>2. Justified(r, "verify", ledger, ledger.plans[r])
    BY <1>2 DEF Justified, Labels
  <2> QED BY <1>1, <2>1, <2>2, PrivateStep DEF Prepare, remote
<1>4. CASE ledger.plans[r] = NoPlan
  <2> DEFINE p == [num |-> ledger.counter + 1, tag |-> NextTag(ledger)]
  <2>1. Moves(r, "ensureBranch", ledger, p)
    BY <1>4 DEF Prepare, Goto, Moves
  <2>2. p \in Plans
    BY <1>2, <1>4, NextTagIsNew DEF Plans, Ledgers
  <2>3. DrawnFrom(ledger, p, r)
    BY <1>4, NextTagIsNew DEF DrawnFrom
  <2>4. Justified(r, "ensureBranch", ledger, p)
    BY <1>2, <2>2, <2>3 DEF Justified, Labels
  <2> QED BY <1>1, <2>1, <2>4, PrivateStep DEF Prepare, remote
<1> QED BY <1>3, <1>4

(* A step that gives the run another label only.                            *)
LEMMA ProceedStep ==
  ASSUME Inv, NEW r \in Runs, NEW label \in Labels, Proceed(r, label),
         r \in Candidates /\ label \in {"ensureBranch", "reserve"} => pc[r] = "ensureBranch",
         label # "consume",
         r \in Candidates /\ label \in {"tag", "draft", "publish"} =>
            pc[r] \in {"tag", "draft", "publish"},
         Releases(r), UNCHANGED <<ledger, consumed>>
  PROVE  Inv'
<1>1. snap \in [Runs -> Ledgers] /\ plan \in [Runs -> Plans]
  BY DEF Inv, Typed
<1>2. Moves(r, label, snap[r], plan[r])
  BY <1>1 DEF Proceed, Goto, Moves
<1>3. r \in Candidates /\ label \in {"ensureBranch", "reserve"} => DrawnFrom(snap[r], plan[r], r)
  BY DEF Inv, Drawn
<1>4. Justified(r, label, snap[r], plan[r])
  BY <1>1, <1>3 DEF Justified
<1>5. r \in Candidates /\ label \in {"tag", "draft", "publish"} => ledger.plans[r] = plan[r] /\ Covered(r)
  BY DEF Inv, Begun
<1> QED BY <1>2, <1>4, <1>5, PrivateStep

(* What MayPublish admits is a reserved plan at or above the floor.          *)
LEMMA AdmittedPlan ==
  ASSUME Inv, NEW r \in Runs, MayPublish(r)
  PROVE  AdmittedBy(ledger, plan[r], r)
<1>1. /\ ledger.counter \in Nat /\ ledger.floor \in Nat
      /\ \A c \in Candidates : ledger.plans[c].num \in Nat
  BY DEF Inv, Typed, Ledgers, Plans
<1>2. CASE r \in Candidates
  <2>1. ledger.plans[r] = plan[r] /\ ledger.floor < plan[r].num
    BY <1>1, <1>2 DEF MayPublish, VerifyReservation
  <2>2. r \in Reserved(ledger)
    BY <1>1, <1>2, <2>1 DEF Reserved, NoPlan
  <2>3. plan[r].num <= ledger.counter
    BY <2>1, <2>2 DEF Inv, Numbered
  <2> QED BY <1>1, <1>2, <2>1, <2>3 DEF AdmittedBy
<1>3. CASE r \notin Candidates
  <2>1. /\ Cardinality({c \in Reserved(ledger) : ledger.plans[c] = plan[r]}) = 1
        /\ plan[r].num >= ledger.floor
    BY <1>3 DEF MayPublish, Promotable
  <2>2. {c \in Reserved(ledger) : ledger.plans[c] = plan[r]} # {}
    BY <2>1, FS_EmptySet
  <2>3. PICK c \in Reserved(ledger) : ledger.plans[c] = plan[r]
    BY <2>2
  <2>4. plan[r].num <= ledger.counter
    BY <2>3 DEF Inv, Numbered
  <2> QED BY <1>1, <1>3, <2>1, <2>3, <2>4 DEF AdmittedBy, Reserved
<1> QED BY <1>2, <1>3

LEMMA BeginStep ==
  ASSUME Inv, NEW r \in Runs, Begin(r)
  PROVE  Inv'
<1>1. Releases(r)
  BY Quiet DEF Begin, remote
<1>2. ledger \in Ledgers /\ plan \in [Runs -> Plans]
  BY DEF Inv, Typed
<1>3. Moves(r, "consume", ledger, plan[r])
  BY <1>2 DEF Begin, Goto, Moves
<1>4. Justified(r, "consume", ledger, plan[r])
  BY <1>2, AdmittedPlan DEF Begin, Justified, Labels
<1> QED BY <1>1, <1>3, <1>4, PrivateStep DEF Begin, remote

(* A successful write: the new ledger keeps every reserved plan, reserves no *)
(* plan but r's and never lowers the floor.                                 *)
Extends(r) ==
    /\ ledger' \in Ledgers
    /\ ledger.floor <= ledger'.floor
    /\ \A c \in Reserved(ledger) : c \in Reserved(ledger') /\ ledger'.plans[c] = ledger.plans[c]

LEMMA WriteStep ==
  ASSUME Inv, NEW r \in Runs, NEW label, NEW s, NEW p,
         Moves(r, label, s, p), Justified(r, label, s, p),
         Extends(r), Numbered', UNCHANGED release,
         r \in Candidates /\ label \in {"tag", "draft", "publish"}
            => ledger'.plans[r] = p /\ Covered(r)',
         consumed' \in [Runs -> Nat],
         \A c \in Candidates : consumed'[c] = consumed[c]
                               \/ (consumed'[c] = 1 /\ Covered(c)')
  PROVE  Inv'
<1>1. Typed' /\ Drawn' /\ Admitted'
  BY MovesPrivate DEF Inv, Typed, Extends
<1>2. \A c \in Candidates : Covered(c) => Covered(c)' /\ ledger'.plans[c] = ledger.plans[c]
  <2> SUFFICES ASSUME NEW c \in Candidates, Covered(c)
               PROVE  Covered(c)' /\ ledger'.plans[c] = ledger.plans[c]
    OBVIOUS
  <2>1. /\ ledger.floor \in Nat /\ ledger'.floor \in Nat /\ ledger.plans[c].num \in Nat
    BY DEF Inv, Typed, Extends, Ledgers, Plans
  <2> QED BY <2>1 DEF Covered, Extends
<1>3. \A c \in Candidates : pc'[c] \in {"tag", "draft", "publish"} =>
         ledger'.plans[c] = plan'[c] /\ Covered(c)'
  <2> SUFFICES ASSUME NEW c \in Candidates, pc'[c] \in {"tag", "draft", "publish"}
               PROVE  ledger'.plans[c] = plan'[c] /\ Covered(c)'
    OBVIOUS
  <2>1. pc \in [Runs -> Labels] /\ plan \in [Runs -> Plans] /\ c \in Runs
    BY DEF Inv, Typed, Runs
  <2>2. CASE c = r
    BY <2>1, <2>2 DEF Moves
  <2>3. CASE c # r
    BY <1>2, <2>1, <2>3 DEF Moves, Inv, Begun
  <2> QED BY <2>2, <2>3
<1>4. \A c \in Candidates : consumed'[c] <= 1 /\ (consumed'[c] = 1 => Covered(c)')
  BY <1>2 DEF Inv, Begun
<1>5. \A t \in Tags \ {Stable} : ~Absent(t)' =>
         \E c \in Candidates : Covered(c)' /\ ledger'.plans[c].tag = t
  <2> SUFFICES ASSUME NEW t \in Tags \ {Stable}, ~Absent(t)'
               PROVE  \E c \in Candidates : Covered(c)' /\ ledger'.plans[c].tag = t
    OBVIOUS
  <2>1. PICK c \in Candidates : Covered(c) /\ ledger.plans[c].tag = t
    BY DEF Inv, Begun, Absent
  <2> QED BY <1>2, <2>1
<1>6. Begun'
  BY <1>3, <1>4, <1>5 DEF Begun
<1> QED BY <1>1, <1>6 DEF Inv

(* The write of a run may be answered or not.                               *)
LEMMA AnsweredMoves ==
  ASSUME Inv, NEW r \in Runs, NEW label, Answered(r, label)
  PROVE  \/ Moves(r, label, snap[r], plan[r])
         \/ /\ Moves(r, "failed", EmptyLedger, NoPlan)
            /\ Justified(r, "failed", EmptyLedger, NoPlan)
<1>1. snap \in [Runs -> Ledgers] /\ plan \in [Runs -> Plans]
  BY DEF Inv, Typed
<1>2. CASE Proceed(r, label)
  BY <1>1, <1>2 DEF Proceed, Goto, Moves
<1>3. CASE Fail(r)
  <2>1. NoPlan \in Plans /\ EmptyLedger \in Ledgers
    BY Bounds DEF NoPlan, Plans, Tags, EmptyLedger, Ledgers
  <2>2. Moves(r, "failed", EmptyLedger, NoPlan)
    BY <1>3 DEF Fail, Exit, Goto, Moves
  <2>3. Justified(r, "failed", EmptyLedger, NoPlan)
    BY <2>1 DEF Justified, Labels
  <2> QED BY <2>2, <2>3
<1> QED BY <1>2, <1>3 DEF Answered

(* reserve_plan's write: the counter and one new plan.                       *)
LEMMA ReserveWrites ==
  ASSUME Inv, NEW r \in Candidates, pc[r] = "reserve", snap[r] = ledger,
         ledger' = [snap[r] EXCEPT !.counter = plan[r].num, !.plans[r] = plan[r]]
  PROVE  Extends(r) /\ Numbered'
<1>1. r \in Runs /\ ledger \in Ledgers /\ plan[r] \in Plans
  BY DEF Inv, Typed, Runs
<1>2. DrawnFrom(ledger, plan[r], r)
  BY DEF Inv, Drawn
<1>3. /\ ledger'.counter = plan[r].num /\ ledger'.floor = ledger.floor
      /\ ledger'.plans = [ledger.plans EXCEPT ![r] = plan[r]]
      /\ ledger' \in Ledgers
  <2>1. ledger' = [ledger EXCEPT !.counter = plan[r].num, !.plans[r] = plan[r]]
    OBVIOUS
  <2>2. ledger = [counter |-> ledger.counter, floor |-> ledger.floor, plans |-> ledger.plans]
    BY <1>1 DEF Ledgers
  <2>3. ledger' = [counter |-> plan[r].num, floor |-> ledger.floor,
                   plans |-> [ledger.plans EXCEPT ![r] = plan[r]]]
    BY <2>1, <2>2
  <2>4. [ledger.plans EXCEPT ![r] = plan[r]] \in [Candidates -> Plans] /\ plan[r].num \in Nat
    BY <1>1 DEF Ledgers, Plans
  <2>5. ledger.floor \in Nat
    BY <1>1 DEF Ledgers
  <2> QED BY <2>3, <2>4, <2>5 DEF Ledgers
<1>4. /\ ledger'.plans[r] = plan[r]
      /\ \A c \in Candidates : c # r => ledger'.plans[c] = ledger.plans[c]
  BY <1>1, <1>3 DEF Ledgers
<1>5. ledger.counter \in Nat /\ ledger.floor \in Nat /\ plan[r].num = ledger.counter + 1
  BY <1>1, <1>2 DEF Ledgers, DrawnFrom
<1>6. plan[r] # NoPlan /\ r \notin Reserved(ledger)
  BY <1>2, <1>5 DEF DrawnFrom, NoPlan, Reserved
<1>7. Reserved(ledger') = Reserved(ledger) \cup {r}
  BY <1>4, <1>6 DEF Reserved
<1>8. Extends(r)
  <2>1. \A c \in Reserved(ledger) : c \in Candidates /\ c # r
    BY <1>6 DEF Reserved
  <2>2. ledger.floor <= ledger'.floor
    BY <1>3, <1>5
  <2> QED BY <1>3, <1>4, <1>7, <2>1, <2>2 DEF Extends
<1>9. ledger'.counter = Cardinality(Reserved(ledger'))
  <2>1. IsFiniteSet(Reserved(ledger))
    BY Bounds, FS_Subset DEF Reserved
  <2>2. Cardinality(Reserved(ledger) \cup {r}) = Cardinality(Reserved(ledger)) + 1
    BY <1>6, <2>1, FS_AddElement
  <2> QED BY <1>3, <1>5, <1>7, <2>2 DEF Inv, Numbered
<1>10. ledger'.floor <= ledger'.counter
  BY <1>3, <1>5 DEF Inv, Numbered
<1>11. \A c \in Reserved(ledger) :
          /\ c \in Candidates /\ c # r
          /\ ledger.plans[c].num \in Nat /\ ledger.plans[c].tag \in Nat
          /\ ledger.plans[c].num <= ledger.counter
          /\ 1 <= ledger.plans[c].tag /\ ledger.plans[c].tag <= ledger.counter
          /\ ledger.plans[c].tag < plan[r].tag
  <2>1. Tags \in SUBSET Nat
    BY Bounds DEF Tags
  <2>2. \A c \in Reserved(ledger) : c \in Candidates /\ c # r
    BY <1>6 DEF Reserved
  <2> QED BY <1>1, <1>2, <2>1, <2>2 DEF Inv, Numbered, DrawnFrom, Ledgers, Plans
<1>12. plan[r].tag \in Nat /\ 1 <= plan[r].tag /\ plan[r].tag <= plan[r].num
  <2>1. Tags \in SUBSET Nat
    BY Bounds DEF Tags
  <2> QED BY <1>1, <1>2, <2>1 DEF DrawnFrom, Plans
<1>13. \A c \in Reserved(ledger') :
          /\ ledger'.plans[c].num <= ledger'.counter
          /\ 1 <= ledger'.plans[c].tag /\ ledger'.plans[c].tag <= ledger'.counter
  <2> SUFFICES ASSUME NEW c \in Reserved(ledger')
               PROVE  /\ ledger'.plans[c].num <= ledger'.counter
                      /\ 1 <= ledger'.plans[c].tag /\ ledger'.plans[c].tag <= ledger'.counter
    OBVIOUS
  <2>1. CASE c = r
    BY <1>3, <1>4, <1>5, <1>12, <2>1
  <2>2. CASE c \in Reserved(ledger)
    BY <1>3, <1>4, <1>5, <1>11, <2>2
  <2> QED BY <1>7, <2>1, <2>2
<1>14. \A c, d \in Reserved(ledger') :
          c # d => /\ ledger'.plans[c].num # ledger'.plans[d].num
                   /\ ledger'.plans[c].tag # ledger'.plans[d].tag
  <2>1. \A c \in Reserved(ledger) :
           /\ ledger'.plans[c] = ledger.plans[c]
           /\ ledger'.plans[c].num # ledger'.plans[r].num
           /\ ledger'.plans[c].tag # ledger'.plans[r].tag
    BY <1>4, <1>5, <1>11, <1>12
  <2>2. \A c, d \in Reserved(ledger) :
           c # d => /\ ledger.plans[c].num # ledger.plans[d].num
                    /\ ledger.plans[c].tag # ledger.plans[d].tag
    BY DEF Inv, Numbered
  <2> SUFFICES ASSUME NEW c \in Reserved(ledger'), NEW d \in Reserved(ledger'), c # d
               PROVE  /\ ledger'.plans[c].num # ledger'.plans[d].num
                      /\ ledger'.plans[c].tag # ledger'.plans[d].tag
    OBVIOUS
  <2>3. CASE c \in Reserved(ledger) /\ d \in Reserved(ledger)
    BY <2>1, <2>2, <2>3
  <2>4. CASE c = r \/ d = r
    BY <1>7, <2>1, <2>4
  <2> QED BY <1>7, <2>3, <2>4
<1>15. Numbered'
  BY <1>9, <1>10, <1>13, <1>14, Zenon DEF Numbered, Reserved, NoPlan
<1> QED BY <1>8, <1>15

LEMMA ConflictStep ==
  ASSUME Inv, NEW r \in Runs, Conflict(r)
  PROVE  Inv'
<1>1. Releases(r)
  BY Quiet DEF Conflict, remote
<1> QED BY <1>1, ExitStep DEF Conflict, Fail, remote

LEMMA ReserveStep ==
  ASSUME Inv, NEW r \in Candidates, Reserve(r)
  PROVE  Inv'
<1>1. r \in Runs /\ snap \in [Runs -> Ledgers] /\ plan \in [Runs -> Plans] /\ consumed \in [Runs -> Nat]
  BY DEF Inv, Typed, Runs
<1>2. CASE Conflict(r)
  BY <1>1, <1>2, ConflictStep
<1>3. CASE ~Conflict(r)
  <2>1. /\ snap[r] = ledger /\ pc[r] = "reserve"
        /\ ledger' = [snap[r] EXCEPT !.counter = plan[r].num, !.plans[r] = plan[r]]
        /\ Answered(r, "verify") /\ UNCHANGED <<release, consumed>>
    BY <1>3 DEF Reserve, write_state
  <2>2. Extends(r) /\ Numbered'
    BY <2>1, ReserveWrites
  <2>3. Justified(r, "verify", snap[r], plan[r])
    BY <1>1 DEF Justified, Labels
  <2>4. CASE Moves(r, "verify", snap[r], plan[r])
    BY <1>1, <2>1, <2>2, <2>3, <2>4, WriteStep
  <2>5. CASE Moves(r, "failed", EmptyLedger, NoPlan) /\ Justified(r, "failed", EmptyLedger, NoPlan)
    BY <1>1, <2>1, <2>2, <2>5, WriteStep
  <2> QED BY <1>1, <2>1, <2>4, <2>5, AnsweredMoves
<1> QED BY <1>2, <1>3

(* begin_publication's write: the floor moves up to the plan's number.       *)
LEMMA ConsumeWrites ==
  ASSUME Inv, NEW r \in Runs, pc[r] = "consume", snap[r] = ledger,
         ledger' = Consuming(r)
  PROVE  /\ Extends(r) /\ Numbered'
         /\ r \in Candidates =>
               /\ ledger'.plans[r] = plan[r] /\ Covered(r)'
               /\ ~Covered(r)
<1>1. ledger \in Ledgers /\ plan[r] \in Plans
  BY DEF Inv, Typed
<1>2. AdmittedBy(ledger, plan[r], r)
  BY DEF Inv, Admitted
<1>3. /\ ledger'.counter = ledger.counter /\ ledger'.floor = plan[r].num
      /\ ledger'.plans = ledger.plans /\ ledger' \in Ledgers
  <2>1. ledger' = [ledger EXCEPT !.floor = plan[r].num]
    BY DEF Consuming
  <2>2. ledger = [counter |-> ledger.counter, floor |-> ledger.floor, plans |-> ledger.plans]
    BY <1>1 DEF Ledgers
  <2>3. ledger' = [counter |-> ledger.counter, floor |-> plan[r].num, plans |-> ledger.plans]
    BY <2>1, <2>2
  <2>4. /\ plan[r].num \in Nat /\ ledger.counter \in Nat
        /\ ledger.plans \in [Candidates -> Plans]
    BY <1>1 DEF Ledgers, Plans
  <2> QED BY <2>3, <2>4 DEF Ledgers
<1>4. Reserved(ledger') = Reserved(ledger)
  BY <1>3 DEF Reserved
<1>5. Extends(r)
  BY <1>2, <1>3, <1>4 DEF Extends, AdmittedBy
<1>6. Numbered'
  <2>1. ledger'.floor <= ledger'.counter
    BY <1>2, <1>3 DEF AdmittedBy
  <2>2. ledger'.counter = Cardinality(Reserved(ledger'))
    BY <1>3, <1>4 DEF Inv, Numbered
  <2>3. /\ \A c \in Reserved(ledger') :
              /\ ledger'.plans[c].num <= ledger'.counter
              /\ 1 <= ledger'.plans[c].tag /\ ledger'.plans[c].tag <= ledger'.counter
        /\ \A c, d \in Reserved(ledger') :
              c # d => /\ ledger'.plans[c].num # ledger'.plans[d].num
                       /\ ledger'.plans[c].tag # ledger'.plans[d].tag
    BY <1>3, <1>4 DEF Inv, Numbered
  <2> QED BY <2>1, <2>2, <2>3, Zenon DEF Numbered, Reserved, NoPlan
<1>7. ASSUME r \in Candidates
      PROVE  ledger'.plans[r] = plan[r] /\ Covered(r)' /\ ~Covered(r)
  <2>1. /\ ledger.plans[r] = plan[r] /\ ledger.floor < plan[r].num
        /\ plan[r].num \in Nat /\ ledger.floor \in Nat
    BY <1>1, <1>2, <1>7 DEF AdmittedBy, Ledgers, Plans
  <2>2. r \in Reserved(ledger)
    BY <1>7, <2>1 DEF Reserved, NoPlan
  <2>3. ledger'.plans[r] = plan[r] /\ ledger'.floor = plan[r].num
    BY <1>3, <2>1
  <2>4. Covered(r)'
    <3>1. r \in Reserved(ledger') /\ ledger'.plans[r].num <= ledger'.floor
      BY <1>4, <2>1, <2>2, <2>3
    <3> QED BY <3>1 DEF Covered, Reserved, NoPlan
  <2>5. ~Covered(r)
    BY <2>1 DEF Covered
  <2> QED BY <2>3, <2>4, <2>5
<1> QED BY <1>5, <1>6, <1>7

LEMMA ConsumeStep ==
  ASSUME Inv, NEW r \in Runs, Consume(r)
  PROVE  Inv'
<1>1. snap \in [Runs -> Ledgers] /\ plan \in [Runs -> Plans] /\ consumed \in [Runs -> Nat]
  BY DEF Inv, Typed
<1>2. CASE Conflict(r)
  BY <1>1, <1>2, ConflictStep
<1>3. CASE ~Conflict(r)
  <2>1. /\ snap[r] = ledger /\ pc[r] = "consume" /\ ledger' = Consuming(r)
        /\ consumed' = [consumed EXCEPT ![r] = @ + 1]
        /\ Answered(r, "tag") /\ UNCHANGED release
    BY <1>3 DEF Consume, write_state
  <2>2. /\ Extends(r) /\ Numbered'
        /\ r \in Candidates => ledger'.plans[r] = plan[r] /\ Covered(r)' /\ ~Covered(r)
    BY <2>1, ConsumeWrites
  <2>3. consumed' \in [Runs -> Nat] /\ \A c \in Runs : c # r => consumed'[c] = consumed[c]
    BY <1>1, <2>1
  <2>4. r \in Candidates => consumed[r] = 0
    BY <1>1, <2>2 DEF Inv, Begun
  <2>5. \A c \in Candidates : consumed'[c] = consumed[c] \/ (consumed'[c] = 1 /\ Covered(c)')
    <3> SUFFICES ASSUME NEW c \in Candidates
                 PROVE  consumed'[c] = consumed[c] \/ (consumed'[c] = 1 /\ Covered(c)')
      OBVIOUS
    <3>1. CASE c = r
      BY <1>1, <2>1, <2>2, <2>4, <3>1
    <3>2. CASE c # r
      BY <2>3, <3>2 DEF Runs
    <3> QED BY <3>1, <3>2
  <2>6. Justified(r, "tag", snap[r], plan[r])
    BY <1>1 DEF Justified, Labels
  <2>7. CASE Moves(r, "tag", snap[r], plan[r])
    BY <2>1, <2>2, <2>3, <2>5, <2>6, <2>7, WriteStep
  <2>8. CASE Moves(r, "failed", EmptyLedger, NoPlan) /\ Justified(r, "failed", EmptyLedger, NoPlan)
    BY <2>1, <2>2, <2>3, <2>5, <2>8, WriteStep
  <2> QED BY <2>1, <2>7, <2>8, AnsweredMoves
<1> QED BY <1>2, <1>3
-----------------------------------------------------------------------------
(* What _publish_prepared makes public is the tag of a covered plan, or the  *)
(* stable tag.                                                              *)
LEMMA PublishesCovered ==
  ASSUME Inv, NEW r \in Runs, pc[r] \in {"tag", "draft", "publish"},
         NEW v \in {"none", "tag", "draft", "published"},
         release' = [release EXCEPT ![Target(r)] = v]
  PROVE  Releases(r)
<1>1. release \in [Tags -> {"none", "tag", "draft", "published"}]
  BY DEF Inv, Typed
<1>2. release' \in [Tags -> {"none", "tag", "draft", "published"}]
  BY <1>1
<1>3. ASSUME NEW t \in Tags \ {Stable}, ~Absent(t)', Absent(t)
      PROVE  r \in Candidates /\ Covered(r) /\ ledger.plans[r].tag = t
  <2>1. t = Target(r)
    BY <1>1, <1>3 DEF Absent
  <2>2. r \in Candidates /\ t = plan[r].tag
    BY <1>3, <2>1 DEF Target
  <2> QED BY <2>2 DEF Inv, Begun
<1> QED BY <1>2, <1>3 DEF Releases

LEMMA PublicationStep ==
  ASSUME Inv, NEW r \in Runs, CreateTag(r) \/ CreateDraft(r) \/ Publish(r)
  PROVE  Inv'
<1>1. pc[r] \in {"tag", "draft", "publish"} /\ UNCHANGED <<ledger, consumed>>
  BY DEF CreateTag, CreateDraft, Publish
<1>2. Releases(r)
  <2>1. CASE UNCHANGED release
    BY <2>1, Quiet
  <2>2. CASE \E v \in {"none", "tag", "draft", "published"} :
                release' = [release EXCEPT ![Target(r)] = v]
    BY <1>1, <2>2, PublishesCovered
  <2> QED BY <2>1, <2>2 DEF CreateTag, CreateDraft, Publish
<1>3. \/ Exit(r, "failed") \/ Exit(r, "done")
      \/ Proceed(r, "draft") \/ Proceed(r, "publish")
  BY DEF CreateTag, CreateDraft, Publish, Answered, Fail
<1>4. CASE Exit(r, "failed") \/ Exit(r, "done")
  BY <1>1, <1>2, <1>4, ExitStep
<1>5. CASE Proceed(r, "draft")
  BY <1>1, <1>2, <1>5, ProceedStep DEF Labels
<1>6. CASE Proceed(r, "publish")
  BY <1>1, <1>2, <1>6, ProceedStep DEF Labels
<1> QED BY <1>3, <1>4, <1>5, <1>6

(* The steps that only read, or that create the branch.                     *)
LEMMA ReadingStep ==
  ASSUME Inv, NEW r \in Runs,
         \/ Start(r) \/ Crash(r) \/ ReadFails(r) \/ Refused(r)
         \/ r \in Candidates /\ (EnsureBranch(r) \/ Verify(r))
         \/ Promote(r)
  PROVE  Inv'
<1>1. UNCHANGED <<ledger, release, consumed>>
  BY DEF Start, Crash, ReadFails, Refused, EnsureBranch, Verify, Promote, remote
<1>2. Releases(r)
  BY <1>1, Quiet
<1>3. CASE Exit(r, "failed")
  BY <1>1, <1>2, <1>3, ExitStep
<1>4. CASE Start(r)
  <2>1. PICK label \in {"prepare", "promote"} : Proceed(r, label)
    BY <1>4 DEF Start, Proceed
  <2> QED BY <1>1, <1>2, <2>1, ProceedStep DEF Labels
<1>5. CASE r \in Candidates /\ EnsureBranch(r)
  <2>1. CASE Proceed(r, "reserve")
    BY <1>1, <1>2, <1>5, <2>1, ProceedStep DEF Labels, EnsureBranch
  <2> QED BY <1>3, <1>5, <2>1 DEF EnsureBranch, Answered, Fail
<1>6. CASE Verify(r)
  BY <1>1, <1>2, <1>6, ProceedStep DEF Labels, Verify
<1>7. CASE Promote(r)
  <2>1. PICK c \in Reserved(ledger) : plan' = [plan EXCEPT ![r] = ledger.plans[c]]
    BY <1>7 DEF Promote
  <2>2. ledger.plans[c] \in Plans /\ snap \in [Runs -> Ledgers]
    BY DEF Inv, Typed, Ledgers, Reserved
  <2>3. Moves(r, "begin", snap[r], ledger.plans[c])
    BY <1>7, <2>1, <2>2 DEF Promote, Goto, Moves
  <2>4. Justified(r, "begin", snap[r], ledger.plans[c])
    BY <2>2 DEF Justified, Labels
  <2> QED BY <1>1, <1>2, <2>3, <2>4, PrivateStep
<1> QED BY <1>3, <1>4, <1>5, <1>6, <1>7 DEF Crash, ReadFails, Refused, Fail

LEMMA StutterStep ==
  ASSUME Inv, UNCHANGED vars
  PROVE  Inv'
BY DEF Inv, vars, Typed, Numbered, Drawn, DrawnFrom, Admitted, AdmittedBy, Begun, Covered,
       Reserved, Absent

LEMMA NextInv == Inv /\ [Next]_vars => Inv'
<1> SUFFICES ASSUME Inv, [Next]_vars PROVE Inv'
  OBVIOUS
<1>1. ASSUME NEW r \in Runs,
             \/ Start(r) \/ Crash(r) \/ ReadFails(r) \/ Refused(r)
             \/ Begin(r) \/ Consume(r) \/ CreateTag(r) \/ CreateDraft(r) \/ Publish(r)
      PROVE  Inv'
  BY <1>1, ReadingStep, BeginStep, ConsumeStep, PublicationStep
<1>2. ASSUME NEW c \in Candidates, Prepare(c) \/ EnsureBranch(c) \/ Reserve(c) \/ Verify(c)
      PROVE  Inv'
  <2>1. c \in Runs
    BY DEF Runs
  <2> QED BY <1>2, <2>1, PrepareStep, ReserveStep, ReadingStep
<1>3. ASSUME NEW p \in Promotions, Promote(p)
      PROVE  Inv'
  <2>1. p \in Runs
    BY DEF Runs
  <2> QED BY <1>3, <2>1, ReadingStep
<1>4. CASE UNCHANGED vars
  BY <1>4, StutterStep
<1> QED BY <1>1, <1>2, <1>3, <1>4 DEF Next

LEMMA Invariance == Spec => []Inv
BY InitInv, NextInv, PTL DEF Spec
-----------------------------------------------------------------------------
(* The ledger always passes read_state's checks and no two runs hold the     *)
(* same build number, for any number of runs interleaving freely.            *)
THEOREM LedgerStaysConsistent == Spec => []LedgerConsistent
<1>1. Inv => LedgerConsistent
  <2> SUFFICES ASSUME Inv PROVE LedgerConsistent
    OBVIOUS
  <2> QED BY DEF Inv, Numbered, LedgerConsistent
<1> QED BY <1>1, Invariance, PTL

(* A run gets through begin_publication at most once over all its attempts,  *)
(* under a tag of its own, and nothing public is ahead of the floor.         *)
THEOREM EachPublishedOnce == Spec => []PublishedOnce
<1>1. Inv => PublishedOnce
  <2> SUFFICES ASSUME Inv PROVE PublishedOnce
    OBVIOUS
  <2>1. \A c \in Candidates : consumed[c] <= 1
    BY DEF Inv, Begun
  <2>2. \A c, d \in Reserved(ledger) : ledger.plans[c].tag = ledger.plans[d].tag => c = d
    BY DEF Inv, Numbered
  <2>3. ASSUME NEW c \in Reserved(ledger), ~Absent(ledger.plans[c].tag)
        PROVE  ledger.plans[c].num <= ledger.floor
    <3>1. ledger.plans[c].tag \in Tags \ {Stable}
      BY DEF Inv, Typed, Numbered, Ledgers, Plans, Reserved, Stable
    <3>2. PICK d \in Candidates : Covered(d) /\ ledger.plans[d].tag = ledger.plans[c].tag
      BY <2>3, <3>1 DEF Inv, Begun
    <3>3. d = c
      BY <2>2, <3>2 DEF Covered
    <3> QED BY <3>2, <3>3 DEF Covered
  <2> QED BY <2>1, <2>2, <2>3 DEF PublishedOnce
<1> QED BY <1>1, Invariance, PTL
-----------------------------------------------------------------------------
(* The concurrency group.  Under it one run is under way at a time, so the   *)
(* floor a publication set is still there when it makes its release public,  *)
(* and nothing public lies above the floor.                                  *)
Publishing(r) == pc[r] \in {"tag", "draft", "publish"}

OneAtATime == grouped => \A r, q \in Runs : Active(r) /\ Active(q) => r = q

AtTheFloor ==
    \A r \in Runs : Publishing(r) =>
        /\ plan[r].num <= ledger.floor
        /\ grouped => plan[r].num = ledger.floor

PublicBelow ==
    /\ number \in [Tags -> Nat]
    /\ \A t \in Tags : Published(t) => number[t] <= ledger.floor

GroupInv == OneAtATime /\ AtTheFloor /\ PublicBelow

(* A step of run r is a step of no other run.                               *)
StepOf(r) ==
    \/ Start(r) \/ Crash(r) \/ ReadFails(r) \/ Refused(r)
    \/ Begin(r) \/ Consume(r) \/ CreateTag(r) \/ CreateDraft(r) \/ Publish(r)
    \/ r \in Candidates /\ (Prepare(r) \/ EnsureBranch(r) \/ Reserve(r) \/ Verify(r))
    \/ Promote(r)

LEMMA StepIsOfARun ==
  ASSUME Next
  PROVE  \E r \in Runs : StepOf(r)
BY DEF Next, StepOf, Runs

LEMMA OthersStay ==
  ASSUME Inv, NEW r \in Runs, StepOf(r), NEW q \in Runs, q # r
  PROVE  pc'[q] = pc[q] /\ plan'[q] = plan[q]
<1>1. pc \in [Runs -> Labels] /\ plan \in [Runs -> Plans]
  BY DEF Inv, Typed
<1>2. \E label : pc' = [pc EXCEPT ![r] = label]
  BY DEF StepOf, Start, Crash, ReadFails, Refused, Begin, Consume, CreateTag, CreateDraft,
     Publish, Prepare, EnsureBranch, Reserve, Verify, Promote, Conflict, Answered, Fail, Exit,
     Proceed, Goto
<1>3. plan' = plan \/ \E p : plan' = [plan EXCEPT ![r] = p]
  BY DEF StepOf, Start, Crash, ReadFails, Refused, Begin, Consume, CreateTag, CreateDraft,
     Publish, Prepare, EnsureBranch, Reserve, Verify, Promote, Conflict, Answered, Fail, Exit,
     Proceed, Goto
<1> QED BY <1>1, <1>2, <1>3

(* Only a run that starts was not active before its step.                    *)
LEMMA StepsAreActive ==
  ASSUME NEW r \in Runs, StepOf(r), ~Start(r)
  PROVE  Active(r)
BY DEF StepOf, Crash, ReadFails, Refused, Begin, Consume, CreateTag, CreateDraft, Publish,
   Prepare, EnsureBranch, Reserve, Verify, Promote, Active

LEMMA StaysOneAtATime ==
  ASSUME Inv, OneAtATime, NEW r \in Runs, StepOf(r), UNCHANGED grouped
  PROVE  OneAtATime'
<1> SUFFICES ASSUME grouped, NEW a \in Runs, NEW b \in Runs, Active(a)', Active(b)'
             PROVE  a = b
  BY DEF OneAtATime
<1>1. \A q \in Runs \ {r} : Active(q)' => Active(q)
  BY OthersStay DEF Active
<1>2. CASE Start(r)
  <2>1. \A q \in Runs : ~Active(q)
    BY <1>2 DEF Start
  <2> QED BY <1>1, <2>1
<1>3. CASE ~Start(r)
  <2>1. Active(r)
    BY <1>3, StepsAreActive
  <2> QED BY <1>1, <2>1 DEF OneAtATime
<1> QED BY <1>2, <1>3

(* What a step does to the floor: only Consume moves it, and upwards.        *)
LEMMA FloorMoves ==
  ASSUME Inv, NEW r \in Runs, StepOf(r)
  PROVE  \/ ledger'.floor = ledger.floor
         \/ /\ pc[r] = "consume" /\ plan[r].num = ledger'.floor
            /\ ledger.floor <= ledger'.floor
            /\ pc'[r] = "failed" \/ (pc'[r] = "tag" /\ plan' = plan)
<1>1. ledger \in Ledgers /\ snap[r] \in Ledgers /\ pc \in [Runs -> Labels]
  BY DEF Inv, Typed
<1>2. CASE Consume(r)
  <2>1. CASE Conflict(r)
    BY <2>1 DEF Conflict, remote
  <2>2. CASE ~Conflict(r)
    <3>1. /\ snap[r] = ledger /\ pc[r] = "consume" /\ ledger' = Consuming(r)
          /\ Answered(r, "tag")
      BY <1>2, <2>2 DEF Consume, write_state
    <3>2. Extends(r)
      BY <3>1, ConsumeWrites
    <3>3. ledger'.floor = plan[r].num
      BY <1>1, <3>1 DEF Consuming, Ledgers
    <3>4. pc'[r] = "failed" \/ (pc'[r] = "tag" /\ plan' = plan)
      BY <1>1, <3>1 DEF Answered, Proceed, Fail, Exit, Goto
    <3> QED BY <3>1, <3>2, <3>3, <3>4 DEF Extends
  <2> QED BY <2>1, <2>2
<1>3. CASE r \in Candidates /\ Reserve(r)
  <2>1. CASE Conflict(r)
    BY <2>1 DEF Conflict, remote
  <2>2. CASE ~Conflict(r)
    <3>1. /\ snap[r] = ledger
          /\ ledger' = [snap[r] EXCEPT !.counter = plan[r].num, !.plans[r] = plan[r]]
      BY <1>3, <2>2 DEF Reserve, write_state
    <3> QED BY <1>1, <3>1 DEF Ledgers
  <2> QED BY <2>1, <2>2
<1>4. CASE ~Consume(r) /\ ~(r \in Candidates /\ Reserve(r))
  BY <1>4 DEF StepOf, Start, Crash, ReadFails, Refused, Begin, CreateTag, CreateDraft, Publish,
     Prepare, EnsureBranch, Verify, Promote, remote
<1> QED BY <1>2, <1>3, <1>4

(* A publication goes on with the plan it began with.                        *)
LEMMA PublishingGoesOn ==
  ASSUME Inv, NEW r \in Runs, StepOf(r), Publishing(r)'
  PROVE  \/ pc[r] = "consume" /\ plan[r].num = ledger'.floor /\ plan'[r] = plan[r]
         \/ Publishing(r) /\ ledger' = ledger /\ plan'[r] = plan[r]
<1>1. pc \in [Runs -> Labels] /\ snap[r] \in Ledgers
  BY DEF Inv, Typed
<1>2. CASE Consume(r)
  <2>1. ~Conflict(r)
    BY <1>1 DEF Conflict, Fail, Exit, Goto, Publishing
  <2>2. /\ pc[r] = "consume" /\ ledger' = Consuming(r) /\ Answered(r, "tag")
    BY <1>2, <2>1 DEF Consume, write_state
  <2>3. plan'[r] = plan[r]
    BY <1>1, <2>2 DEF Answered, Proceed, Fail, Exit, Goto, Publishing
  <2> QED BY <1>1, <2>2, <2>3 DEF Consuming, Ledgers
<1>3. CASE CreateTag(r) \/ CreateDraft(r) \/ Publish(r)
  BY <1>1, <1>3 DEF CreateTag, CreateDraft, Publish, Answered, Proceed, Fail, Exit, Goto,
     Publishing
<1>4. CASE ~Consume(r) /\ ~(CreateTag(r) \/ CreateDraft(r) \/ Publish(r))
  <2>1. pc'[r] \notin {"tag", "draft", "publish"}
    BY <1>1, <1>4 DEF StepOf, Start, Crash, ReadFails, Refused, Begin, Prepare, EnsureBranch,
       Reserve, Verify, Promote, Conflict, Answered, Proceed, Fail, Exit, Goto
  <2> QED BY <2>1 DEF Publishing
<1> QED BY <1>2, <1>3, <1>4

LEMMA StaysAtTheFloor ==
  ASSUME Inv, OneAtATime, AtTheFloor, NEW r \in Runs, StepOf(r), UNCHANGED grouped
  PROVE  AtTheFloor'
<1>1. /\ ledger.floor \in Nat
      /\ \A q \in Runs : plan[q].num \in Nat
  BY DEF Inv, Typed, Ledgers, Plans
<1> SUFFICES ASSUME NEW q \in Runs, Publishing(q)'
             PROVE  /\ plan'[q].num <= ledger'.floor
                    /\ grouped => plan'[q].num = ledger'.floor
  BY DEF AtTheFloor
<1>2. CASE q = r
  BY <1>1, <1>2, PublishingGoesOn DEF AtTheFloor
<1>3. CASE q # r
  <2>1. Publishing(q) /\ plan'[q] = plan[q]
    BY <1>3, OthersStay DEF Publishing
  <2>2. plan[q].num <= ledger.floor /\ (grouped => plan[q].num = ledger.floor)
    BY <2>1 DEF AtTheFloor
  <2>3. CASE ledger'.floor = ledger.floor
    BY <2>1, <2>2, <2>3
  <2>4. CASE pc[r] = "consume" /\ plan[r].num = ledger'.floor /\ ledger.floor <= ledger'.floor
    <3>1. Active(q) /\ Active(r)
      BY <2>1, <2>4 DEF Active, Publishing
    <3>2. ~grouped
      BY <1>3, <3>1 DEF OneAtATime
    <3> QED BY <1>1, <2>1, <2>2, <2>4, <3>2
  <2> QED BY <2>3, <2>4, FloorMoves
<1> QED BY <1>2, <1>3

(* What a step publishes, if anything: the target of its run.                *)
LEMMA PublishedBy ==
  ASSUME Inv, NEW r \in Runs, StepOf(r), number \in [Tags -> Nat]
  PROVE  \/ number' = number /\ \A t \in Tags : Published(t)' => Published(t)
         \/ /\ pc[r] = "publish" /\ ledger' = ledger
            /\ number' = [number EXCEPT ![Target(r)] = plan[r].num]
            /\ \A t \in Tags : Published(t)' => Published(t) \/ t = Target(r)
<1>1. release \in [Tags -> {"none", "tag", "draft", "published"}]
  BY DEF Inv, Typed
<1>2. CASE Publish(r)
  BY <1>1, <1>2 DEF Publish, Published
<1>3. CASE CreateTag(r) \/ CreateDraft(r)
  BY <1>1, <1>3 DEF CreateTag, CreateDraft, Published
<1>4. CASE ~Publish(r) /\ ~(CreateTag(r) \/ CreateDraft(r))
  <2>1. UNCHANGED <<release, number>>
    BY <1>4 DEF StepOf, Start, Crash, ReadFails, Refused, Begin, Consume, Prepare, EnsureBranch,
       Reserve, Verify, Promote, Conflict, remote
  <2> QED BY <2>1 DEF Published
<1> QED BY <1>2, <1>3, <1>4

LEMMA TargetIsTag ==
  ASSUME Inv, NEW r \in Runs
  PROVE  Target(r) \in Tags /\ plan[r].num \in Nat
<1>1. plan[r] \in Plans /\ 0 \in Tags
  BY Bounds DEF Inv, Typed, Tags
<1> QED BY <1>1 DEF Target, Plans, Stable

LEMMA StaysPublicBelow ==
  ASSUME Inv, AtTheFloor, PublicBelow, NEW r \in Runs, StepOf(r)
  PROVE  PublicBelow'
<1>1. ledger.floor \in Nat /\ number \in [Tags -> Nat]
  BY DEF Inv, Typed, Ledgers, PublicBelow
<1>2. CASE number' = number /\ \A t \in Tags : Published(t)' => Published(t)
  <2>1. ledger.floor <= ledger'.floor /\ ledger'.floor \in Nat
    <3>1. plan[r].num \in Nat
      BY TargetIsTag
    <3> QED BY <1>1, <3>1, FloorMoves
  <2>2. \A t \in Tags : Published(t) => number[t] <= ledger'.floor
    BY <1>1, <2>1 DEF PublicBelow
  <2> QED BY <1>1, <1>2, <2>2 DEF PublicBelow
<1>3. CASE /\ pc[r] = "publish" /\ ledger' = ledger
           /\ number' = [number EXCEPT ![Target(r)] = plan[r].num]
           /\ \A t \in Tags : Published(t)' => Published(t) \/ t = Target(r)
  <2>1. plan[r].num <= ledger.floor /\ plan[r].num \in Nat
    BY <1>3, TargetIsTag DEF AtTheFloor, Publishing
  <2> QED BY <1>1, <1>3, <2>1 DEF PublicBelow
<1> QED BY <1>1, <1>2, <1>3, PublishedBy

LEMMA GroupInvKept == Inv /\ GroupInv /\ [Next]_vars => GroupInv'
<1> SUFFICES ASSUME Inv, GroupInv, [Next]_vars PROVE GroupInv'
  OBVIOUS
<1>1. CASE Next
  <2>1. PICK r \in Runs : StepOf(r)
    BY <1>1, StepIsOfARun
  <2>2. UNCHANGED grouped
    BY <1>1 DEF Next
  <2> QED BY <2>1, <2>2, StaysOneAtATime, StaysAtTheFloor, StaysPublicBelow DEF GroupInv
<1>2. CASE UNCHANGED vars
  BY <1>2 DEF vars, GroupInv, OneAtATime, AtTheFloor, PublicBelow, Active, Publishing, Published
<1> QED BY <1>1, <1>2

LEMMA GroupInvInit == Init => GroupInv
<1> SUFFICES ASSUME Init PROVE GroupInv
  OBVIOUS
<1>1. \A r \in Runs : pc[r] = "idle"
  BY DEF Init
<1>2. number \in [Tags -> Nat] /\ \A t \in Tags : ~Published(t)
  BY DEF Init, Published
<1> QED BY <1>1, <1>2 DEF GroupInv, OneAtATime, AtTheFloor, PublicBelow, Active, Publishing

(* Under the concurrency group no run, candidate or promotion, however       *)
(* delayed, crashed or rerun, makes a release public below a number that is  *)
(* already public (release_state.py:262-303).                                *)
THEOREM NeverDowngrades == Spec => NoDowngrade
<1>1. ASSUME Inv, GroupInv, Next, grouped PROVE ~Downgrade
  <2>1. PICK r \in Runs : StepOf(r)
    BY <1>1, StepIsOfARun
  <2>2. ledger.floor \in Nat /\ number \in [Tags -> Nat]
    BY <1>1 DEF Inv, Typed, Ledgers, GroupInv, PublicBelow
  <2> SUFFICES ASSUME NEW t \in Tags, NEW u \in Tags, ~Published(t), Published(t)',
                      Published(u), number[u] > number'[t]
               PROVE  FALSE
    BY DEF Downgrade
  <2>3. /\ pc[r] = "publish" /\ t = Target(r)
        /\ number' = [number EXCEPT ![Target(r)] = plan[r].num]
    BY <1>1, <2>1, <2>2, PublishedBy
  <2>4. number'[t] = plan[r].num /\ plan[r].num = ledger.floor
    BY <1>1, <2>2, <2>3 DEF GroupInv, AtTheFloor, Publishing
  <2>5. number[u] <= ledger.floor /\ number[u] \in Nat
    BY <1>1, <2>2 DEF GroupInv, PublicBelow
  <2> QED BY <2>2, <2>4, <2>5
<1>2. Inv /\ GroupInv /\ [Next]_vars => [grouped => ~Downgrade]_vars
  BY <1>1
<1>3. Spec => [](Inv /\ GroupInv)
  BY InitInv, NextInv, GroupInvInit, GroupInvKept, PTL DEF Spec
<1> QED BY <1>2, <1>3, PTL DEF Spec, NoDowngrade
-----------------------------------------------------------------------------
(* The readers of a published candidate (CandidateVerification).            *)

(* Where each reader makes the checks its verdict rests on.                  *)
Modes == {"promote", "final", "reuse", "publish"}
ChecksIn == IF mode = "promote" THEN 11 ELSE IF mode = "publish" THEN 6 ELSE 10
ListingAt == IF mode = "publish" THEN 2 ELSE 3
EvidenceAt == IF mode = "reuse" THEN 7 ELSE IF mode = "publish" THEN 5 ELSE 6
CopiesAt == IF mode = "reuse" THEN 5 ELSE IF mode = "publish" THEN 6 ELSE 7
TagAt == IF mode = "publish" THEN 1 ELSE 8
RelistingAt == 9

LEMMA OrderOf ==
  /\ mode = "promote" => Order[mode] = PromoteChecks
  /\ mode = "final" => Order[mode] = FinalChecks
  /\ mode = "reuse" => Order[mode] = ReuseChecks
  /\ mode = "publish" => Order[mode] = PublishChecks
BY DEF Order

LEMMA OrderLength ==
  ASSUME mode \in Modes
  PROVE  Len(Order[mode]) = ChecksIn /\ DOMAIN Order[mode] = 1..ChecksIn
<1>1. Len(PromoteChecks) = 11 /\ DOMAIN PromoteChecks = 1..11
  BY DEF PromoteChecks
<1>2. Len(FinalChecks) = 10 /\ DOMAIN FinalChecks = 1..10
  BY DEF FinalChecks
<1>3. Len(ReuseChecks) = 10 /\ DOMAIN ReuseChecks = 1..10
  BY DEF ReuseChecks
<1>4. Len(PublishChecks) = 6 /\ DOMAIN PublishChecks = 1..6
  BY DEF PublishChecks
<1> QED BY <1>1, <1>2, <1>3, <1>4, OrderOf DEF Modes, ChecksIn

(* What the check number i of a reader is.                                   *)
IsAt(i, check) ==
    /\ check = "listing" => i = ListingAt
    /\ check = "manifest" => i = ListingAt + 1
    /\ check = "evidence" => i = EvidenceAt
    /\ check = "bytes" => mode # "reuse" /\ i = CopiesAt
    /\ check = "metadata" => mode = "reuse" /\ i = CopiesAt
    /\ check = "relisting" => mode # "publish" /\ i = RelistingAt
    /\ i = EvidenceAt => check = "evidence"
    /\ i = CopiesAt => check = IF mode = "reuse" THEN "metadata" ELSE "bytes"
    /\ i = TagAt => check = "ref"
    /\ mode # "publish" /\ i = RelistingAt => check = "relisting"
    /\ mode = "promote" /\ i = 10 => check = "run"
    /\ mode = "promote" /\ i = 11 => check = "reviewers"
    /\ mode = "final" /\ i = 10 => check = "reviewers"
    /\ mode = "reuse" /\ i = 10 => check = "head"

LEMMA WhichCheck ==
  ASSUME mode \in Modes, NEW i \in 1..ChecksIn
  PROVE  IsAt(i, Order[mode][i])
<1> USE DEF IsAt, ListingAt, EvidenceAt, CopiesAt, TagAt, RelistingAt
<1>1. CASE mode = "promote"
  <2>1. i \in {1, 2, 3, 4, 5, 6, 7, 8, 9, 10, 11}
    BY <1>1 DEF ChecksIn
  <2> QED BY <1>1, <2>1, OrderOf DEF PromoteChecks
<1>2. CASE mode = "final"
  <2>1. i \in {1, 2, 3, 4, 5, 6, 7, 8, 9, 10}
    BY <1>2 DEF ChecksIn
  <2> QED BY <1>2, <2>1, OrderOf DEF FinalChecks
<1>3. CASE mode = "reuse"
  <2>1. i \in {1, 2, 3, 4, 5, 6, 7, 8, 9, 10}
    BY <1>3 DEF ChecksIn
  <2> QED BY <1>3, <2>1, OrderOf DEF ReuseChecks
<1>4. CASE mode = "publish"
  <2>1. i \in {1, 2, 3, 4, 5, 6}
    BY <1>4 DEF ChecksIn
  <2> QED BY <1>4, <2>1, OrderOf DEF PublishChecks
<1> QED BY <1>1, <1>2, <1>3, <1>4 DEF Modes

LEMMA PositionOf ==
  ASSUME mode \in Modes
  PROVE  /\ Position("evidence") = EvidenceAt
         /\ mode # "reuse" => Position("bytes") = CopiesAt
         /\ mode # "publish" => Position("relisting") = RelistingAt
         /\ Verified = IF mode = "publish" THEN 6 ELSE 7
<1>1. DOMAIN Order[mode] = 1..ChecksIn
  BY OrderLength
<1>2. /\ EvidenceAt \in 1..ChecksIn /\ CopiesAt \in 1..ChecksIn
      /\ mode # "publish" => RelistingAt \in 1..ChecksIn
  BY DEF EvidenceAt, CopiesAt, RelistingAt, ChecksIn, Modes
<1>3. Position("evidence") = EvidenceAt
  <2>1. \A i \in 1..ChecksIn : Order[mode][i] = "evidence" <=> i = EvidenceAt
    BY WhichCheck DEF IsAt
  <2> QED BY <1>1, <1>2, <2>1 DEF Position
<1>4. ASSUME mode # "reuse" PROVE Position("bytes") = CopiesAt
  <2>1. \A i \in 1..ChecksIn : Order[mode][i] = "bytes" <=> i = CopiesAt
    BY <1>4, WhichCheck DEF IsAt
  <2> QED BY <1>1, <1>2, <2>1 DEF Position
<1>5. ASSUME mode # "publish" PROVE Position("relisting") = RelistingAt
  <2>1. \A i \in 1..ChecksIn : Order[mode][i] = "relisting" <=> i = RelistingAt
    BY <1>5, WhichCheck DEF IsAt
  <2> QED BY <1>1, <1>2, <1>5, <2>1 DEF Position
<1>6. Verified = IF mode = "publish" THEN 6 ELSE 7
  BY <1>3, <1>4 DEF Verified, EvidenceAt, CopiesAt, Modes
<1> QED BY <1>3, <1>4, <1>5, <1>6

Assets == [Files -> [id : Nat, bytes : Bytes]]
Manifests == [id : Nat, bytes : [Files -> Bytes], valid : BOOLEAN]

CandidateTypes ==
    /\ mode \in Modes /\ step \in Nat /\ verdict \in {"checking", "accepted", "refused"}
    /\ asset \in Assets /\ manifest \in Manifests
    /\ tag \in BOOLEAN /\ run \in BOOLEAN /\ reviewers \in BOOLEAN /\ head \in BOOLEAN
    /\ snapshot \in Assets \X Manifests /\ raw \in Manifests
    /\ proved \in [Files -> Bytes \cup {0}]
    /\ changed \in [Things -> Nat]

(* The verdict falls with the last check.                                    *)
Progress ==
    /\ verdict = "checking" => step < ChecksIn
    /\ verdict = "accepted" => step = ChecksIn

(* An asset under the ID that was listed has the bytes that were listed.     *)
SameUnderId ==
    \A f \in Files :
        /\ snapshot[1][f].id <= asset[f].id
        /\ asset[f].id = snapshot[1][f].id => asset[f] = snapshot[1][f]

(* What the checks passed so far have established.                           *)
ContentProved ==
    /\ step >= EvidenceAt => raw.bytes = Evidence
    /\ step >= CopiesAt =>
          \A f \in Files : proved[f] = raw.bytes[f] /\ proved[f] = snapshot[1][f].bytes
    /\ (mode # "publish" /\ step >= RelistingAt) =>
          snapshot[1] = asset \/ changed["asset"] > RelistingAt

StillInOrder ==
    /\ step >= TagAt => tag \/ changed["tag"] > TagAt
    /\ (mode = "promote" /\ step >= 10) => run \/ changed["run"] > 10
    /\ (mode \in {"promote", "final"} /\ step = ChecksIn) => reviewers
    /\ (mode = "reuse" /\ step = ChecksIn) => head

CandidateInv ==
    /\ CandidateTypes /\ Progress /\ SameUnderId
    /\ verdict # "refused" => ContentProved /\ StillInOrder

LEMMA CandidateInvInit == VerificationInit => CandidateInv
<1> SUFFICES ASSUME VerificationInit PROVE CandidateInv
  OBVIOUS
<1> USE DEF VerificationInit
<1>1. mode \in Modes
  BY DEF Order, Modes
<1>2. asset \in Assets /\ manifest \in Manifests
  BY VerificationAssumption DEF Assets, Manifests, Evidence
<1>3. CandidateTypes
  BY <1>1, <1>2 DEF CandidateTypes, Things, Nothing
<1>4. SameUnderId
  BY <1>2 DEF SameUnderId, Assets
<1>5. ChecksIn > 0 /\ ~(step >= EvidenceAt) /\ ~(step >= CopiesAt) /\ ~(step >= RelistingAt)
      /\ ~(step >= TagAt) /\ ~(step >= 10) /\ step # ChecksIn
  BY DEF ChecksIn, EvidenceAt, CopiesAt, RelistingAt, TagAt
<1> QED BY <1>3, <1>4, <1>5 DEF CandidateInv, Progress, ContentProved, StillInOrder

(* Others change something while the reader checks.                          *)
LEMMA ForeignKeeps ==
  ASSUME CandidateInv, NEW thing \in Things, Foreign(thing),
         asset' \in Assets, manifest' \in Manifests,
         tag' \in BOOLEAN, run' \in BOOLEAN, reviewers' \in BOOLEAN, head' \in BOOLEAN,
         asset' = asset \/ thing = "asset",
         \A f \in Files : asset'[f] = asset[f] \/ asset'[f].id > asset[f].id,
         tag' = tag \/ thing = "tag", run' = run \/ thing = "run"
  PROVE  CandidateInv'
<1> USE DEF CandidateInv
<1>1. /\ mode' = mode /\ step' = step /\ verdict' = verdict /\ verdict = "checking"
      /\ snapshot' = snapshot /\ raw' = raw /\ proved' = proved
      /\ changed' = [changed EXCEPT ![thing] = step + 1]
      /\ changed \in [Things -> Nat] /\ step \in Nat /\ mode \in Modes
  BY DEF Foreign, CandidateTypes
<1>2. CandidateTypes'
  BY <1>1 DEF CandidateTypes
<1>3. /\ ChecksIn' = ChecksIn /\ EvidenceAt' = EvidenceAt /\ CopiesAt' = CopiesAt
      /\ TagAt' = TagAt /\ RelistingAt' = RelistingAt
  BY <1>1 DEF ChecksIn, EvidenceAt, CopiesAt, TagAt, RelistingAt
<1>4. Progress'
  BY <1>1, <1>3 DEF Progress
<1>5. SameUnderId'
  <2> SUFFICES ASSUME NEW f \in Files
               PROVE  /\ snapshot[1][f].id <= asset'[f].id
                      /\ asset'[f].id = snapshot[1][f].id => asset'[f] = snapshot[1][f]
    BY <1>1 DEF SameUnderId
  <2>1. snapshot[1][f].id \in Nat /\ asset[f].id \in Nat /\ asset'[f].id \in Nat
    BY DEF CandidateTypes, Assets
  <2> QED BY <2>1 DEF SameUnderId
<1>6. /\ thing = "asset" => changed'["asset"] = step + 1
      /\ thing = "tag" => changed'["tag"] = step + 1
      /\ thing = "run" => changed'["run"] = step + 1
      /\ thing # "asset" => changed'["asset"] = changed["asset"]
      /\ thing # "tag" => changed'["tag"] = changed["tag"]
      /\ thing # "run" => changed'["run"] = changed["run"]
  BY <1>1 DEF Things
<1>7. /\ EvidenceAt \in Nat /\ TagAt \in Nat /\ RelistingAt \in Nat /\ ChecksIn \in Nat
  BY DEF ChecksIn, EvidenceAt, TagAt, RelistingAt
<1>8. ContentProved'
  <2>1. (mode # "publish" /\ step >= RelistingAt) =>
           snapshot[1] = asset' \/ changed'["asset"] > RelistingAt
    BY <1>1, <1>6, <1>7 DEF ContentProved
  <2> QED BY <1>1, <1>3, <2>1 DEF ContentProved, Evidence
<1>9. StillInOrder'
  <2>1. step >= TagAt => tag' \/ changed'["tag"] > TagAt
    BY <1>1, <1>6, <1>7 DEF StillInOrder
  <2>2. (mode = "promote" /\ step >= 10) => run' \/ changed'["run"] > 10
    BY <1>1, <1>6 DEF StillInOrder
  <2>3. step # ChecksIn
    BY <1>1, <1>7 DEF Progress
  <2> QED BY <1>1, <1>3, <2>1, <2>2, <2>3 DEF StillInOrder
<1> QED BY <1>2, <1>4, <1>5, <1>8, <1>9

LEMMA PeopleKeep ==
  ASSUME CandidateInv,
         \/ \E f \in Files, b \in Bytes : ReplaceAsset(f, b)
         \/ \E content \in [Files -> Bytes], ok \in BOOLEAN : ReplaceManifest(content, ok)
         \/ Revoke
  PROVE  CandidateInv'
<1>1. /\ asset \in Assets /\ manifest \in Manifests
      /\ tag \in BOOLEAN /\ run \in BOOLEAN /\ reviewers \in BOOLEAN /\ head \in BOOLEAN
  BY DEF CandidateInv, CandidateTypes
<1>2. ASSUME NEW f \in Files, NEW b \in Bytes, ReplaceAsset(f, b) PROVE CandidateInv'
  <2>1. /\ asset' = [asset EXCEPT ![f] = [id |-> asset[f].id + 1, bytes |-> b]]
        /\ UNCHANGED <<manifest, tag, run, reviewers, head>> /\ Foreign("asset")
    BY <1>2 DEF ReplaceAsset
  <2>2. asset' \in Assets /\ \A g \in Files : asset'[g] = asset[g] \/ asset'[g].id > asset[g].id
    BY <1>1, <2>1 DEF Assets
  <2> QED BY <1>1, <2>1, <2>2, ForeignKeeps DEF Things
<1>3. ASSUME NEW content \in [Files -> Bytes], NEW ok \in BOOLEAN, ReplaceManifest(content, ok)
      PROVE  CandidateInv'
  <2>1. manifest' \in Manifests
    BY <1>1, <1>3 DEF ReplaceManifest, Manifests
  <2> QED BY <1>1, <1>3, <2>1, ForeignKeeps DEF ReplaceManifest, Things
<1>4. ASSUME Revoke PROVE CandidateInv'
  <2>1. /\ asset' = asset /\ manifest' = manifest
        /\ tag' \in BOOLEAN /\ run' \in BOOLEAN /\ reviewers' \in BOOLEAN /\ head' \in BOOLEAN
    BY <1>1, <1>4, Zenon DEF Revoke
  <2>2. \E thing \in Things :
           Foreign(thing) /\ (tag' = tag \/ thing = "tag") /\ (run' = run \/ thing = "run")
    BY <1>4 DEF Revoke, Things
  <2> QED BY <1>1, <2>1, <2>2, ForeignKeeps
<1> QED BY <1>2, <1>3, <1>4

(* What a check does: it counts, and it refuses unless it finds what it asks *)
(* for.                                                                      *)
LEMMA CheckDecides ==
  ASSUME CandidateInv, VerifyCandidate
  PROVE  /\ verdict = "checking" /\ step' = step + 1
         /\ UNCHANGED <<mode, asset, manifest, tag, run, reviewers, head, changed>>
         /\ verdict' \in {"refused", IF step' = ChecksIn THEN "accepted" ELSE "checking"}
         /\ verdict' # "refused" =>
               /\ NextCheck = "ref" => tag
               /\ NextCheck = "run" => run
               /\ NextCheck = "reviewers" => reviewers
               /\ NextCheck = "head" => head
               /\ NextCheck = "evidence" => raw.bytes = Evidence
               /\ NextCheck = "bytes" =>
                     \A f \in Files : Downloadable(f) /\ asset[f].bytes = raw.bytes[f]
               /\ NextCheck = "metadata" =>
                     \A f \in Files : snapshot[1][f].bytes = raw.bytes[f]
               /\ NextCheck = "relisting" => snapshot = <<asset, manifest>>
<1>1. mode \in Modes /\ Len(Order[mode]) = ChecksIn
  BY OrderLength DEF CandidateInv, CandidateTypes
<1>2. verdict = "checking" /\ (\/ Authorize \/ Listing \/ Download \/ VerifyEvidence
                               \/ VerifyBytes \/ VerifyMetadata \/ Relisting)
  BY DEF VerifyCandidate
<1> DEFINE Known(passed) ==
      /\ step' = step + 1
      /\ UNCHANGED <<mode, asset, manifest, tag, run, reviewers, head, changed>>
      /\ verdict' = IF ~passed THEN "refused"
                    ELSE IF step' = ChecksIn THEN "accepted" ELSE "checking"
<1>3. ASSUME NEW passed, Decide(passed) PROVE Known(passed)
  BY <1>1, <1>3 DEF Decide, candidateWorld
<1>4. CASE Authorize
  BY <1>2, <1>3, <1>4 DEF Authorize, Condition
<1>5. CASE Listing
  BY <1>2, <1>3, <1>5 DEF Listing
<1>6. CASE Download
  <2>1. Known(manifest.id = snapshot[2].id /\ manifest.valid) /\ NextCheck = "manifest"
    BY <1>3, <1>6 DEF Download
  <2> QED BY <1>2, <2>1
<1>7. CASE VerifyEvidence
  <2>1. Known(EvidenceMatches) /\ NextCheck = "evidence"
    BY <1>3, <1>7 DEF VerifyEvidence
  <2> QED BY <1>2, <2>1 DEF EvidenceMatches
<1>8. CASE VerifyBytes
  <2>1. /\ Known(\A f \in Files : Downloadable(f) /\ asset[f].bytes = raw.bytes[f])
        /\ NextCheck = "bytes"
    BY <1>3, <1>8 DEF VerifyBytes
  <2> QED BY <1>2, <2>1
<1>9. CASE VerifyMetadata
  <2>1. /\ Known(\A f \in Files : snapshot[1][f].bytes = raw.bytes[f])
        /\ NextCheck = "metadata"
    BY <1>3, <1>9 DEF VerifyMetadata
  <2> QED BY <1>2, <2>1
<1>10. CASE Relisting
  <2>1. Known(SameSnapshot) /\ NextCheck = "relisting"
    BY <1>3, <1>10 DEF Relisting
  <2> QED BY <1>2, <2>1 DEF SameSnapshot
<1> QED BY <1>2, <1>4, <1>5, <1>6, <1>7, <1>8, <1>9, <1>10

(* What a check reads: the snapshot, the manifest and the bytes change only  *)
(* with the check that is for them.                                          *)
LEMMA CheckReads ==
  ASSUME CandidateInv, VerifyCandidate
  PROVE  /\ \/ snapshot' = snapshot
            \/ NextCheck = "listing" /\ snapshot' = <<asset, manifest>>
         /\ \/ raw' = raw
            \/ NextCheck = "manifest" /\ raw' = manifest
         /\ IF NextCheck = "bytes" THEN proved' = [f \in Files |-> asset[f].bytes]
            ELSE IF NextCheck = "metadata" THEN proved' = [f \in Files |-> snapshot[1][f].bytes]
            ELSE proved' = proved
BY DEF VerifyCandidate, Authorize, Listing, Download, VerifyEvidence, VerifyBytes,
   VerifyMetadata, Relisting

LEMMA ChecksKeep ==
  ASSUME CandidateInv, VerifyCandidate
  PROVE  CandidateInv'
<1> USE DEF CandidateInv
<1>1. /\ mode \in Modes /\ step \in Nat /\ asset \in Assets /\ manifest \in Manifests
      /\ snapshot \in Assets \X Manifests /\ raw \in Manifests
      /\ proved \in [Files -> Bytes \cup {0}]
  BY DEF CandidateTypes
<1>2. /\ verdict = "checking" /\ step' = step + 1
      /\ UNCHANGED <<mode, asset, manifest, tag, run, reviewers, head, changed>>
      /\ verdict' \in {"refused", IF step' = ChecksIn THEN "accepted" ELSE "checking"}
  BY CheckDecides
<1>3. /\ ChecksIn' = ChecksIn /\ EvidenceAt' = EvidenceAt /\ CopiesAt' = CopiesAt
      /\ TagAt' = TagAt /\ RelistingAt' = RelistingAt
      /\ ChecksIn \in Nat /\ EvidenceAt \in Nat /\ CopiesAt \in Nat /\ TagAt \in Nat
      /\ RelistingAt \in Nat /\ ListingAt \in Nat
      /\ ListingAt + 1 < EvidenceAt /\ ListingAt + 1 < CopiesAt
      /\ mode # "publish" => ListingAt + 1 < RelistingAt /\ CopiesAt < RelistingAt
      /\ TagAt <= ChecksIn
      /\ RelistingAt = 9 /\ (mode = "promote" => ChecksIn = 11)
      /\ mode \in {"final", "reuse"} => ChecksIn = 10
  BY <1>2 DEF ChecksIn, EvidenceAt, CopiesAt, TagAt, RelistingAt, ListingAt, Modes
<1>4. step + 1 \in 1..ChecksIn
  BY <1>1, <1>2, <1>3 DEF Progress
<1>5. IsAt(step + 1, NextCheck)
  BY <1>1, <1>4, WhichCheck DEF NextCheck
<1>6. snapshot' \in Assets \X Manifests /\ raw' \in Manifests
      /\ proved' \in [Files -> Bytes \cup {0}]
  BY <1>1, CheckReads DEF Assets
<1>7. CandidateTypes'
  BY <1>1, <1>2, <1>6 DEF CandidateTypes
<1>8. Progress'
  BY <1>1, <1>2, <1>3, <1>4 DEF Progress
<1>9. SameUnderId'
  <2>1. CASE snapshot' = snapshot
    BY <1>2, <2>1 DEF SameUnderId
  <2>2. CASE snapshot' = <<asset, manifest>>
    <3>1. snapshot'[1] = asset /\ \A f \in Files : asset[f].id \in Nat
      BY <1>1, <2>2 DEF Assets
    <3> QED BY <1>2, <3>1 DEF SameUnderId
  <2> QED BY <2>1, <2>2, CheckReads
<1>10. ASSUME verdict' # "refused" PROVE ContentProved'
  <2>1. step + 1 >= EvidenceAt => raw'.bytes = Evidence
    <3>1. CASE step + 1 = EvidenceAt
      <4>1. NextCheck = "evidence"
        BY <1>5, <3>1 DEF IsAt
      <4> QED BY <1>10, <4>1, CheckDecides, CheckReads
    <3>2. CASE step >= EvidenceAt
      <4>1. NextCheck # "manifest"
        BY <1>1, <1>3, <1>5, <3>2 DEF IsAt
      <4> QED BY <1>2, <3>2, <4>1, CheckReads DEF ContentProved
    <3> QED BY <1>1, <1>3, <3>1, <3>2
  <2>2. ASSUME step + 1 >= CopiesAt, NEW f \in Files
        PROVE  proved'[f] = raw'.bytes[f] /\ proved'[f] = snapshot'[1][f].bytes
    <3>1. NextCheck # "manifest" /\ NextCheck # "listing"
      BY <1>1, <1>3, <1>5, <2>2 DEF IsAt
    <3>2. raw' = raw /\ snapshot' = snapshot
      BY <3>1, CheckReads
    <3>3. CASE step + 1 = CopiesAt /\ mode # "reuse"
      <4>1. NextCheck = "bytes"
        BY <1>5, <3>3 DEF IsAt
      <4>2. Downloadable(f) /\ asset[f].bytes = raw.bytes[f]
        BY <1>10, <4>1, CheckDecides
      <4>3. asset[f] = snapshot[1][f]
        BY <4>2 DEF SameUnderId, Downloadable
      <4>4. proved'[f] = asset[f].bytes
        BY <4>1, CheckReads
      <4> QED BY <3>2, <4>2, <4>3, <4>4
    <3>4. CASE step + 1 = CopiesAt /\ mode = "reuse"
      <4>1. NextCheck = "metadata"
        BY <1>5, <3>4 DEF IsAt
      <4>2. snapshot[1][f].bytes = raw.bytes[f]
        BY <1>10, <4>1, CheckDecides
      <4>3. proved'[f] = snapshot[1][f].bytes
        BY <4>1, CheckReads
      <4> QED BY <3>2, <4>2, <4>3
    <3>5. CASE step >= CopiesAt
      <4>1. NextCheck # "bytes" /\ NextCheck # "metadata"
        BY <1>1, <1>3, <1>5, <3>5 DEF IsAt
      <4>2. proved' = proved
        BY <4>1, CheckReads
      <4> QED BY <1>2, <3>2, <3>5, <4>2 DEF ContentProved
    <3> QED BY <1>1, <1>3, <2>2, <3>3, <3>4, <3>5
  <2>3. ASSUME mode # "publish", step + 1 >= RelistingAt
        PROVE  snapshot'[1] = asset \/ changed["asset"] > RelistingAt
    <3>1. NextCheck # "listing"
      BY <1>1, <1>3, <1>5, <2>3 DEF IsAt
    <3>2. snapshot' = snapshot
      BY <3>1, CheckReads
    <3>3. CASE step + 1 = RelistingAt
      <4>1. NextCheck = "relisting"
        BY <1>5, <2>3, <3>3 DEF IsAt
      <4>2. snapshot = <<asset, manifest>>
        BY <1>10, <4>1, CheckDecides
      <4> QED BY <3>2, <4>2
    <3>4. CASE step >= RelistingAt
      BY <1>2, <2>3, <3>2, <3>4 DEF ContentProved
    <3> QED BY <1>1, <1>3, <2>3, <3>3, <3>4
  <2> QED BY <1>2, <1>3, <2>1, <2>2, <2>3 DEF ContentProved, Evidence
<1>11. ASSUME verdict' # "refused" PROVE StillInOrder'
  <2>1. step + 1 >= TagAt => tag \/ changed["tag"] > TagAt
    <3>1. CASE step + 1 = TagAt
      <4>1. NextCheck = "ref"
        BY <1>5, <3>1 DEF IsAt
      <4> QED BY <1>11, <4>1, CheckDecides
    <3>2. CASE step >= TagAt
      BY <1>2, <3>2 DEF StillInOrder
    <3> QED BY <1>1, <1>3, <3>1, <3>2
  <2>2. (mode = "promote" /\ step + 1 >= 10) => run \/ changed["run"] > 10
    <3>1. CASE mode = "promote" /\ step + 1 = 10
      <4>1. NextCheck = "run"
        BY <1>5, <3>1 DEF IsAt
      <4> QED BY <1>11, <4>1, CheckDecides
    <3>2. CASE mode = "promote" /\ step >= 10
      BY <1>2, <3>2 DEF StillInOrder
    <3> QED BY <1>1, <3>1, <3>2
  <2>3. (mode \in {"promote", "final"} /\ step + 1 = ChecksIn) => reviewers
    <3>1. (mode \in {"promote", "final"} /\ step + 1 = ChecksIn) => NextCheck = "reviewers"
      BY <1>3, <1>5 DEF IsAt
    <3> QED BY <1>11, <3>1, CheckDecides
  <2>4. (mode = "reuse" /\ step + 1 = ChecksIn) => head
    <3>1. (mode = "reuse" /\ step + 1 = ChecksIn) => NextCheck = "head"
      BY <1>3, <1>5 DEF IsAt
    <3> QED BY <1>11, <3>1, CheckDecides
  <2> QED BY <1>2, <1>3, <2>1, <2>2, <2>3, <2>4 DEF StillInOrder
<1> QED BY <1>7, <1>8, <1>9, <1>10, <1>11

LEMMA CandidateInvKept == CandidateInv /\ [VerificationNext]_verificationVars => CandidateInv'
<1> SUFFICES ASSUME CandidateInv, [VerificationNext]_verificationVars PROVE CandidateInv'
  OBVIOUS
<1>1. CASE VerificationNext
  BY <1>1, PeopleKeep, ChecksKeep DEF VerificationNext
<1>2. CASE UNCHANGED verificationVars
  BY <1>2 DEF verificationVars, candidateWorld, CandidateInv, CandidateTypes, Progress,
     SameUnderId, ContentProved, StillInOrder, ChecksIn, EvidenceAt, CopiesAt, TagAt,
     RelistingAt, Evidence
<1> QED BY <1>1, <1>2

LEMMA CandidateInvariance == VerificationSpec => []CandidateInv
BY CandidateInvInit, CandidateInvKept, PTL DEF VerificationSpec

(* However often and whatever others replace between the reads of promote,   *)
(* verified_rc, verify_scheduled_reuse and verified_assets, what is accepted *)
(* is what the source run built, byte for byte, and it is still what the     *)
(* release has unless it was replaced after the second listing.              *)
THEOREM AcceptedHasEvidence == VerificationSpec => []AcceptedIsEvidence
<1>1. CandidateInv => AcceptedIsEvidence
  <2> SUFFICES ASSUME CandidateInv, verdict = "accepted"
               PROVE  /\ proved = Evidence
                      /\ (mode # "publish" /\ changed["asset"] <= Position("relisting")) =>
                            \A f \in Files : asset[f].bytes = proved[f]
    BY DEF AcceptedIsEvidence
  <2> USE DEF CandidateInv
  <2>1. mode \in Modes /\ step = ChecksIn /\ changed["asset"] \in Nat
        /\ proved \in [Files -> Bytes \cup {0}]
    BY DEF CandidateTypes, Progress, Things
  <2>2. /\ step >= EvidenceAt /\ step >= CopiesAt
        /\ mode # "publish" => step >= RelistingAt
    BY <2>1 DEF ChecksIn, EvidenceAt, CopiesAt, RelistingAt, Modes
  <2>3. /\ raw.bytes = Evidence
        /\ \A f \in Files : proved[f] = raw.bytes[f] /\ proved[f] = snapshot[1][f].bytes
        /\ mode # "publish" => snapshot[1] = asset \/ changed["asset"] > RelistingAt
    BY <2>2 DEF ContentProved
  <2>4. \A f \in Files : proved[f] = Good
    BY <2>3 DEF Evidence
  <2>5. proved = Evidence
    BY <2>1, <2>4 DEF Evidence
  <2>6. (mode # "publish" /\ changed["asset"] <= Position("relisting")) =>
           \A f \in Files : asset[f].bytes = proved[f]
    BY <2>1, <2>3, PositionOf DEF RelistingAt
  <2> QED BY <2>5, <2>6
<1> QED BY <1>1, CandidateInvariance, PTL

(* Acceptance rests on nothing stale: a tag, approval, run or branch found   *)
(* out of order after it was changed after the content had been verified.    *)
THEOREM AcceptanceIsFresh == VerificationSpec => []NothingStale
<1>1. CandidateInv => NothingStale
  <2> SUFFICES ASSUME CandidateInv, verdict = "accepted"
               PROVE  /\ ~tag => changed["tag"] > IF mode = "publish" THEN 0 ELSE Verified
                      /\ mode \in {"promote", "final"} /\ ~reviewers =>
                            changed["reviewers"] > Verified
                      /\ mode = "promote" /\ ~run => changed["run"] > Verified
                      /\ mode = "reuse" /\ ~head => changed["head"] > Verified
    BY DEF NothingStale
  <2> USE DEF CandidateInv
  <2>1. mode \in Modes /\ step = ChecksIn
    BY DEF CandidateTypes, Progress
  <2>2. changed["tag"] \in Nat /\ changed["run"] \in Nat
    BY DEF CandidateTypes, Things
  <2>3. step >= TagAt /\ (mode = "promote" => step >= 10)
    BY <2>1 DEF ChecksIn, TagAt, Modes
  <2>4. /\ tag \/ changed["tag"] > TagAt
        /\ mode = "promote" => run \/ changed["run"] > 10
        /\ mode \in {"promote", "final"} => reviewers
        /\ mode = "reuse" => head
    BY <2>1, <2>3 DEF StillInOrder
  <2> QED BY <2>1, <2>2, <2>4, PositionOf DEF TagAt
<1> QED BY <1>1, CandidateInvariance, PTL
-----------------------------------------------------------------------------
(* The publisher and the branch it publishes from (PublicationSource).       *)

Phases == IF kind = "versioned" THEN 9 ELSE 6

LEMMA ChecksOf ==
  /\ kind = "versioned" => Checks[kind] = VersionedChecks
  /\ kind = "candidate" => Checks[kind] = CandidateChecks
BY DEF Checks

(* What follows what: the tag comes right after the workflows, and the frozen *)
(* plan is published right after the confirmation.                           *)
LEMMA CheckOrder ==
  ASSUME kind \in {"versioned", "candidate"}, NEW i \in 1..Phases
  PROVE  /\ i = Phases => Checks[kind][i] = "publish"
         /\ i # Phases =>
               /\ i + 1 \in 1..Phases
               /\ Checks[kind][i + 1] = "tag" => Checks[kind][i] = "workflows"
               /\ (kind = "versioned" /\ Checks[kind][i + 1] = "publish") =>
                     Checks[kind][i] = "confirm"
<1>1. CASE kind = "versioned"
  <2>1. i \in {1, 2, 3, 4, 5, 6, 7, 8, 9}
    BY <1>1 DEF Phases
  <2> QED BY <1>1, <2>1, ChecksOf DEF VersionedChecks, Phases
<1>2. CASE kind = "candidate"
  <2>1. i \in {1, 2, 3, 4, 5, 6}
    BY <1>2 DEF Phases
  <2> QED BY <1>2, <2>1, ChecksOf DEF CandidateChecks, Phases
<1> QED BY <1>1, <1>2

SourceTypes ==
    /\ kind \in {"versioned", "candidate"} /\ phase \in 1..Phases /\ sub \in Nat
    /\ heads \in [Branches -> Commits] /\ default \in Branches
    /\ moved \in [Branches -> Nat]
    /\ ref \in [branch : Branches, sha : Commits]
    /\ automatic => captured = Source

(* What the requests answered so far have established.                       *)
ReplacementFound ==
    (BranchCheck = "supersession" /\ sub = 3) =>
        Source \in Ancestors[ref.sha] /\ \E r \in runs : r.sha = ref.sha /\ r.number > Mine

WorkflowsAgree == (BranchCheck = "workflows" /\ sub >= 2) => Tree[ref.sha] = Tree[Source]

TagIsCurrent ==
    (BranchCheck = "tag" /\ ~scoped) =>
        Tree[heads[ref.branch]] = Tree[Source] \/ moved[ref.branch] = phase

HeadConfirmed ==
    (BranchCheck = "publish" /\ kind = "versioned" /\ automatic) =>
        heads[Main] = Source \/ moved[Main] = phase

SourceInv ==
    SourceTypes /\ ReplacementFound /\ WorkflowsAgree /\ TagIsCurrent /\ HeadConfirmed

LEMMA SourceInvInit == SourceInit => SourceInv
<1> SUFFICES ASSUME SourceInit PROVE SourceInv
  OBVIOUS
<1> USE DEF SourceInit
<1>1. kind \in {"versioned", "candidate"} /\ phase \in 1..Phases
  BY DEF Checks, Phases
<1>2. BranchCheck = "ancestry"
  BY <1>1, ChecksOf DEF BranchCheck, VersionedChecks, CandidateChecks
<1>3. SourceTypes
  BY <1>1, SourceAssumption DEF SourceTypes
<1> QED BY <1>2, <1>3 DEF SourceInv, ReplacementFound, WorkflowsAgree, TagIsCurrent, HeadConfirmed

(* People push, switch the default branch, and GitHub creates runs.          *)
LEMMA OutsideKeeps ==
  ASSUME SourceInv,
         \/ \E b \in Branches, c \in Commits : PushCommit(b, c)
         \/ \E b \in Branches : SwitchDefault(b)
         \/ \E p \in pushed : CreateRun(p)
  PROVE  SourceInv'
<1> USE DEF SourceInv
<1>1. /\ kind' = kind /\ automatic' = automatic /\ scoped' = scoped /\ phase' = phase /\ sub' = sub
      /\ ref' = ref /\ captured' = captured /\ runs \subseteq runs' /\ default' \in Branches
  BY DEF PushCommit, SwitchDefault, CreateRun, publisher, SourceTypes
<1>2. BranchCheck' = BranchCheck /\ Phases' = Phases /\ phase \in Nat
  BY <1>1 DEF BranchCheck, Phases, SourceTypes
<1>3. \/ heads' = heads /\ moved' = moved
      \/ \E b \in Branches, c \in Commits :
            heads' = [heads EXCEPT ![b] = c] /\ moved' = [moved EXCEPT ![b] = phase]
  BY DEF PushCommit, SwitchDefault, CreateRun
<1>4. /\ heads' \in [Branches -> Commits] /\ moved' \in [Branches -> Nat]
      /\ \A b \in Branches : (heads'[b] = heads[b] /\ moved'[b] = moved[b]) \/ moved'[b] = phase
  BY <1>2, <1>3 DEF SourceTypes
<1>5. SourceTypes'
  BY <1>1, <1>2, <1>4 DEF SourceTypes
<1>6. ReplacementFound' /\ WorkflowsAgree'
  BY <1>1, <1>2 DEF ReplacementFound, WorkflowsAgree, Mine
<1>7. ref.branch \in Branches /\ Main \in Branches
  BY SourceAssumption DEF SourceTypes
<1>8. TagIsCurrent' /\ HeadConfirmed'
  BY <1>1, <1>2, <1>4, <1>7 DEF TagIsCurrent, HeadConfirmed
<1> QED BY <1>5, <1>6, <1>8

(* A request that ends the publisher, and one that is followed by another of *)
(* the same check.                                                           *)
LEMMA EndKeepsSource ==
  ASSUME SourceInv,
         UNCHANGED <<heads, default, runs, moved, kind, automatic, scoped, phase, sub, captured>>,
         ref' = ref \/ (BranchCheck = "workflows" /\ sub = 1
                        /\ ref' \in [branch : Branches, sha : Commits])
  PROVE  SourceInv'
BY DEF SourceInv, SourceTypes, Phases, BranchCheck, ReplacementFound, WorkflowsAgree,
   TagIsCurrent, HeadConfirmed, Mine

LEMMA AnswerKeeps ==
  ASSUME SourceInv, Answer, captured' = captured,
         ref' \in [branch : Branches, sha : Commits],
         BranchCheck \in {"supersession", "workflows", "confirm"},
         (BranchCheck = "supersession" /\ sub = 2) =>
            /\ Source \in Ancestors[ref'.sha]
            /\ \E r \in runs : r.sha = ref'.sha /\ r.number > Mine,
         (BranchCheck = "workflows" /\ sub >= 1) => Tree[ref'.sha] = Tree[Source]
  PROVE  SourceInv'
<1> USE DEF SourceInv, Answer, repository, publisher
<1>1. BranchCheck' = BranchCheck /\ Phases' = Phases /\ sub' = sub + 1 /\ sub \in Nat
  BY DEF BranchCheck, Phases, SourceTypes
<1>2. SourceTypes'
  BY <1>1 DEF SourceTypes
<1>3. ReplacementFound' /\ WorkflowsAgree'
  BY <1>1 DEF ReplacementFound, WorkflowsAgree, Mine
<1> QED BY <1>1, <1>2, <1>3 DEF TagIsCurrent, HeadConfirmed

LEMMA AdvanceKeeps ==
  ASSUME SourceInv, Advance, BranchCheck # "publish",
         ref' \in [branch : Branches, sha : Commits],
         automatic => captured' = Source,
         (BranchCheck = "workflows" /\ ~scoped) => Tree[heads[ref'.branch]] = Tree[Source],
         (BranchCheck = "confirm" /\ automatic) => heads[Main] = Source
  PROVE  SourceInv'
<1> USE DEF SourceInv, Advance, repository, publisher
<1>1. kind \in {"versioned", "candidate"} /\ phase \in 1..Phases /\ Phases \in Nat
  BY DEF SourceTypes, Phases
<1>2. Phases' = Phases /\ phase' = phase + 1 /\ sub' = 0 /\ BranchCheck' = Checks[kind][phase + 1]
  BY DEF BranchCheck, Phases, Checks, VersionedChecks, CandidateChecks
<1>3. /\ phase + 1 \in 1..Phases
      /\ BranchCheck' = "tag" => BranchCheck = "workflows"
      /\ (kind = "versioned" /\ BranchCheck' = "publish") => BranchCheck = "confirm"
  BY <1>1, <1>2, CheckOrder DEF BranchCheck
<1>4. SourceTypes'
  BY <1>2, <1>3 DEF SourceTypes
<1>5. ReplacementFound' /\ WorkflowsAgree'
  BY <1>2 DEF ReplacementFound, WorkflowsAgree
<1>6. TagIsCurrent' /\ HeadConfirmed'
  BY <1>3 DEF TagIsCurrent, HeadConfirmed
<1> QED BY <1>4, <1>5, <1>6

PublisherStep ==
    \/ Ancestry
    \/ SupersessionBranch \/ SupersessionHead \/ SupersessionRun \/ SupersessionAgain
    \/ WorkflowsBranch \/ WorkflowsHead \/ WorkflowsBranchAgain \/ WorkflowsHeadAgain
    \/ Capture \/ Tag \/ ConfirmBranch \/ ConfirmHead \/ PublishSource

LEMMA PublisherKeeps ==
  ASSUME SourceInv, PublisherStep
  PROVE  SourceInv'
<1>1. /\ ref \in [branch : Branches, sha : Commits] /\ ref.branch \in Branches
      /\ heads \in [Branches -> Commits] /\ default \in Branches
      /\ automatic => captured = Source
  BY DEF SourceInv, SourceTypes
<1>2. Main \in Branches /\ heads[Main] \in Commits
  BY <1>1, SourceAssumption
<1>3. ASSUME NEW how, End(how) PROVE SourceInv'
  BY <1>3, EndKeepsSource DEF End, repository, publisher
<1> USE DEF At, GiveUp
<1>4. CASE Ancestry
  <2>1. CASE Advance /\ UNCHANGED <<ref, captured>>
    BY <1>1, <1>4, <2>1, AdvanceKeeps DEF Ancestry
  <2> QED BY <1>3, <1>4, <2>1 DEF Ancestry
<1>5. CASE SupersessionBranch
  <2>1. CASE Advance /\ UNCHANGED <<ref, captured>>
    BY <1>1, <1>5, <2>1, AdvanceKeeps DEF SupersessionBranch
  <2>2. CASE Answer /\ UNCHANGED <<ref, captured>>
    BY <1>1, <1>5, <2>2, AnswerKeeps DEF SupersessionBranch
  <2> QED BY <1>3, <1>5, <2>1, <2>2 DEF SupersessionBranch
<1>6. CASE SupersessionHead
  <2>1. ref' \in [branch : Branches, sha : Commits] /\ captured' = captured
    BY <1>2, <1>6 DEF SupersessionHead
  <2>2. CASE Advance
    BY <1>1, <1>6, <2>1, <2>2, AdvanceKeeps DEF SupersessionHead
  <2>3. CASE Answer
    BY <1>1, <1>6, <2>1, <2>3, AnswerKeeps DEF SupersessionHead
  <2> QED BY <1>6, <2>2, <2>3 DEF SupersessionHead
<1>7. CASE SupersessionRun
  <2>1. CASE Replaced(ref.sha)
    <3>1. /\ Answer /\ ref' = ref /\ captured' = captured
          /\ BranchCheck = "supersession"
      BY <1>7, <2>1 DEF SupersessionRun
    <3>2. Source \in Ancestors[ref'.sha] /\ \E r \in runs : r.sha = ref'.sha /\ r.number > Mine
      BY <2>1, <3>1 DEF Replaced
    <3> QED BY <1>1, <3>1, <3>2, AnswerKeeps
  <2> QED BY <1>3, <1>7, <2>1 DEF SupersessionRun
<1>8. CASE SupersessionAgain
  BY <1>3, <1>8 DEF SupersessionAgain
<1>9. CASE WorkflowsBranch
  <2>1. ref' \in [branch : Branches, sha : Commits] /\ captured' = captured
    BY <1>1, <1>9 DEF WorkflowsBranch
  <2>2. CASE scoped
    BY <1>1, <1>9, <2>1, <2>2, AdvanceKeeps DEF WorkflowsBranch
  <2>3. CASE ~scoped
    BY <1>1, <1>9, <2>1, <2>3, AnswerKeeps DEF WorkflowsBranch
  <2> QED BY <2>2, <2>3
<1>10. CASE WorkflowsHead
  <2> DEFINE tip == heads[ref.branch]
  <2>1. /\ ref' = [ref EXCEPT !.sha = tip] /\ captured' = captured
        /\ BranchCheck = "workflows" /\ sub = 1
    BY <1>10 DEF WorkflowsHead
  <2>2. /\ ref' \in [branch : Branches, sha : Commits] /\ ref'.sha = tip
        /\ ref'.branch = ref.branch
    BY <1>1, <2>1
  <2>3. CASE tip = Source
    BY <1>1, <1>10, <2>1, <2>2, <2>3, AdvanceKeeps DEF WorkflowsHead
  <2>4. CASE tip # Source /\ Tree[tip] = Tree[Source]
    BY <1>1, <1>10, <2>1, <2>2, <2>4, AnswerKeeps DEF WorkflowsHead
  <2>5. CASE tip # Source /\ Tree[tip] # Tree[Source]
    BY <1>10, <2>1, <2>2, <2>5, EndKeepsSource DEF WorkflowsHead, repository, publisher
  <2> QED BY <2>3, <2>4, <2>5
<1>11. CASE WorkflowsBranchAgain
  <2>1. CASE Answer /\ UNCHANGED <<ref, captured>>
    <3>1. Tree[ref.sha] = Tree[Source]
      BY <1>11 DEF WorkflowsBranchAgain, SourceInv, WorkflowsAgree
    <3> QED BY <1>1, <1>11, <2>1, <3>1, AnswerKeeps DEF WorkflowsBranchAgain
  <2> QED BY <1>3, <1>11, <2>1 DEF WorkflowsBranchAgain
<1>12. CASE WorkflowsHeadAgain
  <2>1. CASE SameHead
    <3>1. Tree[heads[ref.branch]] = Tree[Source]
      BY <1>12, <2>1 DEF WorkflowsHeadAgain, SameHead, SourceInv, WorkflowsAgree
    <3> QED BY <1>1, <1>12, <2>1, <3>1, AdvanceKeeps DEF WorkflowsHeadAgain
  <2> QED BY <1>3, <1>12, <2>1 DEF WorkflowsHeadAgain
<1>13. CASE Capture
  <2>1. CASE ~automatic \/ heads[Main] = Source
    BY <1>1, <1>13, <2>1, AdvanceKeeps DEF Capture
  <2> QED BY <1>3, <1>13, <2>1 DEF Capture
<1>14. CASE Tag
  BY <1>1, <1>14, AdvanceKeeps DEF Tag
<1>15. CASE ConfirmBranch
  <2>1. CASE ~automatic
    BY <1>1, <1>15, <2>1, AdvanceKeeps DEF ConfirmBranch
  <2>2. CASE Answer /\ UNCHANGED <<ref, captured>>
    BY <1>1, <1>15, <2>2, AnswerKeeps DEF ConfirmBranch
  <2> QED BY <1>3, <1>15, <2>1, <2>2 DEF ConfirmBranch
<1>16. CASE ConfirmHead
  <2>1. CASE Confirmed
    BY <1>1, <1>16, <2>1, AdvanceKeeps DEF ConfirmHead, Confirmed
  <2> QED BY <1>3, <1>16, <2>1 DEF ConfirmHead
<1>17. CASE PublishSource
  BY <1>3, <1>17 DEF PublishSource
<1> QED BY <1>4, <1>5, <1>6, <1>7, <1>8, <1>9, <1>10, <1>11, <1>12, <1>13, <1>14, <1>15, <1>16,
           <1>17 DEF PublisherStep

LEMMA SourceInvKept == SourceInv /\ [SourceNext]_sourceVars => SourceInv'
<1> SUFFICES ASSUME SourceInv, [SourceNext]_sourceVars PROVE SourceInv'
  OBVIOUS
<1>1. CASE SourceNext
  BY <1>1, OutsideKeeps, PublisherKeeps DEF SourceNext, PublisherStep
<1>2. CASE UNCHANGED sourceVars
  BY <1>2, EndKeepsSource DEF sourceVars, repository, publisher
<1> QED BY <1>1, <1>2

(* Whatever is pushed, rewritten or switched between the requests of a       *)
(* publisher (release_control.py:1059-1234): it gives way only to a run of a *)
(* descendant that exists, tags only where the workflows agree, and an       *)
(* automatic one publishes what its last check called the head.              *)
THEOREM SourceStaysCurrent == SourceSpec => SourceIsCurrent
<1>1. ASSUME SourceInv, SourceNext, outcome = "running"
      PROVE  SkipIsReplaced /\ TagMatchesWorkflows /\ PublishesHead
  <2>1. SkipIsReplaced
    <3> SUFFICES ASSUME outcome' = "superseded"
                 PROVE  /\ Source \in Ancestors[heads[Main]]
                        /\ \E r \in runs : r.sha = heads[Main] /\ r.number > Mine
      BY DEF SkipIsReplaced
    <3>1. SupersessionAgain
      BY <1>1 DEF SourceNext, PushCommit, SwitchDefault, CreateRun, Ancestry,
         SupersessionBranch, SupersessionHead, SupersessionRun, WorkflowsBranch, WorkflowsHead,
         WorkflowsBranchAgain, WorkflowsHeadAgain, Capture, Tag, ConfirmBranch, ConfirmHead,
         PublishSource, Advance, Answer, GiveUp, End
    <3>2. heads[Main] = ref.sha /\ BranchCheck = "supersession" /\ sub = 3
      BY <3>1 DEF SupersessionAgain, End, At
    <3> QED BY <1>1, <3>2 DEF SourceInv, ReplacementFound
  <2>2. TagMatchesWorkflows
    BY <1>1 DEF SourceInv, TagIsCurrent, TagMatchesWorkflows
  <2>3. PublishesHead
    <3> SUFFICES ASSUME outcome' = "published", automatic, kind = "versioned"
                 PROVE  heads[Main] = Source \/ moved[Main] = phase
      BY DEF PublishesHead
    <3>1. PublishSource
      BY <1>1 DEF SourceNext, PushCommit, SwitchDefault, CreateRun, Ancestry,
         SupersessionBranch, SupersessionHead, SupersessionRun, SupersessionAgain,
         WorkflowsBranch, WorkflowsHead, WorkflowsBranchAgain, WorkflowsHeadAgain, Capture, Tag,
         ConfirmBranch, ConfirmHead, Advance, Answer, GiveUp, End
    <3> QED BY <1>1, <3>1 DEF PublishSource, At, SourceInv, HeadConfirmed
  <2> QED BY <2>1, <2>2, <2>3
<1>2. SourceInv /\ [SourceNext]_sourceVars =>
         [outcome = "running" => SkipIsReplaced /\ TagMatchesWorkflows /\ PublishesHead]_sourceVars
  BY <1>1
<1>3. SourceSpec => []SourceInv
  BY SourceInvInit, SourceInvKept, PTL DEF SourceSpec
<1> QED BY <1>2, <1>3, PTL DEF SourceSpec, SourceIsCurrent
-----------------------------------------------------------------------------
(* Image tags: what the commands a publisher has still to run say about the  *)
(* registry.  No check follows a copy; a pending copy of latest is backed,    *)
(* for every destination, by a version tag that is there or by a copy of it   *)
(* that comes first; and a destination that has been checked holds strange    *)
(* bytes only if they were pushed after the check.                           *)
ImageTags == StableReleases \cup {Latest}
ImageCommands == [op : {"check", "copy"}, image : Destinations, tag : ImageTags]
VersionCopy(p, m) == [op |-> "copy", image |-> m, tag |-> StableRelease[p]]

InOrder(p, s) ==
    /\ \A i \in 1..Len(s) :
          /\ s[i].tag \in {StableRelease[p], Latest}
          /\ s[i].op = "check" => s[i].tag = StableRelease[p]
    /\ \A i, j \in 1..Len(s) : i < j /\ s[i].op = "copy" => s[j].op = "copy"

Backed(reg, p, s) ==
    \A i \in 1..Len(s) : s[i].op = "copy" /\ s[i].tag = Latest =>
       \A m \in Destinations :
          reg[m][StableRelease[p]] # Free \/ \E j \in 1..Len(s) : j < i /\ s[j] = VersionCopy(p, m)

Unchecked(s, n) == \E i \in 1..Len(s) : s[i].op = "check" /\ s[i].image = n

Pending(reg, p, s, at, pushes) ==
    /\ InOrder(p, s)
    /\ Backed(reg, p, s)
    /\ \A n \in Destinations :
          s # <<>> /\ ~Unchecked(s, n) /\ reg[n][StableRelease[p]] = Stranger => at[n] < pushes

RegistryTyped ==
    /\ registry \in [Destinations -> [ImageTags -> Nat]]
    /\ latest \in [Publishers -> BOOLEAN]
    /\ todo \in [Publishers -> Seq(ImageCommands)]
    /\ strange \in Nat
    /\ seen \in [Publishers -> [Destinations -> Nat]]

RegistryInv ==
    /\ RegistryTyped
    /\ \A n \in Destinations : registry[n][Latest] \in StableReleases \cup {Free}
    /\ LatestComplete
    /\ \A p \in Publishers, n \in Destinations : seen[p][n] <= strange
    /\ \A p \in Publishers : Pending(registry, p, todo[p], seen[p], strange)

LEMMA ImageFacts ==
    /\ \A i \in 1..Len(Images) : Images[i] \in Destinations
    /\ Len(Images) \in Nat
    /\ DOMAIN Images = 1..Len(Images)
    /\ \A n \in Destinations : \E i \in 1..Len(Images) : Images[i] = n
    /\ StableReleases \subseteq Nat \ {0}
    /\ \A p \in Publishers : StableRelease[p] \in StableReleases /\ StableRelease[p] \in Nat \ {0}
    /\ \A p \in Publishers : StableRelease[p] # Latest /\ StableRelease[p] # Stranger
    /\ ImageTags \subseteq Nat /\ Latest \in ImageTags /\ Stranger \in Nat /\ Stranger # Free
BY PublicationAssumption DEF Destinations, StableReleases, ImageTags, Latest, Free

(* container_commands, as a function of the position.                       *)
LEMMA CommandsAre ==
    ASSUME NEW p \in Publishers, NEW w \in BOOLEAN
    PROVE  /\ Commands(p, w) \in Seq(ImageCommands)
           /\ Len(Commands(p, w)) = (IF w THEN 3 * Len(Images) ELSE 2 * Len(Images))
           /\ \A i \in 1..Len(Images) :
                 /\ Commands(p, w)[i] = [op |-> "check", image |-> Images[i], tag |-> StableRelease[p]]
                 /\ Commands(p, w)[i + Len(Images)] = VersionCopy(p, Images[i])
                 /\ w => Commands(p, w)[i + 2 * Len(Images)] =
                            [op |-> "copy", image |-> Images[i], tag |-> Latest]
<1> DEFINE each(op, name) == [i \in DOMAIN Images |-> [op |-> op, image |-> Images[i], tag |-> name]]
           a == each("check", StableRelease[p])
           b == each("copy", StableRelease[p])
           l == each("copy", Latest)
           c == IF w THEN l ELSE <<>>
           n == Len(Images)
<1>1. /\ n \in Nat /\ DOMAIN Images = 1..n
      /\ StableRelease[p] \in ImageTags /\ Latest \in ImageTags
      /\ \A i \in 1..n : Images[i] \in Destinations
  BY ImageFacts DEF ImageTags
<1>2. ASSUME NEW op \in {"check", "copy"}, NEW name \in ImageTags
      PROVE  each(op, name) \in Seq(ImageCommands) /\ Len(each(op, name)) = n
  <2>1. \A i \in 1..n : [op |-> op, image |-> Images[i], tag |-> name] \in ImageCommands
    BY <1>1 DEF ImageCommands
  <2>2. each(op, name) \in [1..n -> ImageCommands]
    BY <1>1, <2>1
  <2> QED BY <1>1, <2>2
<1>3. a \in Seq(ImageCommands) /\ Len(a) = n /\ b \in Seq(ImageCommands) /\ Len(b) = n
      /\ l \in Seq(ImageCommands) /\ Len(l) = n
  BY <1>1, <1>2
<1>4. \A i \in 1..n :
         /\ a[i] = [op |-> "check", image |-> Images[i], tag |-> StableRelease[p]]
         /\ b[i] = VersionCopy(p, Images[i])
         /\ l[i] = [op |-> "copy", image |-> Images[i], tag |-> Latest]
  BY <1>1 DEF VersionCopy
<1>5. Commands(p, w) = a \o b \o c
  BY DEF Commands
<1>6. c \in Seq(ImageCommands) /\ (w => c = l) /\ Len(c) = (IF w THEN n ELSE 0)
  <2>1. CASE w BY <1>3, <2>1
  <2>2. CASE ~w BY <2>2
  <2> QED BY <2>1, <2>2
<1> HIDE DEF a, b, l, c
<1> DEFINE ab == a \o b
<1>7. /\ ab \in Seq(ImageCommands) /\ Len(ab) = n + n
      /\ \A i \in 1..n : ab[i] = a[i] /\ ab[i + n] = b[i]
  BY <1>1, <1>3
<1> HIDE DEF ab, n
<1>8. /\ ab \o c \in Seq(ImageCommands) /\ Len(ab \o c) = n + n + Len(c)
      /\ \A i \in 1..(n + n) : (ab \o c)[i] = ab[i]
      /\ \A i \in 1..Len(c) : (ab \o c)[i + n + n] = c[i]
  <2>0. ab \in Seq(ImageCommands) /\ c \in Seq(ImageCommands)
    BY <1>6, <1>7
  <2>1. ab \o c \in Seq(ImageCommands) /\ Len(ab \o c) = Len(ab) + Len(c)
    BY ONLY <2>0
  <2>2. \A i \in 1..(Len(ab) + Len(c)) :
           (ab \o c)[i] = IF i <= Len(ab) THEN ab[i] ELSE c[i - Len(ab)]
    BY <1>6, <1>7
  <2>3. Len(c) \in Nat
    BY <1>6
  <2>4. \A i \in 1..Len(c) :
           /\ i + n + n \in 1..(Len(ab) + Len(c)) /\ i + n + n > Len(ab)
           /\ (i + n + n) - Len(ab) = i
    BY <1>1, <1>7, <2>3
  <2>5. \A i \in 1..(n + n) : i \in 1..(Len(ab) + Len(c)) /\ i <= Len(ab)
    BY <1>1, <1>7, <2>3
  <2>6. \A i \in 1..(n + n) : (ab \o c)[i] = ab[i]
    BY <2>2, <2>5
  <2>7. \A i \in 1..Len(c) : (ab \o c)[i + n + n] = c[i]
    <3> SUFFICES ASSUME NEW i \in 1..Len(c) PROVE (ab \o c)[i + n + n] = c[i]
      OBVIOUS
    <3>1. (ab \o c)[i + n + n] = c[(i + n + n) - Len(ab)]
      BY <1>1, <1>7, <2>2, <2>4
    <3> QED BY <2>4, <3>1
  <2> QED BY <1>7, <2>1, <2>6, <2>7
<1>9. \A i \in 1..n : i \in 1..(n + n) /\ i + n \in 1..(n + n) /\ i + 2 * n = i + n + n
  BY <1>1
<1>10. \A i \in 1..n : (ab \o c)[i] = a[i] /\ (ab \o c)[i + n] = b[i]
  BY <1>7, <1>8, <1>9
<1>11. w => \A i \in 1..n : (ab \o c)[i + 2 * n] = l[i]
  BY <1>6, <1>8, <1>9
<1>12. Len(ab \o c) = (IF w THEN 3 * n ELSE 2 * n)
  BY <1>1, <1>6, <1>8
<1> QED BY <1>4, <1>5, <1>8, <1>10, <1>11, <1>12 DEF ab, n

LEMMA CommandsPending ==
    ASSUME NEW p \in Publishers, NEW w \in BOOLEAN, NEW reg, NEW at, NEW pushes
    PROVE  Pending(reg, p, Commands(p, w), at, pushes)
<1> DEFINE s == Commands(p, w)
           n == Len(Images)
<1>1. /\ n \in Nat
      /\ Len(s) = (IF w THEN 3 * n ELSE 2 * n)
      /\ \A i \in 1..n : /\ s[i] = [op |-> "check", image |-> Images[i], tag |-> StableRelease[p]]
                         /\ s[i + n] = VersionCopy(p, Images[i])
                         /\ w => s[i + 2 * n] = [op |-> "copy", image |-> Images[i], tag |-> Latest]
      /\ \A m \in Destinations : \E k \in 1..n : Images[k] = m
  <2>1. /\ Len(s) = (IF w THEN 3 * n ELSE 2 * n)
        /\ \A i \in 1..n : /\ s[i] = [op |-> "check", image |-> Images[i], tag |-> StableRelease[p]]
                           /\ s[i + n] = VersionCopy(p, Images[i])
                           /\ w => s[i + 2 * n] = [op |-> "copy", image |-> Images[i], tag |-> Latest]
    BY CommandsAre
  <2>2. n \in Nat /\ \A m \in Destinations : \E k \in 1..n : Images[k] = m
    BY ImageFacts
  <2> QED BY <2>1, <2>2
<1> HIDE DEF s, n
<1>2. Len(s) \in Nat /\ n <= Len(s) /\ 2 * n <= Len(s) /\ (~w => Len(s) = 2 * n)
      /\ Len(s) <= 3 * n
  BY <1>1
<1>21. \A i \in 1..n : s[i].op = "check" /\ s[i].tag = StableRelease[p] /\ s[i].image = Images[i]
  <2> SUFFICES ASSUME NEW i \in 1..n
               PROVE  s[i].op = "check" /\ s[i].tag = StableRelease[p] /\ s[i].image = Images[i]
    OBVIOUS
  <2>1. s[i] = [op |-> "check", image |-> Images[i], tag |-> StableRelease[p]]
    BY <1>1
  <2> QED BY <2>1
<1>22. \A i \in 1..n : s[i + n].op = "copy" /\ s[i + n].tag = StableRelease[p]
  <2> SUFFICES ASSUME NEW i \in 1..n
               PROVE  s[i + n].op = "copy" /\ s[i + n].tag = StableRelease[p]
    OBVIOUS
  <2>1. s[i + n] = VersionCopy(p, Images[i])
    BY <1>1
  <2> QED BY <2>1 DEF VersionCopy
<1>23. w => \A i \in 1..n : s[i + 2 * n].op = "copy" /\ s[i + 2 * n].tag = Latest
  <2> SUFFICES ASSUME w, NEW i \in 1..n
               PROVE  s[i + 2 * n].op = "copy" /\ s[i + 2 * n].tag = Latest
    OBVIOUS
  <2>1. s[i + 2 * n] = [op |-> "copy", image |-> Images[i], tag |-> Latest]
    BY <1>1
  <2> QED BY <2>1
<1>3. ASSUME NEW i \in 1..Len(s)
      PROVE  \/ i <= n /\ s[i].op = "check" /\ s[i].tag = StableRelease[p]
             \/ i > n /\ i <= 2 * n /\ s[i].op = "copy" /\ s[i].tag = StableRelease[p]
             \/ i > 2 * n /\ s[i].op = "copy" /\ s[i].tag = Latest
  <2>1. CASE i <= n
    <3>1. i \in 1..n BY <1>1, <2>1
    <3> QED BY <1>21, <2>1, <3>1
  <2>2. CASE i > n /\ i <= 2 * n
    <3>1. i - n \in 1..n /\ (i - n) + n = i BY <1>1, <2>2
    <3>2. s[(i - n) + n].op = "copy" /\ s[(i - n) + n].tag = StableRelease[p] BY <1>22, <3>1
    <3> QED BY <2>2, <3>1, <3>2
  <2>3. CASE i > 2 * n
    <3>1. w /\ i - 2 * n \in 1..n /\ (i - 2 * n) + 2 * n = i BY <1>1, <1>2, <2>3
    <3>2. s[(i - 2 * n) + 2 * n].op = "copy" /\ s[(i - 2 * n) + 2 * n].tag = Latest BY <1>23, <3>1
    <3> QED BY <2>3, <3>1, <3>2
  <2> QED BY <1>1, <1>2, <2>1, <2>2, <2>3
<1>4. StableRelease[p] # Latest
  BY ImageFacts
<1>5. \A i \in 1..Len(s) : (s[i].op = "copy" => i > n) /\ (i > n => s[i].op = "copy")
  BY <1>1, <1>2, <1>3
<1>6. \A i \in 1..Len(s) : s[i].tag = Latest => i > 2 * n
  BY <1>1, <1>2, <1>3, <1>4
<1>7. InOrder(p, s)
  <2>1. \A i \in 1..Len(s) :
           /\ s[i].tag \in {StableRelease[p], Latest}
           /\ s[i].op = "check" => s[i].tag = StableRelease[p]
    BY <1>3
  <2>2. \A i, j \in 1..Len(s) : i < j /\ s[i].op = "copy" => s[j].op = "copy"
    BY <1>1, <1>2, <1>5
  <2> QED BY <2>1, <2>2 DEF InOrder
<1>8. Backed(reg, p, s)
  <2> SUFFICES ASSUME NEW i \in 1..Len(s), s[i].tag = Latest, NEW m \in Destinations
               PROVE  \E j \in 1..Len(s) : j < i /\ s[j] = VersionCopy(p, m)
    BY DEF Backed
  <2>1. PICK k \in 1..n : s[k + n] = VersionCopy(p, m)
    BY <1>1
  <2>2. k + n \in 1..Len(s) /\ k + n < i
    BY <1>1, <1>2, <1>6
  <2> QED BY <2>1, <2>2
<1>9. \A m \in Destinations : Unchecked(s, m)
  <2> SUFFICES ASSUME NEW m \in Destinations PROVE Unchecked(s, m)
    OBVIOUS
  <2>1. PICK k \in 1..n : s[k].op = "check" /\ s[k].image = m
    BY <1>1, <1>21
  <2>2. k \in 1..Len(s)
    BY <1>1, <1>2
  <2> QED BY <2>1, <2>2 DEF Unchecked
<1>10. Pending(reg, p, s, at, pushes)
  BY <1>7, <1>8, <1>9 DEF Pending
<1> QED BY <1>10 DEF s

LEMMA RestPending ==
    ASSUME NEW p \in Publishers, NEW s \in Seq(ImageCommands), s # <<>>,
           InOrder(p, s)
    PROVE  /\ Tail(s) \in Seq(ImageCommands) /\ InOrder(p, Tail(s))
           /\ Len(Tail(s)) \in Nat /\ Len(s) = Len(Tail(s)) + 1
           /\ \A i \in 1..Len(Tail(s)) : i + 1 \in 1..Len(s) /\ Tail(s)[i] = s[i + 1]
           /\ Tail(s) # s
           /\ Head(s) = s[1] /\ 1 \in 1..Len(s) /\ Head(s) \in ImageCommands
<1> DEFINE t == Tail(s)
<1>1. t \in Seq(ImageCommands) /\ Len(t) \in Nat /\ Len(s) = Len(t) + 1
  OBVIOUS
<1>2. \A i \in 1..Len(t) : t[i] = s[i + 1]
  OBVIOUS
<1>3. Head(s) = s[1] /\ 1 \in 1..Len(s) /\ Head(s) \in ImageCommands
  OBVIOUS
<1> HIDE DEF t
<1>4. \A i \in 1..Len(t) : i + 1 \in 1..Len(s)
  BY <1>1
<1>5. t # s
  BY <1>1
<1>6. \A i \in 1..Len(t) : /\ t[i].tag \in {StableRelease[p], Latest}
                           /\ t[i].op = "check" => t[i].tag = StableRelease[p]
  BY <1>2, <1>4 DEF InOrder
<1>7. ASSUME NEW i \in 1..Len(t), NEW j \in 1..Len(t), i < j, t[i].op = "copy"
      PROVE  t[j].op = "copy"
  <2>1. i + 1 < j + 1
    BY <1>1, <1>7
  <2>2. s[i + 1].op = "copy"
    BY <1>2, <1>7
  <2>3. s[j + 1].op = "copy"
    BY <1>4, <2>1, <2>2 DEF InOrder
  <2> QED BY <1>2, <2>3
<1>8. InOrder(p, t)
  BY <1>6, <1>7 DEF InOrder
<1> QED BY <1>1, <1>2, <1>3, <1>4, <1>5, <1>8 DEF t

(* A copy that took effect, or none: tags that exist stay, and a version tag  *)
(* changes only to the release that owns it.                                 *)
LEMMA PendingKept ==
    ASSUME NEW p \in Publishers, NEW s, NEW reg, NEW reg2, NEW at, NEW pushes,
           Pending(reg, p, s, at, pushes),
           \A m \in Destinations : reg[m][StableRelease[p]] # Free => reg2[m][StableRelease[p]] # Free,
           \A m \in Destinations :
              reg2[m][StableRelease[p]] = Stranger => reg[m][StableRelease[p]] = Stranger
    PROVE  Pending(reg2, p, s, at, pushes)
<1>1. Backed(reg2, p, s)
  BY DEF Pending, Backed
<1> QED BY <1>1 DEF Pending

LEMMA NothingPending ==
    ASSUME NEW p \in Publishers, NEW reg, NEW at, NEW pushes
    PROVE  Pending(reg, p, <<>>, at, pushes)
BY DEF Pending, InOrder, Backed

LEMMA RegistryInvInit == RegistryInit => RegistryInv
<1> SUFFICES ASSUME RegistryInit PROVE RegistryInv
  OBVIOUS
<1>1. RegistryTyped
  <2>1. registry \in [Destinations -> [ImageTags -> Nat]]
    BY DEF RegistryInit, ImageTags, Free
  <2>2. \A p \in Publishers : todo[p] \in Seq(ImageCommands)
    BY DEF RegistryInit
  <2>3. todo \in [Publishers -> Seq(ImageCommands)]
    BY <2>2 DEF RegistryInit
  <2> QED BY <2>1, <2>3 DEF RegistryInit, RegistryTyped
<1>2. \A n \in Destinations : registry[n][Latest] = Free
  BY DEF RegistryInit
<1>3. LatestComplete
  BY <1>2 DEF LatestComplete
<1>4. \A p \in Publishers, n \in Destinations : seen[p][n] <= strange
  BY DEF RegistryInit
<1>5. \A p \in Publishers : Pending(registry, p, todo[p], seen[p], strange)
  BY NothingPending DEF RegistryInit
<1> QED BY <1>1, <1>2, <1>3, <1>4, <1>5 DEF RegistryInv

LEMMA StartKeeps ==
    ASSUME RegistryInv, NEW p \in Publishers, StartCopying(p)
    PROVE  RegistryInv'
<1>1. /\ todo' = [todo EXCEPT ![p] = Commands(p, latest[p])]
      /\ UNCHANGED <<registry, latest, strange, seen>>
  BY DEF StartCopying
<1>2. latest[p] \in BOOLEAN
  BY DEF RegistryInv, RegistryTyped
<1>3. Commands(p, latest[p]) \in Seq(ImageCommands)
  BY <1>2, CommandsAre
<1>4. RegistryTyped'
  BY <1>1, <1>3 DEF RegistryInv, RegistryTyped
<1>5. Pending(registry, p, Commands(p, latest[p]), seen[p], strange)
  BY <1>2, CommandsPending
<1>6. \A q \in Publishers : Pending(registry, q, todo'[q], seen[q], strange)
  BY <1>1, <1>5 DEF RegistryInv, RegistryTyped
<1>7. \A q \in Publishers : Pending(registry', q, todo'[q], seen'[q], strange')
  BY <1>1, <1>6
<1>8. LatestComplete'
  BY <1>1 DEF RegistryInv, LatestComplete
<1> QED BY <1>1, <1>4, <1>7, <1>8 DEF RegistryInv

LEMMA CheckKeeps ==
    ASSUME RegistryInv, NEW p \in Publishers, NEW listed \in BOOLEAN, CheckTag(p, listed)
    PROVE  RegistryInv'
<1> DEFINE s == todo[p]
           t == Tail(s)
           c == Head(s)
<1>1. /\ s # <<>> /\ c.op = "check" /\ UNCHANGED <<registry, latest, strange>>
      /\ \/ /\ registry[c.image][c.tag] = Free
            /\ todo' = [todo EXCEPT ![p] = t] /\ seen' = [seen EXCEPT ![p][c.image] = strange]
         \/ todo' = [todo EXCEPT ![p] = <<>>] /\ UNCHANGED seen
  BY DEF CheckTag, Unpublished, NextCommand, Give
<1>2. /\ s \in Seq(ImageCommands) /\ Pending(registry, p, s, seen[p], strange) /\ InOrder(p, s)
      /\ todo \in [Publishers -> Seq(ImageCommands)]
      /\ seen \in [Publishers -> [Destinations -> Nat]] /\ strange \in Nat
      /\ registry \in [Destinations -> [ImageTags -> Nat]]
  BY DEF RegistryInv, RegistryTyped, Pending
<1>3. /\ t \in Seq(ImageCommands) /\ InOrder(p, t)
      /\ Len(t) \in Nat /\ Len(s) = Len(t) + 1
      /\ \A i \in 1..Len(t) : i + 1 \in 1..Len(s) /\ t[i] = s[i + 1]
      /\ c = s[1] /\ 1 \in 1..Len(s) /\ c \in ImageCommands
  BY <1>1, <1>2, RestPending
<1> HIDE DEF s, t, c
<1>4. c.image \in Destinations /\ c.tag = StableRelease[p]
  BY <1>1, <1>2, <1>3 DEF ImageCommands, InOrder
<1>5. LatestComplete'
  BY <1>1 DEF RegistryInv, LatestComplete
<1>6. CASE todo' = [todo EXCEPT ![p] = <<>>] /\ UNCHANGED seen
  <2>1. RegistryTyped'
    <3>1. <<>> \in Seq(ImageCommands) OBVIOUS
    <3> QED BY <1>1, <1>6, <3>1 DEF RegistryInv, RegistryTyped
  <2>2. \A q \in Publishers : Pending(registry, q, todo'[q], seen[q], strange)
    BY <1>2, <1>6, NothingPending DEF RegistryInv
  <2>3. \A q \in Publishers : Pending(registry', q, todo'[q], seen'[q], strange')
    BY <1>1, <1>6, <2>2
  <2> QED BY <1>1, <1>5, <1>6, <2>1, <2>3 DEF RegistryInv
<1>7. CASE /\ registry[c.image][c.tag] = Free
           /\ todo' = [todo EXCEPT ![p] = t] /\ seen' = [seen EXCEPT ![p][c.image] = strange]
  <2>1. seen' \in [Publishers -> [Destinations -> Nat]]
    BY <1>2, <1>4, <1>7
  <2>2. todo' \in [Publishers -> Seq(ImageCommands)]
    BY <1>2, <1>3, <1>7
  <2>3. RegistryTyped'
    BY <1>1, <2>1, <2>2 DEF RegistryInv, RegistryTyped
  <2>4. \A q \in Publishers, n \in Destinations : seen'[q][n] <= strange'
    BY <1>1, <1>2, <1>4, <1>7 DEF RegistryInv
  <2>5. Backed(registry, p, t)
    <3> SUFFICES ASSUME NEW i \in 1..Len(t), t[i].op = "copy", t[i].tag = Latest,
                        NEW m \in Destinations, registry[m][StableRelease[p]] = Free
                 PROVE  \E j \in 1..Len(t) : j < i /\ t[j] = VersionCopy(p, m)
      BY DEF Backed
    <3>1. PICK j \in 1..Len(s) : j < i + 1 /\ s[j] = VersionCopy(p, m)
      BY <1>2, <1>3 DEF Pending, Backed
    <3>2. s[j].op = "copy"
      BY <3>1 DEF VersionCopy
    <3>3. j # 1
      BY <1>1, <1>3, <3>2
    <3>4. j - 1 \in 1..Len(t) /\ j - 1 < i /\ (j - 1) + 1 = j
      BY <1>3, <3>1, <3>3
    <3>5. t[j - 1] = s[(j - 1) + 1]
      BY <1>3, <3>4
    <3> QED BY <3>1, <3>4, <3>5
  <2>6. \A n \in Destinations :
           t # <<>> /\ ~Unchecked(t, n) /\ registry[n][StableRelease[p]] = Stranger
              => seen'[p][n] < strange
    <3> SUFFICES ASSUME NEW n \in Destinations, ~Unchecked(t, n),
                        registry[n][StableRelease[p]] = Stranger
                 PROVE  seen'[p][n] < strange
      OBVIOUS
    <3>1. n # c.image
      BY <1>4, <1>7, ImageFacts
    <3>2. seen'[p][n] = seen[p][n]
      BY <1>2, <1>4, <1>7, <3>1
    <3>3. ~Unchecked(s, n)
      <4> SUFFICES ASSUME NEW i \in 1..Len(s), s[i].op = "check", s[i].image = n PROVE FALSE
        BY DEF Unchecked
      <4>1. i # 1
        BY <1>3, <3>1
      <4>2. i - 1 \in 1..Len(t) /\ (i - 1) + 1 = i
        BY <1>3, <4>1
      <4>3. t[i - 1] = s[(i - 1) + 1]
        BY <1>3, <4>2
      <4>4. t[i - 1].op = "check" /\ t[i - 1].image = n
        BY <4>2, <4>3
      <4> QED BY <4>2, <4>4 DEF Unchecked
    <3> QED BY <1>1, <1>2, <3>2, <3>3 DEF Pending
  <2>7. Pending(registry, p, t, seen'[p], strange)
    BY <1>3, <2>5, <2>6 DEF Pending
  <2>8. \A q \in Publishers : Pending(registry, q, todo'[q], seen'[q], strange)
    BY <1>2, <1>7, <2>7 DEF RegistryInv
  <2>9. \A q \in Publishers : Pending(registry', q, todo'[q], seen'[q], strange')
    BY <1>1, <2>8
  <2> QED BY <1>1, <1>5, <2>3, <2>4, <2>9 DEF RegistryInv
<1> QED BY <1>1, <1>6, <1>7

LEMMA CopyKeeps ==
    ASSUME RegistryInv, NEW p \in Publishers, CopyImage(p)
    PROVE  RegistryInv'
<1> DEFINE s == todo[p]
           t == Tail(s)
           c == Head(s)
           reg == [registry EXCEPT ![c.image][c.tag] = StableRelease[p]]
<1>1. /\ s # <<>> /\ c.op = "copy" /\ UNCHANGED <<latest, strange, seen>>
      /\ \/ registry' = reg /\ todo' = [todo EXCEPT ![p] = t]
         \/ registry' = reg /\ todo' = [todo EXCEPT ![p] = <<>>]
         \/ registry' = registry /\ todo' = [todo EXCEPT ![p] = <<>>]
  BY DEF CopyImage, NextCommand, Give
<1>2. /\ s \in Seq(ImageCommands) /\ Pending(registry, p, s, seen[p], strange) /\ InOrder(p, s)
      /\ todo \in [Publishers -> Seq(ImageCommands)]
      /\ registry \in [Destinations -> [ImageTags -> Nat]]
  BY DEF RegistryInv, RegistryTyped, Pending
<1>3. /\ t \in Seq(ImageCommands) /\ InOrder(p, t)
      /\ Len(t) \in Nat /\ Len(s) = Len(t) + 1
      /\ \A i \in 1..Len(t) : i + 1 \in 1..Len(s) /\ t[i] = s[i + 1]
      /\ c = s[1] /\ 1 \in 1..Len(s) /\ c \in ImageCommands
  BY <1>1, <1>2, RestPending
<1>4. reg = [registry EXCEPT ![c.image][c.tag] = StableRelease[p]]
  OBVIOUS
<1> HIDE DEF s, t, c, reg
<1>5. c.image \in Destinations /\ c.tag \in {StableRelease[p], Latest} /\ c.tag \in ImageTags
  BY <1>2, <1>3 DEF ImageCommands, InOrder
<1>6. /\ reg \in [Destinations -> [ImageTags -> Nat]]
      /\ \A m \in Destinations, g \in ImageTags :
            reg[m][g] = IF m = c.image /\ g = c.tag THEN StableRelease[p] ELSE registry[m][g]
  BY <1>2, <1>4, <1>5, ImageFacts
<1>7. \A q \in Publishers : StableRelease[q] \in ImageTags /\ Latest \in ImageTags
      /\ StableRelease[q] # Free /\ StableRelease[q] # Stranger /\ StableRelease[q] # Latest
      /\ StableRelease[q] \in StableReleases
  BY ImageFacts DEF ImageTags, Free
<1>8. \A m \in Destinations, g \in ImageTags :
         /\ registry[m][g] # Free => reg[m][g] # Free
         /\ reg[m][g] = Stranger => registry[m][g] = Stranger
  BY <1>6, <1>7
<1>9. \A n \in Destinations : reg[n][Latest] \in StableReleases \cup {Free}
  BY <1>6, <1>7 DEF RegistryInv
(* Were latest moved now, every version tag would be there.                  *)
<1>10. ASSUME c.tag = Latest, NEW m \in Destinations
       PROVE  registry[m][StableRelease[p]] # Free
  <2> SUFFICES ASSUME registry[m][StableRelease[p]] = Free PROVE FALSE
    OBVIOUS
  <2>1. \E j \in 1..Len(s) : j < 1 /\ s[j] = VersionCopy(p, m)
    BY <1>1, <1>2, <1>3, <1>10 DEF Pending, Backed
  <2> QED BY <1>3, <2>1
<1>11. \A n \in Destinations : reg[n][Latest] # Free =>
          \A m \in Destinations : reg[m][reg[n][Latest]] # Free
  <2> SUFFICES ASSUME NEW n \in Destinations, reg[n][Latest] # Free, NEW m \in Destinations
               PROVE  reg[m][reg[n][Latest]] # Free
    OBVIOUS
  <2>1. CASE n = c.image /\ c.tag = Latest
    <3>1. reg[n][Latest] = StableRelease[p]
      BY <1>6, <1>7, <2>1
    <3> QED BY <1>7, <1>8, <1>10, <2>1, <3>1
  <2>2. CASE ~(n = c.image /\ c.tag = Latest)
    <3>1. reg[n][Latest] = registry[n][Latest]
      BY <1>6, <1>7, <2>2
    <3>2. registry[m][registry[n][Latest]] # Free
      BY <3>1 DEF RegistryInv, LatestComplete
    <3>3. registry[n][Latest] \in ImageTags
      BY <1>9, <3>1 DEF ImageTags
    <3> QED BY <1>8, <3>1, <3>2, <3>3
  <2> QED BY <2>1, <2>2
<1>12. ASSUME NEW q \in Publishers
       PROVE  Pending(reg, q, todo[q], seen[q], strange)
  <2>1. Pending(registry, q, todo[q], seen[q], strange)
    BY DEF RegistryInv
  <2>2. \A m \in Destinations :
           /\ registry[m][StableRelease[q]] # Free => reg[m][StableRelease[q]] # Free
           /\ reg[m][StableRelease[q]] = Stranger => registry[m][StableRelease[q]] = Stranger
    BY <1>7, <1>8
  <2> QED BY <2>1, <2>2, PendingKept
<1>13. Pending(reg, p, t, seen[p], strange)
  <2>1. Backed(reg, p, t)
    <3> SUFFICES ASSUME NEW i \in 1..Len(t), t[i].op = "copy", t[i].tag = Latest,
                        NEW m \in Destinations, reg[m][StableRelease[p]] = Free
                 PROVE  \E j \in 1..Len(t) : j < i /\ t[j] = VersionCopy(p, m)
      BY DEF Backed
    <3>0. registry[m][StableRelease[p]] = Free
      BY <1>7, <1>8
    <3>1. PICK j \in 1..Len(s) : j < i + 1 /\ s[j] = VersionCopy(p, m)
      BY <1>2, <1>3, <3>0 DEF Pending, Backed
    <3>2. s[j].image = m /\ s[j].tag = StableRelease[p]
      BY <3>1 DEF VersionCopy
    <3>3. j # 1
      BY <1>3, <1>6, <1>7, <3>2
    <3>4. j - 1 \in 1..Len(t) /\ j - 1 < i /\ (j - 1) + 1 = j
      BY <1>3, <3>1, <3>3
    <3>5. t[j - 1] = s[(j - 1) + 1]
      BY <1>3, <3>4
    <3> QED BY <3>1, <3>4, <3>5
  <2>2. \A n \in Destinations : ~Unchecked(s, n)
    <3> SUFFICES ASSUME NEW i \in 1..Len(s), s[i].op = "check" PROVE FALSE
      BY DEF Unchecked
    <3>1. i # 1
      BY <1>1, <1>3
    <3>2. 1 < i
      BY <1>3, <3>1
    <3> QED BY <1>1, <1>2, <1>3, <3>2 DEF InOrder
  <2>3. \A n \in Destinations : reg[n][StableRelease[p]] = Stranger => seen[p][n] < strange
    BY <1>1, <1>2, <1>7, <1>8, <2>2 DEF Pending
  <2> QED BY <1>3, <2>1, <2>3 DEF Pending
<1>14. CASE registry' = reg /\ todo' = [todo EXCEPT ![p] = t]
  <2>1. RegistryTyped'
    BY <1>1, <1>2, <1>3, <1>6, <1>14 DEF RegistryInv, RegistryTyped
  <2>2. \A q \in Publishers : Pending(reg, q, todo'[q], seen[q], strange)
    BY <1>2, <1>12, <1>13, <1>14
  <2>3. \A q \in Publishers : Pending(registry', q, todo'[q], seen'[q], strange')
    BY <1>1, <1>14, <2>2
  <2>4. LatestComplete'
    BY <1>11, <1>14 DEF LatestComplete
  <2> QED BY <1>1, <1>9, <1>14, <2>1, <2>3, <2>4 DEF RegistryInv
<1>15. CASE registry' = reg /\ todo' = [todo EXCEPT ![p] = <<>>]
  <2>0. <<>> \in Seq(ImageCommands)
    OBVIOUS
  <2>1. RegistryTyped'
    BY <1>1, <1>2, <1>6, <1>15, <2>0 DEF RegistryInv, RegistryTyped
  <2>2. \A q \in Publishers : Pending(reg, q, todo'[q], seen[q], strange)
    BY <1>2, <1>12, <1>15, NothingPending
  <2>3. \A q \in Publishers : Pending(registry', q, todo'[q], seen'[q], strange')
    BY <1>1, <1>15, <2>2
  <2>4. LatestComplete'
    BY <1>11, <1>15 DEF LatestComplete
  <2> QED BY <1>1, <1>9, <1>15, <2>1, <2>3, <2>4 DEF RegistryInv
<1>16. CASE registry' = registry /\ todo' = [todo EXCEPT ![p] = <<>>]
  <2>0. <<>> \in Seq(ImageCommands)
    OBVIOUS
  <2>1. RegistryTyped'
    BY <1>1, <1>2, <1>16, <2>0 DEF RegistryInv, RegistryTyped
  <2>2. \A q \in Publishers : Pending(registry, q, todo'[q], seen[q], strange)
    BY <1>2, <1>16, NothingPending DEF RegistryInv
  <2>3. \A q \in Publishers : Pending(registry', q, todo'[q], seen'[q], strange')
    BY <1>1, <1>16, <2>2
  <2>4. LatestComplete'
    BY <1>16 DEF RegistryInv, LatestComplete
  <2> QED BY <1>1, <1>16, <2>1, <2>3, <2>4 DEF RegistryInv
<1> QED BY <1>1, <1>14, <1>15, <1>16

LEMMA PushKeeps ==
    ASSUME RegistryInv, NEW n \in Destinations, NEW r \in StableReleases, PushByHand(n, r)
    PROVE  RegistryInv'
<1>1. /\ strange' = strange + 1 /\ registry' = [registry EXCEPT ![n][r] = Stranger]
      /\ UNCHANGED <<todo, latest, seen>>
  BY DEF PushByHand
<1>2. /\ registry \in [Destinations -> [ImageTags -> Nat]] /\ strange \in Nat
      /\ seen \in [Publishers -> [Destinations -> Nat]]
      /\ \A p \in Publishers, m \in Destinations : seen[p][m] <= strange
  BY DEF RegistryInv, RegistryTyped
<1>3. r \in ImageTags /\ r # Latest /\ Stranger \in Nat /\ Stranger # Free /\ Latest \in ImageTags
  BY ImageFacts DEF ImageTags, Latest
<1>4. /\ registry' \in [Destinations -> [ImageTags -> Nat]]
      /\ \A m \in Destinations, g \in ImageTags :
            registry'[m][g] = IF m = n /\ g = r THEN Stranger ELSE registry[m][g]
  BY <1>1, <1>2, <1>3
<1>5. RegistryTyped'
  BY <1>1, <1>2, <1>4 DEF RegistryInv, RegistryTyped
<1>6. \A m \in Destinations, g \in ImageTags : registry[m][g] # Free => registry'[m][g] # Free
  BY <1>3, <1>4
<1>7. \A m \in Destinations : registry'[m][Latest] = registry[m][Latest]
  BY <1>3, <1>4
<1>8. \A m \in Destinations : registry[m][Latest] \in ImageTags
  BY DEF RegistryInv, ImageTags, Free, Latest
<1>9. LatestComplete'
  <2> SUFFICES ASSUME NEW m \in Destinations, registry'[m][Latest] # Free, NEW k \in Destinations
               PROVE  registry'[k][registry'[m][Latest]] # Free
    BY DEF LatestComplete
  <2>1. registry[k][registry[m][Latest]] # Free
    BY <1>7 DEF RegistryInv, LatestComplete
  <2> QED BY <1>6, <1>7, <1>8, <2>1
<1>10. \A p \in Publishers, m \in Destinations : seen[p][m] < strange'
  <2> SUFFICES ASSUME NEW p \in Publishers, NEW m \in Destinations PROVE seen[p][m] < strange'
    OBVIOUS
  <2>1. seen[p][m] \in Nat /\ seen[p][m] <= strange
    BY <1>2
  <2> QED BY <1>1, <1>2, <2>1
<1>11. \A p \in Publishers, m \in Destinations : seen'[p][m] <= strange'
  <2> SUFFICES ASSUME NEW p \in Publishers, NEW m \in Destinations PROVE seen'[p][m] <= strange'
    OBVIOUS
  <2>1. seen[p][m] \in Nat /\ seen[p][m] <= strange
    BY <1>2
  <2> QED BY <1>1, <1>2, <2>1
<1>12. ASSUME NEW p \in Publishers PROVE Pending(registry', p, todo[p], seen[p], strange')
  <2>1. Pending(registry, p, todo[p], seen[p], strange)
    BY DEF RegistryInv
  <2>2. Backed(registry', p, todo[p])
    BY <1>6, <2>1, ImageFacts DEF Pending, Backed, ImageTags
  <2> QED BY <1>10, <2>1, <2>2 DEF Pending
<1>13. \A p \in Publishers : Pending(registry', p, todo'[p], seen'[p], strange')
  BY <1>1, <1>12
<1> QED BY <1>5, <1>7, <1>9, <1>11, <1>13 DEF RegistryInv

LEMMA RegistryInvKept == RegistryInv /\ [RegistryNext]_registryVars => RegistryInv'
<1> SUFFICES ASSUME RegistryInv, [RegistryNext]_registryVars PROVE RegistryInv'
  OBVIOUS
<1>1. CASE RegistryNext
  BY <1>1, StartKeeps, CheckKeeps, CopyKeeps, PushKeeps DEF RegistryNext
<1>2. CASE UNCHANGED registryVars
  <2>1. /\ registry' = registry /\ todo' = todo /\ latest' = latest /\ strange' = strange
        /\ seen' = seen
    BY <1>2 DEF registryVars
  <2> QED BY <2>1 DEF RegistryInv, RegistryTyped, LatestComplete
<1> QED BY <1>1, <1>2

(* However many publishers of however many releases copy at once, and        *)
(* wherever one of them fails (publish_verified.py:169-234): latest names    *)
(* only a release whose version tags are all there, and bytes pushed by hand *)
(* are overwritten only if they came after the tag had been found free.      *)
THEOREM LatestAlwaysComplete == RegistrySpec => LatestIsComplete
<1> DEFINE Overwritten(n, r) == registry[n][r] = Stranger /\ registry'[n][r] # Stranger
           ByPublisher(n, r) ==
              \E p \in Publishers :
                 StableRelease[p] = r /\ todo'[p] # todo[p] /\ seen[p][n] < strange
           Act == /\ LatestComplete'
                  /\ \A n \in Destinations, r \in StableReleases : Overwritten(n, r) => ByPublisher(n, r)
<1>1. ASSUME RegistryInv, RegistryNext, NEW n \in Destinations, NEW r \in StableReleases,
             registry[n][r] = Stranger, registry'[n][r] # Stranger
      PROVE  \E p \in Publishers :
                StableRelease[p] = r /\ todo'[p] # todo[p] /\ seen[p][n] < strange
  <2>1. r \in ImageTags /\ r # Latest
    BY ImageFacts DEF ImageTags, Latest
  <2>2. registry \in [Destinations -> [ImageTags -> Nat]]
    BY <1>1 DEF RegistryInv, RegistryTyped
  <2>3. ASSUME NEW m \in Destinations, NEW g \in StableReleases, PushByHand(m, g) PROVE FALSE
    <3>1. registry' = [registry EXCEPT ![m][g] = Stranger]
      BY <2>3 DEF PushByHand
    <3>2. g \in ImageTags
      BY DEF ImageTags
    <3> QED BY <1>1, <2>1, <2>2, <3>1, <3>2
  <2>4. PICK p \in Publishers : CopyImage(p)
    BY <1>1, <2>3 DEF RegistryNext, StartCopying, CheckTag
  <2> DEFINE s == todo[p]
             c == Head(s)
  <2>5. /\ s # <<>> /\ c.op = "copy" /\ registry' = [registry EXCEPT ![c.image][c.tag] = StableRelease[p]]
        /\ (todo' = [todo EXCEPT ![p] = Tail(s)] \/ todo' = [todo EXCEPT ![p] = <<>>])
    BY <1>1, <2>4 DEF CopyImage, NextCommand, Give
  <2>6. /\ s \in Seq(ImageCommands) /\ Pending(registry, p, s, seen[p], strange) /\ InOrder(p, s)
        /\ todo \in [Publishers -> Seq(ImageCommands)]
    BY <1>1 DEF RegistryInv, RegistryTyped, Pending
  <2>7. Tail(s) # s /\ c = s[1] /\ 1 \in 1..Len(s) /\ c \in ImageCommands /\ Len(s) \in Nat
    BY <2>5, <2>6, RestPending
  <2>8. todo'[p] # s
    BY <2>5, <2>6, <2>7
  <2> HIDE DEF s, c
  <2>9. c.image \in Destinations /\ c.tag \in ImageTags /\ c.tag \in {StableRelease[p], Latest}
    BY <2>6, <2>7 DEF ImageCommands, InOrder
  <2>10. n = c.image /\ r = c.tag
    BY <1>1, <2>1, <2>2, <2>5, <2>9
  <2>11. StableRelease[p] = r
    BY <2>1, <2>9, <2>10
  <2>12. ~Unchecked(s, n)
    <3> SUFFICES ASSUME NEW i \in 1..Len(s), s[i].op = "check" PROVE FALSE
      BY DEF Unchecked
    <3>1. i # 1
      BY <2>5, <2>7
    <3>2. 1 < i
      BY <2>7, <3>1
    <3> QED BY <2>5, <2>6, <2>7, <3>2 DEF InOrder
  <2>13. seen[p][n] < strange
    BY <1>1, <2>5, <2>6, <2>11, <2>12 DEF Pending
  <2> QED BY <2>8, <2>11, <2>13 DEF s
<1>2. RegistryInv /\ RegistryNext => Act
  BY <1>1, RegistryInvKept DEF RegistryInv
<1>3. RegistryInv /\ [RegistryNext]_registryVars => [Act]_registryVars
  BY <1>2
<1>4. RegistrySpec => []RegistryInv
  BY RegistryInvInit, RegistryInvKept, PTL DEF RegistrySpec
<1>5. RegistrySpec => [][Act]_registryVars
  BY <1>3, <1>4, PTL DEF RegistrySpec
<1> QED BY <1>5 DEF LatestIsComplete

=============================================================================
