-------------------------- MODULE VersionProjection --------------------------
(***************************************************************************)
(* projections: what a frozen plan becomes in package metadata.  Registries  *)
(* and stores order packages by these projections, so a release must project *)
(* above every earlier release of its kind, and no two to the same version.   *)
(* One base version and one product are modelled.  Plans are reserved one     *)
(* after another: the ledger hands out increasing build numbers, candidates   *)
(* of a channel increasing sequence numbers.  Nightlies are identified by     *)
(* their run and attempt; an old run may be started again after newer ones.   *)
(***************************************************************************)
EXTENDS Naturals, Sequences

CONSTANTS
    AttemptSpan,   \* 1_000_000: attempts of one run that PEP 440 tells apart
    PepLimit,      \* 2^64 - 2: what uv stores
    Centi,         \* 100: the lower two components of an Apple build
    AppleMajor,    \* 9999: the upper one
    MaxBuild,      \* 2_100_000_000
    MaxRun, MaxAttempt, MaxPlans   \* bounds

ASSUME ProjectionAssumption ==
    /\ {AttemptSpan, Centi, AppleMajor, MaxBuild} \subseteq Nat \ {0}
    /\ {PepLimit, MaxRun, MaxAttempt, MaxPlans} \subseteq Nat

VARIABLES
    promotion, \* versioning.promotion of the release policy
    plans,     \* the plans reserved so far, oldest first
    attempts,  \* run -> attempts so far
    build, sequence   \* the counters they were taken from

projectionVars == <<promotion, plans, attempts, build, sequence>>

Channels == {"nightly", "beta", "rc", "stable"}

ProjectionInit ==
    /\ promotion \in {"final-build", "promote-bytes"}
    /\ plans = <<>>
    /\ attempts = [r \in 1..MaxRun |-> 0] /\ build = 0
    /\ sequence = [c \in {"beta", "rc"} |-> 0]

(* The bug of a projection without room for many attempts.                  *)
NightlyUnbounded(r, a) == IF r * AttemptSpan + a <= PepLimit THEN {r * AttemptSpan + a} ELSE {}

(* X.Y.Z.devN: N holds the run ID and the attempt, or the plan is refused.   *)
Nightly(r, a) == IF a < AttemptSpan /\ r * AttemptSpan + a <= PepLimit
                 THEN {r * AttemptSpan + a} ELSE {}

(* Three components of an Apple build, for the build numbers they can hold.   *)
Apple(n) ==
    IF 0 < n /\ n <= AppleMajor * Centi * Centi
    THEN {<<(n - 1) \div (Centi * Centi) + 1, (n - 1) \div Centi % Centi, (n - 1) % Centi>>}
    ELSE {}

(* _identity: sequence numbers are positive, stable has none.  PEP 440 orders *)
(* dev before beta before rc before final; an RC whose bytes will be promoted *)
(* carries the base version already.                                        *)
Rank == [nightly |-> 0, beta |-> 1, rc |-> 2, stable |-> 3]
Pep440(c, number) == IF c = "stable" \/ (c = "rc" /\ promotion = "promote-bytes")
                     THEN {<<Rank["stable"], 0>>}
                     ELSE {<<Rank[c], n>> : n \in number}

(* projected_value: a declared field needs its projection.                  *)
Projectable(number) == number # {} /\ Apple(build + 1) # {}

(* create_plan: refused unless every declared projection exists.  The plan    *)
(* belongs to the next attempt of a run.                                    *)
Reserve(c, r) ==
    /\ Len(plans) < MaxPlans /\ build < MaxBuild
    /\ "stable" \notin {plans[i].channel : i \in DOMAIN plans}
    /\ attempts[r] < MaxAttempt
    /\ LET next == IF c \in {"beta", "rc"} THEN sequence[c] + 1 ELSE 0
           number == IF c = "nightly" THEN Nightly(r, attempts[r] + 1) ELSE {next}
       IN /\ Projectable(number)
          /\ plans' = Append(plans, [channel |-> c, by |-> <<r, attempts[r] + 1>>,
                                     pep |-> Pep440(c, number), apple |-> Apple(build + 1)])
          /\ sequence' = [d \in DOMAIN sequence |-> IF d = c THEN next ELSE sequence[d]]
    /\ build' = build + 1
    /\ UNCHANGED promotion
    /\ attempts' = [attempts EXCEPT ![r] = @ + 1]

(* An attempt that fails before it reserves anything.                        *)
FailAttempt(r) ==
    /\ attempts[r] < MaxAttempt
    /\ attempts' = [attempts EXCEPT ![r] = @ + 1]
    /\ UNCHANGED <<promotion, plans, build, sequence>>

(* The migration floor: builds made before the ledger existed.               *)
Floor(n) == plans = <<>> /\ build' = n /\ n > build /\ UNCHANGED <<promotion, plans, attempts, sequence>>

ProjectionNext ==
    \/ \E r \in 1..MaxRun : FailAttempt(r) \/ \E c \in Channels : Reserve(c, r)
    \/ \E n \in 1..MaxBuild : Floor(n)

ProjectionSpec == ProjectionInit /\ [][ProjectionNext]_projectionVars
-----------------------------------------------------------------------------
Before(v, w) == \* the order of versions, component by component
    \E i \in DOMAIN v : v[i] < w[i] /\ \A j \in 1..(i - 1) : v[j] = w[j]
(* PEP 440 versions of a channel are ordered as their candidates are: betas   *)
(* and RCs by reservation, nightlies by run and attempt.  No number of        *)
(* attempts makes one run's nightly collide with another's.  Under           *)
(* promote-bytes all RCs of a base version are packaged as that version.     *)
PackagesAscend ==
    \A i, j \in DOMAIN plans :
       LET earlier == IF plans[i].channel = "nightly" THEN Before(plans[i].by, plans[j].by)
                      ELSE i < j
       IN (/\ earlier /\ plans[i].channel = plans[j].channel
           /\ plans[i].channel = "rc" => promotion = "final-build") =>
             \A v \in plans[i].pep, w \in plans[j].pep : Before(v, w)

(* A later plan has a greater Apple build, across every carry between the     *)
(* components, and each component stays within what Apple accepts, the first *)
(* being positive.                                                          *)
AppleBuildsAscend ==
    \A j \in DOMAIN plans : \A w \in plans[j].apple :
       /\ w[1] \in 1..AppleMajor /\ w[2] < Centi /\ w[3] < Centi
       /\ \A i \in 1..(j - 1) : \A v \in plans[i].apple : Before(v, w)

(* What users install sorts as it was built: the two parts above.            *)
BuildsAscend == PackagesAscend /\ AppleBuildsAscend
=============================================================================
