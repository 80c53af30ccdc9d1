-------------------------- MODULE PublicationSource --------------------------
(***************************************************************************)
(* A publisher and the branch it publishes from.  A run publishes the commit *)
(* it was started for, while people push to the default branch, rewrite it  *)
(* or make another branch the default.  Between its first check and the     *)
(* request that makes the release public the engine asks GitHub many times; *)
(* every request is a step here.  Commit contents never change: comparisons  *)
(* and workflow trees of two commits are evaluated where they are used.     *)
(***************************************************************************)
EXTENDS Naturals, Sequences

CONSTANTS
    Commits, Branches,
    Source,      \* the commit the run builds
    Main,        \* the default branch when the run starts
    Ancestors,   \* commit -> its proper ancestors
    Tree,        \* commit -> its .github/workflows tree
    MaxChanges   \* bound: pushes and changes of the default branch

ASSUME SourceAssumption ==
    /\ Source \in Commits /\ Main \in Branches
    /\ Ancestors \in [Commits -> SUBSET Commits]
    /\ DOMAIN Tree = Commits
    /\ MaxChanges \in Nat

VARIABLES
    heads,      \* branch -> its commit
    default,   \* the default branch
    runs,      \* push runs of the release workflow: [sha, branch, number]
    pushed,    \* pushes whose run GitHub has not created yet
    clock,     \* changes so far; numbers runs
    kind,      \* "versioned" (publish_versioned) or "candidate"
    automatic, \* the run is a push's beta or a schedule's nightly
    scoped,    \* the token's workflow scope is verified
    phase,     \* index of the check in Checks[kind]
    sub,       \* requests of this check already answered
    ref,       \* [branch, sha] the check in progress read
    captured,  \* source_ref
    outcome,   \* "running", "superseded", "failed" or "published"
    moved      \* history: branch -> the phase in which it last moved

repository == <<heads, default, runs, pushed, clock, moved>>
publisher == <<kind, automatic, scoped>>
sourceVars == <<repository, publisher, phase, sub, ref, captured, outcome>>

Mine == 0   \* the number of the run itself: it precedes the runs of later pushes

(* The branch checks of publish_versioned with _publish_prepared.            *)
VersionedChecks ==
    <<"ancestry", "supersession", "supersession", "workflows", "capture", "workflows",
      "tag", "confirm", "publish">>

(* Those of candidate with _publish_prepared.                               *)
CandidateChecks ==
    <<"ancestry", "supersession", "supersession", "workflows", "tag", "publish">>

Checks == [versioned |-> VersionedChecks, candidate |-> CandidateChecks]
BranchCheck == Checks[kind][phase]

SourceInit ==
    /\ heads = [b \in Branches |-> Source]
    /\ default = Main
    /\ runs = {} /\ pushed = {} /\ clock = 0
    /\ moved = [b \in Branches |-> 0]
    /\ kind \in DOMAIN Checks
    /\ automatic \in BOOLEAN /\ scoped \in BOOLEAN
    /\ phase = 1 /\ sub = 0
    /\ ref = [branch |-> Main, sha |-> Source] /\ captured = Source
    /\ outcome = "running"
-----------------------------------------------------------------------------
(* People and GitHub.  A push may rewrite the branch; its run appears later. *)
PushCommit(b, c) ==
    /\ clock < MaxChanges /\ c # heads[b]
    /\ heads' = [heads EXCEPT ![b] = c]
    /\ pushed' = pushed \cup {[sha |-> c, branch |-> b, number |-> clock + 1]}
    /\ clock' = clock + 1
    /\ moved' = [moved EXCEPT ![b] = phase]
    /\ UNCHANGED <<default, runs, publisher, phase, sub, ref, captured, outcome>>

SwitchDefault(b) ==
    /\ clock < MaxChanges /\ b # default
    /\ default' = b
    /\ clock' = clock + 1
    /\ UNCHANGED <<heads, runs, pushed, moved, publisher, phase, sub, ref, captured, outcome>>

CreateRun(p) ==
    /\ pushed' = pushed \ {p}
    /\ runs' = runs \cup {p}
    /\ UNCHANGED <<heads, default, clock, moved, publisher, phase, sub, ref, captured, outcome>>
-----------------------------------------------------------------------------
At(check, n) == outcome = "running" /\ BranchCheck = check /\ sub = n
Advance == phase' = phase + 1 /\ sub' = 0 /\ UNCHANGED <<outcome, repository, publisher>>
Answer == sub' = sub + 1 /\ UNCHANGED <<phase, outcome, repository, publisher>>
End(how) == outcome' = how /\ UNCHANGED <<phase, sub, ref, captured, repository, publisher>>
GiveUp == End("failed")

(* check_ancestry: the source is still on the default branch.               *)
Ancestry ==
    /\ At("ancestry", 0)
    /\ LET tip == heads[Main] IN
       IF Source = tip \/ Source \in Ancestors[tip]
       THEN Advance /\ UNCHANGED <<ref, captured>> ELSE GiveUp

(* superseded_candidate skips only automatic runs.  First the default branch *)
(* must still be the one of the run's start, then its head is read.         *)
SupersessionBranch ==
    /\ At("supersession", 0)
    /\ CASE ~automatic -> Advance /\ UNCHANGED <<ref, captured>>
         [] automatic /\ default = Main -> Answer /\ UNCHANGED <<ref, captured>>
         [] OTHER -> GiveUp

SupersessionHead ==
    /\ At("supersession", 1)
    /\ ref' = [branch |-> Main, sha |-> heads[Main]]
    /\ IF heads[Main] = Source THEN Advance ELSE Answer
    /\ UNCHANGED captured

(* The bug of trusting that every push of the branch has its run.           *)
ReplacedByPush(sha) == Source \in Ancestors[sha]

(* One newer run of the release workflow for the head, which descends from  *)
(* the source.                                                             *)
Replaced(sha) ==
    /\ Source \in Ancestors[sha]
    /\ \E r \in runs :
          /\ {q \in runs : q.sha = sha /\ q.branch = Main} = {r}
          /\ r.number > Mine

SupersessionRun ==
    /\ At("supersession", 2)
    /\ IF Replaced(ref.sha) THEN Answer /\ UNCHANGED <<ref, captured>> ELSE GiveUp

SupersessionAgain ==
    /\ At("supersession", 3)
    /\ End(IF heads[Main] = ref.sha THEN "superseded" ELSE "failed")

(* check_workflow_publication: the source's workflows are those of the head. *)
WorkflowsBranch ==
    /\ At("workflows", 0)
    /\ ref' = [ref EXCEPT !.branch = default]
    /\ IF scoped THEN Advance ELSE Answer
    /\ UNCHANGED captured

WorkflowsHead ==
    /\ At("workflows", 1)
    /\ LET tip == heads[ref.branch] IN
       /\ ref' = [ref EXCEPT !.sha = tip]
       /\ CASE tip = Source -> Advance
            [] tip # Source /\ Tree[tip] = Tree[Source] -> Answer
            [] OTHER -> outcome' = "failed" /\ UNCHANGED <<phase, sub, repository, publisher>>
    /\ UNCHANGED captured

WorkflowsBranchAgain ==
    /\ At("workflows", 2)
    /\ IF default = ref.branch THEN Answer /\ UNCHANGED <<ref, captured>> ELSE GiveUp

SameHead == heads[ref.branch] = ref.sha

WorkflowsHeadAgain ==
    /\ At("workflows", 3)
    /\ IF SameHead THEN Advance /\ UNCHANGED <<ref, captured>> ELSE GiveUp

(* source_ref: an automatic run must still be at the head.  Then             *)
(* begin_publication consumes the version.                                  *)
Capture ==
    /\ At("capture", 0)
    /\ IF ~automatic \/ heads[Main] = Source
       THEN captured' = heads[Main] /\ Advance /\ UNCHANGED ref
       ELSE GiveUp

(* The tag, the draft and its assets: the first public writes.              *)
Tag ==
    /\ At("tag", 0)
    /\ Advance
    /\ UNCHANGED <<ref, captured>>

Confirmed == heads[Main] = captured

(* confirm_automatic_source                                                *)
ConfirmBranch ==
    /\ At("confirm", 0)
    /\ CASE ~automatic -> Advance /\ UNCHANGED <<ref, captured>>
         [] automatic /\ default = Main -> Answer /\ UNCHANGED <<ref, captured>>
         [] OTHER -> GiveUp

ConfirmHead ==
    /\ At("confirm", 1)
    /\ IF Confirmed THEN Advance /\ UNCHANGED <<ref, captured>> ELSE GiveUp

PublishSource == At("publish", 0) /\ End("published")

SourceNext ==
    \/ \E b \in Branches, c \in Commits : PushCommit(b, c)
    \/ \E b \in Branches : SwitchDefault(b)
    \/ \E p \in pushed : CreateRun(p)
    \/ Ancestry
    \/ SupersessionBranch \/ SupersessionHead \/ SupersessionRun \/ SupersessionAgain
    \/ WorkflowsBranch \/ WorkflowsHead \/ WorkflowsBranchAgain \/ WorkflowsHeadAgain
    \/ Capture \/ Tag \/ ConfirmBranch \/ ConfirmHead \/ PublishSource

SourceSpec == SourceInit /\ [][SourceNext]_sourceVars
-----------------------------------------------------------------------------
(* A candidate is skipped only at a moment when the head of the default      *)
(* branch is a descendant of its source and has a release run of its own:    *)
(* superseded_candidate never drops the last candidate of the branch.        *)
SkipIsReplaced ==
    outcome' = "superseded" =>
        /\ Source \in Ancestors[heads[Main]]
        /\ \E r \in runs : r.sha = heads[Main] /\ r.number > Mine

(* When the tag is written, the source has the workflows of the head of the  *)
(* branch that was the default, unless that branch moved after the preflight *)
(* (check_workflow_publication, the last check before the first write).     *)
TagMatchesWorkflows ==
    (BranchCheck = "tag" /\ ~scoped) =>
        Tree[heads[ref.branch]] = Tree[Source] \/ moved[ref.branch] = phase

(* An automatic run of the frozen-plan publisher makes public only a source  *)
(* that was the head when confirm_automatic_source looked: any later head    *)
(* was pushed in the one window GitHub leaves, between that read and the     *)
(* publishing request.                                                      *)
PublishesHead ==
    (outcome' = "published" /\ automatic /\ kind = "versioned") =>
        heads[Main] = Source \/ moved[Main] = phase

(* Whatever is pushed between its checks, a run gives way only to a          *)
(* replacement that exists, tags only where the workflows agree and          *)
(* publishes what its last check called the head.                           *)
SourceIsCurrent ==
    [][outcome = "running" => SkipIsReplaced /\ TagMatchesWorkflows /\ PublishesHead]_sourceVars
=============================================================================
