-------------------------- MODULE VersionPreparation --------------------------
(***************************************************************************)
(* prepare --pr: operators (people or workflows) propose the next base       *)
(* version on a topic branch of the remote and open a pull request for it.   *)
(* Several may run at once, any of them may die and be run again, the default *)
(* branch moves, pull requests are merged, and people add commits to a topic. *)
(* A tree is what the default branch contributed, its base version, and the   *)
(* commit in which people last changed anything else.  git push is not       *)
(* forced: it is refused unless the branch's commit is an ancestor of the new *)
(* one.                                                                     *)
(***************************************************************************)
EXTENDS Naturals, Sequences, FiniteSets, FiniteSetsExt

CONSTANTS
    Operators,
    MaxVersion,   \* bound: base versions, X.Y.1 to X.Y.MaxVersion
    MaxCommits,   \* bound: commits on the remote
    MaxOperatorKills      \* bound: operators killed

ASSUME PreparationAssumption ==
    MaxVersion \in Nat /\ MaxCommits \in Nat \ {0} /\ MaxOperatorKills \in Nat

Versions == 1..MaxVersion
None == 0   \* no commit, no branch

VARIABLES
    commits,  \* id -> [tree, anc], the objects of the remote
    main,     \* the default branch
    tags,     \* stable tags reachable from the default branch, by version
    elsewhere, \* stable tags of other branches: their versions are occupied
    topic,    \* version -> the topic branch
    pulls,    \* version -> a pull request is open
    op,       \* operator -> [pc, head, target, pull, seen, next]
    operatorKills

remote == <<commits, main, tags, elsewhere, topic, pulls>>
preparationVars == <<remote, op, operatorKills>>

Tree(c) == commits[c].tree
Anc(c) == commits[c].anc \cup {c}
Commit(tree, parents) == [tree |-> tree, anc |-> UNION {Anc(p) : p \in parents}]
NewId == Len(commits) + 1
Idle == [pc |-> "idle", head |-> None, target |-> 1, pull |-> None, seen |-> None]

PreparationInit ==
    /\ commits = <<[tree |-> [on |-> 1, version |-> 1, extra |-> None], anc |-> {}]>>
    /\ main = 1
    /\ tags \in {{}, {1}}
    /\ elsewhere \in {{}, {2}}
    /\ topic = [v \in Versions |-> None]
    /\ pulls = [v \in Versions |-> FALSE]
    /\ op = [o \in Operators |-> Idle]
    /\ operatorKills = 0
-----------------------------------------------------------------------------
(* The remote: development, people on a topic, merges, stable releases.      *)
Develop ==
    /\ NewId <= MaxCommits
    /\ commits' = Append(commits, Commit([Tree(main) EXCEPT !.on = NewId], {main}))
    /\ main' = NewId
    /\ UNCHANGED <<tags, elsewhere, topic, pulls, op, operatorKills>>

WorkOnTopic(v) ==
    /\ NewId <= MaxCommits /\ topic[v] # None
    /\ commits' = Append(commits, Commit([Tree(topic[v]) EXCEPT !.extra = NewId], {topic[v]}))
    /\ topic' = [topic EXCEPT ![v] = NewId]
    /\ UNCHANGED <<main, tags, elsewhere, pulls, op, operatorKills>>

(* A merge commit or a squash; the branch may be deleted.                   *)
Merge(v, parents, keep) ==
    /\ NewId <= MaxCommits /\ pulls[v]
    /\ commits' = Append(commits, Commit([on |-> NewId, version |-> Tree(topic[v]).version, extra |-> None], parents))
    /\ main' = NewId
    /\ pulls' = [pulls EXCEPT ![v] = FALSE]
    /\ topic' = [topic EXCEPT ![v] = IF keep THEN @ ELSE None]
    /\ UNCHANGED <<tags, elsewhere, op, operatorKills>>

Release ==
    /\ Tree(main).version \notin tags \cup elsewhere
    /\ tags' = tags \cup {Tree(main).version}
    /\ UNCHANGED <<commits, main, elsewhere, topic, pulls, op, operatorKills>>
-----------------------------------------------------------------------------
Goto(o, pc) == [op EXCEPT ![o].pc = pc]
End(o) == op' = [op EXCEPT ![o] = Idle]

(* _bumped_version for next-patch: a prepared base is kept.                  *)
Bumped(current) ==
    IF tags = {} \/ current > Max(tags) THEN current ELSE Max(tags) + 1

(* choose_version: from there on, the first version no stable tag has.       *)
NextPatch(current) ==
    Min({v \in Bumped(current)..(MaxVersion + 2) : v \notin tags \cup elsewhere})

(* _validate_preparation_checkout, advertised_tags, choose_version           *)
Fetch(o) ==
    /\ op[o].pc = "idle"
    /\ NextPatch(Tree(main).version) \in Versions
    /\ op' = [op EXCEPT ![o] = [Idle EXCEPT !.pc = "list", !.head = main,
                                            !.target = NextPatch(Tree(main).version)]]
    /\ UNCHANGED <<remote, operatorKills>>

(* gh pr list, own_pull_requests: a pull request is known by its head commit. *)
ListPulls(o) ==
    /\ op[o].pc = "list"
    /\ op' = [op EXCEPT ![o].pull = IF pulls[op[o].target] THEN topic[op[o].target] ELSE None,
                        ![o].pc = "topic"]
    /\ UNCHANGED <<remote, operatorKills>>

MergeBase(a, b) ==
    CHOOSE c \in Anc(a) \cap Anc(b) : \A d \in Anc(a) \cap Anc(b) : c \notin commits[d].anc

Prepared(base, v) == [Tree(base) EXCEPT !.version = v]

(* verify_owned_topic: the topic is its merge base with the head, plus the    *)
(* generated version changes.                                               *)
OwnedTopic(t, head, v) == Tree(t) = Prepared(MergeBase(t, head), v)

(* remote_topic: the branch, if any, as ls-remote and the fetch agree on it.   *)
RemoteTopic(v) == topic[v]

(* _preparation_topic                                                      *)
ReadTopic(o) ==
    /\ op[o].pc = "topic"
    /\ LET r == op[o]
           t == RemoteTopic(r.target)
       IN IF (r.pull # None => r.pull = t) /\ (t # None => OwnedTopic(t, r.head, r.target))
          THEN op' = [op EXCEPT ![o].seen = t, ![o].pc = "push"]
          ELSE End(o)
    /\ UNCHANGED <<remote, operatorKills>>

(* The bug of a forced push.                                               *)
ForcePushAccepted(t, new) == TRUE

PushAccepted(t, new) == t = None \/ t \in new.anc

(* The worktree is synchronized; a commit is pushed if the topic's tree        *)
(* differs from it.                                                         *)
Push(o) ==
    /\ op[o].pc = "push"
    /\ LET r == op[o]
           tree == Prepared(r.head, r.target)
           new == Commit(tree, {r.head} \cup (IF r.seen = None THEN {} ELSE {r.seen}))
           next == IF r.pull = None THEN Goto(o, "create") ELSE [op EXCEPT ![o] = Idle]
       IN \/ /\ r.pull = None /\ tree = Tree(r.head)   \* nothing to change
             /\ End(o) /\ UNCHANGED remote
          \/ /\ ~(r.pull = None /\ tree = Tree(r.head))
             /\ r.seen # None /\ tree = Tree(r.seen)   \* the topic is up to date
             /\ op' = next /\ UNCHANGED remote
          \/ /\ ~(r.pull = None /\ tree = Tree(r.head))
             /\ ~(r.seen # None /\ tree = Tree(r.seen))
             /\ IF PushAccepted(topic[r.target], new)
                THEN /\ NewId <= MaxCommits
                     /\ commits' = Append(commits, new)
                     /\ topic' = [topic EXCEPT ![r.target] = NewId]
                     /\ op' = next
                     /\ UNCHANGED <<main, tags, elsewhere, pulls>>
                ELSE End(o) /\ UNCHANGED remote
    /\ UNCHANGED operatorKills

(* gh pr create fails if the branch is gone or has a pull request.           *)
CreatePull(o) ==
    /\ op[o].pc = "create"
    /\ LET v == op[o].target IN
       pulls' = [pulls EXCEPT ![v] = @ \/ (topic[v] # None /\ topic[v] \notin Anc(main))]
    /\ End(o)
    /\ UNCHANGED <<commits, main, tags, elsewhere, topic, operatorKills>>

KillOperator(o) ==
    /\ operatorKills < MaxOperatorKills /\ op[o].pc # "idle"
    /\ operatorKills' = operatorKills + 1
    /\ End(o)
    /\ UNCHANGED remote

PreparationNext ==
    \/ Develop \/ Release
    \/ \E v \in Versions : WorkOnTopic(v)
    \/ \E v \in Versions, keep \in BOOLEAN :
          Merge(v, {main}, keep) \/ Merge(v, {main, topic[v]}, keep)
    \/ \E o \in Operators :
          Fetch(o) \/ ListPulls(o) \/ ReadTopic(o) \/ Push(o) \/ CreatePull(o) \/ KillOperator(o)

PreparationSpec == PreparationInit /\ [][PreparationNext]_preparationVars
-----------------------------------------------------------------------------
Pushed(v, o) == op[o].pc = "push" /\ op'[o] # op[o] /\ topic[v] # None /\ topic'[v] # topic[v]
(* An operator never replaces a tree with people's work in it, unless the     *)
(* default branch has that work: such a topic is refused, and work that       *)
(* arrives after the verification makes the push fail (verify_owned_topic,   *)
(* the unforced push).  Nor does it take a topic back to an older state of   *)
(* the default branch, although it may have fetched before the operator that *)
(* wrote the topic did (verify_owned_topic compares with the merge base).    *)
TopicNeverRegresses ==
    [][\A v \in Versions, o \in Operators :
          Pushed(v, o) =>
             /\ Tree(topic[v]).extra \in {None} \cup Anc(main)
             /\ Tree(topic[v]).on <= commits'[topic'[v]].tree.on]_preparationVars
=============================================================================
