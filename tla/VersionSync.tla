----------------------------- MODULE VersionSync -----------------------------
(***************************************************************************)
(* sync_versions writes the planned versions into every declared field of a  *)
(* checkout: all edits are computed first, then the files are compared again *)
(* with what was read, staged next to their originals and replaced one by    *)
(* one.  The process may be killed between any two steps and started again,   *)
(* and a developer or tool may edit the same files at any time.              *)
(* verify_checkout decides whether a build may use such a checkout.          *)
(***************************************************************************)
EXTENDS Naturals, FiniteSets

CONSTANTS
    Files, Fields,
    Declarations,  \* declared fields: [file, field, value]
    Stranger,      \* what others write
    MaxEdits,      \* bound: edits by others
    MaxKills       \* bound: kills

ASSUME SyncAssumption ==
    /\ Stranger \in Nat
    /\ Declarations \subseteq [file : Files, field : Fields, value : 0..Stranger]
    /\ MaxEdits \in Nat /\ MaxKills \in Nat

Committed == [f \in Files |-> [k \in Fields |-> 0]]   \* the files at HEAD

VARIABLES
    policy,     \* the declarations of the policy
    disk,       \* file -> content
    originals,  \* file -> content when read
    syncPc,     \* the phase of sync_versions, or "idle"
    syncTodo,   \* files the phase has still to handle
    compared,   \* the file about to be replaced, as a set
    stagedFiles, \* files with a staged temporary
    verdict,    \* of the last command: "none", "synced", "verified", "refused"
    edits, kills,
    late        \* history: files edited after their last comparison

sync == <<policy, originals, syncPc, syncTodo, compared, stagedFiles, verdict>>
syncVars == <<sync, disk, edits, kills, late>>

Owned == {d.file : d \in policy}

SyncInit ==
    /\ policy \in {p \in SUBSET Declarations : p # {}}
    /\ disk = Committed /\ originals = Committed
    /\ syncPc = "idle" /\ syncTodo = {} /\ compared = {} /\ stagedFiles = {}
    /\ verdict = "none" /\ edits = 0 /\ kills = 0
    /\ late = {}
-----------------------------------------------------------------------------
Edit(f, k) ==
    /\ edits < MaxEdits
    /\ disk' = [disk EXCEPT ![f][k] = Stranger]
    /\ edits' = edits + 1
    /\ late' = IF compared = {f} THEN late \cup {f} ELSE late
    /\ UNCHANGED <<sync, kills>>

(* Temporaries stay behind; nothing refers to them.                         *)
KillSync ==
    /\ kills < MaxKills /\ syncPc # "idle"
    /\ kills' = kills + 1
    /\ syncPc' = "idle" /\ syncTodo' = {} /\ compared' = {} /\ stagedFiles' = {}
    /\ verdict' = "none"
    /\ UNCHANGED <<policy, originals, disk, edits, late>>

(* An exception: finally removes what is staged.                            *)
Refuse ==
    /\ syncPc' = "idle" /\ syncTodo' = {} /\ compared' = {} /\ stagedFiles' = {}
    /\ verdict' = "refused"
    /\ UNCHANGED <<policy, originals, disk>>
Enter(phase, files) == syncPc' = phase /\ syncTodo' = files
-----------------------------------------------------------------------------
(* _edit: one declared field gets its projected value.  The edits of a file  *)
(* apply in the order of the policy, which is any order.                    *)
Edited(content, f) ==
    LET values(k) == {d.value : d \in {e \in policy : e.file = f /\ e.field = k}}
    IN {c \in [Fields -> 0..Stranger] :
          \A k \in Fields : IF values(k) = {} THEN c[k] = content[k] ELSE c[k] \in values(k)}

Holds(content, f) == \A d \in policy : d.file = f => content[d.field] = d.value

(* Every declaration still holds after all edits.                           *)
Consistent == \A f \in Owned : \A c \in Edited(originals[f], f) : Holds(c, f)

Planned(f) == CHOOSE c \in Edited(originals[f], f) : TRUE
Drift == {f \in Owned : Planned(f) # originals[f]}

Start ==
    /\ syncPc = "idle" /\ verdict # "synced"
    /\ Enter("read", Owned)
    /\ verdict' = "none"
    /\ UNCHANGED <<policy, disk, originals, compared, stagedFiles, edits, kills, late>>

ReadFile(f) ==
    /\ syncPc = "read" /\ f \in syncTodo
    /\ originals' = [originals EXCEPT ![f] = disk[f]]
    /\ syncTodo' = syncTodo \ {f}
    /\ UNCHANGED <<policy, disk, syncPc, compared, stagedFiles, verdict, edits, kills, late>>

Plan ==
    /\ syncPc = "read" /\ syncTodo = {}
    /\ IF Consistent
       THEN /\ Enter("recheck", Owned)
            /\ UNCHANGED <<policy, disk, originals, compared, stagedFiles, verdict>>
       ELSE Refuse
    /\ UNCHANGED <<edits, kills, late>>

(* _apply_version_edits                                                    *)
RecheckFile(f) ==
    /\ syncPc = "recheck" /\ f \in syncTodo
    /\ IF disk[f] = originals[f]
       THEN /\ IF syncTodo = {f} THEN Enter("stage", Drift) ELSE Enter(syncPc, syncTodo \ {f})
            /\ UNCHANGED <<policy, disk, originals, compared, stagedFiles, verdict>>
       ELSE Refuse
    /\ UNCHANGED <<edits, kills, late>>

StageFiles ==
    /\ syncPc = "stage"
    /\ stagedFiles' = syncTodo
    /\ Enter("replace", syncTodo)
    /\ UNCHANGED <<policy, disk, originals, compared, verdict, edits, kills, late>>

(* The bug of not looking at a file again just before it is replaced.        *)
AssumedUnchanged(f) == TRUE

UnchangedOnDisk(f) == disk[f] = originals[f]

Compare(f) ==
    /\ syncPc = "replace" /\ f \in syncTodo /\ compared = {}
    /\ late' = late \ {f}
    /\ IF UnchangedOnDisk(f)
       THEN compared' = {f} /\ UNCHANGED <<policy, disk, originals, syncPc, syncTodo, stagedFiles, verdict>>
       ELSE Refuse
    /\ UNCHANGED <<edits, kills>>

Replace(f) ==
    /\ compared = {f}
    /\ disk' = [disk EXCEPT ![f] = Planned(f)]
    /\ syncTodo' = syncTodo \ {f} /\ stagedFiles' = stagedFiles \ {f} /\ compared' = {}
    /\ UNCHANGED <<policy, originals, syncPc, verdict, edits, kills, late>>

Finish ==
    /\ syncPc = "replace" /\ syncTodo = {} /\ compared = {}
    /\ syncPc' = "idle" /\ verdict' = "synced"
    /\ UNCHANGED <<policy, disk, originals, syncTodo, compared, stagedFiles, edits, kills, late>>

(* verify_checkout: each owned file is HEAD's, or HEAD's with the plan.      *)
Accounted == \A f \in Owned : disk[f] = Committed[f] \/ disk[f] \in Edited(Committed[f], f)

VerifyCheckout ==
    /\ syncPc = "idle"
    /\ verdict' = IF Accounted THEN "verified" ELSE "refused"
    /\ UNCHANGED <<policy, disk, originals, syncPc, syncTodo, compared, stagedFiles, edits, kills, late>>

SyncNext ==
    \/ \E f \in Files, k \in Fields : Edit(f, k)
    \/ KillSync \/ Start \/ Plan \/ StageFiles \/ Finish \/ VerifyCheckout
    \/ \E f \in Owned : ReadFile(f) \/ RecheckFile(f) \/ Compare(f) \/ Replace(f)

SyncSpec == SyncInit /\ [][SyncNext]_syncVars
-----------------------------------------------------------------------------
(* An edit by others is destroyed only if it falls between the comparison of  *)
(* its file and the rename right after it (_apply_version_edits compares     *)
(* twice; the file system offers no compare-and-rename).                    *)
EditsSurvive ==
    \A f \in Owned :
        (disk'[f] # disk[f] /\ edits' = edits /\ disk[f] # originals[f]) => f \in late

(* No file is ever written with a declared field at another value: policies   *)
(* whose selectors overlap and disagree are refused before any write.        *)
WritesAgree ==
    \A f \in Owned : (disk'[f] # disk[f] /\ edits' = edits) => Holds(disk'[f], f)

(* A sync that was killed half-way leaves a checkout that verify_checkout     *)
(* accepts and that a new sync completes: if nobody else edits, nothing is    *)
(* refused but a policy that contradicts itself.                            *)
KillsAreHarmless ==
    (edits = 0 /\ verdict = "refused") => \E d, e \in policy :
        d.file = e.file /\ d.field = e.field /\ d.value # e.value

(* However edits, kills and new attempts interleave with the replacement of  *)
(* the files one by one: the three parts above.                              *)
SyncIsSafe == [][EditsSurvive /\ WritesAgree /\ KillsAreHarmless']_syncVars
=============================================================================
