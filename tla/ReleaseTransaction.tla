-------------------------- MODULE ReleaseTransaction --------------------------
(***************************************************************************)
(* One publication (_publish_prepared): the tag, the draft, its assets and  *)
(* the PATCH that makes it public, over an API whose answers can be lost,   *)
(* in a repository other people write to.  The create call is classified by *)
(* create_release_once and, when its outcome is ambiguous, reconciled by    *)
(* _reconcile_created_release without being replayed.                       *)
(*                                                                         *)
(* The state is what carries this release's tag: the tag itself and the     *)
(* releases that name it.  A listing is taken as one read, which is what    *)
(* InventoryReadback shows of two that agree.                               *)
(***************************************************************************)
EXTENDS Naturals, FiniteSets

CONSTANTS
    Files,        \* the staged assets with the manifest
    Ids,          \* release IDs the server may give out
    MaxForeign    \* bound: changes made by others

Extra == "extra"   \* a file others add: not one of the staged ones

ASSUME TransactionAssumption ==
    IsFiniteSet(Files) /\ Extra \notin Files /\ IsFiniteSet(Ids) /\ MaxForeign \in Nat

VARIABLES
    tag,       \* "absent", "ours" (on the released commit) or "moved"
    release,   \* Id -> "none", "draft" or "public"
    mine,      \* history: the release was made by this run's POST
    exact,     \* its fields are those of this run's request
    assets,    \* Id -> file -> "none", "good" (the staged bytes) or "bad"
    pc,        \* the next operation of the publisher
    id,        \* the release the publisher works on: {} or {i}
    listed,    \* reconciliation: IDs of the first listing
    pending,   \* files still to upload
    foreign,   \* changes made by others
    disturbed  \* history: others changed something after the publisher checked it

server == <<tag, release, mine, exact, assets>>
vars == <<server, pc, id, listed, pending, foreign, disturbed>>

AllFiles == Files \cup {Extra}
NoAssets == [f \in AllFiles |-> "none"]
Readback == {"confirm1", "first", "second", "release", "assets", "ref", "confirm2",
             "final", "finalassets"}
Steps == {"absent", "tag", "create", "upload", "inventory", "retag", "patch",
          "published", "failed", "unknown"} \cup Readback

TypeOK ==
    /\ tag \in {"absent", "ours", "moved"}
    /\ release \in [Ids -> {"none", "draft", "public"}]
    /\ mine \subseteq Ids /\ exact \subseteq Ids
    /\ assets \in [Ids -> [AllFiles -> {"none", "good", "bad"}]]
    /\ pc \in Steps /\ id \subseteq Ids /\ Cardinality(id) <= 1 /\ listed \subseteq Ids
    /\ pending \subseteq Files /\ foreign \in 0..MaxForeign /\ disturbed \in BOOLEAN

Named == {i \in Ids : release[i] # "none"}

Init ==
    /\ tag \in {"absent", "ours"}
    /\ release = [i \in Ids |-> "none"]
    /\ mine = {} /\ exact = {}
    /\ assets = [i \in Ids |-> NoAssets]
    /\ pc = "absent" /\ id = {} /\ listed = {} /\ pending = Files
    /\ foreign = 0 /\ disturbed = FALSE
-----------------------------------------------------------------------------
(* Other people with write access.  Their releases differ from the request. *)

Foreign ==
    /\ foreign < MaxForeign
    /\ foreign' = foreign + 1
    /\ disturbed' = (disturbed \/ pc \in {"retag", "patch"})
    /\ UNCHANGED <<pc, id, listed, pending>>

ForeignRelease(i) ==
    /\ Foreign
    /\ release[i] = "none" /\ tag # "absent"
    /\ release' = [release EXCEPT ![i] = "draft"]
    /\ UNCHANGED <<tag, mine, exact, assets>>

ForeignAsset(i, f) ==
    /\ Foreign
    /\ i \in Named
    /\ \E a \in {"none", "bad"} : assets[i][f] # a /\ assets' = [assets EXCEPT ![i][f] = a]
    /\ UNCHANGED <<tag, release, mine, exact>>

ForeignEdit(i) ==
    /\ Foreign
    /\ i \in Named
    /\ exact' = exact \ {i}
    /\ UNCHANGED <<tag, release, mine, assets>>

ForeignTag ==
    /\ Foreign
    /\ tag = "ours" /\ tag' = "moved"
    /\ UNCHANGED <<release, mine, exact, assets>>
-----------------------------------------------------------------------------
(* The publisher.                                                          *)

Goto(step) == pc' = step /\ UNCHANGED <<foreign, disturbed>>

(* Any read may fail, and so may the signature, asset and workflow checks;  *)
(* the create readback also at its deadline.                                *)
Fails ==
    /\ pc \notin {"published", "failed", "unknown", "tag", "create", "upload", "patch"}
    /\ Goto("failed")
    /\ UNCHANGED <<server, id, listed, pending>>

(* ensure_absent                                                           *)
EnsureAbsent ==
    /\ pc = "absent"
    /\ Goto(IF tag = "absent" /\ Named = {} THEN "tag" ELSE "failed")
    /\ UNCHANGED <<server, id, listed, pending>>

(* POST git/refs: refused when the tag exists; its answer may be lost.      *)
CreateTag ==
    /\ pc = "tag"
    /\ tag' = IF tag = "absent" THEN "ours" ELSE tag
    /\ Goto("failed") \/ (tag = "absent" /\ Goto("create"))
    /\ UNCHANGED <<release, mine, exact, assets, id, listed, pending>>

(* create_release_once.  The server made the draft or it did not; what the  *)
(* engine learns is one of four things.  4xx and diagnosed denials mean     *)
(* "rejected", a lost or broken answer "ambiguous".                         *)
CreateDraft(i, learns) ==
    /\ pc = "create"
    /\ release[i] = "none"
    /\ release' = [release EXCEPT ![i] = "draft"]
    /\ mine' = mine \cup {i} /\ exact' = exact \cup {i}
    /\ UNCHANGED <<tag, assets, listed, pending>>
    /\ \/ learns = "created" /\ id' = {i} /\ Goto("upload")
       \/ learns = "ambiguous" /\ UNCHANGED id /\ Goto("confirm1")
       \/ learns = "unexpected" /\ UNCHANGED id /\ Goto("failed")

CreateRefused(learns) ==
    /\ pc = "create"
    /\ \/ learns = "rejected" /\ Goto("failed")
       \/ learns = "ambiguous" /\ Goto("confirm1")
    /\ UNCHANGED <<server, id, listed, pending>>

(* The bug of a readback that looks at the tag name only.                    *)
CheckedTag(i) == release[i] # "none"

(* checked_release: an unpublished, empty draft with the request's fields.   *)
Checked(i) == release[i] = "draft" /\ i \in exact /\ assets[i] = NoAssets

(* The two listings show the same single release of this tag.                *)
OnlyMatch(i) == Named = {i} /\ listed = {i}

(* The steps of _reconcile_created_release in order, with what each needs.   *)
ReadbackStep ==
    /\ \/ pc = "confirm1" /\ Goto("first") /\ UNCHANGED <<id, listed>>
       \/ pc = "first" /\ listed' = Named /\ Goto("second") /\ UNCHANGED id
       \/ /\ pc = "second" /\ UNCHANGED listed
          /\ \/ \E i \in Ids : OnlyMatch(i) /\ Checked(i) /\ id' = {i} /\ Goto("release")
             \/ ~(\E i \in Ids : OnlyMatch(i) /\ Checked(i)) /\ UNCHANGED id /\ Goto("failed")
       \/ \E step \in {<<"release", "assets">>, <<"assets", "ref">>, <<"confirm2", "final">>,
                       <<"final", "finalassets">>, <<"finalassets", "upload">>} :
             /\ pc = step[1] /\ UNCHANGED <<id, listed>>
             /\ Goto(IF step[1] = "confirm2" \/ \A i \in id : Checked(i) THEN step[2] ELSE "failed")
       \/ /\ pc = "ref" /\ UNCHANGED <<id, listed>>
          /\ Goto(IF tag = "ours" THEN "confirm2" ELSE "failed")
    /\ UNCHANGED <<server, pending>>

(* upload: one POST per file; the bytes may be damaged although the answer   *)
(* confirms name and size, and the answer may be lost.  A name that is       *)
(* taken is refused.                                                        *)
Upload(f) ==
    /\ pc = "upload" /\ f \in pending
    /\ \E i \in id :
         \/ /\ assets[i][f] = "none"
            /\ \E a \in {"good", "bad"} : assets' = [assets EXCEPT ![i][f] = a]
            /\ \/ pending' = pending \ {f}
                  /\ Goto(IF pending' = {} THEN "inventory" ELSE "upload")
               \/ UNCHANGED pending /\ Goto("failed")
         \/ UNCHANGED <<assets, pending>> /\ Goto("failed")
    /\ UNCHANGED <<tag, release, mine, exact, id, listed>>

(* The bug of an inventory that is not downloaded again.                     *)
NamesMatch(i) == \A f \in AllFiles : assets[i][f] = "none" <=> f = Extra

(* The uploaded inventory has the expected names and, by                    *)
(* verify_uploaded_asset, the staged bytes.                                  *)
InventoryMatches(i) == assets[i] = [f \in AllFiles |-> IF f = Extra THEN "none" ELSE "good"]

Inventory ==
    /\ pc = "inventory"
    /\ Goto(IF \A i \in id : InventoryMatches(i) THEN "retag" ELSE "failed")
    /\ UNCHANGED <<server, id, listed, pending>>

(* The tag is read again, and confirm_publish follows.                      *)
Retag ==
    /\ pc = "retag"
    /\ Goto(IF tag = "ours" THEN "patch" ELSE "failed")
    /\ UNCHANGED <<server, id, listed, pending>>

(* PATCH draft: false.  Refused, done and confirmed, or done and unheard of. *)
Patch ==
    /\ pc = "patch"
    /\ \/ UNCHANGED release /\ Goto("failed")
       \/ /\ release' = [i \in Ids |-> IF i \in id THEN "public" ELSE release[i]]
          /\ Goto("published") \/ Goto("unknown")
    /\ UNCHANGED <<tag, mine, exact, assets, id, listed, pending>>

Next ==
    \/ \E i \in Ids : ForeignRelease(i) \/ ForeignEdit(i)
    \/ \E i \in Ids, f \in AllFiles : ForeignAsset(i, f)
    \/ ForeignTag \/ Fails \/ EnsureAbsent \/ CreateTag
    \/ \E i \in Ids, learns \in {"created", "ambiguous", "unexpected"} : CreateDraft(i, learns)
    \/ \E learns \in {"rejected", "ambiguous"} : CreateRefused(learns)
    \/ ReadbackStep \/ \E f \in Files : Upload(f)
    \/ Inventory \/ Retag \/ Patch

Spec == Init /\ [][Next]_vars
-----------------------------------------------------------------------------
(* The release the publisher works on is the one its own POST made, also     *)
(* when the answer was lost and others made releases for the same tag, and   *)
(* the POST is never replayed (_reconcile_created_release).                  *)
OneOwnDraft == id \subseteq mine /\ Cardinality(mine) <= 1

(* Unless others interfere after the last check, a release made public has   *)
(* exactly the staged files with their bytes under a tag on the released     *)
(* commit, although uploads can be damaged and others edit the draft         *)
(* (lines 2010-2031).                                                        *)
PublicIsExact ==
    [][\A i \in Ids : release[i] # "public" /\ release'[i] = "public" /\ ~disturbed
         => /\ \A f \in Files : assets[i][f] = "good"
            /\ assets[i][Extra] = "none" /\ tag = "ours"]_vars

==============================================================================
