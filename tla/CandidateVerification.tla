------------------------ MODULE CandidateVerification ------------------------
(***************************************************************************)
(* How the engine comes to trust a published candidate: before its bytes    *)
(* are promoted (promote), before a final build derives from it             *)
(* (verified_rc, publish_versioned), before a scheduled nightly is           *)
(* skipped in its favour (scheduled_reuse, verify_scheduled_reuse) and       *)
(* before its images are copied to a registry (publish_verified).  Every    *)
(* check is a read of its own, and people with write access may change the  *)
(* candidate, its tag, the release environment or the branch in between.     *)
(* An asset's bytes never change under one asset ID.                        *)
(***************************************************************************)
EXTENDS Naturals, Sequences, FiniteSets

CONSTANTS
    Files,     \* the payload files of the candidate
    Bytes,     \* contents, told apart by their digests
    Good,      \* the content the source run built
    MaxForeign \* bound: changes made by others

ASSUME VerificationAssumption == Good \in Bytes /\ MaxForeign \in Nat

VARIABLES
    mode,      \* "promote", "final", "reuse" or "publish"
    step,      \* checks passed so far
    verdict,   \* "checking", "accepted" or "refused"
    asset,     \* file -> [id, bytes]: the release's assets
    manifest,  \* [id, bytes, valid]: the release's manifest asset
    tag,       \* the candidate's tag is on the manifest's source commit
    run,       \* the source run is completed, successful and current
    reviewers, \* the release environment requires reviewers
    head,      \* the default branch is at the run's source
    retained,  \* the evidence artifact has not expired
    snapshot,  \* release_snapshot: the assets and manifest listed first
    raw,       \* the manifest that was downloaded
    proved,    \* file -> the bytes acceptance rests on
    foreign,
    changed    \* history: the step at which others last changed each thing

candidateWorld == <<asset, manifest, tag, run, reviewers, head, retained>>
verificationVars == <<mode, step, verdict, candidateWorld, snapshot, raw, proved, foreign, changed>>

Evidence == [f \in Files |-> Good]   \* the immutable release-evidence artifact
Things == {"asset", "manifest", "tag", "run", "reviewers", "head", "retained"}
Nothing == [f \in Files |-> 0]

(* The bug of authorizing once, before the downloads.                       *)
PromoteOnce ==
    <<"reviewers", "ref", "listing", "manifest", "run", "evidence", "bytes", "ref", "relisting">>

(* promote: everything again before the stable release, the run included.   *)
PromoteChecks ==
    <<"reviewers", "ref", "listing", "manifest", "run", "evidence", "bytes", "ref",
      "relisting", "run", "reviewers">>

(* verified_rc between the two looks publish_versioned has at the reviewers.  *)
FinalChecks ==
    <<"reviewers", "ref", "listing", "manifest", "run", "evidence", "bytes", "ref",
      "relisting", "reviewers">>

(* verify_scheduled_reuse between the two looks of scheduled_reuse at the     *)
(* default branch.                                                          *)
ReuseChecks ==
    <<"head", "ref", "listing", "manifest", "metadata", "run", "evidence", "ref",
      "relisting", "head">>

(* verified_assets: its downloaded copies are what is published, so it does   *)
(* not look again.                                                          *)
PublishChecks == <<"ref", "listing", "manifest", "run", "evidence", "bytes">>

Order == [promote |-> PromoteChecks, final |-> FinalChecks,
          reuse |-> ReuseChecks, publish |-> PublishChecks]

VerificationInit ==
    /\ mode \in DOMAIN Order
    /\ step = 0 /\ verdict = "checking"
    /\ asset = [f \in Files |-> [id |-> 1, bytes |-> Good]]
    /\ manifest = [id |-> 1, bytes |-> Evidence, valid |-> TRUE]
    /\ tag = TRUE /\ run = TRUE /\ reviewers = TRUE /\ head = TRUE /\ retained = TRUE
    /\ snapshot = <<asset, manifest>> /\ raw = manifest /\ proved = Nothing
    /\ foreign = 0
    /\ changed = [t \in Things |-> 0]
-----------------------------------------------------------------------------
(* Others change one thing.  An asset is replaced under a new ID.            *)
Foreign(thing) ==
    /\ foreign < MaxForeign
    /\ verdict = "checking"
    /\ foreign' = foreign + 1
    /\ changed' = [changed EXCEPT ![thing] = step + 1]
    /\ UNCHANGED <<mode, step, verdict, snapshot, raw, proved>>

ReplaceAsset(f, b) ==
    /\ Foreign("asset")
    /\ asset' = [asset EXCEPT ![f] = [id |-> @.id + 1, bytes |-> b]]
    /\ UNCHANGED <<manifest, tag, run, reviewers, head, retained>>

ReplaceManifest(content, ok) ==
    /\ Foreign("manifest")
    /\ manifest' = [id |-> manifest.id + 1, bytes |-> content, valid |-> ok]
    /\ UNCHANGED <<asset, tag, run, reviewers, head, retained>>

Revoke ==
    /\ \/ Foreign("tag") /\ tag' = ~tag /\ UNCHANGED <<run, reviewers, head, retained>>
       \/ Foreign("run") /\ run' = ~run /\ UNCHANGED <<tag, reviewers, head, retained>>
       \/ Foreign("reviewers") /\ reviewers' = ~reviewers /\ UNCHANGED <<tag, run, head, retained>>
       \/ Foreign("head") /\ head' = ~head /\ UNCHANGED <<tag, run, reviewers, retained>>
       \/ Foreign("retained") /\ retained' = FALSE /\ UNCHANGED <<tag, run, reviewers, head>>
    /\ UNCHANGED <<asset, manifest>>
-----------------------------------------------------------------------------
(* The checks.  An asset is downloaded by the ID of the first listing: after *)
(* a replacement that ID is gone.                                           *)

NextCheck == Order[mode][step + 1]

Decide(passed) ==
    /\ step' = step + 1
    /\ verdict' = IF ~passed THEN "refused"
                  ELSE IF step' = Len(Order[mode]) THEN "accepted" ELSE "checking"
    /\ UNCHANGED <<mode, candidateWorld, foreign, changed>>

(* require_reviewers, validate_run of the source run, the tag's commit, the  *)
(* default branch.                                                          *)
Condition(check) ==
    CASE check = "reviewers" -> reviewers
      [] check = "run" -> run
      [] check = "ref" -> tag
      [] check = "head" -> head

Authorize ==
    /\ NextCheck \in {"reviewers", "run", "ref", "head"}
    /\ Decide(Condition(NextCheck))
    /\ UNCHANGED <<snapshot, raw, proved>>

(* release_snapshot, published_plan_snapshot                               *)
Listing ==
    /\ NextCheck = "listing"
    /\ snapshot' = <<asset, manifest>>
    /\ Decide(TRUE)
    /\ UNCHANGED <<raw, proved>>

(* The manifest is downloaded and validated (validate_manifest): its assets,  *)
(* its plan and its provenance.                                              *)
Download ==
    /\ NextCheck = "manifest"
    /\ raw' = manifest
    /\ Decide(manifest.id = snapshot[2].id /\ manifest.valid)
    /\ UNCHANGED <<snapshot, proved>>

(* The bug of an artifact that only has to exist.                           *)
EvidenceExists == retained

(* verify_evidence: one unexpired artifact of the source run, whose bytes    *)
(* are those of the manifest.                                               *)
EvidenceMatches == retained /\ raw.bytes = Evidence

VerifyEvidence ==
    /\ NextCheck = "evidence"
    /\ Decide(EvidenceMatches)
    /\ UNCHANGED <<snapshot, raw, proved>>

(* download_asset: an incomplete or failed download leaves nothing.           *)
Downloadable(f) == asset[f].id = snapshot[1][f].id

(* Every payload is downloaded and compared with its size and digest.        *)
VerifyBytes ==
    /\ NextCheck = "bytes"
    /\ proved' = [f \in Files |-> asset[f].bytes]
    /\ Decide(\A f \in Files : Downloadable(f) /\ asset[f].bytes = raw.bytes[f])
    /\ UNCHANGED <<snapshot, raw>>

(* Reuse compares the digests GitHub lists and downloads nothing.            *)
VerifyMetadata ==
    /\ NextCheck = "metadata"
    /\ proved' = [f \in Files |-> snapshot[1][f].bytes]
    /\ Decide(\A f \in Files : snapshot[1][f].bytes = raw.bytes[f])
    /\ UNCHANGED <<snapshot, raw>>

(* snapshot_identity: IDs and every other field but the download counter.   *)
SameSnapshot == snapshot = <<asset, manifest>>

Relisting ==
    /\ NextCheck = "relisting"
    /\ Decide(SameSnapshot)
    /\ UNCHANGED <<snapshot, raw, proved>>

VerifyCandidate ==
    /\ verdict = "checking"
    /\ \/ Authorize \/ Listing \/ Download \/ VerifyEvidence
       \/ VerifyBytes \/ VerifyMetadata \/ Relisting

VerificationNext ==
    \/ \E f \in Files, b \in Bytes : ReplaceAsset(f, b)
    \/ \E content \in [Files -> Bytes], ok \in BOOLEAN : ReplaceManifest(content, ok)
    \/ Revoke \/ VerifyCandidate

VerificationSpec == VerificationInit /\ [][VerificationNext]_verificationVars
-----------------------------------------------------------------------------
(* The steps after which a change is no longer noticed.                      *)
Position(check) == CHOOSE i \in DOMAIN Order[mode] : Order[mode][i] = check
Verified == IF mode = "reuse" THEN Position("evidence") ELSE Position("bytes")

(* What is accepted is what the source run built, byte for byte, however the  *)
(* release's assets and manifest were replaced ("byte-for-byte copies of the  *)
(* verified release candidate"), and the release still has it unless it was   *)
(* replaced after the second listing.                                        *)
AcceptedIsEvidence ==
    verdict = "accepted" =>
        /\ proved = Evidence
        /\ (mode # "publish" /\ changed["asset"] <= Position("relisting")) =>
              \A f \in Files : asset[f].bytes = proved[f]

(* Acceptance rests on nothing stale: a tag, branch, approval or run that is  *)
(* not in order at the end was changed after the candidate's content had      *)
(* been verified, not in the long time of the downloads before.               *)
NothingStale ==
    verdict = "accepted" =>
        /\ ~tag => changed["tag"] > IF mode = "publish" THEN 0 ELSE Verified
        /\ mode \in {"promote", "final"} /\ ~reviewers => changed["reviewers"] > Verified
        /\ mode = "promote" /\ ~run => changed["run"] > Verified
        /\ mode = "reuse" /\ ~head => changed["head"] > Verified

==============================================================================
