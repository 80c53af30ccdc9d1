----------------------------- MODULE MCArtifacts -----------------------------
(***************************************************************************)
(* What a release is made of: its version and build number, the payloads of *)
(* its build jobs, the merged OCI archive and the notes.  A behaviour makes  *)
(* the one that `part` names.                                               *)
(*                                                                         *)
(* Receipts: two platform jobs, both required, one declared payload, two    *)
(* attempts.                                                                *)
(* Archive: 1, 2 are layers; 3, 4 the images; 5, 6 their attestations; 7,   *)
(* 8, 9 nested indexes; 10 an image whose layer repeats; 11 an image with   *)
(* wrong labels.  Any of the roots below, with any of five sets of blobs    *)
(* missing, for each of two platforms.                                      *)
(* Notes: changelogs of any length over every line but two kinds, which the *)
(* constants of ReleaseNotes leave out.                                     *)
(* Sync: two files; any policy of four declarations, two of which disagree. *)
(* Preparation: two operators, versions up to 3, five commits.              *)
(* Projection: limits scaled down so that every field overflows.            *)
(***************************************************************************)
EXTENDS BuildReceipts, OciMerge, VersionSync, VersionPreparation, VersionProjection, ReleaseNotes

Entry(what, children, platform, layers, subject, sound) ==
    [kind |-> what, children |-> children, platform |-> platform, layers |-> layers,
     subject |-> subject, sound |-> sound]
Blob == Entry("blob", <<>>, 0, <<>>, 0, TRUE)
Nested(children) == Entry("index", children, 0, <<>>, 0, TRUE)

MCContent ==
    <<Blob, Blob,
      Entry("image", <<>>, 1, <<1, 2>>, 0, TRUE), Entry("image", <<>>, 2, <<1>>, 0, TRUE),
      Entry("attestation", <<>>, 0, <<2>>, 3, TRUE), Entry("attestation", <<>>, 0, <<2>>, 4, TRUE),
      Nested(<<5>>), Nested(<<7>>), Nested(<<4>>),
      Entry("image", <<>>, 2, <<1, 1>>, 0, TRUE), Entry("image", <<>>, 1, <<1>>, 0, FALSE)>>
MCSize == [d \in Digests |-> IF d = 1 THEN 2 ELSE 1]
Roots == {<<3>>, <<3, 5>>, <<3, 6>>, <<3, 7>>, <<3, 8>>, <<3, 7, 5>>, <<4>>, <<9, 6>>, <<10>>, <<11>>}
MCDeclarations ==
    {[file |-> "a", field |-> "version", value |-> 1], [file |-> "a", field |-> "version", value |-> 2],
     [file |-> "a", field |-> "build", value |-> 1], [file |-> "b", field |-> "version", value |-> 1]}
MCArchives ==
    {[blobs |-> Digests \ gone, root |-> r] : gone \in {{}, {1}, {2}, {4}, {7}}, r \in Roots}

VARIABLE part

contents == <<vars, mergeVars, notesVars>>
versions == <<syncVars, preparationVars, projectionVars>>

(* A part that does not run starts in one of its initial states.            *)
MCInit ==
    /\ part \in {"receipts", "archive", "notes", "sync", "preparation", "projection"}
    /\ Init /\ MergeInit /\ NotesInit
    /\ SyncInit /\ PreparationInit /\ ProjectionInit
    /\ part # "archive" => input = [p \in Platforms |-> [blobs |-> Digests, root |-> <<3>>]]
    /\ part # "sync" => policy = Declarations
    /\ part # "preparation" => tags = {} /\ elsewhere = {}
    /\ part # "projection" => promotion = "final-build"

MCNext ==
    \/ part = "receipts" /\ Next /\ UNCHANGED <<part, mergeVars, notesVars, versions>>
    \/ part = "archive" /\ MergeNext /\ UNCHANGED <<part, vars, notesVars, versions>>
    \/ part = "notes" /\ NotesNext /\ UNCHANGED <<part, vars, mergeVars, versions>>
    \/ /\ part = "sync" /\ SyncNext
       /\ UNCHANGED <<part, contents, preparationVars, projectionVars>>
    \/ /\ part = "preparation" /\ PreparationNext
       /\ UNCHANGED <<part, contents, syncVars, projectionVars>>
    \/ /\ part = "projection" /\ ProjectionNext
       /\ UNCHANGED <<part, contents, syncVars, preparationVars>>

MCSpec == MCInit /\ [][MCNext]_<<part, contents, versions>>
==============================================================================
