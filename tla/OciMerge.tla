------------------------------ MODULE OciMerge ------------------------------
(***************************************************************************)
(* merge_archives: two native OCI exports, one per platform, are verified    *)
(* blob by blob and merged into one multi-platform archive, which appears    *)
(* under its final name in one step.  While the merge runs another process   *)
(* may rewrite an input or create the output, and the merge may be killed.   *)
(* Blobs are content-addressed: a digest names one content everywhere, and   *)
(* an index can only name blobs that existed before it.                     *)
(***************************************************************************)
EXTENDS Integers, Sequences, SequencesExt, FiniteSets

CONSTANTS
    Digests,      \* 1..n; an index refers to smaller digests only
    Content,      \* digest -> [kind, children, platform, layers, subject, sound]
    Size,         \* digest -> expanded size of a layer
    Archives,     \* inputs that exist: [blobs, root]
    Platforms,    \* PLATFORMS
    MaxDepth, MaxVisited, MaxRootfs

ASSUME OciAssumption ==
    /\ Platforms # {} /\ Platforms \subseteq Nat
    /\ Archives \subseteq [blobs : SUBSET Digests, root : Seq(Digests)]
    /\ \A d \in Digests :
          /\ Content[d].children \in Seq(Digests) /\ Content[d].layers \in Seq(Digests)
          /\ \A i \in DOMAIN Content[d].children : Content[d].children[i] < d
    /\ Size \in [Digests -> Nat]
    /\ MaxDepth \in Nat /\ MaxVisited \in Nat /\ MaxRootfs \in Nat

VARIABLES
    input,     \* platform -> the archive given for it
    rewritten, \* platforms whose input was rewritten since it was opened
    tainted,   \* history: platforms whose input was read after that
    mergePc,   \* "walk", "copy", "recheck", "link", "done", "failed", "killed"
    walked,    \* platforms whose archive is verified
    stack,     \* descriptors still to walk, each with its depth
    visited,   \* descriptors walked in this archive
    leaves,    \* platform -> its image and attestation manifests
    expanded,  \* bytes of root filesystem seen in this archive
    temporary, \* blobs in the temporary file
    output     \* "none", "theirs" or "ours"

reading == <<walked, stack, visited, leaves, expanded>>
mergeVars == <<input, rewritten, tainted, mergePc, reading, temporary, output>>

Current == CHOOSE p \in Platforms \ walked : \A q \in Platforms \ walked : p <= q
Descriptors(children, depth) ==
    [i \in DOMAIN children |-> [digest |-> children[i], depth |-> depth]]

MergeInit ==
    /\ input \in [Platforms -> Archives]
    /\ rewritten = {} /\ tainted = {}
    /\ mergePc = "walk" /\ walked = {}
    /\ stack = Descriptors(input[Current].root, 0)
    /\ visited = 0 /\ expanded = 0
    /\ leaves = [p \in Platforms |-> <<>>]
    /\ temporary = {}
    /\ output = "none"
-----------------------------------------------------------------------------
Running == mergePc \in {"walk", "copy", "recheck", "link"}

RewriteInput(p) ==
    /\ Running /\ rewritten' = rewritten \cup {p} /\ p \notin rewritten
    /\ UNCHANGED <<input, tainted, mergePc, reading, temporary, output>>

Occupy ==
    /\ Running /\ output = "none" /\ output' = "theirs"
    /\ UNCHANGED <<input, rewritten, tainted, mergePc, reading, temporary>>

KillMerge ==
    /\ Running /\ mergePc' = "killed"
    /\ UNCHANGED <<input, rewritten, tainted, reading, temporary, output>>

(* Any require that fails; finally removes the temporary file.              *)
FailMerge == mergePc' = "failed" /\ temporary' = {} /\ UNCHANGED <<reading, output>>
Reads(p) ==
    /\ tainted' = tainted \cup (rewritten \cap {p})
    /\ UNCHANGED <<input, rewritten>>
-----------------------------------------------------------------------------
(* Archive.walk.  An index is opened in place; a leaf is checked and kept.   *)
Kind(d) == Content[d].kind

(* Archive.blob after Archive.inventory                                     *)
Present(p, ds) == ds \subseteq input[p].blobs

(* Archive.layer_digest: a repeated layer is read once and counted each time. *)
Unpacked(layers) ==
    LET size[i \in 0..Len(layers)] == IF i = 0 THEN 0 ELSE size[i - 1] + Size[layers[i]]
    IN size[Len(layers)]
Rootfs(d) == Unpacked(Content[d].layers)

(* Archive.image: platform, version and revision labels, layers, diff_ids.   *)
ImageSound(p, d) ==
    /\ Content[d].sound /\ Content[d].platform = p
    /\ Present(p, ToSet(Content[d].layers))
    /\ expanded + Rootfs(d) <= MaxRootfs

(* Archive.attestation: its statements name its subject.                    *)
AttestationSound(p, d) ==
    Content[d].sound /\ Present(p, {Content[d].subject} \cup ToSet(Content[d].layers))

LeafSound(p, d) ==
    /\ d \notin ToSet(leaves[p])
    /\ IF Kind(d) = "image" THEN ImageSound(p, d) ELSE AttestationSound(p, d)

(* The bug of opening only the indexes the root names.                      *)
ChildrenOnce(d, depth) ==
    IF depth = 0 THEN Descriptors(Content[d].children, depth + 1) ELSE <<>>

Children(d, depth) == Descriptors(Content[d].children, depth + 1)

Walk ==
    /\ mergePc = "walk" /\ stack # <<>>
    /\ LET p == Current
           d == Head(stack).digest
           depth == Head(stack).depth
           sound == /\ depth <= MaxDepth /\ visited < MaxVisited
                    /\ Present(p, {d})
                    /\ Kind(d) = "index" \/ LeafSound(p, d)
       IN /\ Reads(p)
          /\ \/ /\ sound
                /\ visited' = visited + 1
                /\ stack' = (IF Kind(d) = "index" THEN Children(d, depth) ELSE <<>>)
                            \o Tail(stack)
                /\ leaves' = IF Kind(d) = "index" THEN leaves
                             ELSE [leaves EXCEPT ![p] = Append(@, d)]
                /\ expanded' = IF Kind(d) = "image" THEN expanded + Rootfs(d) ELSE expanded
                /\ UNCHANGED <<mergePc, walked, temporary, output>>
             \/ (~sound \/ p \in rewritten) /\ FailMerge

(* validate_complete_graph                                                 *)
Complete(p) ==
    \E image \in ToSet(leaves[p]) :
       /\ {d \in ToSet(leaves[p]) : Kind(d) = "image"} = {image}
       /\ \A d \in ToSet(leaves[p]) \ {image} : Content[d].subject = image

(* The bug of trusting an input once it is open.                            *)
NeverRewritten(ps) == TRUE

(* Archive.unchanged: size and times of the open file are those of the start. *)
Unchanged(ps) == rewritten \cap ps = {}

VerifyArchive ==
    /\ mergePc = "walk" /\ stack = <<>>
    /\ UNCHANGED <<input, rewritten, tainted>>
    /\ IF Complete(Current) /\ Unchanged({Current})
       THEN /\ walked' = walked \cup {Current}
            /\ mergePc' = IF walked' = Platforms THEN "copy" ELSE "walk"
            /\ stack' = IF walked' = Platforms THEN <<>>
                        ELSE Descriptors(input[Current'].root, 0)
            /\ visited' = 0 /\ expanded' = 0
            /\ UNCHANGED <<leaves, temporary, output>>
       ELSE FailMerge

(* Every blob of both inputs is copied, a shared one from the last input.    *)
Blobs == UNION {input[p].blobs : p \in Platforms}
From(b) == CHOOSE p \in Platforms :
    b \in input[p].blobs /\ \A q \in Platforms : b \in input[q].blobs => q <= p

Copy ==
    /\ mergePc = "copy" /\ temporary # Blobs
    /\ \E b \in Blobs \ temporary :
          /\ \A c \in Blobs \ temporary : b <= c
          /\ Reads(From(b))
          /\ \/ temporary' = temporary \cup {b} /\ UNCHANGED <<mergePc, reading, output>>
             \/ From(b) \in rewritten /\ FailMerge

RecheckInputs ==
    /\ mergePc = "copy" /\ temporary = Blobs
    /\ IF Unchanged(Platforms) THEN mergePc' = "link" /\ UNCHANGED <<reading, temporary, output>>
       ELSE FailMerge
    /\ UNCHANGED <<input, rewritten, tainted>>

(* os.link fails when the output exists.                                   *)
Link ==
    /\ mergePc = "link"
    /\ IF output = "none"
       THEN mergePc' = "done" /\ output' = "ours" /\ UNCHANGED <<reading, temporary>>
       ELSE FailMerge
    /\ UNCHANGED <<input, rewritten, tainted>>

MergeNext ==
    \/ \E p \in Platforms : RewriteInput(p)
    \/ Occupy \/ KillMerge
    \/ Walk \/ VerifyArchive \/ Copy \/ RecheckInputs \/ Link

MergeSpec == MergeInit /\ [][MergeNext]_mergeVars
-----------------------------------------------------------------------------
(* What the merge promises: the manifests reachable from a root, through     *)
(* indexes of any depth, which every set closed under indexes contains.      *)
ClosedSets ==
    {S \in SUBSET Digests : \A d \in S : Kind(d) = "index" => ToSet(Content[d].children) \subseteq S}
Reachable(p) ==
    {d \in Digests : Kind(d) # "index" /\
        \A S \in ClosedSets : ToSet(input[p].root) \subseteq S => d \in S}

(* The merged index names exactly the manifests reachable in the inputs, so  *)
(* that no nesting of indexes hides an image or an attestation (Archive.walk); *)
(* each platform has one image, which all its attestations are about and     *)
(* which unpacks to no more than the limit, however often a layer repeats;   *)
(* and every blob they need is in the output (Archive.blob,                  *)
(* validate_complete_graph, Archive.layer_digest).                           *)
OutputIsClosed ==
    output = "ours" =>
       \A p \in Platforms :
          LET manifests == ToSet(leaves[p])
              images == {d \in manifests : Kind(d) = "image"}
          IN /\ manifests = Reachable(p)
             /\ Cardinality(images) = 1
             /\ \A d \in images : Rootfs(d) <= MaxRootfs
             /\ \A d \in manifests :
                   /\ {d} \cup ToSet(Content[d].layers) \subseteq temporary
                   /\ d \notin images => Content[d].subject \in images

(* Nothing that was read from an input after it was rewritten is published    *)
(* (Archive.unchanged after the walk and again after the copy), and an output *)
(* another process created meanwhile is never replaced (os.link).            *)
OutputIsVerified ==
    [][/\ output' = "ours" => tainted' = {}
       /\ output = "theirs" => output' = "theirs"]_mergeVars
=============================================================================
