--------------------------- MODULE ImagePublication ---------------------------
(***************************************************************************)
(* publish_verified containers [--latest]: the approved image archives of a   *)
(* stable release are copied to a registry, the version tags of all images    *)
(* first, then "latest".  Several publishers, of one release or of several,   *)
(* may run at once; any copy may fail before or after it took effect, which   *)
(* ends its publisher; people may push to the registry by hand.  The registry *)
(* has no compare-and-swap.                                                  *)
(***************************************************************************)
EXTENDS Naturals, Sequences, FiniteSets

CONSTANTS
    Images,      \* the destinations of container_assets, in its order
    Publishers,
    StableRelease,     \* publisher -> the stable release it publishes
    Stranger,    \* bytes pushed by hand
    MaxStrange   \* bound: pushes by hand

ASSUME PublicationAssumption ==
    /\ Images \in Seq(STRING) /\ StableRelease \in [Publishers -> Nat \ {0}]
    /\ Stranger \in Nat \ {0} /\ \A p \in Publishers : Stranger # StableRelease[p]
    /\ MaxStrange \in Nat

Destinations == {Images[i] : i \in DOMAIN Images}
StableReleases == {StableRelease[p] : p \in Publishers}
Free == 0        \* no such tag
Latest == 0      \* the tag "latest"; other tags are release numbers

VARIABLES
    registry,  \* image -> tag -> bytes; a release's approved bytes are its number
    todo,      \* publisher -> the commands it has still to run: [op, image, tag]
    latest,    \* publisher -> --latest was given
    strange,   \* pushes by hand
    seen       \* history: publisher -> image -> pushes when its tag was found free

registryVars == <<registry, todo, latest, strange, seen>>

(* The bug of moving latest with each image.                               *)
CommandsInterleaved(p, withLatest) ==
    LET copies(i) == <<[op |-> "copy", image |-> Images[i], tag |-> StableRelease[p]],
                       [op |-> "copy", image |-> Images[i], tag |-> Latest]>>
        checks == [i \in DOMAIN Images |->
                     [op |-> "check", image |-> Images[i], tag |-> StableRelease[p]]]
        all[i \in 0..Len(Images)] == IF i = 0 THEN checks ELSE all[i - 1] \o copies(i)
    IN all[Len(Images)]

(* container_commands: every destination is checked before the first copy;    *)
(* every version tag is copied before the first latest.                      *)
Commands(p, withLatest) ==
    LET each(op, tag) == [i \in DOMAIN Images |-> [op |-> op, image |-> Images[i], tag |-> tag]]
    IN each("check", StableRelease[p]) \o each("copy", StableRelease[p])
       \o (IF withLatest THEN each("copy", Latest) ELSE <<>>)

RegistryInit ==
    /\ registry = [n \in Destinations |-> [t \in StableReleases \cup {Latest} |-> Free]]
    /\ latest \in [Publishers -> BOOLEAN]
    /\ todo = [p \in Publishers |-> <<>>]
    /\ strange = 0
    /\ seen = [p \in Publishers |-> [n \in Destinations |-> 0]]

StartCopying(p) ==
    /\ todo[p] = <<>>
    /\ todo' = [todo EXCEPT ![p] = Commands(p, latest[p])]
    /\ UNCHANGED <<registry, latest, strange, seen>>

NextCommand(p) == [todo EXCEPT ![p] = Tail(@)]
Give(p) == [todo EXCEPT ![p] = <<>>]

(* require_unpublished_version; listing the tags may fail.                   *)
Unpublished(image, tag, listed) == listed /\ registry[image][tag] = Free

CheckTag(p, listed) ==
    /\ todo[p] # <<>> /\ Head(todo[p]).op = "check"
    /\ LET c == Head(todo[p]) IN
       IF Unpublished(c.image, c.tag, listed)
       THEN todo' = NextCommand(p) /\ seen' = [seen EXCEPT ![p][c.image] = strange]
       ELSE todo' = Give(p) /\ UNCHANGED seen
    /\ UNCHANGED <<registry, latest, strange>>

(* skopeo copy: done, done but reported as failed, or failed.                *)
CopyImage(p) ==
    /\ todo[p] # <<>> /\ Head(todo[p]).op = "copy"
    /\ LET c == Head(todo[p])
           copied == [registry EXCEPT ![c.image][c.tag] = StableRelease[p]]
       IN \/ registry' = copied /\ todo' = NextCommand(p)
          \/ registry' = copied /\ todo' = Give(p)
          \/ UNCHANGED registry /\ todo' = Give(p)
    /\ UNCHANGED <<latest, strange, seen>>

PushByHand(n, r) ==
    /\ strange < MaxStrange
    /\ strange' = strange + 1
    /\ registry' = [registry EXCEPT ![n][r] = Stranger]
    /\ UNCHANGED <<todo, latest, seen>>

RegistryNext ==
    \/ \E p \in Publishers : StartCopying(p) \/ CopyImage(p) \/ \E listed \in BOOLEAN : CheckTag(p, listed)
    \/ \E n \in Destinations, r \in StableReleases : PushByHand(n, r)

RegistrySpec == RegistryInit /\ [][RegistryNext]_registryVars
-----------------------------------------------------------------------------
(* latest names a release only if every image of it has its version tag.     *)
LatestComplete ==
    \A n \in Destinations : registry[n][Latest] # Free =>
       \A m \in Destinations : registry[m][registry[n][Latest]] # Free

(* A publication that fails half-way never becomes the latest; and a version *)
(* tag pushed by hand is overwritten only if it appeared after the publisher *)
(* had found the tag free ("Never overwrite an existing version tag, even on *)
(* retries": the check is only as fresh as the registry allows).             *)
LatestIsComplete ==
    [][/\ LatestComplete'
       /\ \A n \in Destinations, r \in StableReleases :
             (registry[n][r] = Stranger /\ registry'[n][r] # Stranger) =>
                \E p \in Publishers :
                   StableRelease[p] = r /\ todo'[p] # todo[p] /\ seen[p][n] < strange]_registryVars
=============================================================================
