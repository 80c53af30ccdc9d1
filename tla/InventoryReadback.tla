-------------------------- MODULE InventoryReadback --------------------------
(***************************************************************************)
(* The inventory reads behind a reconciled create (CreateReadback.get and   *)
(* CreateReadback.pages, called twice by _reconcile_created_release).       *)
(* GitHub lists releases newest first, page by page, while others create    *)
(* and delete releases: an entry can move to another page between two       *)
(* requests.  Requests, time and bytes are bounded for both listings        *)
(* together; time and bytes are a failure that may come at any request.     *)
(***************************************************************************)
EXTENDS Naturals, Sequences, SequencesExt

CONSTANTS
    PageSize,    \* per_page=100
    MaxCalls,    \* 100 requests
    MaxReleases, \* bound: releases ever created
    MaxInitial,  \* bound: releases there at the start
    MaxDeletes   \* bound: releases deleted

ASSUME InventoryAssumption ==
    /\ PageSize \in Nat \ {0} /\ MaxCalls \in Nat
    /\ MaxReleases \in Nat /\ MaxInitial \in 0..MaxReleases /\ MaxDeletes \in Nat

VARIABLES
    list,      \* the server's releases, newest first
    created,   \* IDs given out; an ID is never used again
    deletes,
    calls,     \* CreateReadback.calls
    listing,   \* which of the two listings is being read: 1 or 2
    page,      \* the page to ask for
    records,   \* the IDs read in each listing
    listOutcome, \* "reading", "agreed" or "raised"
    stayed     \* history: releases present ever since the first request

readbackVars == <<list, created, deletes, calls, listing, page, records, listOutcome, stayed>>

ReadbackInit ==
    \E n \in 0..MaxInitial :
        /\ list = [i \in 1..n |-> n + 1 - i]
        /\ created = n /\ deletes = 0 /\ calls = 0
        /\ listing = 1 /\ page = 1
        /\ records = [i \in 1..2 |-> {}]
        /\ listOutcome = "reading"
        /\ stayed = 1..n
-----------------------------------------------------------------------------
(* Others create and delete releases.                                      *)
Create ==
    /\ listOutcome = "reading" /\ created < MaxReleases
    /\ created' = created + 1
    /\ list' = <<created'>> \o list
    /\ UNCHANGED <<deletes, calls, listing, page, records, listOutcome, stayed>>

Delete(i) ==
    /\ listOutcome = "reading" /\ deletes < MaxDeletes
    /\ deletes' = deletes + 1
    /\ list' = RemoveAt(list, i)
    /\ stayed' = stayed \ {list[i]}
    /\ UNCHANGED <<created, calls, listing, page, records, listOutcome>>
-----------------------------------------------------------------------------
Raise == /\ listOutcome' = "raised"
         /\ UNCHANGED <<list, created, deletes, listing, page, records, stayed>>

(* The deadline, the byte limit, a failed GET, or an invalid page or link.  *)
GetFails ==
    /\ listOutcome = "reading" /\ calls < MaxCalls
    /\ calls' = calls + 1
    /\ Raise

(* "Create readback request limit exceeded"                                *)
CallLimit ==
    /\ listOutcome = "reading" /\ calls = MaxCalls
    /\ UNCHANGED calls
    /\ Raise

Values == SubSeq(list, (page - 1) * PageSize + 1,
                 IF page * PageSize < Len(list) THEN page * PageSize ELSE Len(list))

(* "Duplicate create inventory ID"                                         *)
Fresh(values) == ToSet(values) \cap records[listing] = {}

(* The bug of comparing nothing: the second listing is believed.            *)
AgreeNever(first, second) == TRUE

(* {row["id"]: row.get("tag_name")} of both listings are the same.          *)
Agree(first, second) == first = second

(* A page is read.  The server may leave out its Link header; a full page   *)
(* is followed by a probe of the next one, and only a short page without a  *)
(* successor ends the listing.                                              *)
GetPage(linked) ==
    /\ listOutcome = "reading" /\ calls < MaxCalls
    /\ calls' = calls + 1
    /\ IF ~Fresh(Values) THEN Raise
       ELSE LET next == linked /\ page * PageSize < Len(list)
                all == [records EXCEPT ![listing] = @ \cup ToSet(Values)]
            IN  /\ records' = all
                /\ UNCHANGED <<list, created, deletes, stayed>>
                /\ IF next \/ Len(Values) = PageSize
                   THEN page' = page + 1 /\ UNCHANGED <<listing, listOutcome>>
                   ELSE /\ page' = 1
                        /\ listing' = 2
                        /\ listOutcome' = IF listing = 1 THEN "reading"
                                      ELSE IF Agree(all[1], all[2]) THEN "agreed" ELSE "raised"

ReadbackNext ==
    \/ Create \/ \E i \in DOMAIN list : Delete(i)
    \/ GetFails \/ CallLimit \/ \E linked \in BOOLEAN : GetPage(linked)

ReadbackSpec ==
    /\ ReadbackInit /\ [][ReadbackNext]_readbackVars
    /\ WF_readbackVars(\E linked \in BOOLEAN : GetPage(linked))
    /\ WF_readbackVars(CallLimit)
-----------------------------------------------------------------------------
(* Two agreeing listings miss nothing: a release that existed all along is  *)
(* in them, although every page is read at another moment and entries move   *)
(* between pages.  "One matching release" therefore means that there is no   *)
(* other (release_control.py:1926-1932).                                     *)
AgreedIsComplete == listOutcome = "agreed" => stayed \subseteq records[2]

(* The readback ends although others keep moving the pages: the limits hold  *)
(* for both listings together ("No GET retry resets the clock").             *)
ReadbackEnds == <>(listOutcome # "reading")

==============================================================================
