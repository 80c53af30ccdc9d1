------------------------------- MODULE ApiReads -------------------------------
(***************************************************************************)
(* Reads of the GitHub API by the release engine (GitHub.request with GET,  *)
(* _read_get, _completed_read, response, optional, pages).  Each attempt is *)
(* a gh process whose output is classified: the value is returned, the read *)
(* is tried again, or it is given up.  The server, the network and the exit *)
(* of gh are the environment; its state is whether the resource exists.     *)
(***************************************************************************)
EXTENDS Naturals, Sequences, FiniteSets, SequencesExt

CONSTANTS
    ReadAttempts, \* API_READ_ATTEMPTS
    Pages,        \* pages of a paginated inventory
    MaxChanges    \* bound: changes of the resource by others

ASSUME ReadsAssumption ==
    ReadAttempts \in Nat \ {0} /\ Pages \in Nat \ {0} /\ MaxChanges \in Nat

VARIABLES
    paginated,   \* gh.pages rather than gh.api
    exists,      \* the resource exists on the server
    changes,
    tries,       \* attempts made
    seen,        \* what the last attempt showed
    readOutcome  \* "reading", "value", "absent" (not_found) or "raised"

readVars == <<paginated, exists, changes, tries, seen, readOutcome>>

Status == {200, 403, 404, 422, 502}
Ok(code) == code = 200
DeniedStatus == {403, 404}   \* and 401, 429

(* What a gh process leaves behind: the header blocks it received (one per  *)
(* page), whether the last body was cut, its exit code and its diagnostics. *)
Output == [killed : BOOLEAN, code : {0, 1, 4}, cut : BOOLEAN,
           heads : UNION {[1..n -> Status] : n \in 0..Pages},
           stderr : {"quiet", "transport", "denial", "other"}]

Nothing == [killed |-> FALSE, code |-> 0, heads |-> <<>>, cut |-> FALSE, stderr |-> "quiet"]

(* gh stops at the first page that fails, exits with 0 only for success and *)
(* names every complete denial on stderr.                                   *)
Outputs == {o \in Output :
    /\ \A i \in DOMAIN o.heads : i < Len(o.heads) => Ok(o.heads[i])
    /\ o.heads = <<>> => ~o.cut
    /\ o.killed => o.code = 1
    /\ o.code = 0 => ~o.cut /\ o.stderr = "quiet" /\ o.heads # <<>> /\ Ok(Last(o.heads))
    /\ o.code = 4 => o.heads = <<>> /\ o.stderr = "denial"
    /\ ~o.killed /\ ~o.cut /\ o.heads # <<>> /\ Last(o.heads) \in DeniedStatus
           => o.stderr = "denial"}

(* The outputs an attempt can have now: a resource that exists is served, a *)
(* missing one is answered with 404, and only a complete answer ends in 0.  *)
Possible(o) ==
    LET size == IF paginated THEN Pages ELSE 1
    IN  /\ Len(o.heads) <= size
        /\ o.code = 0 => Len(o.heads) = size
        /\ \A i \in DOMAIN o.heads :
             (Ok(o.heads[i]) => exists) /\ (o.heads[i] = 404 => ~exists)

ReadInit ==
    /\ paginated \in BOOLEAN /\ exists \in BOOLEAN
    /\ changes = 0 /\ tries = 0
    /\ seen = Nothing
    /\ readOutcome = "reading"
-----------------------------------------------------------------------------
(* github_http_response: a status is decoded from the first header block,   *)
(* or page by page until one fails; a page cut short is an error.           *)
Framed(o) == o.heads # <<>> /\ ~(paginated /\ Ok(Last(o.heads)) /\ o.cut)
HttpStatus(o) == Last(o.heads)

(* _transient_read_failure                                                 *)
Transport(o) == o.code = 1 /\ o.stderr = "transport"

(* _denied_partial_read: a denial in the diagnostics or in any header       *)
(* allows no further attempt.                                               *)
DeniedPartial(o) == o.stderr = "denial" \/ \E i \in DOMAIN o.heads : o.heads[i] \in DeniedStatus

(* _completed_read: the statuses after which another attempt may follow.    *)
Transient(o) ==
    o.code = 1 /\ \/ HttpStatus(o) = 502 /\ o.stderr # "denial"
                  \/ Ok(HttpStatus(o)) /\ Transport(o)

(* Another attempt is made after this output, unless it was the last.       *)
Retryable(o) ==
    IF o.killed THEN ~DeniedPartial(o)
    ELSE IF Framed(o) THEN Transient(o)
    ELSE Transport(o) /\ ~DeniedPartial(o)

(* The bug of trusting the status line although gh failed.                  *)
StatusComplete(o) == ~o.killed /\ Framed(o) /\ Ok(HttpStatus(o))

(* response: bytes are returned when status and exit code agree on success. *)
Complete(o) == ~o.killed /\ Framed(o) /\ Ok(HttpStatus(o)) /\ o.code = 0

(* response and optional: not_found comes from the status alone.            *)
Missing(o) == ~o.killed /\ Framed(o) /\ o.code # 0 /\ HttpStatus(o) = 404

(* final_attempt                                                           *)
MayRetry(n) == n < ReadAttempts

(* One turn of the loop of _read_get.                                       *)
Attempt ==
    /\ readOutcome = "reading" /\ tries < ReadAttempts
    /\ tries' = tries + 1
    /\ \E o \in Outputs :
         /\ Possible(o)
         /\ seen' = o
         /\ readOutcome' = IF Retryable(o) /\ MayRetry(tries') THEN "reading"
                       ELSE IF Complete(o) THEN "value"
                       ELSE IF Missing(o) THEN "absent" ELSE "raised"
    /\ UNCHANGED <<paginated, exists, changes>>

(* Others create or delete the resource between two attempts.               *)
Change ==
    /\ readOutcome = "reading" /\ changes < MaxChanges
    /\ exists' = ~exists /\ changes' = changes + 1
    /\ UNCHANGED <<paginated, tries, seen, readOutcome>>

ReadNext == Attempt \/ Change

ReadSpec == ReadInit /\ [][ReadNext]_readVars /\ WF_readVars(Attempt)
-----------------------------------------------------------------------------
(* A value is one whole response: every page of one attempt and no fragment *)
(* of another, whatever was cut, retried or killed before (_read_get).  And *)
(* "Return None only when GitHub explicitly reports a missing resource": a  *)
(* read that reports absence saw the server's 404, and the resource did not *)
(* exist then; ensure_absent and read_state rest on it.                     *)
AnswersAreSound ==
    /\ readOutcome = "value" =>
          /\ ~seen.cut /\ Len(seen.heads) = (IF paginated THEN Pages ELSE 1)
          /\ \A i \in DOMAIN seen.heads : Ok(seen.heads[i])
    /\ readOutcome = "absent" =>
          ~exists /\ seen.heads # <<>> /\ Last(seen.heads) = 404

(* Every read ends.                                                        *)
ReadEnds == <>(readOutcome # "reading")

==============================================================================
