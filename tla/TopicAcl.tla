------------------------------- MODULE TopicAcl -------------------------------
(***************************************************************************)
(* Topic names, filters and the ACL every consumer goes through, and what a *)
(* stream then forwards.  The point of interest: ws_callback forwards every *)
(* packet its filters match without asking the ACL again, so an authorized  *)
(* filter must not match a single topic that the ACL forbids.               *)
(*                                                                         *)
(* A topic is the sequence of its levels, as split("/") gives it.  The      *)
(* spelling of a level is abstracted to the five kinds the code tells       *)
(* apart.  The loops that return at the first level that decides are        *)
(* written as "a deciding level with only passing levels before it".        *)
(***************************************************************************)
EXTENDS Integers, Sequences, FiniteSets

CONSTANTS Words,          \* ordinary levels; may include the empty one
          SystemWords,    \* levels that start with "$"
          Partial,        \* levels holding a wildcard among other characters
          Unencodable,    \* levels with NUL, not UTF-8, or far too long
          MaxTopics,      \* settings.websocket_max_topics
          RuleSets,       \* the lists of filters an operator may configure
          Requests        \* the topics and filters a client may send

Plus == "+"
Hash == "#"
Empty == ""
Share == "$share"
Wildcards == {Plus, Hash}
Literals == Words \cup SystemWords
Level == Literals \cup Wildcards \cup Partial \cup Unencodable
Topic == Seq(Level) \ {<<>>}

ASSUME AclAssumption ==
    /\ Wildcards \cap (Literals \cup Partial \cup Unencodable) = {}
    /\ Literals \cap (Partial \cup Unencodable) = {}
    /\ Words \cap SystemWords = {}
    /\ Empty \notin SystemWords
    /\ Share \notin Words \cup Partial \cup Unencodable
    /\ MaxTopics \in Nat
    /\ RuleSets \subseteq SUBSET Topic
    /\ Requests \subseteq Topic

VARIABLES
    allowed,    \* settings.allowed_topic_patterns
    blocked,    \* settings.blocked_topic_patterns
    requested,  \* the authorized filters of an open stream
    attempt,    \* history: what the last step asked the ACL about, or None
    forwarded   \* history: the topic the last step forwarded, or None

vars == <<allowed, blocked, requested, attempt, forwarded>>

------------------------------------------------------------------------------
(* core/topics.py and the ACL validator of core/config.py.                 *)

Encodable(t) == t # <<Empty>> /\ \A i \in DOMAIN t : t[i] \notin Unencodable

WellPlaced(f) ==
    \A i \in DOMAIN f : f[i] \notin Partial /\ (f[i] = Hash => i = Len(f))

(* validate_acl_patterns *)
ValidRule(f) == Encodable(f) /\ WellPlaced(f)

(* validate_topic(..., subscription = True) *)
ValidFilter(f) == Encodable(f) /\ WellPlaced(f) /\ ~(Len(f) > 1 /\ f[1] = Share)

(* validate_topic(..., subscription = False) *)
ValidName(t) ==
    Encodable(t) /\ \A i \in DOMAIN t : t[i] \notin Wildcards \cup Partial

_system_mismatch(f, g) ==
    \/ f[1] \in SystemWords /\ g[1] \in Wildcards
    \/ g[1] \in SystemWords /\ f[1] \in Wildcards

(* The bug of letting "+" stand for a whole requested subtree. *)
PassesSubtree(a, r, i) ==
    a[i] # Hash /\ i <= Len(r) /\ (a[i] = Plus \/ a[i] = r[i])

(* Level i of filter_contains's loop neither returns True nor False. *)
Passes(a, r, i) ==
    a[i] # Hash /\ i <= Len(r) /\ r[i] # Hash /\ (a[i] = Plus \/ a[i] = r[i])

filter_contains(a, r) ==
    /\ ~_system_mismatch(a, r)
    /\ \/ \E i \in DOMAIN a : a[i] = Hash /\ \A j \in 1..(i - 1) : Passes(a, r, j)
       \/ Len(a) = Len(r) /\ \A i \in DOMAIN a : Passes(a, r, i)

Compatible(x, y) == x = Plus \/ y = Plus \/ x = y

(* remaining == ["#"]: f is one level longer than g, by a final "#". *)
ExtendsByHash(f, g) == Len(f) = Len(g) + 1 /\ f[Len(f)] = Hash

(* The bug of forgetting that "a/#" matches "a" too. *)
OverlapSameLength(f, g) ==
    /\ ~_system_mismatch(f, g)
    /\ LET both == DOMAIN f \cap DOMAIN g
       IN  \/ \E i \in both : /\ Hash \in {f[i], g[i]}
                              /\ \A j \in 1..(i - 1) : Compatible(f[j], g[j])
           \/ Len(f) = Len(g) /\ \A i \in both : Compatible(f[i], g[i])

filters_overlap(f, g) ==
    /\ ~_system_mismatch(f, g)
    /\ LET both == DOMAIN f \cap DOMAIN g
       IN  \/ \E i \in both : /\ Hash \in {f[i], g[i]}
                              /\ \A j \in 1..(i - 1) : Compatible(f[j], g[j])
           \/ /\ \A i \in both : Compatible(f[i], g[i]) /\ Hash \notin {f[i], g[i]}
              /\ Len(f) = Len(g) \/ ExtendsByHash(f, g) \/ ExtendsByHash(g, f)

(* paho's matcher of one filter and one topic name: "#" stands for any rest *)
(* of the name, the empty one included, and no wildcard for a "$" level at  *)
(* the start.                                                               *)
topic_matches_sub(f, t) ==
    /\ ~(t[1] \in SystemWords /\ f[1] \in Wildcards)
    /\ \/ /\ f[Len(f)] = Hash
          /\ Len(f) <= Len(t) + 1
          /\ \A i \in 1..(Len(f) - 1) : f[i] = Plus \/ f[i] = t[i]
       \/ /\ Len(f) = Len(t)
          /\ \A i \in DOMAIN f : f[i] = Plus \/ f[i] = t[i]

(* authorize_topic(..., subscription = True) raises nothing. *)
FilterAllowed(f) ==
    /\ ValidFilter(f)
    /\ \E a \in allowed : filter_contains(a, f)
    /\ \A b \in blocked : ~filters_overlap(b, f)

(* authorize_topic(..., subscription = False) raises nothing. *)
NameAllowed(t) ==
    /\ ValidName(t)
    /\ \E a \in allowed : topic_matches_sub(a, t)
    /\ \A b \in blocked : ~topic_matches_sub(b, t)

------------------------------------------------------------------------------
None == <<>>

(* Settings accept any ACL whose filters are valid, and never change. *)
Init ==
    /\ allowed \in {R \in RuleSets : \A f \in R : ValidRule(f)}
    /\ blocked \in {R \in RuleSets : \A f \in R : ValidRule(f)}
    /\ attempt = None
    /\ requested = {}
    /\ forwarded = None

(* A REST publish or retained query, accepted or refused with 400 or 403. *)
AuthorizeName(t) ==
    /\ attempt' = t
    /\ forwarded' = None
    /\ UNCHANGED <<allowed, blocked, requested>>

(* A WebSocket asks for one more filter; a refusal leaves it as it was. *)
OpenStream(f) ==
    /\ attempt' = f
    /\ requested' = IF FilterAllowed(f) /\ Cardinality(requested) < MaxTopics
                    THEN requested \cup {f} ELSE requested
    /\ forwarded' = None
    /\ UNCHANGED <<allowed, blocked>>

(* ws_callback on a packet of topic t: names on the wire are valid ones. *)
Forward(t) ==
    /\ ValidName(t)
    /\ \E f \in requested : topic_matches_sub(f, t)
    /\ attempt' = None
    /\ forwarded' = t
    /\ UNCHANGED <<allowed, blocked, requested>>

Next == \E t \in Requests : AuthorizeName(t) \/ OpenStream(t) \/ Forward(t)

Spec == Init /\ [][Next]_vars

------------------------------------------------------------------------------
TypeOK ==
    /\ allowed \in SUBSET Topic
    /\ blocked \in SUBSET Topic
    /\ attempt \in Topic \cup {None}
    /\ requested \in SUBSET Topic
    /\ forwarded \in Topic \cup {None}

(* A stream forwards nothing the ACL would refuse to name: the check of the *)
(* filter, made once, covers every topic the filter will ever match.        *)
ForwardsOnlyAllowed == forwarded # None => NameAllowed(forwarded)

(* The one pair that filters_overlap takes for overlapping although it is   *)
(* not: what "/#" and "+" both match is the empty name, which no topic has. *)
MeetInEmptyName(f, g) == {f, g} = {<<Empty, Hash>>, <<Plus>>}

(* filters_overlap says exactly "whether two MQTT filters can match at      *)
(* least one common topic", so that, but for the pair above, a block rule   *)
(* refuses no filter needlessly.                                            *)
OverlapExact ==
    (attempt # None /\ ValidFilter(attempt)) =>
        \A b \in blocked :
            filters_overlap(b, attempt) <=>
                \/ MeetInEmptyName(b, attempt)
                \/ \E t \in Requests :
                      /\ ValidName(t)
                      /\ topic_matches_sub(b, t) /\ topic_matches_sub(attempt, t)

==============================================================================
