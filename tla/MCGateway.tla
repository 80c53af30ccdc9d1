------------------------------ MODULE MCGateway ------------------------------
(***************************************************************************)
(* Three services of the gateway that share no state: the ACL and what a    *)
(* stream forwards, retained queries, and the topic statistics.  A behaviour *)
(* runs the one that `part` names.                                          *)
(*                                                                         *)
(* ACL: one ordinary, one system and the share level, both wildcards, a     *)
(* partial wildcard and an unencodable level; rules of up to two levels,    *)
(* requests of up to three.                                                 *)
(* Queries: two at a time over two topics with two values, the second not   *)
(* decodable; a deque of two, so that it overflows, and one lost connection. *)
(* Statistics: four topics, one of them blocked, and room for two, so that  *)
(* topics are evicted and heard again.                                      *)
(***************************************************************************)
EXTENDS TopicAcl, RetainedQuery, TopicStatistics

Upto(S, n) == UNION {[1..k -> S] : k \in 1..n}

MCWords == {"a", ""}
MCSystemWords == {"$share"}
MCPartial == {"a+"}
MCUnencodable == {"NUL"}
MCRuleSets ==
    {{}} \cup {{f} : f \in Upto({"a", "$share", "+", "#", "a+"}, 2)}
         \cup {{<<"a", "#">>, <<"+", "a">>}, {<<"", "#">>}}
MCRequests ==
    Upto({"a", "+", "#"}, 3) \cup Upto({"a", "$share", "+", "#"}, 2)
        \cup Upto({"", "a"}, 3) \cup {<<"", "$share">>} \cup Upto({"a+", "NUL"}, 1)

VARIABLE part

allVars == <<part, vars, queryVars, statisticsVars>>

(* A part that does not run starts in one of its initial states.            *)
MCInit ==
    /\ part \in {"acl", "retained", "statistics"}
    /\ Init /\ QueryInit /\ StatisticsInit
    /\ part # "acl" => allowed = {} /\ blocked = {}
    /\ part # "retained" => held = {} /\ topic = [q \in Queries |-> "a"]

MCNext ==
    \/ part = "acl" /\ Next /\ UNCHANGED <<part, queryVars, statisticsVars>>
    \/ part = "retained" /\ QueryNext /\ UNCHANGED <<part, vars, statisticsVars>>
    \/ part = "statistics" /\ StatisticsNext /\ UNCHANGED <<part, vars, queryVars>>

MCSpec == MCInit /\ [][MCNext]_allVars

==============================================================================
