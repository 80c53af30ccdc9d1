--------------------------- MODULE TopicStatistics ---------------------------
(***************************************************************************)
(* The statistics MQTTService keeps of the topics it hears (handle_message, *)
(* get_topic_info): an OrderedDict of at most mqtt_queue_size topics, each  *)
(* popped and inserted again at the end when a message of it arrives, the   *)
(* first one dropped to make room for a new topic.  The order of the        *)
(* dictionary is abstracted to the number of the message that inserted each *)
(* key last.                                                               *)
(***************************************************************************)
EXTENDS Naturals, FiniteSets

CONSTANTS
    HeardTopics,    \* topics messages arrive on
    Allowed,        \* topics the ACL lets through (authorize_topic)
    MaxStatistics,  \* settings.mqtt_queue_size
    MaxMessages     \* bound: messages handled

ASSUME StatisticsAssumption ==
    /\ MaxStatistics \in Nat \ {0} /\ MaxMessages \in Nat
    /\ Allowed \subseteq HeardTopics

VARIABLES
    tracked,        \* the keys of _topic_statistics
    position,       \* their order: the message that inserted a key last
    message_count,  \* TopicInfo.message_count of the tracked topics
    handled,        \* messages handled so far
    last            \* history: the last message accepted of a topic

statisticsVars == <<tracked, position, message_count, handled, last>>

StatisticsTypeOK ==
    /\ tracked \subseteq HeardTopics
    /\ position \in [HeardTopics -> Nat] /\ message_count \in [HeardTopics -> Nat]
    /\ handled \in Nat
    /\ last \in [HeardTopics -> Nat]

StatisticsInit ==
    /\ tracked = {}
    /\ position = [t \in HeardTopics |-> 0]
    /\ message_count = [t \in HeardTopics |-> 0]
    /\ handled = 0
    /\ last = [t \in HeardTopics |-> 0]

(* popitem(last=False): the first key of the dictionary.                   *)
Oldest(S) == CHOOSE t \in S : \A u \in S : position[t] <= position[u]

(* The bug of a limit tested one too late.                                 *)
RemainingOffByOne(t) ==
    LET others == tracked \ {t}
    IN  IF t \notin tracked /\ Cardinality(others) > MaxStatistics
        THEN others \ {Oldest(others)} ELSE others

(* The keys left when a message of topic t is to be inserted.              *)
Remaining(t) ==
    LET others == tracked \ {t}
    IN  IF t \notin tracked /\ Cardinality(others) >= MaxStatistics
        THEN others \ {Oldest(others)} ELSE others

(* The order after the insertion: t is last.                               *)
Reinsert(t) == [position EXCEPT ![t] = handled + 1]

(* previous.message_count + 1 if previous else 1                           *)
Count(t) == [message_count EXCEPT ![t] = IF t \in tracked THEN @ + 1 ELSE 1]

(* handle_message for a payload within max_message_bytes.                   *)
HandleMessage(t) ==
    /\ handled < MaxMessages
    /\ t \in Allowed
    /\ handled' = handled + 1
    /\ tracked' = Remaining(t) \cup {t}
    /\ position' = Reinsert(t)
    /\ message_count' = Count(t)
    /\ last' = [last EXCEPT ![t] = handled + 1]

(* An oversized payload, or a topic the ACL refuses, is not counted.        *)
IgnoreMessage(t, big) ==
    /\ handled < MaxMessages
    /\ big \/ t \notin Allowed
    /\ handled' = handled + 1
    /\ UNCHANGED <<tracked, position, message_count, last>>

StatisticsNext == \E t \in HeardTopics : HandleMessage(t) \/ \E big \in BOOLEAN : IgnoreMessage(t, big)

StatisticsSpec == StatisticsInit /\ [][StatisticsNext]_statisticsVars
-----------------------------------------------------------------------------
(* The statistics are those of the most recently heard topics: no more than *)
(* mqtt_queue_size, no forgotten topic was heard after a kept one, and none *)
(* is forgotten while there is room (lines 153-155).                        *)
KeepsMostRecent ==
    /\ Cardinality(tracked) <= MaxStatistics
    /\ \A t \in tracked, u \in HeardTopics \ tracked : last[u] < last[t]
    /\ \A u \in HeardTopics \ tracked : last[u] > 0 => Cardinality(tracked) = MaxStatistics

(* The strengthening behind KeepsMostRecent: the dictionary's order is the  *)
(* order of last use.                                                      *)
OrderIsRecency ==
    /\ IsFiniteSet(tracked)
    /\ \A t \in tracked : position[t] = last[t] /\ last[t] > 0
    /\ \A t, u \in HeardTopics : t # u /\ last[t] > 0 => last[t] # last[u]
    /\ \A t \in HeardTopics : last[t] <= handled

==============================================================================
