------------------------------ MODULE MCDispatch ------------------------------
(***************************************************************************)
(* One consumer of one topic and one of both, queues of two and inboxes of  *)
(* one, so that both overflow several times; four packets.                  *)
(***************************************************************************)
EXTENDS Dispatch

MCTopics == {"a", "b"}
MCConsumers == {"one", "both"}
MCWants == [one |-> {"a"}, both |-> {"a", "b"}]

==============================================================================
