--------------------------- MODULE MCSubscriptions ---------------------------
(* Two topics, the REST owner, one WebSocket and one retained query. *)
EXTENDS Subscriptions

==============================================================================
