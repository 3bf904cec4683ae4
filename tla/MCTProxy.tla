---- MODULE MCTProxy ----
(* Two keys and more tasks than keys, so that sessions follow each other. *)
EXTENDS TProxy
====
