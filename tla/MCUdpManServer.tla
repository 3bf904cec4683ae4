---- MODULE MCUdpManServer ----
(* Three connection tasks and two ids, so that ids run out and are reused. *)
EXTENDS UdpManServer, TLC

TaskSymmetry == Permutations(Tasks)
====
