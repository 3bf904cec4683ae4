---- MODULE MCUdpMan ----
(* Two client addresses, the sessions they serve in turn, one payload each. *)
EXTENDS UdpMan, TLC

MCFlows == [sock : Socks, session : 1..MaxSession]
TaskSymmetry == Permutations(Tasks)
====
