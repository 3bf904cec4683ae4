---- MODULE MCController ----
(* Configurations without router rules, with rules for TCP and UDP, and with rules *)
(* for a proxy at an address where they do not lead.  Two upstream names, one of   *)
(* which files and requests bring; upstreams are edited without rules only.        *)
EXTENDS Controller

Plain == [addr |-> [host |-> "any", port |-> 1], rules |-> FALSE, udp |-> NoAddr]
Router == [addr |-> [host |-> "loopback", port |-> 1], rules |-> TRUE,
           udp |-> [host |-> "any", port |-> 3]]
Moved == [addr |-> [host |-> "other", port |-> 2], rules |-> TRUE, udp |-> NoAddr]

MCSettings == {Plain, Router, Moved}
MCEditedUnder == {Plain}

CONSTANTS n1, p1

MCOfferedMaps == {<<>>, n1 :> p1}
====
