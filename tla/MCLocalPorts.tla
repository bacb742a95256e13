---------------------------- MODULE MCLocalPorts ----------------------------
(* Instances of LocalPorts for TLC: two calls with a player each, a range of *)
(* four ports, and three that the system gives out, one of them in the range. *)
EXTENDS LocalPorts

CONSTANTS ann, bob

TwoCalls == {<<ann>>, <<bob>>}
Chosen == {3, 10, 11}
=============================================================================
