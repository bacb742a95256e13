--------------------------- MODULE MCAppInterface ---------------------------
(***************************************************************************)
(* Instances of AppInterface for TLC.                                      *)
(***************************************************************************)
EXTENDS AppInterfaceInv, TLC

CONSTANTS s1, s2, p1, p2

Symmetry    == Permutations(Sessions) \cup Permutations(Ports)

SharedPorts == [p \in Ports |-> Sessions]

Departures == {"session_ends", "remove_dir_fails"}
Deaths     == {"conductor_dies"}

=============================================================================
