----------------------------- MODULE MCDnaStore -----------------------------
(***************************************************************************)
(* Instances of DnaStore for TLC.                                          *)
(***************************************************************************)
EXTENDS DnaStore, TLC

CONSTANTS c1, c2, chat, test

Symmetry == Permutations(Sessions)

Source(scheme, host, segments, dna) ==
    [scheme |-> scheme, host |-> host, segments |-> segments, dna |-> dna]

\* chat is longer than test, and both take more than one block.
Lengths == (chat :> 3) @@ (test :> 2)

\* Sources that do not share a path, one of each kind.
Distinct == {Source("save", "", <<<<"a">>, <<"b">>>>, chat),
             Source("save", "", <<<<"b">>>>, test),
             Source("file", "", <<<<"a">>, <<"b">>>>, test),
             Source("https", "h", <<<<"a">>, <<"%">>>>, chat)}

AllFaults == FaultNames

=============================================================================
