-------------------------- MODULE MCPlayerRegistry --------------------------
(***************************************************************************)
(* Instances of PlayerRegistry for TLC.                                    *)
(***************************************************************************)
EXTENDS PlayerRegistryInv, TLC

CONSTANTS c1, c2, alice, bob

\* Sessions differ in nothing but their name, and so do player ids.
Symmetry      == Permutations(Clients) \cup Permutations(Ids)

Lifecycle     == {"configure", "startup", "shutdown", "reset"}
AllOps        == Lifecycle \cup {"admin"}

NoFaults      == {}
Crashes       == {"crash"}

=============================================================================
