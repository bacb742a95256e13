---------------------------- MODULE MCOrchestrator ----------------------------
(***************************************************************************)
(* Instances of Orchestrator for TLC.                                      *)
(***************************************************************************)
EXTENDS Orchestrator, TLC

CONSTANTS first, second, alice, bob

One == <<first>>
Two == <<first, second>>

Alice     == first :> {alice}
\* What the first leaves is left while the second, which has no players, runs.
AliceBob  == (first :> {alice, bob}) @@ (second :> {})
=============================================================================
