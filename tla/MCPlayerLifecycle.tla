-------------------------- MODULE MCPlayerLifecycle --------------------------
(***************************************************************************)
(* Instances of PlayerLifecycle for TLC.                                   *)
(***************************************************************************)
EXTENDS PlayerLifecycle

CONSTANTS scenario, timer, helper
=============================================================================
