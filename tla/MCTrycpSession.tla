--------------------------- MODULE MCTrycpSession ---------------------------
(***************************************************************************)
(* Instances of TrycpSession for TLC.                                      *)
(***************************************************************************)
EXTENDS TrycpSession

CONSTANTS t1, t2, dna1, p1
=============================================================================
