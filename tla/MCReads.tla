-------------------------------- MODULE MCReads --------------------------------
(***************************************************************************)
(* Connections are alike, and so are the recursive requests: only safety   *)
(* is checked with this module.                                            *)
(***************************************************************************)
EXTENDS Reads, TLC

MCSymmetry == Permutations(Conns) \union Permutations(Recursives)
=============================================================================
