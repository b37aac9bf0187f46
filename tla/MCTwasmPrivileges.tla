-------------------------- MODULE MCTwasmPrivileges --------------------------
(***************************************************************************)
(* Instances of TwasmPrivileges for TLC.                                   *)
(***************************************************************************)
EXTENDS TwasmRefinement, TLC

(* Contracts are only compared, and so are codes.                          *)
Symmetry == Permutations(Contracts) \cup Permutations(Codes)
=============================================================================
