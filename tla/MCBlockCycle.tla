---------------------------- MODULE MCBlockCycle ----------------------------
(***************************************************************************)
(* Instances of BlockCycle for TLC.                                        *)
(***************************************************************************)
EXTENDS BlockCycle, TLC

(* Contracts, validators and vote infos are only compared.  Not used where *)
(* a liveness property is checked.                                         *)
Symmetry ==
    Permutations(Contracts) \cup Permutations(Validators) \cup Permutations(Votes)
=============================================================================
