------------------------ MODULE MCValidatorStaking ------------------------
(* Small instances of ValidatorStaking.                                    *)
EXTENDS ValidatorStaking, TLC

CONSTANTS a, b

(* One vesting account whose tokens vest in part, and one base account.    *)
MixedBalance == (a :> 2) @@ (b :> 1)
MixedVesting == (a :> 1) @@ (b :> 0)

(* A single vesting account with liquid tokens beside the vesting ones.    *)
SingleBalance == a :> 3
SingleVesting == a :> 2
=============================================================================
