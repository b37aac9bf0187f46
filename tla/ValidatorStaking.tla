-------------------------- MODULE ValidatorStaking --------------------------
(***************************************************************************)
(* The money of the validators: transactions that create a validator,      *)
(* bond and unbond stake, the fee they pay first, and the messages with    *)
(* which the stake contract moves vesting tokens through the bonded pool.  *)
(*                                                                         *)
(* A handler is an operator from a chain state to the set of states it can *)
(* leave; the empty set is an error.  Every part of a transaction works on *)
(* the result of the part before, and the chain keeps the last result, or  *)
(* what the fee deduction left when the message fails.  The contracts are  *)
(* modelled by what the handlers need of them: liquid and vesting stake    *)
(* and claims per operator, registered operators, engagement points.       *)
(***************************************************************************)
EXTENDS Integers, FiniteSetsExt

CONSTANTS
    Operators,
    Balance,         \* tokens an operator's account holds at first
    Vesting,         \* how many of them have still to vest; 0: a base account
    Fees,            \* fees a transaction can offer
    Amounts,         \* amounts a message can name
    InitialPoints,   \* values of the parameter InitialValEngagementPoints
    MinDelegation,   \* parameter MinDelegationAmounts, in the bond denom
    MaxPoints,       \* bound: engagement points of an operator
    MaxMint          \* bound: tokens minted

BondedPool == "bonded_tokens_pool"
TwasmModule == "twasm"
StakeContract == "staking"
ValsetContract == "valset"
ModuleAccounts == {BondedPool, TwasmModule}
Contracts == {StakeContract, ValsetContract}
Accounts == Operators \cup ModuleAccounts \cup Contracts

ASSUME StakingAssumption ==
    /\ IsFiniteSet(Operators)
    /\ Operators \cap (ModuleAccounts \cup Contracts) = {}
    /\ Balance \in [Operators -> Nat]
    /\ Vesting \in [Operators -> Nat]
    /\ \A op \in Operators : Vesting[op] <= Balance[op]
    /\ Fees \subseteq Nat
    /\ Amounts \subseteq Nat
    /\ InitialPoints \subseteq 0 .. MaxPoints
    /\ MinDelegation \in Nat
    /\ MaxPoints \in Nat
    /\ MaxMint \in Nat

VARIABLES
    chain,        \* the stores, see Chain
    newPoints,    \* parameter InitialValEngagementPoints
    privileges,   \* what the stake and valset contracts are registered for
    minted        \* tokens minted so far

vars == <<chain, newPoints, privileges, minted>>

VestingAccounts == {op \in Operators : Vesting[op] > 0}
Privileges == {"delegator", "token_minter"}

(* The stake contract keeps liquid and vesting tokens apart.  A vesting    *)
(* account tracks what it delegated of its vesting tokens (dv) and of      *)
(* others (df); left of its tokens are still vesting.                      *)
Pots == [liquid : Nat, vesting : Nat]
Add(pots, l, v) == [liquid |-> pots.liquid + l, vesting |-> pots.vesting + v]
NoTokens == [liquid |-> 0, vesting |-> 0]
Account == [left : Nat, dv : Nat, df : Nat]

Chain == [bal        : [Accounts -> Nat],
          acc        : [Operators -> Account],
          staked     : [Operators -> Pots],
          claims     : [Operators -> Pots],
          grant      : [Operators \X Operators -> Nat],
          registered : SUBSET Operators,
          points     : [Operators -> 0 .. MaxPoints]]

(* No balance, stake, claim, allowance or tracked delegation is negative.  *)
TypeOK ==
    /\ chain \in Chain
    /\ newPoints \in InitialPoints
    /\ privileges \subseteq Privileges
    /\ minted \in 0 .. MaxMint

-----------------------------------------------------------------------------
(* The bank module.                                                         *)

Least(a, b) == IF a < b THEN a ELSE b
Positive(n) == IF n > 0 THEN n ELSE 0

Move(s, from, to, n) ==
    IF from = to THEN s
    ELSE [s EXCEPT !.bal[from] = @ - n, !.bal[to] = @ + n]

(* Tokens that have not vested and are not delegated stay in the account.  *)
Locked(s, a) ==
    IF a \in VestingAccounts THEN Positive(s.acc[a].left - s.acc[a].dv) ELSE 0

SendCoins(s, from, to, n) ==
    IF n <= s.bal[from] - Locked(s, from) THEN {Move(s, from, to, n)} ELSE {}

(* Mutant: module accounts may receive tokens.                              *)
SendUnblocked(s, from, to, n) == SendCoins(s, from, to, n)

(* Messages and modules cannot send to the address of a module account.     *)
SendToAccount(s, from, to, n) ==
    IF to \in ModuleAccounts THEN {} ELSE SendCoins(s, from, to, n)

(* Delegations take the vesting tokens first, ...                           *)
TrackDelegation(acc, n) ==
    LET x == Least(Positive(acc.left - acc.dv), n) IN
    [left |-> acc.left, dv |-> acc.dv + x, df |-> acc.df + (n - x)]

(* ... and give them back last.                                             *)
TrackUndelegation(acc, n) ==
    LET x == Least(acc.df, n) IN
    [left |-> acc.left, dv |-> acc.dv - Least(acc.dv, n - x), df |-> acc.df - x]

DelegateCoins(s, op, n) ==
    LET r == Move(s, op, BondedPool, n) IN
    IF n > s.bal[op] THEN {}
    ELSE IF op \in VestingAccounts THEN {[r EXCEPT !.acc[op] = TrackDelegation(@, n)]}
    ELSE {r}

UndelegateCoins(s, op, n) ==
    LET r == Move(s, BondedPool, op, n) IN
    IF n > s.bal[BondedPool] THEN {}
    ELSE IF op \in VestingAccounts THEN {[r EXCEPT !.acc[op] = TrackUndelegation(@, n)]}
    ELSE {r}

-----------------------------------------------------------------------------
(* PetriHandler: messages of the privileged contracts.                      *)

assertHasPrivilege(p) == p \in privileges

(* Mutant: the second transfer is missing.                                  *)
DelegateToPool(s, op, n) ==
    IF assertHasPrivilege("delegator") THEN DelegateCoins(s, op, n) ELSE {}

(* Mutant: liquid and vesting tokens are sent alike, nothing is tracked.    *)
DelegateUntracked(s, op, n) ==
    IF assertHasPrivilege("delegator") /\ n <= s.bal[op]
    THEN {Move(s, op, StakeContract, n)} ELSE {}

(* Account to pool, then pool to the contract.                              *)
handleDelegate(s, op, n) ==
    IF assertHasPrivilege("delegator")
    THEN UNION {SendToAccount(r, BondedPool, StakeContract, n) : r \in DelegateCoins(s, op, n)}
    ELSE {}

(* Contract to pool, then pool to the account.                              *)
handleUndelegate(s, op, n) ==
    IF assertHasPrivilege("delegator")
    THEN UNION {UndelegateCoins(r, op, n) : r \in SendCoins(s, StakeContract, BondedPool, n)}
    ELSE {}

(* Minted into the module account, then sent to the recipient.              *)
handleMintToken(s, to, n) ==
    IF assertHasPrivilege("token_minter")
    THEN SendToAccount([s EXCEPT !.bal[TwasmModule] = @ + n], TwasmModule, to, n)
    ELSE {}

-----------------------------------------------------------------------------
(* Calls into the contracts.                                                *)

(* The funds of the call go to the contract first; it then records the      *)
(* stake and delegates the vesting tokens.                                  *)
BondDelegation(s, op, l, v) ==
    UNION {LET bonded == [r EXCEPT !.staked[op] = Add(@, l, v)]
           IN  IF v = 0 THEN {bonded} ELSE handleDelegate(bonded, op, v)
           : r \in SendCoins(s, op, StakeContract, l)}

(* Which of its two pots the contract takes first is left open.             *)
UnbondDelegation(s, op, n) ==
    {[s EXCEPT !.staked[op] = Add(@, -l, l - n), !.claims[op] = Add(@, l, n - l)]
     : l \in {l \in 0 .. n : l <= s.staked[op].liquid /\ n - l <= s.staked[op].vesting}}

RegisterValidator(s, op) ==
    IF op \in s.registered THEN {} ELSE {[s EXCEPT !.registered = @ \cup {op}]}

(* Mutant: the points are set without a look at the current ones.           *)
SetPointsAlways(s, op, selfDelegation) ==
    IF newPoints = 0 \/ selfDelegation < MinDelegation THEN s
    ELSE [s EXCEPT !.points[op] = newPoints]

SetValidatorInitialEngagementPoints(s, op, selfDelegation) ==
    IF newPoints = 0 \/ selfDelegation < MinDelegation \/ s.points[op] >= newPoints
    THEN s
    ELSE [s EXCEPT !.points[op] = newPoints]

-----------------------------------------------------------------------------
(* The fee of a transaction, and the message server.                        *)

(* Mutant: the fee is taken from the whole balance, locked tokens included. *)
DeductFromBalance(s, payer, granter, fee) ==
    IF granter = payer /\ fee <= s.bal[payer]
    THEN {Move(s, payer, ValsetContract, fee)} ELSE {}

(* Mutant: the allowance is charged without a look at what is left of it.  *)
DeductWithoutAllowance(s, payer, granter, fee) ==
    IF granter = payer THEN SendCoins(s, payer, ValsetContract, fee)
    ELSE SendCoins([s EXCEPT !.grant[<<granter, payer>>] = @ - fee], granter, ValsetContract, fee)

(* The fee goes to the valset contract, from the payer or from a granter    *)
(* whose allowance for the payer shrinks.                                   *)
DeductFees(s, payer, granter, fee) ==
    IF granter = payer THEN SendCoins(s, payer, ValsetContract, fee)
    ELSE IF s.grant[<<granter, payer>>] > 0 /\ fee <= s.grant[<<granter, payer>>]
    THEN SendCoins([s EXCEPT !.grant[<<granter, payer>>] = @ - fee], granter, ValsetContract, fee)
    ELSE {}

(* What the messages of a transaction of payer can start from.              *)
AnteHandle(payer) ==
    UNION {DeductFees(chain, payer, granter, fee) : granter \in Operators, fee \in Fees}

(* Mutant: an error of the self delegation is dropped.                      *)
RegisterAnyway(s, op, l, v) ==
    UNION {LET bonds == BondDelegation(r, op, l, v) IN
           {SetValidatorInitialEngagementPoints(q, op, l + v)
            : q \in IF bonds = {} THEN {r} ELSE bonds}
           : r \in RegisterValidator(s, op)}

CreateValidator(s, op, l, v) ==
    {SetValidatorInitialEngagementPoints(q, op, l + v)
     : q \in UNION {BondDelegation(r, op, l, v) : r \in RegisterValidator(s, op)}}

(* Descriptions are not modelled: the update of a known validator succeeds. *)
UpdateValidator(s, op) == IF op \in s.registered THEN {s} ELSE {}

(* A transaction with one message, signed by op.  A message can fail for    *)
(* reasons outside of this model too (gas, the contract); then what the     *)
(* fee deduction did stays and nothing else.                                *)
DeliverCreateValidator(op, l, v) ==
    /\ l + v > 0
    /\ \E s \in AnteHandle(op) : chain' \in {s} \cup CreateValidator(s, op, l, v)
    /\ UNCHANGED <<newPoints, privileges, minted>>

DeliverUpdateValidator(op) ==
    /\ \E s \in AnteHandle(op) : chain' \in {s} \cup UpdateValidator(s, op)
    /\ UNCHANGED <<newPoints, privileges, minted>>

DeliverDelegate(op, l, v) ==
    /\ l + v > 0
    /\ \E s \in AnteHandle(op) : chain' \in {s} \cup BondDelegation(s, op, l, v)
    /\ UNCHANGED <<newPoints, privileges, minted>>

DeliverUndelegate(op, n) ==
    /\ n > 0
    /\ \E s \in AnteHandle(op) : chain' \in {s} \cup UnbondDelegation(s, op, n)
    /\ UNCHANGED <<newPoints, privileges, minted>>

DeliverSend(op, to, n) ==
    /\ \E s \in AnteHandle(op) : chain' \in {s} \cup SendToAccount(s, op, to, n)
    /\ UNCHANGED <<newPoints, privileges, minted>>

(* A new allowance, or with n = 0 the end of one.                           *)
DeliverGrant(op, grantee, n) ==
    /\ op # grantee
    /\ (chain.grant[<<op, grantee>>] = 0) # (n = 0)
    /\ \E s \in AnteHandle(op) : chain' \in {s, [s EXCEPT !.grant[<<op, grantee>>] = n]}
    /\ UNCHANGED <<newPoints, privileges, minted>>

-----------------------------------------------------------------------------
(* The contracts' own steps, governance and time.                           *)

(* The stake contract returns matured claims; when one of its messages      *)
(* fails nothing of the call is kept.                                       *)
ReturnClaims(op) ==
    /\ chain.claims[op] # NoTokens
    /\ LET c == chain.claims[op]
           s == [chain EXCEPT !.claims[op] = NoTokens]
       IN  chain' \in UNION {IF c.vesting = 0 THEN {r} ELSE handleUndelegate(r, op, c.vesting)
                             : r \in SendCoins(s, StakeContract, op, c.liquid)}
    /\ UNCHANGED <<newPoints, privileges, minted>>

(* A slashed operator loses stake or claims, which the contract burns.      *)
SlashStake(op, pot) ==
    /\ chain.staked[op][pot] > 0
    /\ chain' = [chain EXCEPT !.staked[op][pot] = @ - 1, !.bal[StakeContract] = @ - 1]
    /\ UNCHANGED <<newPoints, privileges, minted>>

SlashClaim(op, pot) ==
    /\ chain.claims[op][pot] > 0
    /\ chain' = [chain EXCEPT !.claims[op][pot] = @ - 1, !.bal[StakeContract] = @ - 1]
    /\ UNCHANGED <<newPoints, privileges, minted>>

(* The valset contract mints the reward of an epoch.                        *)
Mint(to, n) ==
    /\ n > 0
    /\ minted + n <= MaxMint
    /\ chain' \in handleMintToken(chain, to, n)
    /\ minted' = minted + n
    /\ UNCHANGED <<newPoints, privileges>>

Vest(op) ==
    /\ chain.acc[op].left > 0
    /\ chain' = [chain EXCEPT !.acc[op].left = @ - 1]
    /\ UNCHANGED <<newPoints, privileges, minted>>

(* The engagement contract gives, slashes and halves points.                *)
ChangePoints(op, n) ==
    /\ chain' = [chain EXCEPT !.points[op] = n]
    /\ UNCHANGED <<newPoints, privileges, minted>>

ChangeParams(n) ==
    /\ newPoints' = n
    /\ UNCHANGED <<chain, privileges, minted>>

(* Contracts are demoted and promoted again.                                *)
ChangePrivileges(p) ==
    /\ privileges' = p
    /\ UNCHANGED <<chain, newPoints, minted>>

Init ==
    /\ chain = [bal        |-> [a \in Accounts |-> IF a \in Operators THEN Balance[a] ELSE 0],
                acc        |-> [op \in Operators |-> [left |-> Vesting[op], dv |-> 0, df |-> 0]],
                staked     |-> [op \in Operators |-> NoTokens],
                claims     |-> [op \in Operators |-> NoTokens],
                grant      |-> [pair \in Operators \X Operators |-> 0],
                registered |-> {},
                points     |-> [op \in Operators |-> 0]]
    /\ newPoints \in InitialPoints
    /\ privileges = Privileges
    /\ minted = 0

Transaction(op) ==
    \/ \E l, v \in Amounts : DeliverCreateValidator(op, l, v)
    \/ DeliverUpdateValidator(op)
    \/ \E l, v \in Amounts : DeliverDelegate(op, l, v)
    \/ \E n \in Amounts : DeliverUndelegate(op, n)
    \/ \E to \in Accounts, n \in Amounts : DeliverSend(op, to, n)
    \/ \E grantee \in Operators, n \in Amounts : DeliverGrant(op, grantee, n)

Next ==
    \/ \E op \in Operators :
          \/ Transaction(op)
          \/ ReturnClaims(op)
          \/ \E pot \in {"liquid", "vesting"} : SlashStake(op, pot) \/ SlashClaim(op, pot)
          \/ Vest(op)
          \/ \E n \in 0 .. MaxPoints : ChangePoints(op, n)
    \/ \E to \in Accounts, n \in Amounts : Mint(to, n)
    \/ \E n \in InitialPoints : ChangeParams(n)
    \/ \E p \in SUBSET Privileges : ChangePrivileges(p)

Spec == Init /\ [][Next]_vars

-----------------------------------------------------------------------------
(* Tokens only pass through the bonded pool and the twasm module account:  *)
(* the two bank calls of handleDelegate, handleUndelegate and              *)
(* handleMintToken both happen or neither, and nothing else pays there.    *)
ModulesArePassedThrough == \A m \in ModuleAccounts : chain.bal[m] = 0

Owed(s) ==
    [op \in Operators |-> s.staked[op].liquid + s.staked[op].vesting
                            + s.claims[op].liquid + s.claims[op].vesting]

(* The stake contract holds what it owes to all operators together,        *)
(* however bonding, unbonding, claims, slashing and changes of its         *)
(* privileges interleave.                                                  *)
StakeIsBacked == SumFunction(Owed(chain)) <= chain.bal[StakeContract]

(* Tokens that are still vesting are in the account or tracked as          *)
(* delegated: fees, allowances, liquid self delegations and transfers      *)
(* never spend them, whatever was bonded and unbonded before.              *)
LockedStaysInAccount ==
    \A op \in VestingAccounts : chain.acc[op].left <= chain.bal[op] + chain.acc[op].dv

(* What the stake contract holds in the vesting pots of a vesting account  *)
(* is tracked as delegated by that account, so handleUndelegate can always *)
(* undo what handleDelegate recorded.                                      *)
VestingStakeIsTracked ==
    \A op \in VestingAccounts :
        chain.staked[op].vesting + chain.claims[op].vesting
            <= chain.acc[op].dv + chain.acc[op].df

(* CreateValidator registers an operator only together with its self       *)
(* delegation: an error of the second contract call undoes the first.      *)
RegistrationHasStake ==
    [][\A op \in chain'.registered \ chain.registered :
          chain'.staked[op].liquid + chain'.staked[op].vesting
              > chain.staked[op].liquid + chain.staked[op].vesting]_vars

(* Creating a validator never takes engagement points from an operator who *)
(* has more than SetValidatorInitialEngagementPoints gives.                *)
PointsAreNotLowered ==
    [][\A op \in chain'.registered \ chain.registered :
          chain'.points[op] >= chain.points[op]]_vars
=============================================================================
