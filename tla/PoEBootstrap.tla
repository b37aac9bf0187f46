---------------------------- MODULE PoEBootstrap ----------------------------
(***************************************************************************)
(* What InitGenesis of the PoE module does to a store: validation of the   *)
(* genesis file, the addresses of the PoE contracts and their cache, the   *)
(* stages of BootstrapPoEContracts, the genesis transactions, the          *)
(* verification of the set-up and the first validators.  A step that can   *)
(* fail gives the set of its results, which is empty when it fails.        *)
(*                                                                         *)
(* Codes and contracts are numbered in the order of their creation.  The   *)
(* state of a contract is reduced to its configuration and the contracts   *)
(* it refers to, its members and the tokens it holds.                      *)
(***************************************************************************)
EXTENDS TwasmGenesis

CONSTANTS
    People,     \* accounts of members and operators
    Bootstrap,  \* the bootstrap account
    Nobody      \* absent owner, absent migration admin

(* The contracts of the binary.                                            *)
WasmFiles ==
    {"pt4_engagement", "trusted_circle", "pt4_stake", "pt4_mixer", "community_pool", "valset",
     "oc_proposals", "validator_voting", "ap_voting"}

ASSUME WasmAssumption == WasmFiles \subseteq DOMAIN PromoteRequests

VARIABLE doc  \* genesis file of the chain

(* In the order of their names, in which they are stored and iterated.     *)
PoEContractTypeList ==
    <<"ARBITER_POOL", "ARBITER_POOL_VOTING", "COMMUNITY_POOL", "DISTRIBUTION", "ENGAGEMENT",
      "MIXER", "OVERSIGHT_COMMUNITY", "OVERSIGHT_COMMUNITY_PROPOSALS", "STAKING",
      "VALIDATOR_VOTING", "VALSET">>
PoEContractTypes == Range(PoEContractTypeList)

Accounts == People \cup {Bootstrap}
Second == 2         \* durations are in halves of a second
Seconds(d) == d \div Second
WholeSeconds(d) == d % Second = 0
MaxNameLength == 100
NoAddresses == [t \in PoEContractTypes |-> 0]

(* Stores: the fields of twasm, the addresses of the PoE contracts, the    *)
(* bank's balances of people and of contracts, the fee parameter (set to a *)
(* price above zero or not) and the height.  Memory: the address cache and *)
(* the wasm files that are embedded in the binary.                         *)
EmptyChain ==
    [codes |-> <<>>, infos |-> <<>>, pinned |-> {}, privileged |-> {}, index |-> NoIndex,
     addr |-> NoAddresses, bal |-> [p \in Accounts |-> 0], funds |-> <<>>,
     minGasPrices |-> FALSE, height |-> 0, cache |-> NoAddresses, embedded |-> TRUE]

-----------------------------------------------------------------------------
(* Validation of a seed genesis.  Percentages are whole numbers, the fee   *)
(* percentage is counted in the smallest unit that the code accepts.       *)

ValidVotingRules(v) ==
    /\ v.votingPeriod # 0
    /\ v.quorum \in 1 .. 100
    /\ v.threshold \in 50 .. 100

ValidValsetConfig(c) ==
    /\ ~c.verifyValidators
    /\ 0 \notin {c.maxValidators, c.epochLength, c.scaling, c.offlineJailDuration}
    /\ WholeSeconds(c.epochLength) /\ WholeSeconds(c.offlineJailDuration)
    /\ \A ratio \in {c.communityPoolRewardRatio, c.engagementRewardRatio,
                     c.validatorRewardRatio} : ratio <= 100
    /\ c.engagementRewardRatio + c.communityPoolRewardRatio + c.validatorRewardRatio = 100
    /\ c.feePercentage >= 1

(* Mutant: a period with a fraction of a second passes.                    *)
ValidStakeAnyPeriod(c) == 0 \notin {c.minBond, c.tokensPerPoint, c.unbondingPeriod}

ValidStakeConfig(c) ==
    /\ 0 \notin {c.minBond, c.tokensPerPoint, c.unbondingPeriod}
    /\ WholeSeconds(c.unbondingPeriod)

(* Escrow is counted in units above minEscrowAmount.                       *)
ValidCommitteeConfig(c) ==
    /\ c.nameLength \in 1 .. MaxNameLength
    /\ c.escrow > 0
    /\ ValidVotingRules(c.rules)

ValidArbiterConfig(c) == ValidCommitteeConfig(c) /\ WholeSeconds(c.waitingPeriod)

ValidMixerConfig(c) == 0 \notin {c.maxPoints, c.s, c.p}

(* A genesis transaction creates a validator, with an operator of its own, *)
(* who is in the engagement group, and a key of its own.                   *)
ValidGenTxs(g) ==
    /\ \A i \in DOMAIN g.gentxs :
          /\ g.gentxs[i].amount + g.gentxs[i].vesting > 0
          /\ g.gentxs[i].operator \in {m.address : m \in Range(g.engagement)}
    /\ IsInjective([i \in DOMAIN g.gentxs |-> g.gentxs[i].operator])
    /\ IsInjective([i \in DOMAIN g.gentxs |-> g.gentxs[i].key])

ValidMembers(members) == members # <<>> /\ IsInjective(members)

(* The denom of the arbiter pool's escrow is not compared with any other.  *)
validateSeedContracts(g) ==
    /\ ValidMembers([i \in DOMAIN g.engagement |-> g.engagement[i].address])
    /\ \A m \in Range(g.engagement) : m.points # 0
    /\ WholeSeconds(g.halflife)
    /\ ValidValsetConfig(g.valset)
    /\ ValidStakeConfig(g.stake)
    /\ g.valset.rewardDenom = g.bondDenom
    /\ ValidCommitteeConfig(g.oc)
    /\ ValidArbiterConfig(g.ap)
    /\ g.oc.denom = g.bondDenom
    /\ ValidVotingRules(g.poolRules)
    /\ ValidVotingRules(g.votingRules)
    /\ ValidMixerConfig(g.mixer)
    /\ ValidGenTxs(g)
    /\ ValidMembers(g.oc.members)
    /\ ValidMembers(g.ap.members)

(* Every type once, none missing.                                          *)
ValidImportDump(contracts) ==
    /\ IsInjective([i \in DOMAIN contracts |-> contracts[i].type])
    /\ {c.type : c \in Range(contracts)} = PoEContractTypes

ValidateGenesis(d) ==
    /\ ValidateTwasmGenesis(d.twasm)
    /\ IF d.mode = "seed" THEN validateSeedContracts(d) ELSE ValidImportDump(d.contracts)

(* collect-gentxs: there is a transaction, and every operator has the      *)
(* liquid tokens to bond.  Vesting tokens and escrows are not looked at.   *)
collectTxs(g) ==
    /\ g.gentxs # <<>>
    /\ \A tx \in Range(g.gentxs) : tx.amount <= g.bal[tx.operator]

-----------------------------------------------------------------------------
(* The address of a contract, in the store and in memory.                  *)

(* Mutant: the address is only kept in memory.                             *)
SetAddressCached(s, t, c) == [s EXCEPT !.cache[t] = c]

SetPoEContractAddress(s, t, c) == [s EXCEPT !.addr[t] = c, !.cache[t] = c]

InitContractAddressCache(s) ==
    [s EXCEPT !.cache = [t \in PoEContractTypes |-> IF s.addr[t] # 0 THEN s.addr[t] ELSE @[t]]]

(* 0 is ErrNotFound.                                                       *)
GetPoEContractAddress(s, t) == IF s.cache[t] # 0 THEN s.cache[t] ELSE s.addr[t]

(* State of the contract of a type.                                        *)
Data(s, t) == s.infos[GetPoEContractAddress(s, t)].data

-----------------------------------------------------------------------------
(* Calls of the wasm keeper.  Codes can be stored while the binary still   *)
(* has them in memory.                                                     *)

Create(s, wasm) == IF s.embedded THEN {[s EXCEPT !.codes = Append(@, wasm)]} ELSE {}

(* The balances of a genesis are in the bond denom.                        *)
Pay(s, sender, c, n, denom) ==
    IF denom # doc.bondDenom \/ n > s.bal[sender] THEN {}
    ELSE {[s EXCEPT !.bal[sender] = @ - n, !.funds[c] = @ + n]}

NewContract(s, code, data) ==
    [s EXCEPT !.infos = Append(@, [code |-> code, admin |-> Bootstrap, details |-> <<>>,
                                   data |-> data]),
              !.funds = Append(@, 0)]

(* Instantiate, and SetPoEContractAddress for the new contract, which      *)
(* every set-up calls next.                                                *)
Instantiate(s, code, t, data) ==
    LET r == NewContract(s, code, data) IN SetPoEContractAddress(r, t, Len(r.infos))

(* A contract of a code that nothing else uses, stored just before.        *)
InstantiateNew(s, wasm, t, data) ==
    {Instantiate(r, Len(r.codes), t, data) : r \in Create(s, wasm)}

PinLast(s) == PinCode(s, Len(s.codes))

(* The last contract becomes privileged.                                   *)
PromoteLast(stores, t) ==
    Then(stores, LAMBDA r : SetPrivileged(r, GetPoEContractAddress(r, t)))

(* A contract's own admin, not the one that may migrate it.                *)
UpdateAdmin(s, t, newAdmin, sender) ==
    LET c == GetPoEContractAddress(s, t) IN
    IF s.infos[c].data.owner # sender THEN {}
    ELSE {[s EXCEPT !.infos[c].data.owner = newAdmin]}

UpdateContractAdmin(s, t, old, new) ==
    LET c == GetPoEContractAddress(s, t) IN
    IF c = 0 \/ s.infos[c].admin # old THEN {} ELSE {[s EXCEPT !.infos[c].admin = new]}

-----------------------------------------------------------------------------
(* BootstrapPoEContracts, one operator for each contract it sets up.  The  *)
(* result is empty when the step fails and InitGenesis panics.             *)

(* A pointer, {} is nil.  Contracts do not read decimals below zero.       *)
DecimalFromPercentage(percent) == {percent} \ {0}
Decimal(percent) == {d \in DecimalFromPercentage(percent) : d >= 0}

toContractVotingRules(v) ==
    {[v EXCEPT !.quorum = q, !.threshold = h] : q \in Decimal(v.quorum), h \in Decimal(v.threshold)}

newEngagementInitMsg(g) ==
    [label    |-> "ENGAGEMENT",
     owner    |-> Bootstrap,
     points   |-> [p \in People |->
                      LET own == {m \in Range(g.engagement) : m.address = p} IN
                      IF own = {} THEN 0 ELSE (CHOOSE m \in own : TRUE).points],
     halflife |-> Seconds(g.halflife)]

SetupEngagement(s, g) ==
    {PinLast(r) : r \in InstantiateNew(s, "pt4_engagement", "ENGAGEMENT", newEngagementInitMsg(g))}

(* DepositEscrow: with the escrow a member gets its vote.                  *)
DepositEscrow(s, t, cfg, member) ==
    LET c == GetPoEContractAddress(s, t) IN
    Pay([s EXCEPT !.infos[c].data.members = @ \cup {member}], member, c, cfg.escrow, cfg.denom)

(* Mutant: the escrow of the members behind the first is not collected.    *)
AddWithoutDeposit(s, t, cfg) ==
    LET c == GetPoEContractAddress(s, t) IN
    {[s EXCEPT !.infos[c].data.members = Range(cfg.members)]}

(* The first member proposes the others, passes this alone, and every one  *)
(* of them pays.                                                           *)
addToTrustedCircle(s, t, cfg) ==
    LET paid[n \in 0 .. Len(cfg.members) - 1] ==
            IF n = 0 THEN {s}
            ELSE Then(paid[n - 1], LAMBDA r : DepositEscrow(r, t, cfg, cfg.members[n + 1]))
    IN  paid[Len(cfg.members) - 1]

(* The sender is the first member and pays with the instantiation.         *)
TrustedCircle(s, code, t, cfg) ==
    Then(toContractVotingRules(cfg.rules), LAMBDA rules :
         DepositEscrow(Instantiate(s, code, t, [label |-> t, members |-> {},
                                                escrow |-> cfg.escrow, rules |-> rules]),
                       t, cfg, Head(cfg.members)))

SetupOversight(s, g) ==
    Then(Create(s, "trusted_circle"), LAMBDA r :
    Then(TrustedCircle(r, Len(r.codes), "OVERSIGHT_COMMUNITY", g.oc), LAMBDA q :
         addToTrustedCircle(PinLast(q), "OVERSIGHT_COMMUNITY", g.oc)))

newStakeInitMsg(g) ==
    [label |-> "STAKING", owner |-> Bootstrap, minBond |-> g.stake.minBond,
     unbondingPeriod |-> Seconds(g.stake.unbondingPeriod), staked |-> [p \in People |-> 0]]

SetupStaking(s, g) ==
    PromoteLast(InstantiateNew(s, "pt4_stake", "STAKING", newStakeInitMsg(g)), "STAKING")

SetupMixer(s, g) ==
    {PinLast(r) : r \in InstantiateNew(s, "pt4_mixer", "MIXER",
        [label |-> "MIXER", leftGroup  |-> GetPoEContractAddress(s, "ENGAGEMENT"),
                            rightGroup |-> GetPoEContractAddress(s, "STAKING")])}

SetupCommunityPool(s, g) ==
    Then(toContractVotingRules(g.poolRules), LAMBDA rules :
    {PinLast(r) : r \in InstantiateNew(s, "community_pool", "COMMUNITY_POOL",
        [label |-> "COMMUNITY_POOL", rules |-> rules,
         groupAddress |-> GetPoEContractAddress(s, "ENGAGEMENT")])})

(* The shares of the engagement group and of the community pool; what is   *)
(* left of 100% goes to the validators.                                    *)
newValsetInitMsg(s, g) ==
    {[label       |-> "VALSET",
      owner       |-> Bootstrap,
      membership  |-> GetPoEContractAddress(s, "MIXER"),
      distribution |-> {[address |-> GetPoEContractAddress(s, "ENGAGEMENT"), ratio |-> e],
                        [address |-> GetPoEContractAddress(s, "COMMUNITY_POOL"), ratio |-> p]},
      maxValidators |-> g.valset.maxValidators,
      epochLength |-> Seconds(g.valset.epochLength),
      offlineJailDuration |-> Seconds(g.valset.offlineJailDuration),
      keys        |-> [p2 \in People |-> Nobody],
      active      |-> {}] : e \in Decimal(g.valset.engagementRewardRatio),
                            p \in Decimal(g.valset.communityPoolRewardRatio)}

(* The valset contract instantiates the contract of the validators' share, *)
(* an engagement contract, with its own admin as the one to migrate it.    *)
DistributionOf(s) ==
    NewContract(s, s.infos[GetPoEContractAddress(s, "ENGAGEMENT")].code, [label |-> "DISTRIBUTION"])

SetupValset(s, g) ==
    LET instances == UNION {InstantiateNew(s, "valset", "VALSET", msg) : msg \in newValsetInitMsg(s, g)}
        withGroup == {SetPoEContractAddress(DistributionOf(r), "DISTRIBUTION", Len(r.infos) + 1)
                      : r \in instances}
    IN  PromoteLast(withGroup, "VALSET")

SetupOCProposals(s, g) ==
    LET msgs == {[label |-> "OVERSIGHT_COMMUNITY_PROPOSALS", rules |-> rules,
                  group      |-> GetPoEContractAddress(s, "OVERSIGHT_COMMUNITY"),
                  engagement |-> GetPoEContractAddress(s, "ENGAGEMENT"),
                  valset     |-> GetPoEContractAddress(s, "VALSET")]
                 : rules \in toContractVotingRules(g.oc.rules)}
    IN  {PinLast(r) : r \in UNION {InstantiateNew(s, "oc_proposals", "OVERSIGHT_COMMUNITY_PROPOSALS", m)
                                   : m \in msgs}}

(* Mutant: the valset contract keeps the bootstrap account as its admin.   *)
HandOverEngagement(s) ==
    UpdateAdmin(s, "ENGAGEMENT", GetPoEContractAddress(s, "OVERSIGHT_COMMUNITY_PROPOSALS"), Bootstrap)

(* The oversight community's proposals administer both contracts.          *)
HandOver(s) ==
    LET new == GetPoEContractAddress(s, "OVERSIGHT_COMMUNITY_PROPOSALS") IN
    Then(UpdateAdmin(s, "ENGAGEMENT", new, Bootstrap),
         LAMBDA r : UpdateAdmin(r, "VALSET", new, Bootstrap))

SetupValidatorVoting(s, g) ==
    LET msgs == {[label |-> "VALIDATOR_VOTING", rules |-> rules,
                  group |-> GetPoEContractAddress(s, "DISTRIBUTION")]
                 : rules \in toContractVotingRules(g.votingRules)}
    IN  PromoteLast(UNION {InstantiateNew(s, "validator_voting", "VALIDATOR_VOTING", m) : m \in msgs},
                    "VALIDATOR_VOTING")

(* A second instance of the code of the oversight community.               *)
SetupArbiterPool(s, g) ==
    LET code == s.infos[GetPoEContractAddress(s, "OVERSIGHT_COMMUNITY")].code IN
    Then(TrustedCircle(s, code, "ARBITER_POOL", g.ap),
         LAMBDA r : addToTrustedCircle(r, "ARBITER_POOL", g.ap))

SetupArbiterVoting(s, g) ==
    LET msgs == {[label |-> "ARBITER_POOL_VOTING", rules |-> rules,
                  group |-> GetPoEContractAddress(s, "ARBITER_POOL"),
                  waitingPeriod |-> Seconds(g.ap.waitingPeriod)]
                 : rules \in toContractVotingRules(g.ap.rules)}
    IN  {PinLast(r) : r \in UNION {InstantiateNew(s, "ap_voting", "ARBITER_POOL_VOTING", m) : m \in msgs}}

setAllPoEContractsInstanceMigrators(s) ==
    LET new == GetPoEContractAddress(s, "VALIDATOR_VOTING")
        moved[n \in 0 .. Len(PoEContractTypeList)] ==
            IF n = 0 THEN {s}
            ELSE Then(moved[n - 1], LAMBDA r :
                      UpdateContractAdmin(r, PoEContractTypeList[n], Bootstrap, new))
    IN  moved[Len(PoEContractTypeList)]

Stages == <<"engagement", "oversight", "stake", "mixer", "pool", "valset", "proposals", "handover",
            "voting", "arbiter", "arbiterVoting", "migrators", "gentx", "verify">>

Bootstrapped(s, g, stage) ==
    CASE stage = "engagement"    -> SetupEngagement(s, g)
      [] stage = "oversight"     -> SetupOversight(s, g)
      [] stage = "stake"         -> SetupStaking(s, g)
      [] stage = "mixer"         -> SetupMixer(s, g)
      [] stage = "pool"          -> SetupCommunityPool(s, g)
      [] stage = "valset"        -> SetupValset(s, g)
      [] stage = "proposals"     -> SetupOCProposals(s, g)
      [] stage = "handover"      -> HandOver(s)
      [] stage = "voting"        -> SetupValidatorVoting(s, g)
      [] stage = "arbiter"       -> SetupArbiterPool(s, g)
      [] stage = "arbiterVoting" -> SetupArbiterVoting(s, g)
      [] stage = "migrators"     -> setAllPoEContractsInstanceMigrators(s)

-----------------------------------------------------------------------------
(* Genesis transactions, verification, first validators.                   *)

(* A genesis transaction pays no fee: it fails once a gas price is set.    *)
FeeIsEnough(s) == ~s.minGasPrices

(* CreateValidator: the key is registered, liquid and vesting tokens are   *)
(* bonded, then the operator gets the initial engagement points if it has  *)
(* fewer.                                                                  *)
CreateValidator(s, g, tx) ==
    LET op     == tx.operator
        keys   == Data(s, "VALSET").keys
        valset == GetPoEContractAddress(s, "VALSET")
        stake  == GetPoEContractAddress(s, "STAKING")
        group  == GetPoEContractAddress(s, "ENGAGEMENT")
        bond   == tx.amount + tx.vesting
        more   == bond >= g.minDelegation /\ s.infos[group].data.points[op] < g.initialPoints
        registered == [s EXCEPT !.infos[valset].data.keys[op] = tx.key]
        bonded == [registered EXCEPT !.infos[stake].data.staked[op] = @ + bond]
        engaged == [bonded EXCEPT !.infos[group].data.points[op] = IF more THEN g.initialPoints ELSE @]
    IN  IF keys[op] # Nobody \/ \E p \in People : keys[p] = tx.key THEN {}
        ELSE Pay(engaged, op, stake, bond, g.bondDenom)

(* Mutant: a transaction that fails is skipped.                            *)
DeliverGenTxsLeniently(s, g) ==
    LET delivered[n \in 0 .. Len(g.gentxs)] ==
            IF n = 0 THEN {s}
            ELSE Then(delivered[n - 1], LAMBDA r :
                     LET done == IF FeeIsEnough(r) THEN CreateValidator(r, g, g.gentxs[n]) ELSE {}
                     IN  IF done = {} THEN {r} ELSE done)
    IN  delivered[Len(g.gentxs)]

DeliverGenTxs(s, g) ==
    LET delivered[n \in 0 .. Len(g.gentxs)] ==
            IF n = 0 THEN {s}
            ELSE Then(delivered[n - 1], LAMBDA r :
                      IF FeeIsEnough(r) THEN CreateValidator(r, g, g.gentxs[n]) ELSE {})
    IN  delivered[Len(g.gentxs)]

(* A code that is not pinned is only logged.                               *)
VerifyPoEContracts(s) ==
    /\ \A t \in PoEContractTypes :
          LET c == GetPoEContractAddress(s, t) IN
          c \in DOMAIN s.infos /\ s.infos[c].admin = GetPoEContractAddress(s, "VALIDATOR_VOTING")
    /\ HasRegisteredPrivilege(s.infos[GetPoEContractAddress(s, "VALSET")].details,
                              "validator_set_updater")
    /\ HasRegisteredPrivilege(s.infos[GetPoEContractAddress(s, "STAKING")].details, "delegator")

(* The valset contract takes as many validators with stake and engagement  *)
(* as it may have.                                                         *)
Eligible(s) ==
    {p \in People : /\ Data(s, "VALSET").keys[p] # Nobody
                    /\ Data(s, "STAKING").staked[p] >= Data(s, "STAKING").minBond
                    /\ Data(s, "ENGAGEMENT").points[p] > 0}

EndBlockWithValidatorUpdate(s) ==
    LET n == Min({Cardinality(Eligible(s)), Data(s, "VALSET").maxValidators}) IN
    {[s EXCEPT !.infos[GetPoEContractAddress(s, "VALSET")].data.active = a]
     : a \in kSubset(n, Eligible(s))}

ActiveKeys(s) == {Data(s, "VALSET").keys[p] : p \in Data(s, "VALSET").active}

(* Mutant: all registered validators are returned.                         *)
RegisteredKeys(s) == {Data(s, "VALSET").keys[p] : p \in People} \ {Nobody}

(* What InitGenesis returns: the first update of the valset contract, which*)
(* adds all active validators, or the active validators of a dump.         *)
InitialSet(s) == ActiveKeys(s)

FirstValidators(s, d) ==
    {r \in IF ~VerifyPoEContracts(s) THEN {}
           ELSE IF d.mode = "seed" THEN EndBlockWithValidatorUpdate(s) ELSE {s}
     : InitialSet(r) # {}}

-----------------------------------------------------------------------------
(* Export, and import of the addresses in a dump.                          *)

(* IteratePoEContracts goes through the stored addresses.                  *)
DumpedContracts(s) ==
    LET dumped[n \in 0 .. Len(PoEContractTypeList)] ==
            IF n = 0 THEN <<>>
            ELSE LET t == PoEContractTypeList[n] IN
                 IF s.addr[t] = 0 THEN dumped[n - 1]
                 ELSE Append(dumped[n - 1], [type |-> t, address |-> s.addr[t]])
    IN  dumped[Len(PoEContractTypeList)]

ExportGenesis(s, asks) ==
    [mode         |-> "dump",
     twasm        |-> ExportTwasmGenesis(s, asks),
     contracts    |-> DumpedContracts(s),
     minGasPrices |-> s.minGasPrices,
     bal          |-> s.bal,
     funds        |-> s.funds,
     validators   |-> ActiveKeys(s)]

SetDumpedAddresses(s, contracts) ==
    LET set[n \in 0 .. Len(contracts)] ==
            IF n = 0 THEN s
            ELSE SetPoEContractAddress(set[n - 1], contracts[n].type, contracts[n].address)
    IN  set[Len(contracts)]
=============================================================================
