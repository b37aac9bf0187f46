---------------------------- MODULE MCPoEGenesis ----------------------------
(* Seed genesis files for TLC: every combination of a few memberships,     *)
(* transactions and balances, and the plain file with one field changed.   *)
EXTENDS PoEGenesis

CONSTANTS a, b, k1, k2

MCRequests ==
    [wasm \in {"pt4_engagement", "trusted_circle", "pt4_stake", "pt4_mixer", "community_pool",
               "valset", "oc_proposals", "validator_voting", "ap_voting", "other"} |->
        CASE wasm = "pt4_stake"        -> <<"delegator">>
          [] wasm = "valset"           -> <<"validator_set_updater", "begin_blocker",
                                            "state_exporter_importer">>
          [] wasm = "validator_voting" -> <<"gov_proposal_executor", "end_blocker">>
          [] wasm = "other"            -> <<"begin_blocker">>
          [] OTHER                     -> <<>>]

MCImportRequests == {<<>>, <<"end_blocker">>, <<"delegator">>}

Member(p) == [address |-> p, points |-> 1]
GenTx(p, key, amount, vesting) ==
    [operator |-> p, key |-> key, amount |-> amount, vesting |-> vesting]
Rules == [votingPeriod |-> 1, quorum |-> 50, threshold |-> 50]
Circle(members) ==
    [nameLength |-> 1, escrow |-> 1, denom |-> "utgd", rules |-> Rules, waitingPeriod |-> 2,
     members |-> members]
Balances(n, m) == [p \in Accounts |-> IF p = a THEN n ELSE IF p = b THEN m ELSE 0]
NoContracts ==
    [codes |-> <<>>, pinned |-> {}, contracts |-> <<>>,
     privilegedContractAddresses |-> <<>>, pinnedCodeIDs |-> <<>>]
OtherContract ==
    [info  |-> [code |-> 1, admin |-> Nobody, details |-> <<>>, data |-> NoData],
     model |-> [kind |-> "kv", data |-> [label |-> "other"], asks |-> <<>>]]
OneContract ==
    [codes |-> <<"other">>, pinned |-> {}, contracts |-> <<OtherContract>>,
     privilegedContractAddresses |-> <<1>>, pinnedCodeIDs |-> <<1>>]

Plain ==
    [mode |-> "seed", bondDenom |-> "utgd", minGasPrices |-> TRUE, validators |-> {},
     twasm |-> NoContracts, funds |-> <<>>, bal |-> Balances(5, 3),
     engagement |-> <<Member(a), Member(b)>>,
     gentxs |-> <<GenTx(a, k1, 1, 1), GenTx(b, k2, 1, 0)>>,
     initialPoints |-> 2, minDelegation |-> 2,
     halflife |-> 4, oc |-> Circle(<<a>>), ap |-> Circle(<<a, b>>),
     poolRules |-> Rules, votingRules |-> Rules,
     stake |-> [minBond |-> 1, tokensPerPoint |-> 1, unbondingPeriod |-> 4],
     mixer |-> [maxPoints |-> 1, s |-> 1, p |-> 1],
     valset |-> [verifyValidators |-> FALSE, maxValidators |-> 2, epochLength |-> 2, scaling |-> 1,
                 offlineJailDuration |-> 2, communityPoolRewardRatio |-> 5,
                 engagementRewardRatio |-> 45, validatorRewardRatio |-> 50,
                 feePercentage |-> 1, rewardDenom |-> "utgd"]]

Memberships ==
    {[Plain EXCEPT !.engagement = e, !.oc = Circle(o), !.ap = Circle(m), !.gentxs = g, !.bal = n]
     : e \in {<<Member(a)>>, <<Member(a), Member(b)>>},
       o \in {<<>>, <<a>>, <<b, a>>, <<a, a>>},
       m \in {<<a>>, <<a, b>>},
       g \in {<<>>, <<GenTx(a, k1, 2, 0)>>, <<GenTx(a, k1, 1, 1), GenTx(b, k2, 1, 0)>>,
              <<GenTx(a, k1, 1, 0), GenTx(b, k1, 1, 0)>>},
       n \in {Balances(3, 1), Balances(4, 2), Balances(5, 3)}}

Variations ==
    {[Plain EXCEPT !.minGasPrices = FALSE],
     [Plain EXCEPT !.twasm = OneContract, !.funds = <<0>>],
     [Plain EXCEPT !.twasm.privilegedContractAddresses = <<1>>],
     [Plain EXCEPT !.twasm.pinnedCodeIDs = <<1>>],
     [Plain EXCEPT !.halflife = 3],
     [Plain EXCEPT !.stake.unbondingPeriod = 3],
     [Plain EXCEPT !.stake.minBond = 2],
     [Plain EXCEPT !.stake.minBond = 3],
     [Plain EXCEPT !.valset.epochLength = 3],
     [Plain EXCEPT !.valset.offlineJailDuration = 1],
     [Plain EXCEPT !.valset.maxValidators = 1],
     [Plain EXCEPT !.valset.engagementRewardRatio = 40],
     [Plain EXCEPT !.valset.engagementRewardRatio = 0, !.valset.validatorRewardRatio = 95],
     [Plain EXCEPT !.valset.communityPoolRewardRatio = 0, !.valset.validatorRewardRatio = 55],
     [Plain EXCEPT !.valset.communityPoolRewardRatio = -5, !.valset.validatorRewardRatio = 60],
     [Plain EXCEPT !.valset.validatorRewardRatio = 0, !.valset.engagementRewardRatio = 95],
     [Plain EXCEPT !.valset.rewardDenom = "other"],
     [Plain EXCEPT !.oc.denom = "other"],
     [Plain EXCEPT !.ap.denom = "other"],
     [Plain EXCEPT !.ap.waitingPeriod = 1],
     [Plain EXCEPT !.oc.escrow = 0],
     [Plain EXCEPT !.oc.nameLength = 101],
     [Plain EXCEPT !.oc.rules.quorum = 0],
     [Plain EXCEPT !.ap.rules.threshold = 49],
     [Plain EXCEPT !.mixer.s = 0]}

MCSeedDocs == Memberships \cup Variations
=============================================================================
