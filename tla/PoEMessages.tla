----------------------------- MODULE PoEMessages -----------------------------
(***************************************************************************)
(* The messages of x/poe/types/*.pb.go.                                    *)
(*                                                                         *)
(* XReads is the switch of X.Unmarshal: for every field number the wire    *)
(* type it insists on and what it does with the content.  XWrites is       *)
(* X.MarshalToSizedBuffer in the order of the bytes (the code fills its    *)
(* buffer from the end): the tags it writes and under which test.  XSizes  *)
(* is X.Size: the fields it counts and under which test.                   *)
(***************************************************************************)
EXTENDS ProtoMessage

\* GenesisState: Params, SeedContracts, ImportDump
PoEGenesisStateReads ==
    <<One("PoEParams"), Choice("SeedContracts"), Choice("ImportDump")>>
GenesisStateSeedContractsWrites == <<NonZero(18)>>
GenesisStateImportDumpWrites == <<NonZero(26)>>
PoEGenesisStateWrites ==
    <<Always(10)>> \o GenesisStateSeedContractsWrites \o
      GenesisStateImportDumpWrites
GenesisStateSeedContractsSizes == <<CountSet(2)>>
GenesisStateImportDumpSizes == <<CountSet(3)>>
PoEGenesisStateSizes ==
    <<CountAlways(1)>> \o GenesisStateSeedContractsSizes \o
      GenesisStateImportDumpSizes

\* ImportDump: Contracts
ImportDumpReads == <<Repeated("PoEContract")>>
ImportDumpWrites == <<NonZero(10)>>
ImportDumpSizes == <<CountSet(1)>>

\* SeedContracts: GenTxs, BootstrapAccountAddress, Engagement,
\* StakeContractConfig, ValsetContractConfig, EngagementContractConfig,
\* BondDenom, OversightCommitteeContractConfig, CommunityPoolContractConfig,
\* ValidatorVotingContractConfig, OversightCommunityMembers,
\* ArbiterPoolMembers, ArbiterPoolContractConfig, MixerContractConfig
SeedContractsReads ==
    <<Repeated("text"), Text, Repeated("TG4Member"),
      Optional("StakeContractConfig"), Optional("ValsetContractConfig"),
      Optional("EngagementContractConfig"), Text,
      Optional("OversightCommitteeContractConfig"),
      Optional("CommunityPoolContractConfig"),
      Optional("ValidatorVotingContractConfig"), Repeated("text"),
      Repeated("text"), Optional("ArbiterPoolContractConfig"),
      Optional("MixerContractConfig")>>
SeedContractsWrites ==
    <<NonZero(10), NonZero(18), NonZero(26), NonZero(34), NonZero(42),
      NonZero(50), NonZero(58), NonZero(66), NonZero(74), NonZero(82),
      NonZero(90), NonZero(98), NonZero(106), NonZero(114)>>
SeedContractsSizes ==
    <<CountSet(1), CountSet(2), CountSet(3), CountSet(4), CountSet(5),
      CountSet(6), CountSet(7), CountSet(8), CountSet(9), CountSet(10),
      CountSet(11), CountSet(12), CountSet(13), CountSet(14)>>

\* MixerContractConfig: Sigmoid
MixerContractConfigReads == <<One("MixerContractConfigSigmoid")>>
MixerContractConfigWrites == <<Always(10)>>
MixerContractConfigSizes == <<CountAlways(1)>>

\* MixerContractConfig_Sigmoid: MaxPoints, P, S
MixerContractConfigSigmoidReads == <<Uint64, Dec, Dec>>
MixerContractConfigSigmoidWrites == <<NonZero(8), Always(18), Always(26)>>
MixerContractConfigSigmoidSizes ==
    <<CountSet(1), CountAlways(2), CountAlways(3)>>

\* StakeContractConfig: MinBond, TokensPerPoint, UnbondingPeriod,
\* ClaimAutoreturnLimit
StakeContractConfigReads == <<Uint64, Uint64, Duration, Uint32>>
StakeContractConfigWrites ==
    <<NonZero(8), NonZero(16), Always(26), NonZero(32)>>
StakeContractConfigSizes ==
    <<CountSet(1), CountSet(2), CountAlways(3), CountSet(4)>>

\* ValsetContractConfig: MinPoints, MaxValidators, EpochLength, EpochReward,
\* Scaling, FeePercentage, CommunityPoolRewardRatio, EngagementRewardRatio,
\* ValidatorRewardRatio, AutoUnjail, DoubleSignSlashRatio, VerifyValidators,
\* OfflineJailDuration
ValsetContractConfigReads ==
    <<Uint64, Uint32, Duration, External, Uint32, Dec, Dec, Dec, Dec, Bool,
      Dec, Bool, Duration>>
ValsetContractConfigWrites ==
    <<NonZero(8), NonZero(16), Always(26), Always(34), NonZero(40), Always(50),
      Always(58), Always(66), Always(74), NonZero(80), Always(90), NonZero(96),
      Always(106)>>
ValsetContractConfigSizes ==
    <<CountSet(1), CountSet(2), CountAlways(3), CountAlways(4), CountSet(5),
      CountAlways(6), CountAlways(7), CountAlways(8), CountAlways(9),
      CountSet(10), CountAlways(11), CountSet(12), CountAlways(13)>>

\* EngagementContractConfig: Halflife
EngagementContractConfigReads == <<Duration>>
EngagementContractConfigWrites == <<Always(10)>>
EngagementContractConfigSizes == <<CountAlways(1)>>

\* OversightCommitteeContractConfig: Name, EscrowAmount, VotingRules,
\* DenyListContractAddress
OversightCommitteeContractConfigReads ==
    <<Text, External, One("VotingRules"), Text>>
OversightCommitteeContractConfigWrites ==
    <<NonZero(10), Always(18), Always(26), NonZero(34)>>
OversightCommitteeContractConfigSizes ==
    <<CountSet(1), CountAlways(2), CountAlways(3), CountSet(4)>>

\* CommunityPoolContractConfig: VotingRules
CommunityPoolContractConfigReads == <<One("VotingRules")>>
CommunityPoolContractConfigWrites == <<Always(10)>>
CommunityPoolContractConfigSizes == <<CountAlways(1)>>

\* ValidatorVotingContractConfig: VotingRules
ValidatorVotingContractConfigReads == <<One("VotingRules")>>
ValidatorVotingContractConfigWrites == <<Always(10)>>
ValidatorVotingContractConfigSizes == <<CountAlways(1)>>

\* PoEContract: ContractType, Address
PoEContractReads == <<Enum, Text>>
PoEContractWrites == <<NonZero(8), NonZero(18)>>
PoEContractSizes == <<CountSet(1), CountSet(2)>>

\* TG4Member: Address, Points
TG4MemberReads == <<Text, Uint64>>
TG4MemberWrites == <<NonZero(10), NonZero(16)>>
TG4MemberSizes == <<CountSet(1), CountSet(2)>>

\* VotingRules: VotingPeriod, Quorum, Threshold, AllowEndEarly
VotingRulesReads == <<Uint32, Dec, Dec, Bool>>
VotingRulesWrites == <<NonZero(8), Always(18), Always(26), NonZero(32)>>
VotingRulesSizes ==
    <<CountSet(1), CountAlways(2), CountAlways(3), CountSet(4)>>

\* ArbiterPoolContractConfig: Name, EscrowAmount, VotingRules,
\* DenyListContractAddress, DisputeCost, WaitingPeriod
ArbiterPoolContractConfigReads ==
    <<Text, External, One("VotingRules"), Text, External, Duration>>
ArbiterPoolContractConfigWrites ==
    <<NonZero(10), Always(18), Always(26), NonZero(34), Always(42),
      Always(50)>>
ArbiterPoolContractConfigSizes ==
    <<CountSet(1), CountAlways(2), CountAlways(3), CountSet(4), CountAlways(5),
      CountAlways(6)>>

\* Params: HistoricalEntries, InitialValEngagementPoints, MinDelegationAmounts
PoEParamsReads == <<Uint32, Uint64, Repeated("External")>>
PoEParamsWrites == <<NonZero(8), NonZero(16), NonZero(26)>>
PoEParamsSizes == <<CountSet(1), CountSet(2), CountSet(3)>>

\* QueryContractAddressRequest: ContractType
QueryContractAddressRequestReads == <<Enum>>
QueryContractAddressRequestWrites == <<NonZero(8)>>
QueryContractAddressRequestSizes == <<CountSet(1)>>

\* QueryContractAddressResponse: Address
QueryContractAddressResponseReads == <<Text>>
QueryContractAddressResponseWrites == <<NonZero(10)>>
QueryContractAddressResponseSizes == <<CountSet(1)>>

\* QueryUnbondingPeriodRequest has no fields.
QueryUnbondingPeriodRequestReads == <<>>
QueryUnbondingPeriodRequestWrites == <<>>
QueryUnbondingPeriodRequestSizes == <<>>

\* QueryUnbondingPeriodResponse: Time
QueryUnbondingPeriodResponseReads == <<Duration>>
QueryUnbondingPeriodResponseWrites == <<Always(10)>>
QueryUnbondingPeriodResponseSizes == <<CountAlways(1)>>

\* QueryValidatorDelegationRequest: ValidatorAddr
QueryValidatorDelegationRequestReads == <<Text>>
QueryValidatorDelegationRequestWrites == <<NonZero(10)>>
QueryValidatorDelegationRequestSizes == <<CountSet(1)>>

\* QueryValidatorDelegationResponse: Balance
QueryValidatorDelegationResponseReads == <<External>>
QueryValidatorDelegationResponseWrites == <<Always(10)>>
QueryValidatorDelegationResponseSizes == <<CountAlways(1)>>

\* QueryValidatorUnbondingDelegationsRequest: ValidatorAddr, Pagination
QueryValidatorUnbondingDelegationsRequestReads ==
    <<Text, Optional("External")>>
QueryValidatorUnbondingDelegationsRequestWrites == <<NonZero(10), NonZero(18)>>
QueryValidatorUnbondingDelegationsRequestSizes == <<CountSet(1), CountSet(2)>>

\* QueryValidatorUnbondingDelegationsResponse: Entries, Pagination
QueryValidatorUnbondingDelegationsResponseReads ==
    <<Repeated("External"), Optional("External")>>
QueryValidatorUnbondingDelegationsResponseWrites ==
    <<NonZero(10), NonZero(18)>>
QueryValidatorUnbondingDelegationsResponseSizes == <<CountSet(1), CountSet(2)>>

\* QueryValidatorOutstandingRewardRequest: ValidatorAddress
QueryValidatorOutstandingRewardRequestReads == <<Text>>
QueryValidatorOutstandingRewardRequestWrites == <<NonZero(10)>>
QueryValidatorOutstandingRewardRequestSizes == <<CountSet(1)>>

\* QueryValidatorOutstandingRewardResponse: Reward
QueryValidatorOutstandingRewardResponseReads == <<External>>
QueryValidatorOutstandingRewardResponseWrites == <<Always(10)>>
QueryValidatorOutstandingRewardResponseSizes == <<CountAlways(1)>>

\* QueryValidatorEngagementRewardRequest: ValidatorAddress
QueryValidatorEngagementRewardRequestReads == <<Text>>
QueryValidatorEngagementRewardRequestWrites == <<NonZero(10)>>
QueryValidatorEngagementRewardRequestSizes == <<CountSet(1)>>

\* QueryValidatorEngagementRewardResponse: Reward
QueryValidatorEngagementRewardResponseReads == <<External>>
QueryValidatorEngagementRewardResponseWrites == <<Always(10)>>
QueryValidatorEngagementRewardResponseSizes == <<CountAlways(1)>>

\* MsgCreateValidator: Description, OperatorAddress, Pubkey, Amount,
\* VestingAmount
MsgCreateValidatorReads ==
    1 :> External @@ 4 :> Text @@ 6 :> Optional("External") @@ 7 :> External @@
      8 :> External
MsgCreateValidatorWrites ==
    <<Always(10), NonZero(34), NonZero(50), Always(58), Always(66)>>
MsgCreateValidatorSizes ==
    <<CountAlways(1), CountSet(4), CountSet(6), CountAlways(7),
      CountAlways(8)>>

\* MsgCreateValidatorResponse has no fields.
MsgCreateValidatorResponseReads == <<>>
MsgCreateValidatorResponseWrites == <<>>
MsgCreateValidatorResponseSizes == <<>>

\* MsgUpdateValidator: Description, OperatorAddress
MsgUpdateValidatorReads == <<External, Text>>
MsgUpdateValidatorWrites == <<Always(10), NonZero(18)>>
MsgUpdateValidatorSizes == <<CountAlways(1), CountSet(2)>>

\* MsgUpdateValidatorResponse has no fields.
MsgUpdateValidatorResponseReads == <<>>
MsgUpdateValidatorResponseWrites == <<>>
MsgUpdateValidatorResponseSizes == <<>>

\* MsgDelegate: OperatorAddress, Amount, VestingAmount
MsgDelegateReads == <<Text, External, External>>
MsgDelegateWrites == <<NonZero(10), Always(18), Always(26)>>
MsgDelegateSizes == <<CountSet(1), CountAlways(2), CountAlways(3)>>

\* MsgDelegateResponse has no fields.
MsgDelegateResponseReads == <<>>
MsgDelegateResponseWrites == <<>>
MsgDelegateResponseSizes == <<>>

\* MsgUndelegate: OperatorAddress, Amount
MsgUndelegateReads == <<Text, External>>
MsgUndelegateWrites == <<NonZero(10), Always(18)>>
MsgUndelegateSizes == <<CountSet(1), CountAlways(2)>>

\* MsgUndelegateResponse: CompletionTime
MsgUndelegateResponseReads == <<Time>>
MsgUndelegateResponseWrites == <<Always(10)>>
MsgUndelegateResponseSizes == <<CountAlways(1)>>

PoEReads == [
    PoEGenesisState |-> PoEGenesisStateReads,
    ImportDump |-> ImportDumpReads,
    SeedContracts |-> SeedContractsReads,
    MixerContractConfig |-> MixerContractConfigReads,
    MixerContractConfigSigmoid |-> MixerContractConfigSigmoidReads,
    StakeContractConfig |-> StakeContractConfigReads,
    ValsetContractConfig |-> ValsetContractConfigReads,
    EngagementContractConfig |-> EngagementContractConfigReads,
    OversightCommitteeContractConfig |-> OversightCommitteeContractConfigReads,
    CommunityPoolContractConfig |-> CommunityPoolContractConfigReads,
    ValidatorVotingContractConfig |-> ValidatorVotingContractConfigReads,
    PoEContract |-> PoEContractReads,
    TG4Member |-> TG4MemberReads,
    VotingRules |-> VotingRulesReads,
    ArbiterPoolContractConfig |-> ArbiterPoolContractConfigReads,
    PoEParams |-> PoEParamsReads,
    QueryContractAddressRequest |-> QueryContractAddressRequestReads,
    QueryContractAddressResponse |-> QueryContractAddressResponseReads,
    QueryUnbondingPeriodRequest |-> QueryUnbondingPeriodRequestReads,
    QueryUnbondingPeriodResponse |-> QueryUnbondingPeriodResponseReads,
    QueryValidatorDelegationRequest |-> QueryValidatorDelegationRequestReads,
    QueryValidatorDelegationResponse |-> QueryValidatorDelegationResponseReads,
    QueryValidatorUnbondingDelegationsRequest |-> QueryValidatorUnbondingDelegationsRequestReads,
    QueryValidatorUnbondingDelegationsResponse |-> QueryValidatorUnbondingDelegationsResponseReads,
    QueryValidatorOutstandingRewardRequest |-> QueryValidatorOutstandingRewardRequestReads,
    QueryValidatorOutstandingRewardResponse |-> QueryValidatorOutstandingRewardResponseReads,
    QueryValidatorEngagementRewardRequest |-> QueryValidatorEngagementRewardRequestReads,
    QueryValidatorEngagementRewardResponse |-> QueryValidatorEngagementRewardResponseReads,
    MsgCreateValidator |-> MsgCreateValidatorReads,
    MsgCreateValidatorResponse |-> MsgCreateValidatorResponseReads,
    MsgUpdateValidator |-> MsgUpdateValidatorReads,
    MsgUpdateValidatorResponse |-> MsgUpdateValidatorResponseReads,
    MsgDelegate |-> MsgDelegateReads,
    MsgDelegateResponse |-> MsgDelegateResponseReads,
    MsgUndelegate |-> MsgUndelegateReads,
    MsgUndelegateResponse |-> MsgUndelegateResponseReads]

PoEWrites == [
    PoEGenesisState |-> PoEGenesisStateWrites,
    ImportDump |-> ImportDumpWrites,
    SeedContracts |-> SeedContractsWrites,
    MixerContractConfig |-> MixerContractConfigWrites,
    MixerContractConfigSigmoid |-> MixerContractConfigSigmoidWrites,
    StakeContractConfig |-> StakeContractConfigWrites,
    ValsetContractConfig |-> ValsetContractConfigWrites,
    EngagementContractConfig |-> EngagementContractConfigWrites,
    OversightCommitteeContractConfig |-> OversightCommitteeContractConfigWrites,
    CommunityPoolContractConfig |-> CommunityPoolContractConfigWrites,
    ValidatorVotingContractConfig |-> ValidatorVotingContractConfigWrites,
    PoEContract |-> PoEContractWrites,
    TG4Member |-> TG4MemberWrites,
    VotingRules |-> VotingRulesWrites,
    ArbiterPoolContractConfig |-> ArbiterPoolContractConfigWrites,
    PoEParams |-> PoEParamsWrites,
    QueryContractAddressRequest |-> QueryContractAddressRequestWrites,
    QueryContractAddressResponse |-> QueryContractAddressResponseWrites,
    QueryUnbondingPeriodRequest |-> QueryUnbondingPeriodRequestWrites,
    QueryUnbondingPeriodResponse |-> QueryUnbondingPeriodResponseWrites,
    QueryValidatorDelegationRequest |-> QueryValidatorDelegationRequestWrites,
    QueryValidatorDelegationResponse |-> QueryValidatorDelegationResponseWrites,
    QueryValidatorUnbondingDelegationsRequest |-> QueryValidatorUnbondingDelegationsRequestWrites,
    QueryValidatorUnbondingDelegationsResponse |-> QueryValidatorUnbondingDelegationsResponseWrites,
    QueryValidatorOutstandingRewardRequest |-> QueryValidatorOutstandingRewardRequestWrites,
    QueryValidatorOutstandingRewardResponse |-> QueryValidatorOutstandingRewardResponseWrites,
    QueryValidatorEngagementRewardRequest |-> QueryValidatorEngagementRewardRequestWrites,
    QueryValidatorEngagementRewardResponse |-> QueryValidatorEngagementRewardResponseWrites,
    MsgCreateValidator |-> MsgCreateValidatorWrites,
    MsgCreateValidatorResponse |-> MsgCreateValidatorResponseWrites,
    MsgUpdateValidator |-> MsgUpdateValidatorWrites,
    MsgUpdateValidatorResponse |-> MsgUpdateValidatorResponseWrites,
    MsgDelegate |-> MsgDelegateWrites,
    MsgDelegateResponse |-> MsgDelegateResponseWrites,
    MsgUndelegate |-> MsgUndelegateWrites,
    MsgUndelegateResponse |-> MsgUndelegateResponseWrites]

PoESizes == [
    PoEGenesisState |-> PoEGenesisStateSizes,
    ImportDump |-> ImportDumpSizes,
    SeedContracts |-> SeedContractsSizes,
    MixerContractConfig |-> MixerContractConfigSizes,
    MixerContractConfigSigmoid |-> MixerContractConfigSigmoidSizes,
    StakeContractConfig |-> StakeContractConfigSizes,
    ValsetContractConfig |-> ValsetContractConfigSizes,
    EngagementContractConfig |-> EngagementContractConfigSizes,
    OversightCommitteeContractConfig |-> OversightCommitteeContractConfigSizes,
    CommunityPoolContractConfig |-> CommunityPoolContractConfigSizes,
    ValidatorVotingContractConfig |-> ValidatorVotingContractConfigSizes,
    PoEContract |-> PoEContractSizes,
    TG4Member |-> TG4MemberSizes,
    VotingRules |-> VotingRulesSizes,
    ArbiterPoolContractConfig |-> ArbiterPoolContractConfigSizes,
    PoEParams |-> PoEParamsSizes,
    QueryContractAddressRequest |-> QueryContractAddressRequestSizes,
    QueryContractAddressResponse |-> QueryContractAddressResponseSizes,
    QueryUnbondingPeriodRequest |-> QueryUnbondingPeriodRequestSizes,
    QueryUnbondingPeriodResponse |-> QueryUnbondingPeriodResponseSizes,
    QueryValidatorDelegationRequest |-> QueryValidatorDelegationRequestSizes,
    QueryValidatorDelegationResponse |-> QueryValidatorDelegationResponseSizes,
    QueryValidatorUnbondingDelegationsRequest |-> QueryValidatorUnbondingDelegationsRequestSizes,
    QueryValidatorUnbondingDelegationsResponse |-> QueryValidatorUnbondingDelegationsResponseSizes,
    QueryValidatorOutstandingRewardRequest |-> QueryValidatorOutstandingRewardRequestSizes,
    QueryValidatorOutstandingRewardResponse |-> QueryValidatorOutstandingRewardResponseSizes,
    QueryValidatorEngagementRewardRequest |-> QueryValidatorEngagementRewardRequestSizes,
    QueryValidatorEngagementRewardResponse |-> QueryValidatorEngagementRewardResponseSizes,
    MsgCreateValidator |-> MsgCreateValidatorSizes,
    MsgCreateValidatorResponse |-> MsgCreateValidatorResponseSizes,
    MsgUpdateValidator |-> MsgUpdateValidatorSizes,
    MsgUpdateValidatorResponse |-> MsgUpdateValidatorResponseSizes,
    MsgDelegate |-> MsgDelegateSizes,
    MsgDelegateResponse |-> MsgDelegateResponseSizes,
    MsgUndelegate |-> MsgUndelegateSizes,
    MsgUndelegateResponse |-> MsgUndelegateResponseSizes]
=============================================================================
