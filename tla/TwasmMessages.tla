---------------------------- MODULE TwasmMessages ----------------------------
(***************************************************************************)
(* The messages of x/twasm/types/*.pb.go.                                  *)
(*                                                                         *)
(* XReads is the switch of X.Unmarshal: for every field number the wire    *)
(* type it insists on and what it does with the content.  XWrites is       *)
(* X.MarshalToSizedBuffer in the order of the bytes (the code fills its    *)
(* buffer from the end): the tags it writes and under which test.  XSizes  *)
(* is X.Size: the fields it counts and under which test.                   *)
(***************************************************************************)
EXTENDS ProtoMessage

\* PetriContractDetails: RegisteredPrivileges
PetriContractDetailsReads == <<Repeated("RegisteredPrivilege")>>
PetriContractDetailsWrites == <<NonZero(10)>>
PetriContractDetailsSizes == <<CountSet(1)>>

\* RegisteredPrivilege: Position, PrivilegeType
RegisteredPrivilegeReads == <<Uint32, Text>>
RegisteredPrivilegeWrites == <<NonZero(8), NonZero(18)>>
RegisteredPrivilegeSizes == <<CountSet(1), CountSet(2)>>

\* GenesisState: Params, Codes, Contracts, Sequences, GenMsgs,
\* PrivilegedContractAddresses, PinnedCodeIDs
TwasmGenesisStateReads ==
    <<External, Repeated("External"), Repeated("Contract"),
      Repeated("External"), Repeated("External"), Repeated("text"), Packed>>
TwasmGenesisStateWrites ==
    <<Always(10), NonZero(18), NonZero(26), NonZero(34), NonZero(42),
      NonZero(50), NonZero(58)>>
TwasmGenesisStateSizes ==
    <<CountAlways(1), CountSet(2), CountSet(3), CountSet(4), CountSet(5),
      CountSet(6), CountSet(7)>>

\* Contract: ContractAddress, ContractInfo, KvModel, CustomModel
ContractReads == <<Text, External, Choice("KVModel"), Choice("CustomModel")>>
ContractKvModelWrites == <<NonZero(26)>>
ContractCustomModelWrites == <<NonZero(34)>>
ContractWrites ==
    <<NonZero(10), Always(18)>> \o ContractKvModelWrites \o
      ContractCustomModelWrites
ContractKvModelSizes == <<CountSet(3)>>
ContractCustomModelSizes == <<CountSet(4)>>
ContractSizes ==
    <<CountSet(1), CountAlways(2)>> \o ContractKvModelSizes \o
      ContractCustomModelSizes

\* KVModel: Models
KVModelReads == <<Repeated("External")>>
KVModelWrites == <<NonZero(10)>>
KVModelSizes == <<CountSet(1)>>

\* CustomModel: Msg
CustomModelReads == 5 :> Text
CustomModelWrites == <<NonZero(42)>>
CustomModelSizes == <<CountSet(5)>>

\* PromoteToPrivilegedContractProposal: Title, Description, Contract
PromoteToPrivilegedContractProposalReads == <<Text, Text, Text>>
PromoteToPrivilegedContractProposalWrites ==
    <<NonZero(10), NonZero(18), NonZero(26)>>
PromoteToPrivilegedContractProposalSizes ==
    <<CountSet(1), CountSet(2), CountSet(3)>>

\* DemotePrivilegedContractProposal: Title, Description, Contract
DemotePrivilegedContractProposalReads == <<Text, Text, Text>>
DemotePrivilegedContractProposalWrites ==
    <<NonZero(10), NonZero(18), NonZero(26)>>
DemotePrivilegedContractProposalSizes ==
    <<CountSet(1), CountSet(2), CountSet(3)>>

\* QueryPrivilegedContractsRequest has no fields.
QueryPrivilegedContractsRequestReads == <<>>
QueryPrivilegedContractsRequestWrites == <<>>
QueryPrivilegedContractsRequestSizes == <<>>

\* QueryPrivilegedContractsResponse: Contracts
QueryPrivilegedContractsResponseReads == <<Repeated("text")>>
QueryPrivilegedContractsResponseWrites == <<NonZero(10)>>
QueryPrivilegedContractsResponseSizes == <<CountSet(1)>>

\* QueryContractsByPrivilegeTypeRequest: PrivilegeType
QueryContractsByPrivilegeTypeRequestReads == <<Text>>
QueryContractsByPrivilegeTypeRequestWrites == <<NonZero(10)>>
QueryContractsByPrivilegeTypeRequestSizes == <<CountSet(1)>>

\* QueryContractsByPrivilegeTypeResponse: Contracts
QueryContractsByPrivilegeTypeResponseReads == <<Repeated("text")>>
QueryContractsByPrivilegeTypeResponseWrites == <<NonZero(10)>>
QueryContractsByPrivilegeTypeResponseSizes == <<CountSet(1)>>

TwasmReads == [
    PetriContractDetails |-> PetriContractDetailsReads,
    RegisteredPrivilege |-> RegisteredPrivilegeReads,
    TwasmGenesisState |-> TwasmGenesisStateReads,
    Contract |-> ContractReads,
    KVModel |-> KVModelReads,
    CustomModel |-> CustomModelReads,
    PromoteToPrivilegedContractProposal |-> PromoteToPrivilegedContractProposalReads,
    DemotePrivilegedContractProposal |-> DemotePrivilegedContractProposalReads,
    QueryPrivilegedContractsRequest |-> QueryPrivilegedContractsRequestReads,
    QueryPrivilegedContractsResponse |-> QueryPrivilegedContractsResponseReads,
    QueryContractsByPrivilegeTypeRequest |-> QueryContractsByPrivilegeTypeRequestReads,
    QueryContractsByPrivilegeTypeResponse |-> QueryContractsByPrivilegeTypeResponseReads]

TwasmWrites == [
    PetriContractDetails |-> PetriContractDetailsWrites,
    RegisteredPrivilege |-> RegisteredPrivilegeWrites,
    TwasmGenesisState |-> TwasmGenesisStateWrites,
    Contract |-> ContractWrites,
    KVModel |-> KVModelWrites,
    CustomModel |-> CustomModelWrites,
    PromoteToPrivilegedContractProposal |-> PromoteToPrivilegedContractProposalWrites,
    DemotePrivilegedContractProposal |-> DemotePrivilegedContractProposalWrites,
    QueryPrivilegedContractsRequest |-> QueryPrivilegedContractsRequestWrites,
    QueryPrivilegedContractsResponse |-> QueryPrivilegedContractsResponseWrites,
    QueryContractsByPrivilegeTypeRequest |-> QueryContractsByPrivilegeTypeRequestWrites,
    QueryContractsByPrivilegeTypeResponse |-> QueryContractsByPrivilegeTypeResponseWrites]

TwasmSizes == [
    PetriContractDetails |-> PetriContractDetailsSizes,
    RegisteredPrivilege |-> RegisteredPrivilegeSizes,
    TwasmGenesisState |-> TwasmGenesisStateSizes,
    Contract |-> ContractSizes,
    KVModel |-> KVModelSizes,
    CustomModel |-> CustomModelSizes,
    PromoteToPrivilegedContractProposal |-> PromoteToPrivilegedContractProposalSizes,
    DemotePrivilegedContractProposal |-> DemotePrivilegedContractProposalSizes,
    QueryPrivilegedContractsRequest |-> QueryPrivilegedContractsRequestSizes,
    QueryPrivilegedContractsResponse |-> QueryPrivilegedContractsResponseSizes,
    QueryContractsByPrivilegeTypeRequest |-> QueryContractsByPrivilegeTypeRequestSizes,
    QueryContractsByPrivilegeTypeResponse |-> QueryContractsByPrivilegeTypeResponseSizes]
=============================================================================
