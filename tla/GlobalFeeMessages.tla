-------------------------- MODULE GlobalFeeMessages --------------------------
(***************************************************************************)
(* The messages of x/globalfee/types/*.pb.go.                              *)
(*                                                                         *)
(* XReads is the switch of X.Unmarshal: for every field number the wire    *)
(* type it insists on and what it does with the content.  XWrites is       *)
(* X.MarshalToSizedBuffer in the order of the bytes (the code fills its    *)
(* buffer from the end): the tags it writes and under which test.  XSizes  *)
(* is X.Size: the fields it counts and under which test.                   *)
(***************************************************************************)
EXTENDS ProtoMessage

\* GenesisState: Params
GlobalFeeGenesisStateReads == <<One("GlobalFeeParams")>>
GlobalFeeGenesisStateWrites == <<Always(10)>>
GlobalFeeGenesisStateSizes == <<CountAlways(1)>>

\* Params: MinimumGasPrices
GlobalFeeParamsReads == <<Repeated("External")>>
GlobalFeeParamsWrites == <<NonZero(10)>>
GlobalFeeParamsSizes == <<CountSet(1)>>

\* QueryMinimumGasPricesRequest has no fields.
QueryMinimumGasPricesRequestReads == <<>>
QueryMinimumGasPricesRequestWrites == <<>>
QueryMinimumGasPricesRequestSizes == <<>>

\* QueryMinimumGasPricesResponse: MinimumGasPrices
QueryMinimumGasPricesResponseReads == <<Repeated("External")>>
QueryMinimumGasPricesResponseWrites == <<NonZero(10)>>
QueryMinimumGasPricesResponseSizes == <<CountSet(1)>>

GlobalFeeReads == [
    GlobalFeeGenesisState |-> GlobalFeeGenesisStateReads,
    GlobalFeeParams |-> GlobalFeeParamsReads,
    QueryMinimumGasPricesRequest |-> QueryMinimumGasPricesRequestReads,
    QueryMinimumGasPricesResponse |-> QueryMinimumGasPricesResponseReads]

GlobalFeeWrites == [
    GlobalFeeGenesisState |-> GlobalFeeGenesisStateWrites,
    GlobalFeeParams |-> GlobalFeeParamsWrites,
    QueryMinimumGasPricesRequest |-> QueryMinimumGasPricesRequestWrites,
    QueryMinimumGasPricesResponse |-> QueryMinimumGasPricesResponseWrites]

GlobalFeeSizes == [
    GlobalFeeGenesisState |-> GlobalFeeGenesisStateSizes,
    GlobalFeeParams |-> GlobalFeeParamsSizes,
    QueryMinimumGasPricesRequest |-> QueryMinimumGasPricesRequestSizes,
    QueryMinimumGasPricesResponse |-> QueryMinimumGasPricesResponseSizes]
=============================================================================
