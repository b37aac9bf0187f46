---------------------------- MODULE TwasmGenesis ----------------------------
(***************************************************************************)
(* Export and import of the privileged contracts, and the parts of the     *)
(* twasm keeper that run while a chain is set up.                          *)
(*                                                                         *)
(* Genesis runs before the first block and nothing interleaves with it, so *)
(* every function of the keeper is an operator from a store to the set of  *)
(* stores it can leave; the empty set is an error or a panic, both of      *)
(* which end InitChain.  A store is a record with (at least) the contract  *)
(* infos, in the order of the addresses, the pinned codes, the flags of    *)
(* the privileged contracts and the secondary index of their privileges.   *)
(* TwasmPrivileges models the same keeper while blocks are executed.       *)
(***************************************************************************)
EXTENDS Integers, Sequences, FiniteSetsExt

CONSTANTS
    PrivilegeTypes,
    SingletonTypes,   \* types only one contract may hold
    Exporter,         \* the type state_exporter_importer
    MaxPos,           \* largest position, math.MaxUint8 in the code
    PromoteRequests,  \* what a wasm code asks for in its Promoted handler
    ImportRequests    \* what contracts may ask for in their Import handlers

ASSUME GenesisTypesAssumption ==
    /\ SingletonTypes \cup {Exporter} \subseteq PrivilegeTypes
    /\ ImportRequests \subseteq Seq(PrivilegeTypes)
    /\ <<>> \in ImportRequests
    /\ \A wasm \in DOMAIN PromoteRequests : PromoteRequests[wasm] \in Seq(PrivilegeTypes)
    /\ MaxPos \in Nat

Entry == [type : PrivilegeTypes, position : 1 .. MaxPos]
Key(t, p) == [type |-> t, position |-> p]

(* Address 0 stands for a key that is not set.                             *)
NoIndex == [e \in Entry |-> 0]

(* The state of a contract without any entry.                              *)
NoData == [label |-> "none"]

(* An operation that can fail, applied to every outcome of the one before. *)
Then(stores, Op(_)) == UNION {Op(s) : s \in stores}

HasRegisteredPrivilege(details, t) == \E i \in DOMAIN details : details[i].type = t

Registered(s, t) == {p \in 1 .. MaxPos : s.index[Key(t, p)] # 0}

PinCode(s, code) == [s EXCEPT !.pinned = @ \cup {code}]

-----------------------------------------------------------------------------
(* handlePrivilege, Request: a second registration changes nothing, a      *)
(* taken singleton is an error, an overflowing position is a panic.        *)
RequestPrivilege(s, c, t) ==
    LET last == Max(Registered(s, t) \cup {0}) IN
    IF c \notin s.privileged THEN {}
    ELSE IF HasRegisteredPrivilege(s.infos[c].details, t) THEN {s}
    ELSE IF last = MaxPos \/ (t \in SingletonTypes /\ last # 0) THEN {}
    ELSE {[s EXCEPT !.index[Key(t, last + 1)] = c,
                    !.infos[c].details = Append(@, Key(t, last + 1))]}

(* A call of contract c that sends these messages.                         *)
Sudo(s, c, types) ==
    LET sent[n \in 0 .. Len(types)] ==
            IF n = 0 THEN {s}
            ELSE Then(sent[n - 1], LAMBDA r : RequestPrivilege(r, c, types[n]))
    IN  sent[Len(types)]

SetPrivileged(s, c) ==
    IF c \notin DOMAIN s.infos THEN {}
    ELSE Sudo([PinCode(s, s.infos[c].code) EXCEPT !.privileged = @ \cup {c}],
              c, PromoteRequests[s.codes[s.infos[c].code]])

(* The removal loop of UnsetPrivileged.  It ranges over the length of the  *)
(* list it started with, but reads from the array that                     *)
(* RemoveRegisteredPrivilege shortens by shifting its tail.                *)
RemoveRegistered(l, e) ==
    IF e \notin Range(SubSeq(l.list, 1, l.len)) THEN l
    ELSE LET i == Min({j \in 1 .. l.len : l.list[j] = e}) IN
         [list |-> [j \in DOMAIN l.list |->
                       IF j >= i /\ j < l.len THEN l.list[j + 1] ELSE l.list[j]],
          len  |-> l.len - 1,
          gone |-> l.gone \cup {e}]

RemovalLoop(details) ==
    LET after[n \in 0 .. Len(details)] ==
            IF n = 0 THEN [list |-> details, len |-> Len(details), gone |-> {}]
            ELSE LET l == after[n - 1] IN RemoveRegistered(l, l.list[n])
    IN  after[Len(details)]

(* The Demoted handlers of the PoE contracts send no messages.             *)
UnsetPrivileged(s, c) ==
    LET code == s.infos[c].code
        loop == RemovalLoop(s.infos[c].details)
        only == \A d \in DOMAIN s.infos : s.infos[d].code = code => d = c
    IN  [s EXCEPT !.pinned = IF only THEN @ \ {code} ELSE @,
                  !.privileged = @ \ {c},
                  !.index = [e \in Entry |-> IF e \in loop.gone THEN 0 ELSE @[e]],
                  !.infos[c].details = SubSeq(loop.list, 1, loop.len)]

-----------------------------------------------------------------------------
(* Mutant: the contract is imported without its flag.                      *)
ImportUnflagged(s, c) ==
    {[PinCode(s, s.infos[c].code) EXCEPT
        !.index = [e \in Entry |-> IF e \in Range(s.infos[c].details) THEN c ELSE @[e]]]}

(* A key that exists already is an error.                                  *)
importPrivileged(s, c) ==
    LET entries == Range(s.infos[c].details) IN
    IF \E e \in entries : s.index[e] # 0 THEN {}
    ELSE {[PinCode(s, s.infos[c].code) EXCEPT
              !.privileged = @ \cup {c},
              !.index = [e \in Entry |-> IF e \in entries THEN c ELSE @[e]]]}

(* One round of the import.  The privileges come from the genesis file;    *)
(* a contract with custom state then gets its Import call, in which it may *)
(* ask for more, before the contracts behind it are imported.              *)
ImportContract(s, doc, c) ==
    LET details == doc.contracts[c].info.details IN
    IF details = <<>> THEN {s}
    ELSE Then(importPrivileged(s, c), LAMBDA r :
         IF ~HasRegisteredPrivilege(details, Exporter) THEN {r}
         ELSE IF doc.contracts[c].model.kind # "custom" THEN {}
         ELSE Sudo([r EXCEPT !.infos[c].data = doc.contracts[c].model.data], c,
                   doc.contracts[c].model.asks))

(* What the import of the wasm module restores: a custom model is left out.*)
RawWasmInfo(contract) ==
    [contract.info EXCEPT !.data = IF contract.model.kind = "kv" THEN contract.model.data ELSE NoData]

RawWasmState(s, doc) ==
    [s EXCEPT !.codes = doc.codes,
              !.pinned = doc.pinned,
              !.infos = [c \in DOMAIN doc.contracts |-> RawWasmInfo(doc.contracts[c])]]

(* GenesisState.ValidateBasic: addresses and codes that are named extra    *)
(* are named once and belong to the genesis file.                          *)
ValidateTwasmGenesis(doc) ==
    /\ IsInjective(doc.privilegedContractAddresses)
    /\ Range(doc.privilegedContractAddresses) \subseteq DOMAIN doc.contracts
    /\ IsInjective(doc.pinnedCodeIDs)
    /\ Range(doc.pinnedCodeIDs) \subseteq DOMAIN doc.codes

(* The loop over the contracts of the genesis file.                        *)
ImportAll(s, doc) ==
    LET imported[n \in 0 .. Len(doc.contracts)] ==
            IF n = 0 THEN {s} ELSE Then(imported[n - 1], LAMBDA r : ImportContract(r, doc, n))
    IN  imported[Len(doc.contracts)]

(* The loop over the contracts that the genesis file wants privileged.     *)
SetAllPrivileged(stores, addresses) ==
    LET promoted[n \in 0 .. Len(addresses)] ==
            IF n = 0 THEN stores
            ELSE Then(promoted[n - 1], LAMBDA r : SetPrivileged(r, addresses[n]))
    IN  promoted[Len(addresses)]

(* Import of the dumped privileges, promotion of the contracts that the    *)
(* genesis file names, and the codes it wants pinned.                      *)
InitTwasmGenesis(s, doc) ==
    IF Range(doc.pinnedCodeIDs) \subseteq DOMAIN doc.codes
    THEN {[r EXCEPT !.pinned = @ \cup Range(doc.pinnedCodeIDs)]
          : r \in SetAllPrivileged(ImportAll(RawWasmState(s, doc), doc),
                                   doc.privilegedContractAddresses)}
    ELSE {}

(* The state of a contract is in its model only.  A custom model is what   *)
(* the contract answers to the Export call; it decides what the contract   *)
(* will ask for when it is imported.                                       *)
ExportContract(info, asks) ==
    [info  |-> [info EXCEPT !.data = NoData],
     model |-> [kind |-> IF HasRegisteredPrivilege(info.details, Exporter)
                         THEN "custom" ELSE "kv",
                data |-> info.data,
                asks |-> asks]]

(* Flags and index are not exported: they follow from the details.         *)
ExportTwasmGenesis(s, asks) ==
    [codes     |-> s.codes,
     pinned    |-> s.pinned,
     contracts |-> [c \in DOMAIN s.infos |-> ExportContract(s.infos[c], asks)],
     privilegedContractAddresses |-> <<>>,
     pinnedCodeIDs |-> <<>>]
=============================================================================
