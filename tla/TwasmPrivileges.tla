--------------------------- MODULE TwasmPrivileges ---------------------------
(***************************************************************************)
(* The privileged contracts of x/twasm: which contracts carry the          *)
(* privileged flag, which privilege types they have registered, and the    *)
(* wasm codes pinned for them.                                             *)
(*                                                                         *)
(* A registration is stored twice.  The contract's own list lives in the   *)
(* extension of its ContractInfo ("details"), the secondary index maps     *)
(* (type, position) to the contract and is what the block callbacks        *)
(* iterate.  Every change happens while a contract is running: it sends    *)
(* messages to the chain (PetriHandler.DispatchMsg), among them governance *)
(* proposals that promote or demote a contract, and promotion and demotion *)
(* call into that contract again.  The running calls form a stack; each    *)
(* call works on a cached store that is dropped when the call fails, so    *)
(* every frame keeps the store it started from.                            *)
(***************************************************************************)
EXTENDS Integers, Sequences, FiniteSets

CONSTANTS
    Contracts,       \* contract addresses
    Codes,           \* uploaded wasm code ids
    PrivilegeTypes,  \* the registered privilege types
    SingletonTypes,  \* types only one contract may hold (validator_set_updater)
    GovExecutor,     \* the type gov_proposal_executor
    MaxPos,          \* largest position, math.MaxUint8 in the code
    MaxDepth,        \* bound: nested contract calls
    MaxGas,          \* bound: messages handled in one transaction
    None             \* absent key of a store

ASSUME TypesAssumption ==
    /\ SingletonTypes \subseteq PrivilegeTypes
    /\ GovExecutor \in PrivilegeTypes
    /\ None \notin Contracts
    /\ None \notin Codes

ASSUME BoundsAssumption ==
    /\ MaxPos \in Nat \ {0}
    /\ MaxDepth \in Nat
    /\ MaxGas \in Nat

VARIABLES
    codeOf,      \* ContractInfo.CodeID of every instantiated contract
    details,     \* PetriContractDetails.RegisteredPrivileges in the ContractInfo
    pinned,      \* codes pinned to the wasmvm cache
    privileged,  \* contracts with the privileged flag
    index,       \* secondary index: (type, position) -> contract
    stack,       \* running contract calls, the innermost one last
    loop,        \* the removal loop of UnsetPrivileged, used while it runs
    gas,         \* messages the current transaction can still pay for
    genesis      \* TRUE until the first block starts

store == <<codeOf, details, pinned, privileged, index>>
control == <<stack, loop, gas, genesis>>
vars == <<store, control>>

Positions == 1 .. MaxPos
Entry == [type : PrivilegeTypes, position : Positions]

Key(t, p) == [type |-> t, position |-> p]

Store == [codeOf     : [Contracts -> Codes \cup {None}],
          details    : [Contracts -> Seq(Entry)],
          pinned     : SUBSET Codes,
          privileged : SUBSET Contracts,
          index      : [Entry -> Contracts \cup {None}]]

Frame == [op       : {"run", "promote", "demote", "unset"},
          contract : Contracts,
          saved    : Store]

Loop == [entries : Seq(Entry), len : Nat, next : Nat]

NoLoop == [entries |-> <<>>, len |-> 0, next |-> 1]

(* Only values the stores can hold: positions fit the width of the index   *)
(* key (uint8), entries of the details name known privilege types.         *)
TypeOK ==
    /\ codeOf \in [Contracts -> Codes \cup {None}]
    /\ details \in [Contracts -> Seq(Entry)]
    /\ pinned \in SUBSET Codes
    /\ privileged \in SUBSET Contracts
    /\ index \in [Entry -> Contracts \cup {None}]
    /\ stack \in Seq(Frame)
    /\ loop \in Loop /\ loop.len <= Len(loop.entries) /\ loop.next >= 1
    /\ gas \in 0 .. MaxGas
    /\ genesis \in BOOLEAN

-----------------------------------------------------------------------------
(* Reading the stores.                                                      *)

HasRegisteredPrivilege(c, t) ==
    \E i \in 1 .. Len(details[c]) : details[c][i].type = t

Registered(t) == {p \in Positions : index[Key(t, p)] # None}

(* Mutant: the position before the first gap is taken for the last one.     *)
FirstGapPosition(t, pos) ==
    /\ 1 .. pos \subseteq Registered(t)
    /\ pos + 1 \notin Registered(t)

(* The reverse iterator of appendToPrivilegedContracts stops at the largest *)
(* position in use; the zero value stays when there is none.                *)
IsLastPosition(t, pos) ==
    \/ Registered(t) = {} /\ pos = 0
    \/ pos \in Registered(t) /\ \A q \in Registered(t) : q <= pos

(* Mutant: the position is wider than the key byte.                         *)
WidePosition(pos) == pos + 1

(* newPos := pos + 1, in uint8.                                             *)
NextPosition(pos) == (pos + 1) % (MaxPos + 1)

SingletonTaken(t) == t \in SingletonTypes /\ Registered(t) # {}

InstancesOf(code) == {c \in Contracts : codeOf[c] = code}

-----------------------------------------------------------------------------
(* Running contracts.                                                       *)

Idle == stack = <<>>
Top == stack[Len(stack)]
Caller == Top.contract
Running == ~Idle /\ Top.op # "unset"

Snapshot == [codeOf |-> codeOf, details |-> details, pinned |-> pinned,
             privileged |-> privileged, index |-> index]

Restore(s) ==
    /\ codeOf' = s.codeOf
    /\ details' = s.details
    /\ pinned' = s.pinned
    /\ privileged' = s.privileged
    /\ index' = s.index

Pop == [i \in 1 .. Len(stack) - 1 |-> stack[i]]

Push(op, c) ==
    /\ Len(stack) < MaxDepth
    /\ stack' = Append(stack, [op |-> op, contract |-> c, saved |-> Snapshot])

(* A message of the running contract, paid for with gas.                    *)
UseGas == Running /\ gas > 0 /\ gas' = gas - 1 /\ UNCHANGED genesis

(* A transaction or block callback starts a call with fresh gas, a running  *)
(* contract calls another one with what is left.                            *)
StartOrUseGas ==
    \/ Idle /\ ~genesis /\ gas' = MaxGas /\ UNCHANGED genesis
    \/ UseGas

-----------------------------------------------------------------------------
(* Contract calls (wasmd): execution of a contract by a transaction, by a   *)
(* block callback or by another contract.                                   *)

(* By a transaction, a genesis message or a running contract.  The new      *)
(* contract has no flag yet: nothing it sends reaches the registry.         *)
Instantiate(c, code) ==
    /\ codeOf[c] = None
    /\ \/ Idle /\ UNCHANGED <<gas, genesis>>
       \/ UseGas
    /\ codeOf' = [codeOf EXCEPT ![c] = code]
    /\ UNCHANGED <<details, pinned, privileged, index, stack, loop>>

Call(c) ==
    /\ codeOf[c] # None
    /\ StartOrUseGas
    /\ Push("run", c)
    /\ UNCHANGED <<store, loop>>

(* Migration by the contract's admin; the new code's migrate entry point    *)
(* runs, and can send messages like any other entry point.                  *)
Migrate(c, code) ==
    /\ codeOf[c] \notin {None, code}
    /\ StartOrUseGas
    /\ Push("run", c)
    /\ codeOf' = [codeOf EXCEPT ![c] = code]
    /\ UNCHANGED <<details, pinned, privileged, index, loop>>

(* The call returns without error and its writes stay.                      *)
Return ==
    /\ ~Idle
    /\ Top.op \in {"run", "promote"}
    /\ stack' = Pop
    /\ UNCHANGED <<store, loop, gas, genesis>>

(* The call fails: out of gas, an error of the contract or of a message it  *)
(* sent.  Its writes are dropped; the caller gets the error and may go on   *)
(* (reply_on error) or fail in turn.                                        *)
Fail ==
    /\ ~Idle
    /\ Restore(Top.saved)
    /\ stack' = Pop
    /\ loop' = NoLoop
    /\ UNCHANGED <<gas, genesis>>

-----------------------------------------------------------------------------
(* PetriHandler: messages a privileged contract sends to the chain.         *)

(* Mutant: DispatchMsg without the IsPrivileged check.                      *)
DispatchUnchecked == UseGas

DispatchMsg == UseGas /\ Caller \in privileged

(* A list without its i-th element, by shifting the tail to the left.       *)
RemoveAt(list, i) ==
    [j \in 1 .. Len(list) - 1 |-> IF j < i THEN list[j] ELSE list[j + 1]]

(* handlePrivilege, Request: registering a type twice is a no-op, a taken   *)
(* singleton is an error.                                                   *)
Request(t) ==
    /\ DispatchMsg
    /\ ~HasRegisteredPrivilege(Caller, t)
    /\ ~SingletonTaken(t)
    /\ \E pos \in 0 .. MaxPos :
        /\ IsLastPosition(t, pos)
        /\ NextPosition(pos) > pos
        /\ index' = [index EXCEPT ![Key(t, NextPosition(pos))] = Caller]
        /\ details' = [details EXCEPT ![Caller] =
               Append(@, Key(t, NextPosition(pos)))]
    /\ UNCHANGED <<codeOf, pinned, privileged, stack, loop>>

(* The panic of appendToPrivilegedContracts when the position overflows     *)
(* unwinds every running call up to the transaction or block callback.      *)
RequestOverflow(t) ==
    /\ DispatchMsg
    /\ ~HasRegisteredPrivilege(Caller, t)
    /\ ~SingletonTaken(t)
    /\ \E pos \in 0 .. MaxPos : IsLastPosition(t, pos) /\ NextPosition(pos) <= pos
    /\ Restore(stack[1].saved)
    /\ stack' = <<>>
    /\ UNCHANGED loop

(* handlePrivilege, Release: details hold a type at most once, so the loop  *)
(* over them removes the one entry and its index key.                       *)
Release(t) ==
    /\ DispatchMsg
    /\ \E i \in 1 .. Len(details[Caller]) :
        /\ details[Caller][i].type = t
        /\ index' = [index EXCEPT ![details[Caller][i]] = None]
        /\ details' = [details EXCEPT ![Caller] = RemoveAt(@, i)]
    /\ UNCHANGED <<codeOf, pinned, privileged, stack, loop>>

(* handleGovProposalExecution.                                              *)
ExecuteGovProposal == DispatchMsg /\ HasRegisteredPrivilege(Caller, GovExecutor)

PinCodes(codes) ==
    /\ ExecuteGovProposal
    /\ pinned' = pinned \cup codes
    /\ UNCHANGED <<codeOf, details, privileged, index, stack, loop>>

UnpinCodes(codes) ==
    /\ ExecuteGovProposal
    /\ pinned' = pinned \ codes
    /\ UNCHANGED <<codeOf, details, privileged, index, stack, loop>>

-----------------------------------------------------------------------------
(* Promotion and demotion.                                                  *)

(* Pin the code, set the flag, call the contract with Promoted.  By a       *)
(* governance proposal, or at genesis for privileged_contract_addresses and *)
(* for the contracts the PoE module bootstraps.                             *)
SetPrivileged(c) ==
    /\ \/ ExecuteGovProposal
       \/ Idle /\ genesis /\ gas' = MaxGas /\ UNCHANGED genesis
    /\ codeOf[c] # None
    /\ Push("promote", c)
    /\ pinned' = pinned \cup {codeOf[c]}
    /\ privileged' = privileged \cup {c}
    /\ UNCHANGED <<codeOf, details, index, loop>>

(* UnsetPrivileged starts with the Demoted call; the contract still has the *)
(* flag and can release its privileges itself.  Nothing checks that the     *)
(* contract is privileged.                                                  *)
UnsetPrivileged(c) ==
    /\ ExecuteGovProposal
    /\ codeOf[c] # None
    /\ Push("demote", c)
    /\ UNCHANGED <<store, loop>>

(* Mutant: the contract info is loaded before the Demoted call.             *)
LoadedBeforeSudo(frame) == frame.saved.details[frame.contract]

(* The contract info is loaded after the Demoted call.                      *)
LoadedDetails(frame) == details[frame.contract]

(* Mutant: the code is unpinned without looking for other instances.        *)
UnpinAlways(c) == pinned \ {codeOf[c]}

UnpinUnused(c) ==
    IF InstancesOf(codeOf[c]) = {c} THEN pinned \ {codeOf[c]} ELSE pinned

(* The Demoted call returned: unpin the code unless it has other instances, *)
(* clear the flag and start removing the registrations.  The steps of the   *)
(* loop are one uninterrupted piece of the handler: no other action is      *)
(* enabled while the innermost frame is "unset", except a failure (out of   *)
(* gas), which drops everything done since the frame started.               *)
DemotedReturns ==
    /\ ~Idle
    /\ Top.op = "demote"
    /\ pinned' = UnpinUnused(Caller)
    /\ privileged' = privileged \ {Caller}
    /\ stack' = [stack EXCEPT ![Len(stack)].op = "unset"]
    /\ loop' = [entries |-> LoadedDetails(Top), len |-> Len(LoadedDetails(Top)), next |-> 1]
    /\ UNCHANGED <<codeOf, details, index, gas, genesis>>

(* One round of IterateRegisteredPrivileges.  The method has a value        *)
(* receiver: it ranges over the full length of the list it started with,    *)
(* but reads the elements from the array it shares with the list that       *)
(* RemoveRegisteredPrivilege shortens by shifting the tail to the left.     *)
Shift(list, i, len) ==
    [j \in 1 .. Len(list) |-> IF j >= i /\ j < len THEN list[j + 1] ELSE list[j]]

RemoveRegisteredPrivilege(l, e) ==
    IF \E i \in 1 .. l.len : l.entries[i] = e
    THEN [entries |-> Shift(l.entries, CHOOSE i \in 1 .. l.len : l.entries[i] = e, l.len),
          len     |-> l.len - 1,
          next    |-> l.next + 1]
    ELSE [entries |-> l.entries, len |-> l.len, next |-> l.next + 1]

UnsetStep ==
    /\ ~Idle
    /\ Top.op = "unset"
    /\ loop.next <= Len(loop.entries)
    /\ LET e == loop.entries[loop.next] IN
        /\ index' = [index EXCEPT ![e] = None]
        /\ loop' = RemoveRegisteredPrivilege(loop, e)
    /\ UNCHANGED <<codeOf, details, pinned, privileged, stack, gas, genesis>>

(* setContractDetails with what the loop left, and UnsetPrivileged returns. *)
UnsetDone ==
    /\ ~Idle
    /\ Top.op = "unset"
    /\ loop.next > Len(loop.entries)
    /\ details' = [details EXCEPT ![Caller] = [j \in 1 .. loop.len |-> loop.entries[j]]]
    /\ stack' = Pop
    /\ loop' = NoLoop
    /\ UNCHANGED <<codeOf, pinned, privileged, index, gas, genesis>>

-----------------------------------------------------------------------------
(* Genesis.                                                                 *)

(* Contracts whose exported details list the entry.                         *)
Claimants(e) ==
    {c \in Contracts : \E i \in 1 .. Len(details[c]) : details[c][i] = e}

(* importPrivileged fails on a key that exists already.                     *)
Importable ==
    \A e \in Entry : \A c, d \in Claimants(e) : c = d

(* The state is exported and a new chain is started from it.  The export    *)
(* holds the contract infos with their details and the pinned codes; the    *)
(* flag and the index are rebuilt from the details, for the contracts that  *)
(* have any registration.                                                   *)
ExportImport ==
    /\ Idle
    /\ Importable
    /\ LET imported == {c \in Contracts : codeOf[c] # None /\ details[c] # <<>>} IN
        /\ privileged' = imported
        /\ pinned' = pinned \cup {codeOf[c] : c \in imported}
        /\ index' = [e \in Entry |-> IF Claimants(e) = {} THEN None
                                     ELSE CHOOSE c \in Claimants(e) : TRUE]
    /\ genesis' = TRUE
    /\ UNCHANGED <<codeOf, details, stack, loop, gas>>

(* The first block: from now on transactions are delivered.                 *)
StartChain ==
    /\ Idle
    /\ genesis
    /\ genesis' = FALSE
    /\ UNCHANGED <<store, stack, loop, gas>>

-----------------------------------------------------------------------------
Init ==
    /\ codeOf = [c \in Contracts |-> None]
    /\ details = [c \in Contracts |-> <<>>]
    /\ pinned = {}
    /\ privileged = {}
    /\ index = [e \in Entry |-> None]
    /\ stack = <<>>
    /\ loop = NoLoop
    /\ gas = 0
    /\ genesis = TRUE

Next ==
    \/ \E c \in Contracts :
          \/ Call(c)
          \/ SetPrivileged(c)
          \/ UnsetPrivileged(c)
          \/ \E code \in Codes : Instantiate(c, code) \/ Migrate(c, code)
    \/ \E t \in PrivilegeTypes : Request(t) \/ RequestOverflow(t) \/ Release(t)
    \/ \E codes \in SUBSET Codes : PinCodes(codes) \/ UnpinCodes(codes)
    \/ Return
    \/ Fail
    \/ DemotedReturns
    \/ UnsetStep
    \/ UnsetDone
    \/ ExportImport
    \/ StartChain

Spec == Init /\ [][Next]_vars

-----------------------------------------------------------------------------
(* Properties.                                                              *)

(* The two copies of the registrations agree: a key of the secondary index  *)
(* points to a contract exactly when the contract's details list that type  *)
(* and position, and details list a type at most once.  A store can be      *)
(* committed, or dropped back to, only in such a state.                     *)
Consistent(det, idx) ==
    /\ \A e \in Entry, c \in Contracts :
          idx[e] = c <=> \E i \in 1 .. Len(det[c]) : det[c][i] = e
    /\ \A c \in Contracts : \A i, j \in 1 .. Len(det[c]) :
          det[c][i].type = det[c][j].type => i = j

Unsetting == ~Idle /\ Top.op = "unset"

(* The removal loop of UnsetPrivileged for contract c: the index holds for  *)
(* c exactly what the shortened list still holds, every other contract's    *)
(* registrations are untouched, and no element the loop may read, stale     *)
(* copies at the end of the shared array included, is a key of another      *)
(* contract, although removePrivilegeRegistration does not check the owner. *)
LoopInvariant(c) ==
    /\ \A e \in Entry, d \in Contracts \ {c} :
          index[e] = d <=> \E i \in 1 .. Len(details[d]) : details[d][i] = e
    /\ \A e \in Entry : index[e] = c <=> \E i \in 1 .. loop.len : loop.entries[i] = e
    /\ \A d \in Contracts \ {c} : \A i, j \in 1 .. Len(details[d]) :
          details[d][i].type = details[d][j].type => i = j
    /\ \A i, j \in 1 .. loop.len : loop.entries[i].type = loop.entries[j].type => i = j
    /\ \A i \in 1 .. Len(loop.entries) : index[loop.entries[i]] \in {c, None}

RemovalTouchesOwnKeysOnly == Unsetting => LoopInvariant(Caller)

(* Whenever no removal loop is under way, the details written by            *)
(* handlePrivilege, UnsetPrivileged and InitGenesis agree with the index    *)
(* the block callbacks iterate.                                             *)
IndexMatchesDetails == Unsetting \/ Consistent(details, index)

(* A singleton privilege (validator_set_updater) has at most one holder,    *)
(* whatever promotions, releases, failures and restarts came before.        *)
Exclusive(idx) ==
    \A t \in SingletonTypes : \A p, q \in Positions :
        idx[Key(t, p)] # None /\ idx[Key(t, q)] # None => p = q

SingletonExclusive == Exclusive(index)

(* Whatever call fails next, and however many of its callers fail with it,  *)
(* the store it falls back to is consistent and has singletons held once;   *)
(* only the innermost call can be in the removal loop.                      *)
FailureRestoresConsistentStore ==
    \A i \in 1 .. Len(stack) :
        /\ Consistent(stack[i].saved.details, stack[i].saved.index)
        /\ Exclusive(stack[i].saved.index)
        /\ i < Len(stack) => stack[i].op # "unset"

(* What an export holds can always be imported: no two contracts claim the  *)
(* same index key, on which importPrivileged fails.                         *)
ExportIsImportable == Idle => Importable

(* A contract gets a new registration only while it carries the flag: what  *)
(* a demoted contract sends is refused by DispatchMsg.                      *)
OnlyPrivilegedRegister ==
    [][\A e \in Entry, c \in Contracts :
          index[e] # c /\ index'[e] = c
             => c \in privileged \/ Len(stack') < Len(stack)]_vars

(* A contract that registers is called last: appendToPrivilegedContracts    *)
(* puts it behind every position in use, gaps are not filled.               *)
AppendIsLast ==
    [][\A e \in Entry :
          index[e] = None /\ index'[e] # None /\ stack' = stack
             => \A q \in Registered(e.type) : q < e.position]_vars

(* A demotion never unpins a code that another privileged contract runs.    *)
DemotionKeepsSharedPins ==
    [][\A c \in Contracts :
          /\ Unsetting'
          /\ c \in privileged'
          /\ codeOf[c] \in pinned
          => codeOf'[c] \in pinned']_vars

(* UnsetPrivileged is documented to "remove all privileges for the          *)
(* contract": a contract without the flag has no registration left.         *)
DemotedHasNoPrivileges ==
    Idle => \A c \in Contracts : c \notin privileged => details[c] = <<>>
=============================================================================
