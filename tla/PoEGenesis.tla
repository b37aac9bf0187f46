----------------------------- MODULE PoEGenesis -----------------------------
(***************************************************************************)
(* How a chain starts.  InitChain runs InitGenesis of the twasm, the PoE   *)
(* and the globalfee module, in this order.  From a seed genesis the PoE   *)
(* module bootstraps its eleven contracts and delivers the genesis         *)
(* transactions, from the dump of an older chain it takes over the         *)
(* contracts that twasm imported; it then verifies the set-up and gives    *)
(* Tendermint the first validators.  Any error is a panic of the node.     *)
(* What InitChain wrote is committed with the first block; a node that     *)
(* dies before that starts over.  Contract addresses are also cached in    *)
(* the memory of the node.                                                 *)
(***************************************************************************)
EXTENDS PoEBootstrap

CONSTANTS
    SeedDocs,     \* seed genesis files somebody could write
    MaxGov,       \* bound: decisions of the contracts that govern the chain
    MaxExports,   \* bound: chains started from an export
    MaxCrashes    \* bound: crashes while a chain starts

ASSUME GenesisAssumption ==
    \A d \in SeedDocs :
        /\ d.mode = "seed"
        /\ d.twasm.codes \in Seq(DOMAIN PromoteRequests)
        /\ d.twasm.contracts \in Seq(Range(d.twasm.contracts))
        /\ \A c \in DOMAIN d.twasm.contracts :
              /\ DOMAIN d.twasm.contracts[c].info = {"code", "admin", "details", "data"}
              /\ d.twasm.contracts[c].info.details \in Seq(Entry)
              /\ d.twasm.contracts[c].info.code \in DOMAIN d.twasm.codes
              /\ d.twasm.contracts[c].model.asks \in Seq(PrivilegeTypes)
        /\ d.twasm.privilegedContractAddresses \in Seq(Range(d.twasm.privilegedContractAddresses))
        /\ d.gentxs \in Seq(Range(d.gentxs))
        /\ d.oc.members \in Seq(Range(d.oc.members))
        /\ d.ap.members \in Seq(Range(d.ap.members))
        /\ {d.halflife, d.stake.unbondingPeriod, d.valset.epochLength,
            d.valset.offlineJailDuration, d.ap.waitingPeriod} \subseteq Nat
        /\ {d.valset.engagementRewardRatio, d.valset.communityPoolRewardRatio,
            d.valset.validatorRewardRatio} \subseteq Int

VARIABLES
    chain,      \* the working state of the node, and its address cache
    committed,  \* the state of the last commit
    pc,         \* what InitChain does next, or what the node is doing
    tm,         \* validators of Tendermint
    gov, exports, crashes

vars == <<doc, chain, committed, pc, tm, gov, exports, crashes>>
counters == <<gov, exports, crashes>>

-----------------------------------------------------------------------------
(* InitChain.                                                              *)

(* Mutant: the fee parameter is set before the genesis transactions run.   *)
FeeParamsFirst == <<"twasm", "globalfee", "poe">>

OrderInitGenesis == <<"twasm", "poe", "globalfee">>

AfterModule(m) ==
    LET i == CHOOSE i \in DOMAIN OrderInitGenesis : OrderInitGenesis[i] = m IN
    IF i = Len(OrderInitGenesis) THEN "response" ELSE OrderInitGenesis[i + 1]

(* A step of InitGenesis: no result is a panic, and the node goes down.    *)
Step(results, next) ==
    \/ chain' \in results /\ pc' = next
    \/ results = {} /\ pc' = "panicked" /\ UNCHANGED chain

(* A process starts: it loads the last commit and fills the address cache; *)
(* without a commit Tendermint calls InitChain, which sets the balances    *)
(* before it comes to the modules of this model.                           *)
Start ==
    /\ pc \in {"down", "panicked"}
    /\ IF committed.height > 0
       THEN chain' = InitContractAddressCache(committed) /\ pc' = "running"
       ELSE /\ chain' = [EmptyChain EXCEPT !.bal = doc.bal, !.funds = doc.funds]
            /\ pc' = Head(OrderInitGenesis)
    /\ UNCHANGED <<doc, committed, tm, counters>>

(* A new node restores a snapshot of the chain.                            *)
Restore ==
    /\ pc = "down"
    /\ committed.height > 0
    /\ chain' = InitContractAddressCache(committed)
    /\ pc' = "running"
    /\ UNCHANGED <<doc, committed, tm, counters>>

InitTwasm ==
    /\ pc = "twasm"
    /\ Step(InitTwasmGenesis(chain, doc.twasm), AfterModule("twasm"))
    /\ UNCHANGED <<doc, committed, tm, counters>>

(* Addresses of the dump, or the start of the bootstrap.                   *)
InitPoE ==
    /\ pc = "poe"
    /\ IF doc.mode = "seed"
       THEN Step(IF doc.gentxs = <<>> THEN {} ELSE {chain}, Head(Stages))
       ELSE Step({SetDumpedAddresses(chain, doc.contracts)}, "verify")
    /\ UNCHANGED <<doc, committed, tm, counters>>

BootstrapPoEContracts ==
    /\ \E i \in 1 .. Len(Stages) - 2 :
          /\ pc = Stages[i]
          /\ Step(Bootstrapped(chain, doc, pc), Stages[i + 1])
    /\ UNCHANGED <<doc, committed, tm, counters>>

InitPoEGenTxs ==
    /\ pc = "gentx"
    /\ Step(DeliverGenTxs(chain, doc), "verify")
    /\ UNCHANGED <<doc, committed, tm, counters>>

InitPoEVerify ==
    /\ pc = "verify"
    /\ Step(FirstValidators(chain, doc), AfterModule("poe"))
    /\ UNCHANGED <<doc, committed, tm, counters>>

InitGlobalFee ==
    /\ pc = "globalfee"
    /\ chain' = [chain EXCEPT !.minGasPrices = doc.minGasPrices]
    /\ pc' = AfterModule("globalfee")
    /\ UNCHANGED <<doc, committed, tm, counters>>

(* The base application compares the validators with those of the genesis  *)
(* file, when it names any.                                                *)
RespondInitChain ==
    /\ pc = "response"
    /\ Step(IF doc.validators \notin {{}, InitialSet(chain)} THEN {} ELSE {chain}, "block")
    /\ tm' = IF pc' = "block" THEN InitialSet(chain) ELSE tm
    /\ UNCHANGED <<doc, committed, counters>>

(* The first block commits what InitChain wrote.  Its EndBlock releases    *)
(* the embedded contracts.                                                 *)
FirstBlock ==
    /\ pc = "block"
    /\ chain' = [chain EXCEPT !.height = 1, !.embedded = FALSE]
    /\ committed' = [chain' EXCEPT !.cache = NoAddresses, !.embedded = TRUE]
    /\ pc' = "running"
    /\ UNCHANGED <<doc, tm, counters>>

Crash ==
    /\ pc \notin {"down", "panicked"}
    /\ crashes < MaxCrashes
    /\ crashes' = crashes + 1
    /\ pc' = "down"
    /\ UNCHANGED <<doc, chain, committed, tm, gov, exports>>

-----------------------------------------------------------------------------
(* The chain runs: a block with a decision of the governing contracts.     *)

Block(results) ==
    /\ pc = "running"
    /\ gov < MaxGov
    /\ gov' = gov + 1
    /\ chain' \in results
    /\ committed' = [chain' EXCEPT !.cache = NoAddresses, !.embedded = TRUE]
    /\ UNCHANGED <<doc, pc, exports, crashes>>

Promote(t) ==
    /\ Block(SetPrivileged(chain, GetPoEContractAddress(chain, t)))
    /\ UNCHANGED tm

Demote(t) ==
    /\ Block({UnsetPrivileged(chain, GetPoEContractAddress(chain, t))})
    /\ UNCHANGED tm

ChangeMigrator(t) ==
    /\ Block(UpdateContractAdmin(chain, t, GetPoEContractAddress(chain, "VALIDATOR_VOTING"), Nobody))
    /\ UNCHANGED tm

(* The update of a block's validators reaches Tendermint.                  *)
ChangeValidators ==
    /\ Block({[chain EXCEPT !.infos[GetPoEContractAddress(chain, "VALSET")].data.active = a]
              : a \in (SUBSET Eligible(chain)) \ {{}, Data(chain, "VALSET").active}})
    /\ tm' = ActiveKeys(chain')

(* A block without such a decision.                                        *)
OtherBlock == pc = "running" /\ UNCHANGED vars

(* A new chain is started from the export of the stopped one.              *)
ExportAppStateAndValidators ==
    /\ pc = "running"
    /\ exports < MaxExports
    /\ GetPoEContractAddress(InitContractAddressCache(committed), "VALSET") # 0
    /\ exports' = exports + 1
    /\ \E asks \in ImportRequests :
          doc' = ExportGenesis(InitContractAddressCache(committed), asks)
    /\ committed' = EmptyChain
    /\ chain' = EmptyChain
    /\ tm' = {}
    /\ pc' = "down"
    /\ UNCHANGED <<gov, crashes>>

Init ==
    /\ doc \in {d \in SeedDocs : ValidateGenesis(d)}
    /\ chain = EmptyChain
    /\ committed = EmptyChain
    /\ pc = "down"
    /\ tm = {}
    /\ gov = 0 /\ exports = 0 /\ crashes = 0

InitChain ==
    \/ InitTwasm \/ InitPoE \/ BootstrapPoEContracts \/ InitPoEGenTxs \/ InitPoEVerify
    \/ InitGlobalFee \/ RespondInitChain

Next ==
    \/ Start \/ Restore \/ InitChain \/ FirstBlock \/ Crash
    \/ \E t \in {"VALSET", "STAKING"} : Promote(t) \/ Demote(t)
    \/ \E t \in {"VALSET", "DISTRIBUTION"} : ChangeMigrator(t)
    \/ ChangeValidators \/ OtherBlock \/ ExportAppStateAndValidators

(* A node that is down is started again and goes on with what it does.     *)
Spec == Init /\ [][Next]_vars /\ WF_vars(Start \/ InitChain \/ FirstBlock)

-----------------------------------------------------------------------------
(* Properties.                                                             *)

Bonds(g, p) == {i \in DOMAIN g.gentxs : g.gentxs[i].operator = p}
Bonded(g, p) == SumSet({0} \cup {g.gentxs[i].amount + g.gentxs[i].vesting : i \in Bonds(g, p)})
Escrowed(g, p) ==
    (IF p \in Range(g.oc.members) THEN g.oc.escrow ELSE 0)
    + (IF p \in Range(g.ap.members) THEN g.ap.escrow ELSE 0)

(* What a seed genesis can have wrong although it passes the validation.   *)
SeedCannotStart(g) ==
    \/ ~collectTxs(g)
    \/ g.valset.engagementRewardRatio <= 0 \/ g.valset.communityPoolRewardRatio <= 0
    \/ g.ap.denom # g.bondDenom
    \/ \E p \in People : Escrowed(g, p) + Bonded(g, p) > g.bal[p]
    \/ \A p \in People : Bonded(g, p) < g.stake.minBond

(* What governance can have changed before an export.                      *)
DumpInfo(d, t) ==
    d.twasm.contracts[(CHOOSE c \in Range(d.contracts) : c.type = t).address].info

(* The Import call of a contract takes the position of one behind it.      *)
PositionTaken(contracts) ==
    \E c \in DOMAIN contracts : \E t \in Range(contracts[c].model.asks) :
        /\ HasRegisteredPrivilege(contracts[c].info.details, Exporter)
        /\ ~HasRegisteredPrivilege(contracts[c].info.details, t)
        /\ LET Positions(d) == {e.position : e \in {e \in Range(contracts[d].info.details) : e.type = t}}
               before == UNION {Positions(d) : d \in 1 .. c}
           IN  \E d \in c + 1 .. Len(contracts) : Max(before \cup {0}) + 1 \in Positions(d)

DumpCannotStart(d) ==
    \/ PositionTaken(d.twasm.contracts)
    \/ \E t \in PoEContractTypes :
          DumpInfo(d, t).admin
          # (CHOOSE c \in Range(d.contracts) : c.type = "VALIDATOR_VOTING").address
    \/ ~HasRegisteredPrivilege(DumpInfo(d, "VALSET").details, "validator_set_updater")
    \/ ~HasRegisteredPrivilege(DumpInfo(d, "STAKING").details, "delegator")

CannotStart(d) == IF d.mode = "seed" THEN SeedCannotStart(d) ELSE DumpCannotStart(d)

(* A genesis file that passes ValidateGenesis starts the chain, with only  *)
(* these exceptions.  Of a seed: no genesis transaction, or one that        *)
(* collect-gentxs would refuse; a share of zero (or less) for engagement   *)
(* group or community pool, where BootstrapPoEContracts dereferences nil;  *)
(* an arbiter escrow in another denom; a member or operator who cannot pay *)
(* escrow and bond together; nobody with a full bond.  Of a dump:          *)
(* governance moved a migrator or demoted a contract, and                  *)
(* VerifyPoEContracts refuses it; or a contract asks in its Import call    *)
(* for a privilege at the position of one imported after it.  In each of   *)
(* these cases InitChain fails.                                            *)
GenesisOutcome ==
    /\ pc = "panicked" => CannotStart(doc)
    /\ pc \in {"block", "running"} => ~CannotStart(doc)

(* Every genesis file without such a defect brings the chain up, however   *)
(* the node crashes on the way.                                            *)
GenesisStarts == ~CannotStart(doc) ~> pc = "running"

(* The address found for a type is the one of the contract that was set up *)
(* for it: after the bootstrap, a crash, a restart from the last commit,   *)
(* a state sync, an export and import.                                     *)
AddressesSurvive ==
    pc \in {"gentx", "verify", "block", "running"} =>
        \A t \in PoEContractTypes :
            LET c == GetPoEContractAddress(chain, t) IN
            c \in DOMAIN chain.infos /\ chain.infos[c].data.label = t

(* BootstrapPoEContracts connects the contracts as the architecture wants  *)
(* them (mixer over engagement and stake, valset over the mixer, rewards   *)
(* to engagement group and pool, voting over the validators' group) and    *)
(* leaves neither engagement nor valset contract with the bootstrap        *)
(* account.  A chain that starts from a seed has all their codes pinned    *)
(* and every contract in the hands of validator voting, the two things     *)
(* VerifyPoEContracts looks at (it only logs the first).                   *)
ContractsAreWired ==
    pc \in {"gentx", "verify", "block", "running"} =>
        LET A(t) == GetPoEContractAddress(chain, t)
            D(t) == Data(chain, t)
        IN  /\ D("MIXER").leftGroup = A("ENGAGEMENT")
            /\ D("MIXER").rightGroup = A("STAKING")
            /\ D("COMMUNITY_POOL").groupAddress = A("ENGAGEMENT")
            /\ D("VALSET").membership = A("MIXER")
            /\ {x.address : x \in D("VALSET").distribution} = {A("ENGAGEMENT"), A("COMMUNITY_POOL")}
            /\ D("VALIDATOR_VOTING").group = A("DISTRIBUTION")
            /\ D("ARBITER_POOL_VOTING").group = A("ARBITER_POOL")
            /\ D("OVERSIGHT_COMMUNITY_PROPOSALS").group = A("OVERSIGHT_COMMUNITY")
            /\ \A t \in {"ENGAGEMENT", "VALSET"} : D(t).owner = A("OVERSIGHT_COMMUNITY_PROPOSALS")
            /\ pc \in {"block", "running"} /\ doc.mode = "seed" /\ gov = 0 =>
                  \A t \in PoEContractTypes : /\ chain.infos[A(t)].code \in chain.pinned
                                              /\ chain.infos[A(t)].admin = A("VALIDATOR_VOTING")

(* The configuration arrives in the contracts without a loss: periods are  *)
(* converted to seconds, and the part of the rewards that the two shares   *)
(* leave is the share that the file gives to the validators.               *)
ConfigReachesContracts ==
    pc \in {"gentx", "verify", "block", "running"} /\ doc.mode = "seed" =>
        /\ Data(chain, "ENGAGEMENT").halflife * Second = doc.halflife
        /\ Data(chain, "STAKING").unbondingPeriod * Second = doc.stake.unbondingPeriod
        /\ Data(chain, "VALSET").epochLength * Second = doc.valset.epochLength
        /\ Data(chain, "VALSET").offlineJailDuration * Second = doc.valset.offlineJailDuration
        /\ Data(chain, "ARBITER_POOL_VOTING").waitingPeriod * Second = doc.ap.waitingPeriod
        /\ doc.valset.validatorRewardRatio
           = 100 - SumFunction([x \in Data(chain, "VALSET").distribution |-> x.ratio])

(* Every voting member of a trusted circle has paid the escrow once, and   *)
(* nobody paid for anything but escrow and bond.                           *)
EscrowIsComplete ==
    pc \in {"gentx", "verify", "block", "running"} /\ doc.mode = "seed" =>
        /\ \A t \in {"OVERSIGHT_COMMUNITY", "ARBITER_POOL"} :
              chain.funds[GetPoEContractAddress(chain, t)]
              = Cardinality(Data(chain, t).members) * Data(chain, t).escrow
        /\ \A p \in People :
              chain.bal[p] = doc.bal[p] - Escrowed(doc, p) - Data(chain, "STAKING").staked[p]

(* All genesis transactions take effect, or the chain does not start.      *)
AllGenTxsDelivered ==
    pc \in {"block", "running"} /\ doc.mode = "seed" =>
        \A tx \in Range(doc.gentxs) :
            /\ Data(chain, "VALSET").keys[tx.operator] = tx.key
            /\ Data(chain, "STAKING").staked[tx.operator] = tx.amount + tx.vesting

(* The import gives back what was exported.  Import handlers can only add  *)
(* privileges; details, flags and index fit together.                      *)
ImportRestores ==
    pc \in {"response", "block"} /\ doc.mode = "dump" =>
        /\ ValidateGenesis(doc)
        /\ chain.codes = doc.twasm.codes
        /\ doc.twasm.pinned \subseteq chain.pinned
        /\ \A c \in DOMAIN chain.infos :
              /\ chain.infos[c].data = doc.twasm.contracts[c].model.data
              /\ chain.infos[c].admin = doc.twasm.contracts[c].info.admin
              /\ LET old == doc.twasm.contracts[c].info.details IN
                 /\ Len(old) <= Len(chain.infos[c].details)
                 /\ old = SubSeq(chain.infos[c].details, 1, Len(old))
              /\ \A e \in Range(chain.infos[c].details) : chain.index[e] = c
              /\ chain.infos[c].details # <<>> => c \in chain.privileged

(* Tendermint knows the validators that the valset contract calls active,  *)
(* from the first block of a seed as well as of an import.                 *)
TendermintFollows == pc = "running" => tm = ActiveKeys(chain) /\ tm # {}
=============================================================================
