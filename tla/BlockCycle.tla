----------------------------- MODULE BlockCycle -----------------------------
(***************************************************************************)
(* How a block runs through the PoE and the twasm module: the order of     *)
(* their BeginBlockers and EndBlockers, the callbacks to privileged        *)
(* contracts, each in a cached store of its own, and the validator set     *)
(* update that Tendermint gets from the valset contract.  The node can     *)
(* crash at any point; Tendermint then replays the block it had decided.   *)
(*                                                                         *)
(* The stores are reduced to what the callbacks can change here: who is    *)
(* registered for the callbacks, the members the valset contract should    *)
(* have active (engagement and stake, jailing) and the ones it has         *)
(* reported as active.  The votes of the last commit are kept by the PoE   *)
(* keeper in memory only, contracts read them with a custom query.         *)
(***************************************************************************)
EXTENDS Integers, Sequences

CONSTANTS
    Contracts,   \* privileged contracts
    Validators,
    Votes,       \* values of LastCommitInfo.Votes a block can carry
    MaxPos,      \* largest position of a registration
    MaxCrashes,  \* bound: crashes of the node
    None

ASSUME CycleAssumption ==
    /\ None \notin Contracts
    /\ None \notin Votes
    /\ MaxPos \in Nat
    /\ MaxCrashes \in Nat

VARIABLES
    app,      \* the application state of the last commit
    work,     \* the state the block works on
    votes,    \* PoE keeper validatorVotes, in memory
    block,    \* the decided block that is not fully applied, by its votes
    pc,       \* phase of the block
    turn,     \* which module's BeginBlocker or EndBlocker is next
    iter,     \* iterator over the registrations of one type
    diff,     \* validator updates that EndBlock returns
    tmVals,   \* Tendermint's validator set
    appDone,  \* the application committed the decided block
    reads,    \* history: votes that contracts read while executing the block
    updated,  \* history: the valset contract reported its members in this block
    crashes

vars == <<app, work, votes, block, pc, turn, iter, diff, tmVals, appDone,
          reads, updated, crashes>>

CallbackTypes == {"begin", "end"}
Positions == 1 .. MaxPos
Registrations == [Positions -> Contracts \cup {None}]

(* Tendermint stops at an update that leaves no validator: what happens to *)
(* a chain without any is outside of this model.                           *)
ValidatorSets == (SUBSET Validators) \ {{}}

AppState == [regs    : [CallbackTypes -> Registrations],
             updater : BOOLEAN,
             members : ValidatorSets,
             active  : ValidatorSets]

(* An iterator knows the registrations it was opened on; kept and called   *)
(* are history: the positions registered without a break since then, and   *)
(* the positions it has visited.                                           *)
Iterator == [open : BOOLEAN, snapshot : Registrations, cursor : 0 .. MaxPos,
             kept : SUBSET Positions, called : SUBSET Positions]

(* Validators to add to and to remove from Tendermint's set.               *)
Diff == [add : SUBSET Validators, remove : SUBSET Validators]
NoDiff == [add |-> {}, remove |-> {}]

NoRegistrations == [p \in Positions |-> None]
Closed == [open |-> FALSE, snapshot |-> NoRegistrations, cursor |-> 0,
           kept |-> {}, called |-> {}]

(* The phases, and an iterator that is open only in a twasm phase.         *)
TypeOK ==
    /\ app \in AppState
    /\ work \in AppState
    /\ votes \in Votes \cup {None}
    /\ block \in Votes \cup {None}
    /\ pc \in {"idle", "begin", "deliver", "end", "commit", "save", "down"}
    /\ turn \in 1 .. 3
    /\ iter \in Iterator
    /\ iter.open => pc \in CallbackTypes
    /\ diff \in Diff
    /\ tmVals \in ValidatorSets
    /\ appDone \in BOOLEAN
    /\ reads \in SUBSET (Votes \cup {None})
    /\ updated \in BOOLEAN
    /\ crashes \in 0 .. MaxCrashes

-----------------------------------------------------------------------------
(* What contract code can do to the state, in a callback or a transaction. *)

Used(r) == {p \in Positions : r[p] # None}

RegisterChanges(r) ==
    {[r EXCEPT ![p] = c] : c \in {c \in Contracts : \A q \in Positions : r[q] # c},
                           p \in {p \in Positions : /\ \A q \in Used(r) : q < p
                                                    /\ p = 1 \/ p - 1 \in Used(r)}}

ReleaseChanges(r) == {[r EXCEPT ![p] = None] : p \in Used(r)}

(* Registrations for the callbacks, the members, and the privilege to      *)
(* update the validator set, which governance takes from the valset        *)
(* contract and gives back.                                                *)
Effects(s) ==
    {s, [s EXCEPT !.updater = ~@]}
        \cup {[s EXCEPT !.members = m] : m \in ValidatorSets}
        \cup UNION {{[s EXCEPT !.regs[t] = r] :
                        r \in RegisterChanges(s.regs[t]) \cup ReleaseChanges(s.regs[t])}
                    : t \in CallbackTypes}

-----------------------------------------------------------------------------
(* The order of the modules, SetOrderBeginBlockers and SetOrderEndBlockers. *)

(* Mutant: the callbacks run before the votes are updated.                 *)
TwasmBeginsFirst == <<"twasm", "poe">>

BeginOrder == <<"poe", "twasm">>

(* Mutant: the validator set is updated before the callbacks run.          *)
PoEEndsFirst == <<"poe", "twasm">>

EndOrder == <<"twasm", "poe">>

InTurn(phase, module) ==
    /\ pc = phase
    /\ turn <= 2
    /\ (IF phase = "begin" THEN BeginOrder ELSE EndOrder)[turn] = module

(* Tendermint decides a block, or replays the one decided before the crash. *)
StartBlock ==
    /\ pc = "idle"
    /\ IF block = None THEN block' \in Votes ELSE block' = block
    /\ pc' = "begin"
    /\ turn' = 1
    /\ diff' = NoDiff
    /\ updated' = FALSE
    /\ UNCHANGED <<app, work, votes, iter, tmVals, appDone, reads, crashes>>

(* PoE BeginBlocker: UpdateValidatorVotes; TrackHistoricalInfo is modelled *)
(* in HistoricalInfo.                                                      *)
PoEBeginBlocker ==
    /\ InTurn("begin", "poe")
    /\ votes' = block
    /\ turn' = turn + 1
    /\ UNCHANGED <<app, work, block, pc, iter, diff, tmVals, appDone, reads, updated, crashes>>

(* twasm BeginBlocker and EndBlocker: an iterator over the registrations.  *)
OpenIterator(t) ==
    /\ InTurn(t, "twasm")
    /\ ~iter.open
    /\ iter' = [open |-> TRUE, snapshot |-> work.regs[t], cursor |-> 0,
                kept |-> Used(work.regs[t]), called |-> {}]
    /\ UNCHANGED <<app, work, votes, block, pc, turn, diff, tmVals, appDone, reads,
                   updated, crashes>>

(* Positions the iterator must still visit: registered since it was        *)
(* opened.  Whether it sees a registration that was added, removed or made *)
(* again since is up to the store and left open here.                      *)
Pending == {p \in iter.kept : p > iter.cursor}

Visible == {p \in Positions : /\ p > iter.cursor
                              /\ iter.snapshot[p] # None \/ work.regs[pc][p] # None
                              /\ \A q \in Pending : p <= q}

(* Mutant: a failed callback ends the iteration.                           *)
StopAtFailure(p, ok) == IF ok THEN p ELSE MaxPos

(* abciContractCallback returns false in any case, a recovered panic gives *)
(* the zero value false: the iteration goes on behind this position.       *)
NextCursor(p, ok) == p

(* One callback.  Sudo works on a cached context that is committed only    *)
(* when it succeeds; an error is logged, a panic is recovered.             *)
Callback(p, ok) ==
    /\ iter.open
    /\ p \in Visible
    /\ IF ok THEN work' \in Effects(work) ELSE work' = work
    /\ iter' = [iter EXCEPT !.cursor = NextCursor(p, ok),
                            !.kept = {q \in @ : work'.regs[pc][q] = iter.snapshot[q]},
                            !.called = @ \cup {p}]
    /\ reads' = reads \cup {votes}
    /\ UNCHANGED <<app, votes, block, pc, turn, diff, tmVals, appDone, updated, crashes>>

(* Mutant: the iterator is not closed.                                     *)
IteratorLeftOpen ==
    /\ iter.open
    /\ Pending = {}
    /\ turn' = turn + 1
    /\ UNCHANGED <<app, work, votes, block, pc, iter, diff, tmVals, appDone, reads,
                   updated, crashes>>

CloseIterator ==
    /\ iter.open
    /\ Pending = {}
    /\ iter' = Closed
    /\ turn' = turn + 1
    /\ UNCHANGED <<app, work, votes, block, pc, diff, tmVals, appDone, reads, updated, crashes>>

BeginDone ==
    /\ pc = "begin"
    /\ turn = 3
    /\ pc' = "deliver"
    /\ UNCHANGED <<app, work, votes, block, turn, iter, diff, tmVals, appDone, reads,
                   updated, crashes>>

(* A transaction that succeeds.                                            *)
DeliverTx ==
    /\ pc = "deliver"
    /\ work' \in Effects(work)
    /\ reads' = reads \cup {votes}
    /\ UNCHANGED <<app, votes, block, pc, turn, iter, diff, tmVals, appDone, updated, crashes>>

EndBlock ==
    /\ pc = "deliver"
    /\ pc' = "end"
    /\ turn' = 1
    /\ UNCHANGED <<app, work, votes, block, iter, diff, tmVals, appDone, reads, updated, crashes>>

(* CallEndBlockWithValidatorUpdate: the contract reports the difference    *)
(* between its members and the validators it reported before.              *)
ValsetOk ==
    /\ InTurn("end", "poe")
    /\ work.updater
    /\ diff' = [add |-> work.members \ work.active, remove |-> work.active \ work.members]
    /\ work' = [work EXCEPT !.active = work.members]
    /\ updated' = TRUE
    /\ turn' = turn + 1
    /\ UNCHANGED <<app, votes, block, pc, iter, tmVals, appDone, reads, crashes>>

(* Mutant: the cached context is committed before the error is looked at.  *)
CommitOnFailure == [work EXCEPT !.active = work.members]

(* What is left of the contract's writes when its response is an error or  *)
(* cannot be converted.                                                    *)
AfterFailure == work

(* No contract holds the privilege, or its call fails: there is no update. *)
ValsetNone ==
    /\ InTurn("end", "poe")
    /\ diff' = NoDiff
    /\ work' = IF work.updater THEN AfterFailure ELSE work
    /\ turn' = turn + 1
    /\ UNCHANGED <<app, votes, block, pc, iter, tmVals, appDone, reads, updated, crashes>>

EndDone ==
    /\ pc = "end"
    /\ turn = 3
    /\ pc' = "commit"
    /\ UNCHANGED <<app, work, votes, block, turn, iter, diff, tmVals, appDone, reads,
                   updated, crashes>>

-----------------------------------------------------------------------------
(* Tendermint: the responses of the block are saved, the application       *)
(* commits, then the new validator set is saved.                           *)

Commit ==
    /\ pc = "commit"
    /\ app' = work
    /\ appDone' = TRUE
    /\ pc' = "save"
    /\ UNCHANGED <<work, votes, block, turn, iter, diff, tmVals, reads, updated, crashes>>

SaveState ==
    /\ pc = "save"
    /\ tmVals' = (tmVals \cup diff.add) \ diff.remove
    /\ appDone' = FALSE
    /\ block' = None
    /\ reads' = {}
    /\ pc' = "idle"
    /\ UNCHANGED <<app, work, votes, turn, iter, diff, updated, crashes>>

(* The process dies: the working state and everything in memory is lost.   *)
Crash ==
    /\ pc # "down"
    /\ crashes < MaxCrashes
    /\ crashes' = crashes + 1
    /\ pc' = "down"
    /\ work' = app
    /\ votes' = None
    /\ iter' = Closed
    /\ UNCHANGED <<app, block, turn, diff, tmVals, appDone, reads, updated>>

(* After the restart Tendermint replays a block that the application has   *)
(* not committed, and only finishes one that it has.                       *)
Restart ==
    /\ pc = "down"
    /\ pc' = IF appDone THEN "save" ELSE "idle"
    /\ UNCHANGED <<app, work, votes, block, turn, iter, diff, tmVals, appDone, reads,
                   updated, crashes>>

-----------------------------------------------------------------------------
(* InitGenesis of the PoE module returns the validators that the valset    *)
(* contract has active; an empty set is refused.                           *)
Init ==
    /\ app \in [regs    : {[t \in CallbackTypes |-> NoRegistrations]},
                updater : {TRUE},
                members : ValidatorSets,
                active  : ValidatorSets]
    /\ work = app
    /\ votes = None
    /\ block = None
    /\ pc = "idle"
    /\ turn = 1
    /\ iter = Closed
    /\ diff = NoDiff
    /\ tmVals = app.active
    /\ appDone = FALSE
    /\ reads = {}
    /\ updated = FALSE
    /\ crashes = 0

Iterate ==
    \/ \E t \in CallbackTypes : OpenIterator(t)
    \/ \E p \in Positions, ok \in BOOLEAN : Callback(p, ok)
    \/ CloseIterator

Next ==
    \/ StartBlock \/ PoEBeginBlocker \/ Iterate \/ BeginDone
    \/ DeliverTx \/ EndBlock \/ ValsetOk \/ ValsetNone \/ EndDone
    \/ Commit \/ SaveState \/ Crash \/ Restart

Spec == Init /\ [][Next]_vars

(* Blocks keep coming while more than two thirds of the voting power are   *)
(* online, every handler of a block returns, and a stopped node is started *)
(* again.  The valset contract does not fail in every block.               *)
Fairness ==
    /\ WF_vars(StartBlock) /\ WF_vars(PoEBeginBlocker) /\ WF_vars(Iterate)
    /\ WF_vars(BeginDone) /\ WF_vars(EndBlock) /\ WF_vars(ValsetOk \/ ValsetNone)
    /\ WF_vars(EndDone) /\ WF_vars(Commit) /\ WF_vars(SaveState) /\ WF_vars(Restart)
    /\ SF_vars(ValsetOk)

FairSpec == Spec /\ Fairness

-----------------------------------------------------------------------------
(* Between blocks Tendermint's validators are the ones the valset contract *)
(* believes to be active: its state is committed exactly when its update   *)
(* is returned, through failing callbacks, crashes and replays.            *)
ValsetInSync ==
    ~appDone /\ pc \in {"idle", "down"} => tmVals = app.active

(* The update at the end of a block covers every change made in the block, *)
(* the ones of the end-block callbacks included ("poe after twasm to have  *)
(* valset update at the end").                                             *)
UpdateIsFinal ==
    pc = "commit" /\ updated => work.active = work.members

(* A contract that asks for the validator votes in a block gets the votes  *)
(* of that block, also when the block is replayed after a restart and the  *)
(* keeper's copy in memory was lost: all nodes compute the same.           *)
ReadsOwnVotes ==
    \A v \in reads : v = block

(* A callback is "delivered every block if the contract is currently       *)
(* registered": failing or panicking contracts do not keep the others from *)
(* being called.                                                           *)
AllAreCalled ==
    iter.open /\ Pending = {} => iter.kept \subseteq iter.called

(* When the members settle, Tendermint's validators become the members.    *)
ChangesReachTendermint ==
    \A m \in ValidatorSets :
        <>[](work.members = m /\ work.updater) => <>[](tmVals = m)
=============================================================================
