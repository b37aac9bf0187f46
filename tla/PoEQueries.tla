----------------------------- MODULE PoEQueries -----------------------------
(* Queries on the contracts of PoE: the contract adapters of x/poe/contract*)
(* with their paging, the gRPC server of the module, the servers that      *)
(* answer for the SDK's staking and distribution modules, and the staking  *)
(* queries of contracts.  Each of them reads the same contract state, which*)
(* changes between the pages of a client.  An address is the position of   *)
(* its text in the order of the contract's map.                            *)
EXTENDS Integers, Sequences, FiniteSets, Functions

CONSTANTS
    N,              \* operators, in the order of their addresses
    NoText,         \* the empty string instead of an address
    Malformed,      \* a string that is no address
    PubKeyTypes,    \* key types the consensus parameters allow
    PageDefault,    \* contract: page size without a limit
    PageMax,        \* contract: largest page
    Limits,         \* page sizes clients ask for, 0 is none
    Uint64,         \* 2^64: an amount from there on does not fit
    Amounts,        \* amounts that are bonded
    Stakers,        \* operators whose tokens move
    MaxChanges      \* bound on the changes of the contracts

ASSUME QueriesAssumption ==
    /\ N \in Nat \ {0} /\ Uint64 \in Nat
    /\ PubKeyTypes \subseteq {"ed25519", "secp256k1", "sr25519"}
    /\ PageDefault \in 1 .. PageMax /\ PageMax \in Nat
    /\ Limits \subseteq Nat /\ Amounts \subseteq Nat /\ Stakers \subseteq 1 .. N
    /\ NoText \notin 1 .. N /\ Malformed \notin 1 .. N /\ NoText # Malformed

Operators == 1 .. N

VARIABLES
    ready,      \* the contracts are set up and their addresses stored
    vals,       \* valset contract: entry of each operator
    stake,      \* stake contract: tokens of each operator
    claims,     \* stake contract: unbonding amounts, oldest first
    reward,     \* distribution contract: what can be withdrawn
    session,    \* a client that lists the validators page by page
    changes

vars == <<ready, vals, stake, claims, reward, session, changes>>

Unregistered == [key |-> "none", active |-> FALSE, jailed |-> FALSE]
Registered == {o \in Operators : vals[o] # Unregistered}
Active == {o \in Registered : vals[o].active}

(* Arguments of a query.                                                   *)
Addresses == Operators \cup {NoText, Malformed}
OK(v) == [code |-> "OK", value |-> v]
Err(c) == [code |-> c]

-----------------------------------------------------------------------------
(* The contracts.                                                          *)

Smaller(a, b) == IF a < b THEN a ELSE b

(* A list that the contract keeps in the order of addresses.               *)
InOrder(S) ==
    LET upTo[n \in 0 .. N] == IF n = 0 THEN <<>>
                              ELSE IF n \in S THEN Append(upTo[n - 1], n) ELSE upTo[n - 1]
    IN  upTo[N]

(* A page of it.                                                           *)
ContractPage(S, startAfter, limit) ==
    LET rest == InOrder({o \in S : o > startAfter})
        size == IF limit = 0 THEN PageDefault ELSE Smaller(limit, PageMax)
    IN  SubSeq(rest, 1, Smaller(size, Len(rest)))

-----------------------------------------------------------------------------
(* Adapters of the contracts.                                              *)

(* Mutant: the first entry of the page.                                    *)
CursorOfFirst(page) == IF page = <<>> THEN 0 ELSE Head(page)

(* The last entry; 0 is the empty cursor.                                  *)
PaginationCursor(page) == IF page = <<>> THEN 0 ELSE page[Len(page)]

(* The request of a page.  Mutant: the key is left behind.                 *)
NewPaginatorKeyless(pag) ==
    IF pag.offset # 0 \/ pag.countTotal THEN Err("InvalidArgument")
    ELSE OK([startAfter |-> 0, limit |-> pag.limit])
NewPaginator(pag) ==
    IF pag.offset # 0 \/ pag.countTotal THEN Err("InvalidArgument")
    ELSE OK([startAfter |-> pag.key, limit |-> pag.limit])

toCosmosPubKey(o) ==
    IF vals[o].key \in {"ed25519", "secp256k1"} THEN OK(<<vals[o].key, o>>) ELSE Err("error")

ToValidator(o) ==
    [operator |-> o, key |-> toCosmosPubKey(o).value, jailed |-> vals[o].jailed,
     status |-> IF vals[o].active THEN "Bonded" ELSE "Unbonded"]

(* The cursor is returned for every page that is not empty.                *)
ListValidators(p) ==
    LET page == ContractPage(Registered, p.startAfter, p.limit) IN
    IF ~ready \/ \E o \in Range(page) : toCosmosPubKey(o).code # "OK" THEN Err("error")
    ELSE OK([validators |-> [i \in DOMAIN page |-> ToValidator(page[i])],
             cursor     |-> PaginationCursor(page)])

(* A sequence with at most one validator: empty is nil.                    *)
QueryValidator(o) ==
    IF ~ready THEN Err("error")
    ELSE IF o \notin Registered THEN OK(<<>>)
    ELSE IF toCosmosPubKey(o).code # "OK" THEN Err("error") ELSE OK(<<ToValidator(o)>>)

(* JSON of an active validator: only the field of its key type is there.   *)
ValidatorInfo(o) ==
    [operator |-> o, ed25519 |-> IF vals[o].key = "ed25519" THEN o ELSE 0,
     secp256k1 |-> IF vals[o].key = "secp256k1" THEN o ELSE 0]

(* Unmarshal into the response of the previous page: an element that is in *)
(* the memory of the slice keeps the fields the JSON does not have.        *)
Unmarshal(memory, page) ==
    [i \in 1 .. IF Len(memory) > Len(page) THEN Len(memory) ELSE Len(page) |->
        IF i > Len(page) THEN memory[i]
        ELSE LET e == ValidatorInfo(page[i]) IN
             IF i > Len(memory) THEN e
             ELSE [operator  |-> e.operator,
                   ed25519   |-> IF e.ed25519 # 0 THEN e.ed25519 ELSE memory[i].ed25519,
                   secp256k1 |-> IF e.secp256k1 # 0 THEN e.secp256k1 ELSE memory[i].secp256k1]]

NextActivePage(memory, seen, startAfter) ==
    LET page == ContractPage(Active, startAfter, 0)
        rsp  == Unmarshal(memory, page)
    IN  [memory |-> rsp, cursor |-> PaginationCursor(page),
         seen   |-> seen \o SubSeq(rsp, 1, Len(page))]

(* Mutant: the next page is not asked for.                                 *)
IterateFirstPage == NextActivePage(<<>>, <<>>, 0)

MoreActive(it) == IF it.cursor = 0 THEN it ELSE NextActivePage(it.memory, it.seen, it.cursor)

(* The elements that the callback is called with.  Every page moves the    *)
(* cursor, so N + 1 of them are enough.                                    *)
IterateActiveValidators ==
    LET it[n \in 0 .. N + 1] == IF n = 0 THEN NextActivePage(<<>>, <<>>, 0) ELSE MoreActive(it[n - 1])
    IN  it[N + 1]

ConvertToTendermintPubKey(info) ==
    IF info.ed25519 # 0 THEN <<"ed25519", info.ed25519>> ELSE <<"secp256k1", info.secp256k1>>

(* A sequence with at most one amount: nil for an account without tokens.  *)
StakedLiquidOnly(o) ==
    IF ~ready THEN Err("error")
    ELSE OK(IF stake[o].liquid = 0 THEN <<>> ELSE <<stake[o].liquid>>)
QueryStakedAmount(o) ==
    IF ~ready THEN Err("error")
    ELSE OK(IF stake[o].liquid = 0 /\ stake[o].vesting = 0 THEN <<>>
            ELSE <<stake[o].liquid + stake[o].vesting>>)

(* One page of the claims is asked for.                                    *)
QueryStakingUnbonding(o) ==
    IF ~ready THEN Err("error")
    ELSE OK(SubSeq(claims[o], 1, Smaller(PageDefault, Len(claims[o]))))

QueryReward(o) == IF ~ready THEN Err("error") ELSE OK(reward[o])

-----------------------------------------------------------------------------
(* The gRPC server of the module.                                          *)

ContractAddress(known) ==
    IF ~known THEN Err("Internal") ELSE IF ~ready THEN Err("NotFound") ELSE OK("address")

Validators(status, pag) ==
    LET p == NewPaginator(pag) IN
    IF status # "" THEN Err("Unimplemented")
    ELSE IF p.code # "OK" THEN p
    ELSE LET r == ListValidators(p.value) IN
         IF r.code # "OK" THEN Err("Internal") ELSE r

Validator(a) ==
    IF a = NoText THEN Err("InvalidArgument")
    ELSE IF a = Malformed THEN Err("error")
    ELSE LET r == QueryValidator(a) IN
         IF r.code # "OK" THEN Err("Internal")
         ELSE IF r.value = <<>> THEN Err("NotFound") ELSE OK(r.value[1])

ValidatorDelegation(a) ==
    IF a \notin Operators THEN Err("InvalidArgument")
    ELSE LET r == QueryStakedAmount(a) IN
         IF r.code # "OK" THEN Err("Internal")
         ELSE IF r.value = <<>> THEN Err("NotFound") ELSE OK(r.value[1])

ValidatorUnbondingDelegations(a) ==
    IF a \notin Operators THEN Err("InvalidArgument")
    ELSE LET r == QueryStakingUnbonding(a) IN IF r.code # "OK" THEN Err("Internal") ELSE r

ValidatorOutstandingReward(a) ==
    IF a \notin Operators THEN Err("InvalidArgument")
    ELSE LET r == QueryReward(a) IN IF r.code # "OK" THEN Err("Internal") ELSE r

-----------------------------------------------------------------------------
(* The server for the staking module's queries.                            *)

(* Mutant: an operator without a delegation is an error.                   *)
DelegationsOrError(a) ==
    LET r == ValidatorDelegation(a) IN
    IF r.code # "OK" THEN r ELSE OK(<<[delegator |-> a, validator |-> a, balance |-> r.value]>>)

ValidatorDelegations(a) ==
    LET r == ValidatorDelegation(a) IN
    IF r.code = "NotFound" THEN OK(<<>>)
    ELSE IF r.code # "OK" THEN r
    ELSE OK(<<[delegator |-> a, validator |-> a, balance |-> r.value]>>)

StakingUnbondingDelegations(a) ==
    LET r == ValidatorUnbondingDelegations(a) IN
    IF r.code # "OK" THEN r
    ELSE OK(<<[delegator |-> a, validator |-> a, entries |-> r.value]>>)

Delegation(d, v) ==
    IF d = NoText \/ v = NoText THEN Err("InvalidArgument")
    ELSE IF d # v THEN Err("NotFound")
    ELSE LET r == ValidatorDelegations(v) IN
         IF r.code # "OK" THEN r
         ELSE IF r.value = <<>> THEN Err("NotFound") ELSE OK(r.value[1])

UnbondingDelegation(d, v) ==
    IF d = NoText \/ v = NoText THEN Err("InvalidArgument")
    ELSE IF d # v THEN Err("NotFound")
    ELSE LET r == StakingUnbondingDelegations(v) IN
         IF r.code # "OK" THEN r
         ELSE IF r.value = <<>> THEN Err("NotFound") ELSE OK(r.value[1])

DelegatorDelegations(d) ==
    IF d = NoText THEN Err("InvalidArgument") ELSE ValidatorDelegations(d)

DelegatorUnbondingDelegations(d) ==
    IF d = NoText THEN Err("InvalidArgument") ELSE StakingUnbondingDelegations(d)

(* An account that is no validator is an error here.                       *)
DelegatorValidators(d) ==
    LET r == Validator(d) IN IF r.code # "OK" THEN r ELSE OK(<<r.value>>)

DelegatorValidator(d) == Validator(d)

-----------------------------------------------------------------------------
(* The server for the distribution module's queries.                       *)

OutstandingRewards(a) ==
    LET r == ValidatorOutstandingReward(a) IN
    IF r.code # "OK" THEN r ELSE OK(IF r.value = 0 THEN <<>> ELSE <<r.value>>)

DistributionDelegatorValidators(d) ==
    IF d = NoText THEN Err("InvalidArgument")
    ELSE LET r == Validator(d) IN
         IF r.code = "OK" THEN OK(<<r.value.operator>>)
         ELSE IF r.code = "NotFound" THEN OK(<<>>) ELSE r

-----------------------------------------------------------------------------
(* Staking queries of contracts.  An amount that does not fit panics.      *)

NextBatch(all) ==
    IF all.cursor = 0 \/ all.failed THEN all
    ELSE LET r == ListValidators([startAfter |-> all.cursor, limit |-> 0]) IN
         IF r.code # "OK" THEN [all EXCEPT !.failed = TRUE]
         ELSE [found |-> all.found \o r.value.validators, cursor |-> r.value.cursor, failed |-> FALSE]

AllValidators ==
    LET first == ListValidators([startAfter |-> 0, limit |-> 0])
        all[n \in 0 .. N + 1] ==
            IF n = 0 THEN [found |-> first.value.validators, cursor |-> first.value.cursor,
                           failed |-> FALSE]
            ELSE NextBatch(all[n - 1])
    IN  IF first.code # "OK" THEN first
        ELSE IF all[N + 1].failed THEN Err("error") ELSE OK(all[N + 1].found)

AllDelegations(d) ==
    IF d \notin Operators THEN Err("error")
    ELSE LET r == QueryStakedAmount(d) IN
         IF r.code # "OK" \/ r.value = <<>> THEN r
         ELSE IF r.value[1] >= Uint64 THEN Err("panic") ELSE r

ContractDelegation(d, v) ==
    IF {d, v} \cap {NoText, Malformed} # {} THEN Err("error")
    ELSE IF d # v THEN OK(<<>>)
    ELSE LET r == QueryStakedAmount(d)
             w == QueryReward(d)
             n == IF r.value = <<>> THEN 0 ELSE r.value[1]
         IN  IF r.code # "OK" \/ w.code # "OK" THEN Err("error")
             ELSE IF n = 0 /\ w.value = 0 THEN OK(<<>>)
             ELSE IF n >= Uint64 \/ w.value >= Uint64 THEN Err("panic")
             ELSE OK(<<[amount |-> n, rewards |-> w.value]>>)

-----------------------------------------------------------------------------
(* What changes the contracts, see ValidatorStaking for how.               *)

Change == changes < MaxChanges /\ changes' = changes + 1

(* The bootstrap of PoE.                                                   *)
SetUp ==
    /\ ~ready /\ ready' = TRUE
    /\ UNCHANGED <<vals, stake, claims, reward, session, changes>>

(* Every operator registers once.  NewValidatorPubkey has two key types.   *)
Register(o, type) ==
    /\ ready /\ Change
    /\ o \notin Registered
    /\ type \in PubKeyTypes \cap {"ed25519", "secp256k1"}
    /\ vals' = [vals EXCEPT ![o] = [key |-> type, active |-> FALSE, jailed |-> FALSE]]
    /\ UNCHANGED <<ready, stake, claims, reward, session>>

(* The contract's new set of active validators, none of them jailed.       *)
UpdateActive(S) ==
    /\ ready /\ Change
    /\ S \in SUBSET {o \in Registered : ~vals[o].jailed}
    /\ vals' = [o \in Operators |-> IF o \in Registered THEN [vals[o] EXCEPT !.active = o \in S]
                                    ELSE vals[o]]
    /\ UNCHANGED <<ready, stake, claims, reward, session>>

Jail(o) ==
    /\ ready /\ Change
    /\ o \in Registered
    /\ vals' = [vals EXCEPT ![o] = [key |-> @.key, active |-> FALSE, jailed |-> ~@.jailed]]
    /\ UNCHANGED <<ready, stake, claims, reward, session>>

Bond(o, liquid, vesting) ==
    /\ ready /\ Change
    /\ stake' = [stake EXCEPT ![o] = [liquid |-> @.liquid + liquid, vesting |-> @.vesting + vesting]]
    /\ UNCHANGED <<ready, vals, claims, reward, session>>

(* Liquid tokens first.                                                    *)
Unbond(o, n) ==
    /\ ready /\ Change
    /\ n \in 1 .. stake[o].liquid + stake[o].vesting
    /\ LET l == Smaller(n, stake[o].liquid) IN
       stake' = [stake EXCEPT ![o] = [liquid |-> @.liquid - l, vesting |-> @.vesting - (n - l)]]
    /\ claims' = [claims EXCEPT ![o] = Append(@, n)]
    /\ UNCHANGED <<ready, vals, reward, session>>

Release(o) ==
    /\ ready /\ claims[o] # <<>>
    /\ claims' = [claims EXCEPT ![o] = Tail(@)]
    /\ UNCHANGED <<ready, vals, stake, reward, session, changes>>

Distribute(o) ==
    /\ ready /\ Change
    /\ reward' = [reward EXCEPT ![o] = 1 - @]
    /\ UNCHANGED <<ready, vals, stake, claims, session>>

-----------------------------------------------------------------------------
(* A client lists all validators with the key of the previous answer.      *)

Closed == [open |-> FALSE, key |-> 0, limit |-> 0, got |-> {}, twice |-> FALSE, start |-> {}]

(* The session after an answer; a client goes on while there is a key.     *)
After(s, answer) ==
    LET page == {answer.value.validators[i].operator : i \in DOMAIN answer.value.validators} IN
    [s EXCEPT !.open = answer.value.cursor # 0, !.key = answer.value.cursor,
              !.got = @ \cup page, !.twice = @ \/ page \cap s.got # {}]

FirstPage(limit) ==
    LET answer == Validators("", [key |-> 0, limit |-> limit, offset |-> 0, countTotal |-> FALSE])
    IN  /\ ~session.open /\ answer.code = "OK"
        /\ session' = After([Closed EXCEPT !.limit = limit, !.start = Registered], answer)
        /\ UNCHANGED <<ready, vals, stake, claims, reward, changes>>

NextPage ==
    /\ session.open
    /\ UNCHANGED <<ready, vals, stake, claims, reward, changes>>
    /\ \E answer \in {Validators("", [key |-> session.key, limit |-> session.limit, offset |-> 0,
                                      countTotal |-> FALSE])} :
          answer.code = "OK" /\ session' = After(session, answer)

Init ==
    /\ ready = FALSE
    /\ vals = [o \in Operators |-> Unregistered]
    /\ stake = [o \in Operators |-> [liquid |-> 0, vesting |-> 0]]
    /\ claims = [o \in Operators |-> <<>>]
    /\ reward = [o \in Operators |-> 0]
    /\ session = Closed
    /\ changes = 0

Next ==
    \/ SetUp
    \/ \E o \in Operators :
          \/ \E type \in PubKeyTypes : Register(o, type)
          \/ Jail(o)
    \/ \E o \in Stakers :
          \/ \E l, v \in Amounts : Bond(o, l, v)
          \/ \E n \in Amounts : Unbond(o, n)
          \/ Release(o) \/ Distribute(o)
    \/ \E S \in SUBSET Operators : UpdateActive(S)
    \/ \E limit \in Limits : FirstPage(limit)
    \/ NextPage

(* The client asks for the next page.                                      *)
Spec == Init /\ [][Next]_vars /\ WF_vars(NextPage)

-----------------------------------------------------------------------------
(* Properties.                                                             *)

(* IterateActiveValidators calls back once for every active validator, in  *)
(* the order of addresses, over any number of pages; the keys are right as *)
(* long as the active validators have one type of key.  The loop of the    *)
(* contracts' AllValidators query ends with all validators, each once and  *)
(* as the query for the single validator shows it.                         *)
ListingsAreComplete ==
    LET it  == IterateActiveValidators
        all == AllValidators
    IN  /\ it.cursor = 0
        /\ [i \in DOMAIN it.seen |-> it.seen[i].operator] = InOrder(Active)
        /\ Cardinality({vals[o].key : o \in Active}) = 1 =>
              \A i \in DOMAIN it.seen :
                  LET o == it.seen[i].operator IN
                  ConvertToTendermintPubKey(it.seen[i]) = <<vals[o].key, o>>
        /\ ready =>
              /\ all.code = "OK"
              /\ [i \in DOMAIN all.value |-> all.value[i].operator] = InOrder(Registered)
              /\ \A i \in DOMAIN all.value : OK(all.value[i]) = Validator(all.value[i].operator)

(* IterateActiveValidators iterates through the active validators: each is *)
(* passed on with the key it registered.                                   *)
IterationKeys ==
    LET it == IterateActiveValidators IN
    \A i \in DOMAIN it.seen :
        LET o == it.seen[i].operator IN ConvertToTendermintPubKey(it.seen[i]) = <<vals[o].key, o>>

(* A client that has followed the keys to the end has every validator that *)
(* was registered when it began, each once, whatever registered and bonded *)
(* between its pages, and whatever page size it asked for.                 *)
PagesCoverAll ==
    /\ ~session.twice
    /\ session.got \subseteq Registered
    /\ ~session.open => session.start \subseteq session.got

(* The key is returned for the last page too, and yet paging ends.         *)
SessionEnds == session.open ~> ~session.open

(* The module, the staking and distribution servers and the contracts'     *)
(* query answer alike: the same delegations with the same balance, a       *)
(* delegator other than the validator has none, the account of no validator*)
(* is NotFound for one and an empty list for another; and nothing is       *)
(* answered before the contracts are set up.                               *)
ServersAgree ==
    \A d, v \in Addresses :
        LET native == ValidatorDelegation(d)
            list   == DelegatorDelegations(d)
            single == Delegation(d, v)
            asked  == AllDelegations(d)
        IN  /\ single.code = "OK" <=> d = v /\ native.code = "OK"
            /\ single.code = "OK" => single.value.balance = native.value /\ list = OK(<<single.value>>)
            /\ list = OK(<<>>) <=> native.code = "NotFound"
            /\ d \in Operators /\ ready =>
                  /\ list.code = "OK" /\ Len(list.value) <= 1
                  /\ asked.code = "panic" \/ asked = OK([i \in DOMAIN list.value |-> list.value[i].balance])
                  /\ asked.code = "panic" => native.value >= Uint64
            /\ d \in Operators =>
                  (DelegatorValidators(d).code = "NotFound" <=> DistributionDelegatorValidators(d) = OK(<<>>))
            /\ DelegatorValidators(d).code = "OK" =>
                  DistributionDelegatorValidators(d) = OK(<<DelegatorValidator(d).value.operator>>)
            /\ ~ready => /\ "OK" \notin {native.code, list.code, single.code, asked.code,
                                        UnbondingDelegation(d, v).code, OutstandingRewards(d).code,
                                        Validator(d).code, AllValidators.code}
                         /\ d = v => ContractDelegation(d, v).code = "error"

(* What an operator owns is reported.  Its tokens, bonded and unbonding,   *)
(* are those the stake contract holds for it; some are missing only when   *)
(* there are more claims than the contract puts on a page.  A contract     *)
(* sees the delegation as long as there is stake or a reward that is not   *)
(* withdrawn, also after everything is unbonded.                           *)
HoldingsAreReported ==
    ready =>
        \A o \in Operators :
            LET bonded  == ValidatorDelegation(o)
                entries == DelegatorUnbondingDelegations(o).value[1].entries
                held    == stake[o].liquid + stake[o].vesting + SumFunction(claims[o])
                told    == (IF bonded.code = "OK" THEN bonded.value ELSE 0) + SumFunction(entries)
            IN  /\ told = held \/ (told < held /\ Len(claims[o]) > PageDefault)
                /\ ContractDelegation(o, o) = OK(<<>>) <=>
                      bonded.code = "NotFound" /\ OutstandingRewards(o) = OK(<<>>)

=============================================================================
