------------------------ MODULE ValidatorStakingProof ------------------------
(***************************************************************************)
(* Proofs about ValidatorStaking for every set of operators, every balance *)
(* and every amount.                                                       *)
(*                                                                         *)
(* Sound is the inductive invariant, a predicate on the chain record so    *)
(* that it can be followed through the handlers of one transaction.  It    *)
(* lets balances be any integers.  That no balance is negative, not even   *)
(* the stake contract's after a slash, rests on the sum of what all        *)
(* operators have staked and claimed; the second half adds it, with Backed *)
(* and the facts about sums of RecursionProof.                             *)
(***************************************************************************)
EXTENDS ValidatorStaking, RecursionProof, TLAPS

(* The prover of every leaf that names no other.                            *)
USE SMTT(30)

IntChain == [bal        : [Accounts -> Int],
             acc        : [Operators -> Account],
             staked     : [Operators -> Pots],
             claims     : [Operators -> Pots],
             grant      : [Operators \X Operators -> Nat],
             registered : SUBSET Operators,
             points     : [Operators -> 0 .. MaxPoints]]

Sound(s) ==
    /\ s \in IntChain
    /\ \A m \in ModuleAccounts : s.bal[m] = 0
    /\ \A op \in VestingAccounts :
          /\ s.acc[op].left <= s.bal[op] + s.acc[op].dv
          /\ s.staked[op].vesting + s.claims[op].vesting <= s.acc[op].dv + s.acc[op].df

IInv == Sound(chain) /\ newPoints \in InitialPoints /\ privileges \subseteq Privileges

(* The accounts of modules, contracts and operators are all different.     *)
LEMMA Distinct ==
    /\ BondedPool \in Accounts /\ TwasmModule \in Accounts
    /\ StakeContract \in Accounts /\ ValsetContract \in Accounts
    /\ BondedPool # TwasmModule /\ BondedPool # StakeContract /\ BondedPool # ValsetContract
    /\ TwasmModule # StakeContract /\ TwasmModule # ValsetContract
    /\ StakeContract # ValsetContract
    /\ \A op \in Operators : /\ op \in Accounts /\ op # BondedPool /\ op # TwasmModule
                             /\ op # StakeContract /\ op # ValsetContract
    /\ VestingAccounts \subseteq Operators
    /\ ModuleAccounts = {BondedPool, TwasmModule}
BY StakingAssumption DEF Accounts, ModuleAccounts, Contracts, BondedPool, TwasmModule,
   StakeContract, ValsetContract, VestingAccounts

(* Tracking a delegation adds the amount to the two counters, and takes at *)
(* least what is locked beyond the rest of the balance from the vesting    *)
(* tokens.                                                                 *)
LEMMA DelegationTracked ==
    ASSUME NEW acc \in Account, NEW n \in Nat
    PROVE  LET new == TrackDelegation(acc, n) IN
           /\ new \in Account
           /\ new.left = acc.left
           /\ new.dv + new.df = acc.dv + acc.df + n
           /\ \A b \in Int : n <= b /\ acc.left <= b + acc.dv => acc.left <= (b - n) + new.dv
<1> DEFINE x == Least(Positive(acc.left - acc.dv), n)
<1>1. x \in Nat /\ x <= n /\ (x = n \/ acc.left <= acc.dv + x)
  BY DEF Least, Positive, Account
<1>2. TrackDelegation(acc, n) = [left |-> acc.left, dv |-> acc.dv + x, df |-> acc.df + (n - x)]
  BY DEF TrackDelegation, Account
<1> HIDE DEF x
<1> QED BY <1>1, <1>2 DEF Account

(* Tracking the end of a delegation takes at most the amount off.          *)
LEMMA UndelegationTracked ==
    ASSUME NEW acc \in Account, NEW n \in Nat
    PROVE  LET new == TrackUndelegation(acc, n) IN
           /\ new \in Account
           /\ new.left = acc.left
           /\ acc.dv + acc.df <= new.dv + new.df + n
           /\ acc.dv <= new.dv + n
<1> DEFINE x == Least(acc.df, n)
           y == Least(acc.dv, n - x)
<1>1. x \in Nat /\ x <= n /\ x <= acc.df
  BY DEF Least, Account
<1>2. y \in Nat /\ y <= acc.dv /\ x + y <= n
  BY <1>1 DEF Least, Account
<1>3. TrackUndelegation(acc, n) = [left |-> acc.left, dv |-> acc.dv - y, df |-> acc.df - x]
  BY DEF TrackUndelegation, Account
<1> HIDE DEF x, y
<1> QED BY <1>1, <1>2, <1>3 DEF Account

(* Only the balances change in a transfer.                                 *)
LEMMA MoveResult ==
    ASSUME NEW s \in IntChain, NEW from \in Accounts, NEW to \in Accounts, NEW n \in Nat
    PROVE  LET r == Move(s, from, to, n) IN
           /\ r \in IntChain
           /\ r.acc = s.acc /\ r.staked = s.staked /\ r.claims = s.claims
           /\ r.registered = s.registered /\ r.points = s.points
           /\ \A a \in Accounts : r.bal[a] = IF from = to THEN s.bal[a]
                                             ELSE IF a = from THEN s.bal[a] - n
                                             ELSE IF a = to THEN s.bal[a] + n
                                             ELSE s.bal[a]
<1>1. CASE from = to
  BY <1>1 DEF Move
<1>2. CASE from # to
  <2> DEFINE bal == [s.bal EXCEPT ![from] = @ - n, ![to] = @ + n]
  <2>1. bal \in [Accounts -> Int]
    BY DEF IntChain
  <2>2. Move(s, from, to, n) = [s EXCEPT !.bal = bal]
    BY <1>2, Zenon DEF Move, IntChain
  <2>3. \A a \in Accounts : bal[a] = IF a = from THEN s.bal[a] - n
                                     ELSE IF a = to THEN s.bal[a] + n ELSE s.bal[a]
    BY <1>2 DEF IntChain
  <2> HIDE DEF bal
  <2> QED BY <1>2, <2>1, <2>2, <2>3 DEF IntChain
<1> QED BY <1>1, <1>2

(* A transfer between accounts that are not module accounts keeps Sound:   *)
(* what is locked is not spent.                                            *)
LEMMA SendSound ==
    ASSUME NEW s, Sound(s), NEW from \in Accounts \ ModuleAccounts,
           NEW to \in Accounts \ ModuleAccounts, NEW n \in Nat,
           NEW r \in SendCoins(s, from, to, n)
    PROVE  /\ Sound(r)
           /\ r.acc = s.acc /\ r.staked = s.staked /\ r.claims = s.claims
           /\ r.registered = s.registered /\ r.points = s.points
<1>1. r = Move(s, from, to, n) /\ n <= s.bal[from] - Locked(s, from)
  BY DEF SendCoins
<1>2. s \in IntChain
  BY DEF Sound
<1>3. /\ r \in IntChain
      /\ r.acc = s.acc /\ r.staked = s.staked /\ r.claims = s.claims
      /\ r.registered = s.registered /\ r.points = s.points
      /\ \A a \in Accounts : r.bal[a] = IF from = to THEN s.bal[a]
                                        ELSE IF a = from THEN s.bal[a] - n
                                        ELSE IF a = to THEN s.bal[a] + n
                                        ELSE s.bal[a]
  BY <1>1, <1>2, MoveResult
<1>4. \A m \in ModuleAccounts : r.bal[m] = 0
  BY <1>3, Distinct DEF Sound
<1>5. ASSUME NEW op \in VestingAccounts
      PROVE  r.acc[op].left <= r.bal[op] + r.acc[op].dv
  <2>1. op \in Operators /\ op \in Accounts /\ s.acc[op] \in Account /\ s.bal[op] \in Int
    BY <1>2, Distinct DEF IntChain
  <2>2. s.acc[op].left \in Nat /\ s.acc[op].dv \in Nat
    BY <2>1 DEF Account
  <2>3. s.acc[op].left <= s.bal[op] + s.acc[op].dv
    BY DEF Sound
  <2>4. CASE from = to \/ op # from
    <3>1. r.bal[op] = s.bal[op] \/ r.bal[op] = s.bal[op] + n
      BY <1>3, <2>1, <2>4
    <3> QED BY <1>3, <2>1, <2>2, <2>3, <3>1
  <2>5. CASE from # to /\ op = from
    <3>1. r.bal[op] = s.bal[op] - n
      BY <1>3, <2>1, <2>5
    <3>2. n <= s.bal[op] - Positive(s.acc[op].left - s.acc[op].dv)
      BY <1>1, <2>5 DEF Locked
    <3> QED BY <1>3, <2>1, <2>2, <2>3, <3>1, <3>2 DEF Positive
  <2> QED BY <2>4, <2>5
<1>6. \A op \in VestingAccounts :
          r.staked[op].vesting + r.claims[op].vesting <= r.acc[op].dv + r.acc[op].df
  BY <1>3 DEF Sound
<1> QED BY <1>3, <1>4, <1>5, <1>6 DEF Sound

(* The same for transfers that refuse module accounts as recipients.       *)
LEMMA SendToAccountSound ==
    ASSUME NEW s, Sound(s), NEW from \in Accounts \ ModuleAccounts,
           NEW to \in Accounts, NEW n \in Nat, NEW r \in SendToAccount(s, from, to, n)
    PROVE  Sound(r)
<1>1. to \in Accounts \ ModuleAccounts /\ r \in SendCoins(s, from, to, n)
  BY DEF SendToAccount
<1> QED BY <1>1, SendSound

(* handleDelegate moves the amount from the staker to the contract and     *)
(* tracks it; the bonded pool is as empty as before.                       *)
LEMMA DelegateResult ==
    ASSUME NEW s \in IntChain, NEW op \in Operators, NEW n \in Nat,
           NEW r \in handleDelegate(s, op, n)
    PROVE  /\ r \in IntChain
           /\ n <= s.bal[op]
           /\ r.staked = s.staked /\ r.claims = s.claims
           /\ r.registered = s.registered /\ r.points = s.points
           /\ \A a \in Accounts : r.bal[a] = IF a = op THEN s.bal[a] - n
                                             ELSE IF a = StakeContract THEN s.bal[a] + n
                                             ELSE s.bal[a]
           /\ op \in VestingAccounts => r.acc[op] = TrackDelegation(s.acc[op], n)
           /\ \A o \in Operators : o # op => r.acc[o] = s.acc[o]
<1> DEFINE m == Move(s, op, BondedPool, n)
<1>0. op \in Accounts /\ BondedPool \in Accounts /\ StakeContract \in Accounts
      /\ op # BondedPool /\ op # StakeContract /\ BondedPool # StakeContract
  BY Distinct
<1>1. PICK q \in DelegateCoins(s, op, n) : r \in SendToAccount(q, BondedPool, StakeContract, n)
  BY DEF handleDelegate
<1>2. /\ m \in IntChain
      /\ m.acc = s.acc /\ m.staked = s.staked /\ m.claims = s.claims
      /\ m.registered = s.registered /\ m.points = s.points
      /\ \A a \in Accounts : m.bal[a] = IF a = op THEN s.bal[a] - n
                                        ELSE IF a = BondedPool THEN s.bal[a] + n
                                        ELSE s.bal[a]
  BY <1>0, MoveResult
<1>3. n <= s.bal[op]
  BY <1>1, <1>0 DEF DelegateCoins, IntChain
<1>4. /\ q \in IntChain
      /\ q.bal = m.bal /\ q.staked = s.staked /\ q.claims = s.claims
      /\ q.registered = s.registered /\ q.points = s.points
      /\ op \in VestingAccounts => q.acc[op] = TrackDelegation(s.acc[op], n)
      /\ \A o \in Operators : o # op => q.acc[o] = s.acc[o]
  <2> HIDE DEF m
  <2>1. CASE op \in VestingAccounts
    <3>1. q = [m EXCEPT !.acc[op] = TrackDelegation(m.acc[op], n)]
      BY <1>1, <1>3, <2>1 DEF DelegateCoins, m
    <3>2. TrackDelegation(m.acc[op], n) \in Account
      <4>1. m.acc[op] \in Account
        BY <1>2 DEF IntChain
      <4> QED BY <4>1, DelegationTracked
    <3> QED BY <1>2, <3>1, <3>2, Zenon DEF IntChain
  <2>2. CASE op \notin VestingAccounts
    <3>1. q = m
      BY <1>1, <1>3, <2>2 DEF DelegateCoins, m
    <3> QED BY <1>2, <2>2, <3>1
  <2> QED BY <2>1, <2>2
<1>5. r = Move(q, BondedPool, StakeContract, n)
  BY <1>1 DEF SendToAccount, SendCoins
<1> HIDE DEF m
<1>6. /\ r \in IntChain
      /\ r.acc = q.acc /\ r.staked = q.staked /\ r.claims = q.claims
      /\ r.registered = q.registered /\ r.points = q.points
      /\ \A a \in Accounts : r.bal[a] = IF a = BondedPool THEN q.bal[a] - n
                                        ELSE IF a = StakeContract THEN q.bal[a] + n
                                        ELSE q.bal[a]
  <2>1. q \in IntChain
    BY <1>4
  <2>2. BondedPool \in Accounts /\ StakeContract \in Accounts /\ BondedPool # StakeContract
    BY <1>0
  <2> QED BY <1>5, <2>1, <2>2, MoveResult
<1>7. ASSUME NEW a \in Accounts
      PROVE  r.bal[a] = IF a = op THEN s.bal[a] - n
                        ELSE IF a = StakeContract THEN s.bal[a] + n
                        ELSE s.bal[a]
  <2>1. s.bal[a] \in Int
    BY DEF IntChain
  <2> QED BY <1>0, <1>2, <1>4, <1>6, <2>1
<1> QED BY <1>3, <1>4, <1>6, <1>7

(* handleUndelegate moves the amount from the contract to the recipient    *)
(* and tracks that; the bonded pool is as empty as before.                 *)
LEMMA UndelegateResult ==
    ASSUME NEW s \in IntChain, NEW op \in Operators, NEW n \in Nat,
           NEW r \in handleUndelegate(s, op, n)
    PROVE  /\ r \in IntChain
           /\ r.staked = s.staked /\ r.claims = s.claims
           /\ r.registered = s.registered /\ r.points = s.points
           /\ \A a \in Accounts : r.bal[a] = IF a = op THEN s.bal[a] + n
                                             ELSE IF a = StakeContract THEN s.bal[a] - n
                                             ELSE s.bal[a]
           /\ op \in VestingAccounts => r.acc[op] = TrackUndelegation(s.acc[op], n)
           /\ \A o \in Operators : o # op => r.acc[o] = s.acc[o]
<1>0. op \in Accounts /\ BondedPool \in Accounts /\ StakeContract \in Accounts
      /\ op # BondedPool /\ op # StakeContract /\ BondedPool # StakeContract
  BY Distinct
<1>1. PICK q \in SendCoins(s, StakeContract, BondedPool, n) : r \in UndelegateCoins(q, op, n)
  BY DEF handleUndelegate
<1>2. q = Move(s, StakeContract, BondedPool, n)
  BY <1>1 DEF SendCoins
<1>3. /\ q \in IntChain
      /\ q.acc = s.acc /\ q.staked = s.staked /\ q.claims = s.claims
      /\ q.registered = s.registered /\ q.points = s.points
      /\ \A a \in Accounts : q.bal[a] = IF a = StakeContract THEN s.bal[a] - n
                                        ELSE IF a = BondedPool THEN s.bal[a] + n
                                        ELSE s.bal[a]
  <2>1. StakeContract \in Accounts /\ BondedPool \in Accounts /\ BondedPool # StakeContract
    BY <1>0
  <2> QED BY <1>2, <2>1, MoveResult
<1> DEFINE m == Move(q, BondedPool, op, n)
<1>4. /\ m \in IntChain
      /\ m.acc = q.acc /\ m.staked = q.staked /\ m.claims = q.claims
      /\ m.registered = q.registered /\ m.points = q.points
      /\ \A a \in Accounts : m.bal[a] = IF a = BondedPool THEN q.bal[a] - n
                                        ELSE IF a = op THEN q.bal[a] + n
                                        ELSE q.bal[a]
  <2>1. q \in IntChain
    BY <1>3
  <2>2. BondedPool \in Accounts /\ op \in Accounts /\ BondedPool # op
    BY <1>0
  <2> QED BY <2>1, <2>2, MoveResult
<1>5. /\ r \in IntChain
      /\ r.bal = m.bal /\ r.staked = m.staked /\ r.claims = m.claims
      /\ r.registered = m.registered /\ r.points = m.points
      /\ op \in VestingAccounts => r.acc[op] = TrackUndelegation(s.acc[op], n)
      /\ \A o \in Operators : o # op => r.acc[o] = s.acc[o]
  <2>1. CASE op \in VestingAccounts
    <3>1. r = [m EXCEPT !.acc[op] = TrackUndelegation(m.acc[op], n)]
      BY <1>1, <2>1 DEF UndelegateCoins
    <3> HIDE DEF m
    <3>2. TrackUndelegation(m.acc[op], n) \in Account
      <4>1. m.acc[op] \in Account
        BY <1>4 DEF IntChain
      <4> QED BY <4>1, UndelegationTracked
    <3> QED BY <1>3, <1>4, <3>1, <3>2, Zenon DEF IntChain
  <2>2. CASE op \notin VestingAccounts
    <3>1. r = m
      BY <1>1, <2>2 DEF UndelegateCoins
    <3> HIDE DEF m
    <3> QED BY <1>3, <1>4, <2>2, <3>1
  <2> QED BY <2>1, <2>2
<1> HIDE DEF m
<1>6. ASSUME NEW a \in Accounts
      PROVE  r.bal[a] = IF a = op THEN s.bal[a] + n
                        ELSE IF a = StakeContract THEN s.bal[a] - n
                        ELSE s.bal[a]
  <2>1. s.bal[a] \in Int
    BY DEF IntChain
  <2> QED BY <1>0, <1>3, <1>4, <1>5, <2>1
<1> QED BY <1>3, <1>4, <1>5, <1>6

(* A bond of liquid and vesting tokens keeps Sound: the contract's record  *)
(* of vesting tokens grows by what the account tracks.                     *)
LEMMA BondSound ==
    ASSUME NEW s, Sound(s), NEW op \in Operators, NEW l \in Nat, NEW v \in Nat,
           NEW r \in BondDelegation(s, op, l, v)
    PROVE  Sound(r)
<1>1. PICK q \in SendCoins(s, op, StakeContract, l) :
        LET bonded == [q EXCEPT !.staked[op] = Add(@, l, v)]
        IN  r \in IF v = 0 THEN {bonded} ELSE handleDelegate(bonded, op, v)
  BY Zenon DEF BondDelegation
<1> DEFINE b == [q EXCEPT !.staked[op] = Add(@, l, v)]
<1>2. Sound(q)
  <2>1. op \in Accounts \ ModuleAccounts /\ StakeContract \in Accounts \ ModuleAccounts
    BY Distinct
  <2> QED BY <1>1, <2>1, SendSound
<1>3. /\ b \in IntChain
      /\ b.bal = q.bal /\ b.acc = q.acc /\ b.claims = q.claims
      /\ b.staked[op].vesting = q.staked[op].vesting + v
      /\ \A o \in Operators : o # op => b.staked[o] = q.staked[o]
  <2>1. q \in IntChain /\ q.staked[op] \in Pots
    BY <1>2 DEF Sound, IntChain
  <2>2. /\ Add(q.staked[op], l, v) \in Pots
        /\ Add(q.staked[op], l, v).vesting = q.staked[op].vesting + v
    BY <2>1 DEF Pots, Add
  <2> QED BY <2>1, <2>2, Zenon DEF IntChain
<1>4. CASE v = 0
  <2>1. r = b
    BY <1>1, <1>4
  <2> HIDE DEF b
  <2>2. \A o \in Operators : b.staked[o].vesting = q.staked[o].vesting
    <3>1. q.staked[op].vesting \in Nat
      BY <1>2 DEF Sound, IntChain, Pots
    <3> QED BY <1>3, <1>4, <3>1
  <2> QED BY <1>2, <1>3, <2>1, <2>2, Distinct DEF Sound
<1>5. CASE v # 0
  <2>1. r \in handleDelegate(b, op, v)
    BY <1>1, <1>5
  <2> HIDE DEF b
  <2>2. /\ r \in IntChain
        /\ v <= b.bal[op]
        /\ r.staked = b.staked /\ r.claims = b.claims
        /\ \A a \in Accounts : r.bal[a] = IF a = op THEN b.bal[a] - v
                                          ELSE IF a = StakeContract THEN b.bal[a] + v
                                          ELSE b.bal[a]
        /\ op \in VestingAccounts => r.acc[op] = TrackDelegation(b.acc[op], v)
        /\ \A o \in Operators : o # op => r.acc[o] = b.acc[o]
    BY <1>3, <2>1, DelegateResult
  <2>3. \A m \in ModuleAccounts : r.bal[m] = 0
    BY <1>2, <1>3, <2>2, Distinct DEF Sound
  <2>4. ASSUME NEW o \in VestingAccounts
        PROVE  /\ r.acc[o].left <= r.bal[o] + r.acc[o].dv
               /\ r.staked[o].vesting + r.claims[o].vesting <= r.acc[o].dv + r.acc[o].df
    <3>1. /\ o \in Operators /\ o \in Accounts /\ o # StakeContract
          /\ q.acc[o] \in Account /\ q.bal[o] \in Int
          /\ q.staked[o].vesting \in Nat /\ q.claims[o].vesting \in Nat
      BY <1>2, Distinct DEF Sound, IntChain, Pots
    <3>2. /\ q.acc[o].left <= q.bal[o] + q.acc[o].dv
          /\ q.staked[o].vesting + q.claims[o].vesting <= q.acc[o].dv + q.acc[o].df
      BY <1>2 DEF Sound
    <3>3. CASE o # op
      BY <1>3, <2>2, <3>1, <3>2, <3>3
    <3>4. CASE o = op
      <4> DEFINE new == TrackDelegation(q.acc[o], v)
      <4>1. r.acc[o] = new /\ r.bal[o] = q.bal[o] - v /\ v <= q.bal[o]
        BY <1>3, <2>2, <3>1, <3>4
      <4>2. /\ new \in Account /\ new.left = q.acc[o].left
            /\ new.dv + new.df = q.acc[o].dv + q.acc[o].df + v
            /\ q.acc[o].left <= (q.bal[o] - v) + new.dv
        BY <3>1, <3>2, <4>1, DelegationTracked, Zenon
      <4>3. r.staked[o].vesting = q.staked[o].vesting + v /\ r.claims[o] = q.claims[o]
        BY <1>3, <2>2, <3>4
      <4> HIDE DEF new
      <4>4. r.acc[o].left <= r.bal[o] + r.acc[o].dv
        BY <4>1, <4>2, ZenonT(30)
      <4>5. r.staked[o].vesting + r.claims[o].vesting <= r.acc[o].dv + r.acc[o].df
        BY <3>1, <3>2, <4>1, <4>2, <4>3 DEF Account
      <4> QED BY <4>4, <4>5
    <3> QED BY <3>3, <3>4
  <2> QED BY <2>2, <2>3, <2>4 DEF Sound
<1> QED BY <1>4, <1>5

(* Sound says nothing of allowances, registrations and points.             *)
LEMMA FrameSound ==
    ASSUME NEW s, Sound(s), NEW r \in IntChain,
           r.bal = s.bal, r.acc = s.acc, r.staked = s.staked, r.claims = s.claims
    PROVE  Sound(r)
BY DEF Sound

(* An unbonding moves tokens from the stake to the claims, pot by pot.     *)
LEMMA UnbondSound ==
    ASSUME NEW s, Sound(s), NEW op \in Operators, NEW n \in Nat,
           NEW r \in UnbondDelegation(s, op, n)
    PROVE  Sound(r)
<1>0. s \in IntChain /\ s.staked[op] \in Pots /\ s.claims[op] \in Pots
  BY DEF Sound, IntChain
<1>1. PICK l \in 0 .. n :
        /\ l <= s.staked[op].liquid /\ n - l <= s.staked[op].vesting
        /\ r = [s EXCEPT !.staked[op] = Add(@, -l, l - n), !.claims[op] = Add(@, l, n - l)]
  BY Zenon DEF UnbondDelegation
<1> DEFINE st == Add(s.staked[op], -l, l - n)
           cl == Add(s.claims[op], l, n - l)
<1>2. /\ st \in Pots /\ cl \in Pots
      /\ st.vesting + cl.vesting = s.staked[op].vesting + s.claims[op].vesting
  BY <1>0, <1>1 DEF Pots, Add
<1>3. r = [s EXCEPT !.staked[op] = st, !.claims[op] = cl]
  BY <1>1
<1> HIDE DEF st, cl
<1>4. /\ r \in IntChain /\ r.bal = s.bal /\ r.acc = s.acc
      /\ r.staked[op] = st /\ r.claims[op] = cl
      /\ \A o \in Operators : o # op => r.staked[o] = s.staked[o] /\ r.claims[o] = s.claims[o]
  BY <1>0, <1>2, <1>3, Zenon DEF IntChain
<1>5. \A o \in Operators : r.staked[o].vesting + r.claims[o].vesting
                             = s.staked[o].vesting + s.claims[o].vesting
  BY <1>2, <1>4
<1> QED BY <1>4, <1>5, Distinct DEF Sound

(* The fee of a transaction is paid from tokens that are not locked.       *)
LEMMA DeductSound ==
    ASSUME NEW s, Sound(s), NEW payer \in Operators, NEW granter \in Operators,
           NEW fee \in Nat, NEW r \in DeductFees(s, payer, granter, fee)
    PROVE  Sound(r)
<1>0. granter \in Accounts \ ModuleAccounts /\ ValsetContract \in Accounts \ ModuleAccounts
  BY Distinct
<1>1. CASE granter = payer
  <2>1. r \in SendCoins(s, granter, ValsetContract, fee)
    BY <1>1 DEF DeductFees
  <2> QED BY <1>0, <2>1, SendSound
<1>2. CASE granter # payer
  <2> DEFINE pair == <<granter, payer>>
             q == [s EXCEPT !.grant[pair] = @ - fee]
  <2>1. fee <= s.grant[pair] /\ r \in SendCoins(q, granter, ValsetContract, fee)
    BY <1>2 DEF DeductFees
  <2>2. s \in IntChain /\ pair \in Operators \X Operators
    BY DEF Sound
  <2> HIDE DEF pair
  <2>3. s.grant[pair] - fee \in Nat
    BY <2>1, <2>2 DEF IntChain
  <2>4. /\ q \in IntChain /\ q.bal = s.bal /\ q.acc = s.acc
        /\ q.staked = s.staked /\ q.claims = s.claims
    BY <2>2, <2>3, Zenon DEF IntChain
  <2> HIDE DEF q
  <2>5. Sound(q)
    BY <2>4, FrameSound
  <2> QED BY <1>0, <2>1, <2>5, SendSound
<1> QED BY <1>1, <1>2

(* So is what every message of a transaction starts from.                  *)
LEMMA AnteSound ==
    ASSUME IInv, NEW payer \in Operators, NEW s \in AnteHandle(payer)
    PROVE  Sound(s)
<1>1. PICK granter \in Operators, fee \in Fees : s \in DeductFees(chain, payer, granter, fee)
  BY DEF AnteHandle
<1>2. fee \in Nat
  BY StakingAssumption
<1> QED BY <1>1, <1>2, DeductSound DEF IInv

(* Registration, self delegation and points together keep Sound.           *)
LEMMA CreateSound ==
    ASSUME IInv, NEW s, Sound(s), NEW op \in Operators, NEW l \in Nat, NEW v \in Nat,
           NEW r \in CreateValidator(s, op, l, v)
    PROVE  Sound(r)
<1>1. PICK p \in RegisterValidator(s, op) :
        \E q \in BondDelegation(p, op, l, v) :
            r = SetValidatorInitialEngagementPoints(q, op, l + v)
  BY DEF CreateValidator
<1>2. PICK q \in BondDelegation(p, op, l, v) :
        r = SetValidatorInitialEngagementPoints(q, op, l + v)
  BY <1>1
<1>3. p = [s EXCEPT !.registered = @ \cup {op}]
  BY DEF RegisterValidator
<1>4. /\ p \in IntChain /\ p.bal = s.bal /\ p.acc = s.acc
      /\ p.staked = s.staked /\ p.claims = s.claims
  BY <1>3, ZenonT(30) DEF Sound, IntChain
<1>5. Sound(q)
  <2>1. Sound(p)
    BY <1>4, FrameSound
  <2> QED BY <2>1, BondSound
<1>6. CASE r = q
  BY <1>5, <1>6
<1>7. CASE r = [q EXCEPT !.points[op] = newPoints]
  <2>1. newPoints \in 0 .. MaxPoints
    BY StakingAssumption DEF IInv
  <2>2. /\ r \in IntChain /\ r.bal = q.bal /\ r.acc = q.acc
        /\ r.staked = q.staked /\ r.claims = q.claims
    BY <1>5, <1>7, <2>1, Zenon DEF Sound, IntChain
  <2> QED BY <1>5, <2>2, FrameSound
<1> QED BY <1>2, <1>6, <1>7 DEF SetValidatorInitialEngagementPoints

(* Minting passes through the module account and leaves it empty.          *)
LEMMA MintSound ==
    ASSUME NEW s, Sound(s), NEW to \in Accounts, NEW n \in Nat,
           NEW r \in handleMintToken(s, to, n)
    PROVE  Sound(r)
<1> DEFINE q == [s EXCEPT !.bal[TwasmModule] = @ + n]
<1>0. s \in IntChain /\ TwasmModule \in Accounts /\ s.bal[TwasmModule] = 0
  BY Distinct DEF Sound
<1>1. to \notin ModuleAccounts /\ r \in SendCoins(q, TwasmModule, to, n)
  BY DEF handleMintToken, SendToAccount
<1>2. r = Move(q, TwasmModule, to, n)
  BY <1>1 DEF SendCoins
<1>3. /\ q \in IntChain /\ q.acc = s.acc /\ q.staked = s.staked /\ q.claims = s.claims
      /\ \A a \in Accounts : q.bal[a] = IF a = TwasmModule THEN n ELSE s.bal[a]
  BY <1>0 DEF IntChain
<1> HIDE DEF q
<1>4. to # TwasmModule
  BY <1>1, Distinct
<1>5. /\ r \in IntChain /\ r.acc = q.acc /\ r.staked = q.staked /\ r.claims = q.claims
      /\ \A a \in Accounts : r.bal[a] = IF a = TwasmModule THEN q.bal[a] - n
                                        ELSE IF a = to THEN q.bal[a] + n ELSE q.bal[a]
  <2>1. q \in IntChain
    BY <1>3
  <2>2. TwasmModule \in Accounts
    BY <1>0
  <2> QED BY <1>2, <1>4, <2>1, <2>2, MoveResult
<1>6. \A m \in ModuleAccounts : r.bal[m] = 0
  BY <1>1, <1>3, <1>5, Distinct DEF Sound
<1>7. ASSUME NEW op \in VestingAccounts
      PROVE  r.acc[op].left <= r.bal[op] + r.acc[op].dv
  <2>1. /\ op \in Accounts /\ op # TwasmModule
        /\ s.bal[op] \in Int /\ s.acc[op] \in Account
    BY <1>0, Distinct DEF IntChain
  <2>2. r.bal[op] = s.bal[op] \/ r.bal[op] = s.bal[op] + n
    BY <1>3, <1>5, <2>1
  <2>3. s.acc[op].left <= s.bal[op] + s.acc[op].dv
    BY DEF Sound
  <2> QED BY <1>3, <1>5, <2>1, <2>2, <2>3 DEF Account
<1>8. \A op \in VestingAccounts :
          r.staked[op].vesting + r.claims[op].vesting <= r.acc[op].dv + r.acc[op].df
  BY <1>3, <1>5 DEF Sound
<1> QED BY <1>5, <1>6, <1>7, <1>8 DEF Sound

(* Returned claims leave the vesting pot by the amount handleUndelegate    *)
(* takes off the tracked delegations, at most.                             *)
LEMMA ReturnSound ==
    ASSUME IInv, NEW op \in Operators, ReturnClaims(op)
    PROVE  Sound(chain')
<1> DEFINE c == chain.claims[op]
           s == [chain EXCEPT !.claims[op] = NoTokens]
<1>0. chain \in IntChain /\ c \in Pots /\ c.liquid \in Nat /\ c.vesting \in Nat /\ Sound(chain)
  BY DEF IInv, Sound, IntChain, Pots
<1>1. PICK q \in SendCoins(s, StakeContract, op, c.liquid) :
        chain' \in IF c.vesting = 0 THEN {q} ELSE handleUndelegate(q, op, c.vesting)
  BY DEF ReturnClaims
<1>2. /\ s \in IntChain /\ s.bal = chain.bal /\ s.acc = chain.acc /\ s.staked = chain.staked
      /\ s.claims[op] = NoTokens
      /\ \A o \in Operators : o # op => s.claims[o] = chain.claims[o]
  BY <1>0, ZenonT(30) DEF IntChain, Pots, NoTokens
<1> HIDE DEF s
<1>3. NoTokens.vesting = 0
  BY DEF NoTokens
<1>4. ASSUME NEW o \in VestingAccounts
      PROVE  s.staked[o].vesting + s.claims[o].vesting
                 + (IF o = op THEN c.vesting ELSE 0) <= s.acc[o].dv + s.acc[o].df
  <2>1. /\ o \in Operators /\ chain.staked[o].vesting \in Nat /\ chain.claims[o].vesting \in Nat
        /\ chain.acc[o].dv \in Nat /\ chain.acc[o].df \in Nat
    BY <1>0, Distinct DEF IntChain, Pots, Account
  <2>2. chain.staked[o].vesting + chain.claims[o].vesting <= chain.acc[o].dv + chain.acc[o].df
    BY <1>0 DEF Sound
  <2> QED BY <1>0, <1>2, <1>3, <2>1, <2>2
<1>5. Sound(s)
  <2>1. ASSUME NEW o \in VestingAccounts
        PROVE  s.staked[o].vesting + s.claims[o].vesting <= s.acc[o].dv + s.acc[o].df
    <3>1. /\ o \in Operators /\ s.staked[o].vesting \in Nat /\ s.claims[o].vesting \in Nat
          /\ s.acc[o].dv \in Nat /\ s.acc[o].df \in Nat
      BY <1>2, Distinct DEF IntChain, Pots, Account
    <3> QED BY <1>0, <1>4, <3>1
  <2> QED BY <1>0, <1>2, <2>1 DEF Sound
<1>6. Sound(q) /\ q.acc = s.acc /\ q.staked = s.staked /\ q.claims = s.claims
  <2>1. op \in Accounts \ ModuleAccounts /\ StakeContract \in Accounts \ ModuleAccounts
    BY Distinct
  <2> QED BY <1>0, <1>1, <1>5, <2>1, SendSound
<1>7. CASE c.vesting = 0
  BY <1>1, <1>6, <1>7, ZenonT(30)
<1>8. CASE c.vesting # 0
  <2> DEFINE r == chain'
             n == c.vesting
  <2>1. r \in handleUndelegate(q, op, n) /\ q \in IntChain
    BY <1>1, <1>6, <1>8, ZenonT(30) DEF Sound
  <2> HIDE DEF c
  <2>2. /\ r \in IntChain
        /\ r.staked = q.staked /\ r.claims = q.claims
        /\ \A a \in Accounts : r.bal[a] = IF a = op THEN q.bal[a] + n
                                          ELSE IF a = StakeContract THEN q.bal[a] - n
                                          ELSE q.bal[a]
        /\ op \in VestingAccounts => r.acc[op] = TrackUndelegation(q.acc[op], n)
        /\ \A o \in Operators : o # op => r.acc[o] = q.acc[o]
    BY <1>0, <2>1, UndelegateResult
  <2> HIDE DEF r
  <2>3. \A m \in ModuleAccounts : r.bal[m] = 0
    BY <1>6, <2>2, Distinct, ZenonT(30) DEF Sound
  <2>4. ASSUME NEW o \in VestingAccounts
        PROVE  /\ r.acc[o].left <= r.bal[o] + r.acc[o].dv
               /\ r.staked[o].vesting + r.claims[o].vesting <= r.acc[o].dv + r.acc[o].df
    <3>1. /\ o \in Operators /\ o \in Accounts /\ o # StakeContract
          /\ q.acc[o] \in Account /\ q.bal[o] \in Int
          /\ q.staked[o].vesting \in Nat /\ q.claims[o].vesting \in Nat
      BY <1>6, Distinct DEF Sound, IntChain, Pots
    <3>2. /\ q.acc[o].left <= q.bal[o] + q.acc[o].dv
          /\ q.staked[o].vesting + q.claims[o].vesting <= q.acc[o].dv + q.acc[o].df
      BY <1>6, ZenonT(30) DEF Sound
    <3>3. CASE o # op
      BY <2>2, <3>1, <3>2, <3>3, ZenonT(30)
    <3>4. CASE o = op
      <4> DEFINE new == TrackUndelegation(q.acc[o], n)
      <4>1. r.acc[o] = new /\ r.bal[o] = q.bal[o] + n
        BY <2>2, <3>1, <3>4
      <4>2. /\ new \in Account /\ new.left = q.acc[o].left
            /\ q.acc[o].dv + q.acc[o].df <= new.dv + new.df + n
            /\ q.acc[o].dv <= new.dv + n
        BY <1>0, <3>1, UndelegationTracked, Zenon
      <4>3. q.staked[o].vesting + q.claims[o].vesting + n <= q.acc[o].dv + q.acc[o].df
        BY <1>4, <1>6, <3>4, ZenonT(30)
      <4> HIDE DEF new
      <4>4. r.acc[o].left <= r.bal[o] + r.acc[o].dv
        BY <1>0, <3>1, <3>2, <4>1, <4>2 DEF Account
      <4>5. r.staked[o].vesting + r.claims[o].vesting <= r.acc[o].dv + r.acc[o].df
        BY <1>0, <2>2, <3>1, <4>1, <4>2, <4>3 DEF Account
      <4> QED BY <4>4, <4>5
    <3> QED BY <3>3, <3>4, ZenonT(30)
  <2> QED BY <2>2, <2>3, <2>4 DEF Sound, r
<1> QED BY <1>7, <1>8, ZenonT(30)

(* A slash takes from the contract's records and from its balance only.    *)
LEMMA SlashSound ==
    ASSUME IInv, NEW op \in Operators, NEW pot \in {"liquid", "vesting"},
           SlashStake(op, pot) \/ SlashClaim(op, pot)
    PROVE  Sound(chain')
<1>0. chain \in IntChain /\ Sound(chain) /\ StakeContract \in Accounts
      /\ \A o \in Operators : chain.staked[o] \in Pots /\ chain.claims[o] \in Pots
  BY Distinct DEF IInv, Sound, IntChain
<1> DEFINE bal == [chain.bal EXCEPT ![StakeContract] = @ - 1]
<1>1. /\ bal \in [Accounts -> Int]
      /\ \A a \in Accounts : a # StakeContract => bal[a] = chain.bal[a]
  BY <1>0 DEF IntChain
<1>2. ASSUME NEW p \in Pots, p[pot] > 0
      PROVE  [p EXCEPT ![pot] = @ - 1] \in Pots /\ [p EXCEPT ![pot] = @ - 1].vesting <= p.vesting
  <2>1. CASE pot = "liquid"
    BY <1>2, <2>1 DEF Pots
  <2>2. CASE pot = "vesting"
    BY <1>2, <2>2 DEF Pots
  <2> QED BY <2>1, <2>2
<1>3. CASE SlashStake(op, pot)
  <2> DEFINE new == [chain.staked[op] EXCEPT ![pot] = @ - 1]
  <2>1. chain.staked[op][pot] > 0 /\ chain' = [chain EXCEPT !.staked[op] = new, !.bal = bal]
    BY <1>0, <1>3 DEF SlashStake, IntChain
  <2>2. new \in Pots /\ new.vesting <= chain.staked[op].vesting
    BY <1>0, <1>2, <2>1
  <2> HIDE DEF new, bal
  <2>3. /\ chain' \in IntChain /\ chain'.bal = bal /\ chain'.acc = chain.acc
        /\ chain'.claims = chain.claims /\ chain'.staked[op] = new
        /\ \A o \in Operators : o # op => chain'.staked[o] = chain.staked[o]
    BY <1>0, <1>1, <2>1, <2>2, Zenon DEF IntChain
  <2>4. ASSUME NEW o \in VestingAccounts
        PROVE  chain'.staked[o].vesting + chain'.claims[o].vesting
                 <= chain'.acc[o].dv + chain'.acc[o].df
    <3>1. /\ o \in Operators /\ chain.staked[o].vesting \in Nat /\ chain.claims[o].vesting \in Nat
          /\ chain.acc[o].dv \in Nat /\ chain.acc[o].df \in Nat /\ new.vesting \in Nat
      BY <1>0, <2>2, Distinct DEF IntChain, Pots, Account
    <3>2. chain.staked[o].vesting + chain.claims[o].vesting <= chain.acc[o].dv + chain.acc[o].df
      BY <1>0 DEF Sound
    <3>3. chain'.staked[o].vesting <= chain.staked[o].vesting /\ chain'.staked[o].vesting \in Nat
      BY <2>2, <2>3, <3>1
    <3> QED BY <2>3, <3>1, <3>2, <3>3
  <2> QED BY <1>0, <1>1, <2>3, <2>4, Distinct DEF Sound
<1>4. CASE SlashClaim(op, pot)
  <2> DEFINE new == [chain.claims[op] EXCEPT ![pot] = @ - 1]
  <2>1. chain.claims[op][pot] > 0 /\ chain' = [chain EXCEPT !.claims[op] = new, !.bal = bal]
    BY <1>0, <1>4 DEF SlashClaim, IntChain
  <2>2. new \in Pots /\ new.vesting <= chain.claims[op].vesting
    BY <1>0, <1>2, <2>1
  <2> HIDE DEF new, bal
  <2>3. /\ chain' \in IntChain /\ chain'.bal = bal /\ chain'.acc = chain.acc
        /\ chain'.staked = chain.staked /\ chain'.claims[op] = new
        /\ \A o \in Operators : o # op => chain'.claims[o] = chain.claims[o]
    BY <1>0, <1>1, <2>1, <2>2, Zenon DEF IntChain
  <2>4. ASSUME NEW o \in VestingAccounts
        PROVE  chain'.staked[o].vesting + chain'.claims[o].vesting
                 <= chain'.acc[o].dv + chain'.acc[o].df
    <3>1. /\ o \in Operators /\ chain.staked[o].vesting \in Nat /\ chain.claims[o].vesting \in Nat
          /\ chain.acc[o].dv \in Nat /\ chain.acc[o].df \in Nat /\ new.vesting \in Nat
      BY <1>0, <2>2, Distinct DEF IntChain, Pots, Account
    <3>2. chain.staked[o].vesting + chain.claims[o].vesting <= chain.acc[o].dv + chain.acc[o].df
      BY <1>0 DEF Sound
    <3>3. chain'.claims[o].vesting <= chain.claims[o].vesting /\ chain'.claims[o].vesting \in Nat
      BY <2>2, <2>3, <3>1
    <3> QED BY <2>3, <3>1, <3>2, <3>3
  <2> QED BY <1>0, <1>1, <2>3, <2>4, Distinct DEF Sound
<1> QED BY <1>3, <1>4

(* Vesting unlocks tokens and moves none.                                  *)
LEMMA VestSound ==
    ASSUME IInv, NEW op \in Operators, Vest(op)
    PROVE  Sound(chain')
<1>0. chain \in IntChain /\ Sound(chain) /\ \A o \in Operators : chain.acc[o] \in Account
  BY DEF IInv, Sound, IntChain
<1> DEFINE new == [chain.acc[op] EXCEPT !.left = @ - 1]
<1>1. chain.acc[op].left > 0 /\ chain' = [chain EXCEPT !.acc[op] = new]
  BY <1>0 DEF Vest, IntChain
<1>2. /\ new \in Account /\ new.left <= chain.acc[op].left
      /\ new.dv = chain.acc[op].dv /\ new.df = chain.acc[op].df
  BY <1>0, <1>1 DEF Account
<1> HIDE DEF new
<1>3. /\ chain' \in IntChain /\ chain'.bal = chain.bal /\ chain'.staked = chain.staked
      /\ chain'.claims = chain.claims /\ chain'.acc[op] = new
      /\ \A o \in Operators : o # op => chain'.acc[o] = chain.acc[o]
  BY <1>0, <1>1, <1>2, ZenonT(30) DEF IntChain
<1>4. ASSUME NEW o \in VestingAccounts
      PROVE  /\ chain'.acc[o].left <= chain'.bal[o] + chain'.acc[o].dv
             /\ chain'.staked[o].vesting + chain'.claims[o].vesting
                  <= chain'.acc[o].dv + chain'.acc[o].df
  <2>1. /\ o \in Operators /\ chain.bal[o] \in Int
        /\ chain.acc[o].left \in Nat /\ chain.acc[o].dv \in Nat /\ new.left \in Nat
    BY <1>0, <1>2, Distinct DEF IntChain, Account
  <2>2. /\ chain.acc[o].left <= chain.bal[o] + chain.acc[o].dv
        /\ chain.staked[o].vesting + chain.claims[o].vesting <= chain.acc[o].dv + chain.acc[o].df
    BY <1>0 DEF Sound
  <2>3. CASE o = op
    BY <1>2, <1>3, <2>1, <2>2, <2>3
  <2>4. CASE o # op
    BY <1>3, <2>1, <2>2, <2>4
  <2> QED BY <2>3, <2>4
<1> QED BY <1>0, <1>3, <1>4 DEF Sound

(* Every transaction keeps Sound, whether its message succeeds or fails.   *)
LEMMA TransactionSound ==
    ASSUME IInv, NEW op \in Operators, Transaction(op)
    PROVE  Sound(chain')
<1>0. Amounts \subseteq Nat /\ \A s \in AnteHandle(op) : Sound(s)
  BY StakingAssumption, AnteSound
<1>1. ASSUME NEW l \in Amounts, NEW v \in Amounts, DeliverCreateValidator(op, l, v)
      PROVE  Sound(chain')
  <2>1. PICK s \in AnteHandle(op) : chain' = s \/ chain' \in CreateValidator(s, op, l, v)
    BY <1>1 DEF DeliverCreateValidator
  <2>2. Sound(s) /\ l \in Nat /\ v \in Nat
    BY <1>0
  <2>3. CASE chain' = s
    BY <2>2, <2>3
  <2>4. CASE chain' \in CreateValidator(s, op, l, v)
    BY <2>2, <2>4, CreateSound
  <2> QED BY <2>1, <2>3, <2>4
<1>2. CASE DeliverUpdateValidator(op)
  BY <1>0, <1>2 DEF DeliverUpdateValidator, UpdateValidator
<1>3. ASSUME NEW l \in Amounts, NEW v \in Amounts, DeliverDelegate(op, l, v)
      PROVE  Sound(chain')
  <2>1. PICK s \in AnteHandle(op) : chain' = s \/ chain' \in BondDelegation(s, op, l, v)
    BY <1>3 DEF DeliverDelegate
  <2>2. Sound(s) /\ l \in Nat /\ v \in Nat
    BY <1>0
  <2>3. CASE chain' = s
    BY <2>2, <2>3
  <2>4. CASE chain' \in BondDelegation(s, op, l, v)
    BY <2>2, <2>4, BondSound
  <2> QED BY <2>1, <2>3, <2>4
<1>4. ASSUME NEW n \in Amounts, DeliverUndelegate(op, n)
      PROVE  Sound(chain')
  <2>1. PICK s \in AnteHandle(op) : chain' = s \/ chain' \in UnbondDelegation(s, op, n)
    BY <1>4 DEF DeliverUndelegate
  <2>2. Sound(s) /\ n \in Nat
    BY <1>0
  <2>3. CASE chain' = s
    BY <2>2, <2>3
  <2>4. CASE chain' \in UnbondDelegation(s, op, n)
    BY <2>2, <2>4, UnbondSound
  <2> QED BY <2>1, <2>3, <2>4
<1>5. ASSUME NEW to \in Accounts, NEW n \in Amounts, DeliverSend(op, to, n)
      PROVE  Sound(chain')
  <2>1. PICK s \in AnteHandle(op) : chain' = s \/ chain' \in SendToAccount(s, op, to, n)
    BY <1>5 DEF DeliverSend
  <2>2. Sound(s) /\ n \in Nat /\ op \in Accounts \ ModuleAccounts
    BY <1>0, Distinct
  <2>3. CASE chain' = s
    BY <2>2, <2>3
  <2>4. CASE chain' \in SendToAccount(s, op, to, n)
    BY <2>2, <2>4, SendToAccountSound
  <2> QED BY <2>1, <2>3, <2>4
<1>6. ASSUME NEW grantee \in Operators, NEW n \in Amounts, DeliverGrant(op, grantee, n)
      PROVE  Sound(chain')
  <2> DEFINE pair == <<op, grantee>>
  <2>1. PICK s \in AnteHandle(op) : chain' = s \/ chain' = [s EXCEPT !.grant[pair] = n]
    BY <1>6 DEF DeliverGrant
  <2>2. Sound(s) /\ n \in Nat /\ pair \in Operators \X Operators
    BY <1>0
  <2> HIDE DEF pair
  <2>3. CASE chain' = s
    BY <2>2, <2>3
  <2>4. CASE chain' = [s EXCEPT !.grant[pair] = n]
    <3>1. /\ chain' \in IntChain /\ chain'.bal = s.bal /\ chain'.acc = s.acc
          /\ chain'.staked = s.staked /\ chain'.claims = s.claims
      BY <2>2, <2>4, Zenon DEF Sound, IntChain
    <3> QED BY <2>2, <3>1, FrameSound
  <2> QED BY <2>1, <2>3, <2>4
<1> QED BY <1>1, <1>2, <1>3, <1>4, <1>5, <1>6 DEF Transaction

(* The genesis accounts are sound: no account starts with fewer tokens     *)
(* than it has still to vest.                                              *)
LEMMA InitSound == Init => IInv
<1> SUFFICES ASSUME Init PROVE IInv
  OBVIOUS
<1>1. chain \in IntChain
  <2>1. chain.bal \in [Accounts -> Int] /\ chain.acc \in [Operators -> Account]
    BY StakingAssumption DEF Init, Account
  <2>2. chain.staked \in [Operators -> Pots] /\ chain.claims \in [Operators -> Pots]
    BY DEF Init, Pots, NoTokens
  <2>3. /\ chain.grant \in [Operators \X Operators -> Nat]
        /\ chain.points \in [Operators -> 0 .. MaxPoints]
        /\ chain.registered \in SUBSET Operators
    BY StakingAssumption DEF Init
  <2>4. chain = [bal |-> chain.bal, acc |-> chain.acc, staked |-> chain.staked,
                 claims |-> chain.claims, grant |-> chain.grant,
                 registered |-> chain.registered, points |-> chain.points]
    BY ZenonT(30) DEF Init
  <2> QED BY <2>1, <2>2, <2>3, <2>4 DEF IntChain
<1>2. \A m \in ModuleAccounts : chain.bal[m] = 0
  BY Distinct DEF Init
<1>3. ASSUME NEW op \in VestingAccounts
      PROVE  /\ chain.acc[op].left <= chain.bal[op] + chain.acc[op].dv
             /\ chain.staked[op].vesting + chain.claims[op].vesting
                  <= chain.acc[op].dv + chain.acc[op].df
  <2>1. op \in Operators /\ op \in Accounts
    BY Distinct, ZenonT(30)
  <2>2. chain.acc[op] = [left |-> Vesting[op], dv |-> 0, df |-> 0] /\ chain.bal[op] = Balance[op]
    BY <2>1, ZenonT(30) DEF Init
  <2>3. chain.staked[op].vesting = 0 /\ chain.claims[op].vesting = 0
    BY <2>1 DEF Init, NoTokens
  <2> QED BY <2>1, <2>2, <2>3, StakingAssumption
<1> QED BY <1>1, <1>2, <1>3, Zenon DEF Init, IInv, Sound, Privileges

(* One step of the chain keeps the inductive invariant.                    *)
LEMMA StepSound == IInv /\ [Next]_vars => IInv'
<1> SUFFICES ASSUME IInv, [Next]_vars PROVE IInv'
  BY ZenonT(30)
<1>1. ASSUME NEW op \in Operators, Transaction(op)
      PROVE  IInv'
  <2>1. newPoints' = newPoints /\ privileges' = privileges
    BY <1>1, Zenon DEF Transaction, DeliverCreateValidator, DeliverUpdateValidator, DeliverDelegate,
       DeliverUndelegate, DeliverSend, DeliverGrant
  <2> QED BY <1>1, <2>1, TransactionSound DEF IInv, Sound
<1>2. ASSUME NEW op \in Operators, ReturnClaims(op)
      PROVE  IInv'
  <2>1. newPoints' = newPoints /\ privileges' = privileges
    BY <1>2 DEF ReturnClaims
  <2> QED BY <1>2, <2>1, ReturnSound DEF IInv, Sound
<1>3. ASSUME NEW op \in Operators, NEW pot \in {"liquid", "vesting"},
             SlashStake(op, pot) \/ SlashClaim(op, pot)
      PROVE  IInv'
  <2>1. newPoints' = newPoints /\ privileges' = privileges
    BY <1>3 DEF SlashStake, SlashClaim
  <2>2. Sound(chain')
    BY <1>3, SlashSound
  <2> QED BY <2>1, <2>2 DEF IInv, Sound
<1>4. ASSUME NEW op \in Operators, Vest(op)
      PROVE  IInv'
  <2>1. newPoints' = newPoints /\ privileges' = privileges
    BY <1>4 DEF Vest
  <2> QED BY <1>4, <2>1, VestSound DEF IInv, Sound
<1>5. ASSUME NEW op \in Operators, NEW n \in 0 .. MaxPoints, ChangePoints(op, n)
      PROVE  IInv'
  <2>1. newPoints' = newPoints /\ privileges' = privileges
    BY <1>5 DEF ChangePoints
  <2>2. /\ chain' \in IntChain /\ chain'.bal = chain.bal /\ chain'.acc = chain.acc
        /\ chain'.staked = chain.staked /\ chain'.claims = chain.claims
    BY <1>5, Zenon DEF ChangePoints, IInv, Sound, IntChain
  <2>3. Sound(chain')
    BY <2>2, FrameSound DEF IInv
  <2> QED BY <2>1, <2>3 DEF IInv, Sound
<1>6. ASSUME NEW to \in Accounts, NEW n \in Amounts, Mint(to, n)
      PROVE  IInv'
  <2>1. newPoints' = newPoints /\ privileges' = privileges /\ n \in Nat
        /\ chain' \in handleMintToken(chain, to, n)
    BY <1>6, StakingAssumption DEF Mint
  <2>2. Sound(chain')
    BY <2>1, MintSound DEF IInv
  <2> QED BY <2>1, <2>2 DEF IInv, Sound
<1>7. ASSUME NEW n \in InitialPoints, ChangeParams(n)
      PROVE  IInv'
  BY <1>7 DEF ChangeParams, IInv, Sound
<1>8. ASSUME NEW p \in SUBSET Privileges, ChangePrivileges(p)
      PROVE  IInv'
  BY <1>8 DEF ChangePrivileges, IInv, Sound
<1>9. CASE UNCHANGED vars
  BY <1>9 DEF vars, IInv, Sound
<1> QED BY <1>1, <1>2, <1>3, <1>4, <1>5, <1>6, <1>7, <1>8, <1>9 DEF Next

(* The inductive invariant holds in every reachable state.                 *)
THEOREM SoundInvariance == Spec => []IInv
BY InitSound, StepSound, PTL DEF Spec

(* For any operators, amounts and order of steps: the bonded pool of       *)
(* handleDelegate and handleUndelegate and the module account of           *)
(* handleMintToken are empty between transactions.                         *)
THEOREM PassThroughInvariance == Spec => []ModulesArePassedThrough
<1>1. IInv => ModulesArePassedThrough
  BY DEF IInv, Sound, ModulesArePassedThrough
<1> QED BY <1>1, SoundInvariance, PTL

(* For any operators, amounts and order of steps: tokens that are still    *)
(* vesting are never spent on fees, transfers or liquid self delegations.  *)
THEOREM LockedInvariance == Spec => []LockedStaysInAccount
<1>1. IInv => LockedStaysInAccount
  BY DEF IInv, Sound, LockedStaysInAccount
<1> QED BY <1>1, SoundInvariance, PTL

(* For any operators, amounts and order of steps: the vesting pots of the  *)
(* stake contract are covered by the delegations that accounts track.      *)
THEOREM TrackedInvariance == Spec => []VestingStakeIsTracked
<1>1. IInv => VestingStakeIsTracked
  BY DEF IInv, Sound, VestingStakeIsTracked
<1> QED BY <1>1, SoundInvariance, PTL
-----------------------------------------------------------------------------
(* What the stake contract owes, and that it can pay.  Backed is inductive *)
(* together with IInv; within a transaction it may fail for a moment       *)
(* (tokens are recorded before they arrive), so the lemmas follow the sum  *)
(* and the contract's balance through each handler.                        *)

NotNegative(s) == \A a \in Accounts : s.bal[a] >= 0

Backed(s) == NotNegative(s) /\ SumFunction(Owed(s)) <= s.bal[StakeContract]

BInv == IInv /\ Backed(chain) /\ minted \in 0 .. MaxMint

(* What is owed to an operator is never negative, nor is the sum.          *)
LEMMA OwedNat ==
    ASSUME NEW s \in IntChain
    PROVE  /\ Owed(s) \in [Operators -> Nat]
           /\ SumFunction(Owed(s)) \in Nat
<1>1. \A op \in Operators : s.staked[op] \in Pots /\ s.claims[op] \in Pots
  BY DEF IntChain
<1>2. Owed(s) \in [Operators -> Nat]
  BY <1>1 DEF Owed, Pots
<1>3. SumFunction(Owed(s)) \in Nat
  <2>1. IsFiniteSet(Operators)
    BY StakingAssumption
  <2> QED BY <1>2, <2>1, SumBounds
<1> QED BY <1>2, <1>3

(* The sum follows the change at one operator.                             *)
LEMMA OwedChange ==
    ASSUME NEW s \in IntChain, NEW r \in IntChain, NEW op \in Operators,
           \A o \in Operators : o # op => r.staked[o] = s.staked[o] /\ r.claims[o] = s.claims[o]
    PROVE  SumFunction(Owed(r)) = SumFunction(Owed(s)) + Owed(r)[op] - Owed(s)[op]
<1>1. Owed(s) \in [Operators -> Int] /\ Owed(r) \in [Operators -> Int]
  BY OwedNat
<1>2. \A o \in Operators : o # op => Owed(r)[o] = Owed(s)[o]
  BY DEF Owed
<1>3. IsFiniteSet(Operators)
  BY StakingAssumption
<1> QED BY <1>1, <1>2, <1>3, SumChange

(* Backed looks at balances, stake and claims only.                        *)
LEMMA FrameBacked ==
    ASSUME NEW s, Backed(s), NEW r, r.bal = s.bal, r.staked = s.staked, r.claims = s.claims
    PROVE  Backed(r)
BY DEF Backed, NotNegative, Owed

(* A transfer overdraws no account, because nothing negative is locked.    *)
LEMMA SendResult ==
    ASSUME NEW s \in IntChain, NotNegative(s), NEW from \in Accounts, NEW to \in Accounts,
           NEW n \in Nat, NEW r \in SendCoins(s, from, to, n)
    PROVE  /\ r \in IntChain
           /\ NotNegative(r)
           /\ Owed(r) = Owed(s) /\ r.staked = s.staked
           /\ r.registered = s.registered /\ r.points = s.points
           /\ r.bal[StakeContract] = s.bal[StakeContract]
                                     + (IF from = to THEN 0 ELSE IF from = StakeContract THEN -n
                                        ELSE IF to = StakeContract THEN n ELSE 0)
<1>1. r = Move(s, from, to, n) /\ n <= s.bal[from] - Locked(s, from)
  BY ZenonT(30) DEF SendCoins
<1>2. /\ r \in IntChain
      /\ r.staked = s.staked /\ r.claims = s.claims
      /\ r.registered = s.registered /\ r.points = s.points
      /\ \A a \in Accounts : r.bal[a] = IF from = to THEN s.bal[a]
                                        ELSE IF a = from THEN s.bal[a] - n
                                        ELSE IF a = to THEN s.bal[a] + n
                                        ELSE s.bal[a]
  BY <1>1, MoveResult
<1>3. \A a \in Accounts : s.bal[a] \in Int /\ s.bal[a] >= 0
  BY DEF IntChain, NotNegative
<1>4. Locked(s, from) \in Nat
  <2>1. CASE from \in VestingAccounts
    <3>1. s.acc[from].left \in Nat /\ s.acc[from].dv \in Nat
      BY <2>1, Distinct DEF IntChain, Account
    <3> QED BY <2>1, <3>1 DEF Locked, Positive
  <2>2. CASE from \notin VestingAccounts
    BY <2>2 DEF Locked
  <2> QED BY <2>1, <2>2
<1>5. NotNegative(r)
  <2> SUFFICES ASSUME NEW a \in Accounts PROVE r.bal[a] >= 0
    BY DEF NotNegative
  <2>1. from # to /\ a = from => r.bal[a] = s.bal[a] - n /\ n <= s.bal[a]
    BY <1>1, <1>2, <1>3, <1>4
  <2>2. from = to \/ a # from => r.bal[a] = s.bal[a] \/ r.bal[a] = s.bal[a] + n
    BY <1>2
  <2> QED BY <1>3, <2>1, <2>2
<1>6. Owed(r) = Owed(s)
  BY <1>2 DEF Owed
<1>7. StakeContract \in Accounts
  BY Distinct
<1> QED BY <1>2, <1>3, <1>5, <1>6, <1>7

(* So it keeps Backed unless the stake contract pays.                      *)
LEMMA SendBacked ==
    ASSUME NEW s \in IntChain, Backed(s), NEW from \in Accounts, from # StakeContract,
           NEW to \in Accounts, NEW n \in Nat, NEW r \in SendCoins(s, from, to, n)
    PROVE  /\ r \in IntChain /\ Backed(r)
           /\ r.staked = s.staked /\ r.registered = s.registered /\ r.points = s.points
<1>1. /\ r \in IntChain /\ NotNegative(r) /\ Owed(r) = Owed(s)
      /\ r.staked = s.staked /\ r.registered = s.registered /\ r.points = s.points
      /\ r.bal[StakeContract] = s.bal[StakeContract]
                                + (IF from = to THEN 0 ELSE IF to = StakeContract THEN n ELSE 0)
  <2>1. NotNegative(s)
    BY DEF Backed
  <2> QED BY <2>1, SendResult
<1>2. SumFunction(Owed(s)) \in Nat /\ s.bal[StakeContract] \in Int
  BY OwedNat, Distinct, Zenon DEF IntChain
<1> QED BY <1>1, <1>2 DEF Backed

(* Fees are paid by operators.                                             *)
LEMMA DeductBacked ==
    ASSUME NEW s \in IntChain, Backed(s), NEW payer \in Operators, NEW granter \in Operators,
           NEW fee \in Nat, NEW r \in DeductFees(s, payer, granter, fee)
    PROVE  /\ r \in IntChain /\ Backed(r)
           /\ r.staked = s.staked /\ r.registered = s.registered /\ r.points = s.points
<1>0. granter \in Accounts /\ granter # StakeContract /\ ValsetContract \in Accounts
  BY Distinct
<1>1. CASE granter = payer
  <2>1. r \in SendCoins(s, granter, ValsetContract, fee)
    BY <1>1 DEF DeductFees
  <2> QED BY <1>0, <2>1, SendBacked
<1>2. CASE granter # payer
  <2> DEFINE pair == <<granter, payer>>
             q == [s EXCEPT !.grant[pair] = @ - fee]
  <2>1. fee <= s.grant[pair] /\ r \in SendCoins(q, granter, ValsetContract, fee)
    BY <1>2 DEF DeductFees
  <2>2. pair \in Operators \X Operators
    OBVIOUS
  <2> HIDE DEF pair
  <2>3. s.grant[pair] - fee \in Nat
    BY <2>1, <2>2 DEF IntChain
  <2>4. /\ q \in IntChain /\ q.bal = s.bal /\ q.staked = s.staked /\ q.claims = s.claims
        /\ q.registered = s.registered /\ q.points = s.points
    BY <2>2, <2>3, Zenon DEF IntChain
  <2> HIDE DEF q
  <2>5. Backed(q)
    BY <2>4, FrameBacked
  <2> QED BY <1>0, <2>1, <2>4, <2>5, SendBacked
<1> QED BY <1>1, <1>2
(* So is what every message of a transaction starts from.                  *)
LEMMA AnteBacked ==
    ASSUME BInv, NEW payer \in Operators, NEW s \in AnteHandle(payer)
    PROVE  /\ s \in IntChain /\ Backed(s)
           /\ s.staked = chain.staked /\ s.registered = chain.registered /\ s.points = chain.points
<1>1. PICK granter \in Operators, fee \in Fees : s \in DeductFees(chain, payer, granter, fee)
  BY DEF AnteHandle
<1>2. fee \in Nat
  BY StakingAssumption
<1>3. chain \in IntChain /\ Backed(chain)
  BY DEF BInv, IInv, Sound
<1> QED BY <1>1, <1>2, <1>3, DeductBacked

(* A bond is recorded in full and paid in full: the liquid part with the   *)
(* call, the vesting part by handleDelegate.                               *)
LEMMA BondBacked ==
    ASSUME NEW s \in IntChain, Backed(s), NEW op \in Operators, NEW l \in Nat, NEW v \in Nat,
           NEW r \in BondDelegation(s, op, l, v)
    PROVE  /\ Backed(r)
           /\ r.registered = s.registered /\ r.points = s.points
           /\ r.staked[op].liquid = s.staked[op].liquid + l
           /\ r.staked[op].vesting = s.staked[op].vesting + v
<1>0. /\ op \in Accounts /\ StakeContract \in Accounts /\ op # StakeContract
      /\ s.bal[StakeContract] \in Int /\ SumFunction(Owed(s)) \in Nat
  BY Distinct, OwedNat, Zenon DEF IntChain
<1>1. PICK q \in SendCoins(s, op, StakeContract, l) :
        LET bonded == [q EXCEPT !.staked[op] = Add(@, l, v)]
        IN  r \in IF v = 0 THEN {bonded} ELSE handleDelegate(bonded, op, v)
  BY Zenon DEF BondDelegation
<1>2. /\ q \in IntChain /\ NotNegative(q) /\ Owed(q) = Owed(s)
      /\ q.bal[StakeContract] = s.bal[StakeContract] + l
  <2>1. NotNegative(s)
    BY DEF Backed
  <2> QED BY <1>0, <1>1, <2>1, SendResult
<1>3. q.staked = s.staked /\ q.registered = s.registered /\ q.points = s.points
  <2>1. NotNegative(s)
    BY DEF Backed
  <2> QED BY <1>0, <1>1, <2>1, SendResult
<1> DEFINE b == [q EXCEPT !.staked[op] = Add(@, l, v)]
<1>4. /\ b \in IntChain /\ b.bal = q.bal /\ b.claims = q.claims
      /\ b.registered = q.registered /\ b.points = q.points
      /\ b.staked[op] = Add(q.staked[op], l, v)
      /\ \A o \in Operators : o # op => b.staked[o] = q.staked[o]
  <2>1. q.staked[op] \in Pots
    BY <1>2 DEF IntChain
  <2>2. Add(q.staked[op], l, v) \in Pots
    BY <2>1 DEF Pots, Add
  <2> QED BY <1>2, <2>1, <2>2, Zenon DEF IntChain
<1>5. /\ b.staked[op].liquid = s.staked[op].liquid + l
      /\ b.staked[op].vesting = s.staked[op].vesting + v
  BY <1>3, <1>4 DEF Add
<1> HIDE DEF b
<1>6. SumFunction(Owed(b)) = SumFunction(Owed(s)) + l + v
  <2>1. Owed(b)[op] = Owed(q)[op] + l + v /\ Owed(q)[op] \in Nat
    <3>1. q.staked[op] \in Pots /\ q.claims[op] \in Pots
      BY <1>2, ZenonT(30) DEF IntChain
    <3> QED BY <1>3, <1>4, <1>5, <3>1 DEF Owed, Pots
  <2>2. SumFunction(Owed(b)) = SumFunction(Owed(q)) + Owed(b)[op] - Owed(q)[op]
    <3>1. \A o \in Operators : o # op => b.staked[o] = q.staked[o] /\ b.claims[o] = q.claims[o]
      BY <1>4
    <3> QED BY <1>2, <1>4, <3>1, OwedChange, ZenonT(30)
  <2>3. SumFunction(Owed(q)) = SumFunction(Owed(s))
    BY <1>2, ZenonT(30)
  <2> DEFINE sum == SumFunction(Owed(s))
             new == SumFunction(Owed(b))
             x == Owed(q)[op]
             y == Owed(b)[op]
  <2>4. sum \in Nat /\ x \in Nat /\ y = x + l + v /\ new = sum + y - x
    BY <1>0, <2>1, <2>2, <2>3, ZenonT(30)
  <2> HIDE DEF sum, new, x, y
  <2>5. new = sum + l + v
    BY <2>4
  <2> QED BY <2>5, ZenonT(30) DEF sum, new
<1>7. CASE v = 0
  <2>1. r = b
    BY <1>1, <1>7 DEF b
  <2>2. NotNegative(b)
    BY <1>2, <1>4 DEF NotNegative
  <2>3. SumFunction(Owed(b)) <= b.bal[StakeContract]
    <3> DEFINE sum == SumFunction(Owed(s))
               new == SumFunction(Owed(b))
               before == s.bal[StakeContract]
               after == b.bal[StakeContract]
    <3>1. sum \in Nat /\ before \in Int /\ sum <= before
      BY <1>0, ZenonT(30) DEF Backed
    <3>2. new = sum + l + v /\ after = before + l
      BY <1>2, <1>4, <1>6, ZenonT(30)
    <3> HIDE DEF sum, new, before, after
    <3>3. new <= after
      BY <1>7, <3>1, <3>2
    <3> QED BY <3>3, ZenonT(30) DEF new, after
  <2> QED BY <1>3, <1>4, <1>5, <2>1, <2>2, <2>3 DEF Backed
<1>8. CASE v # 0
  <2>1. r \in handleDelegate(b, op, v)
    BY <1>1, <1>8, ZenonT(30) DEF b
  <2>2. /\ v <= b.bal[op]
        /\ r.staked = b.staked /\ r.claims = b.claims
        /\ r.registered = b.registered /\ r.points = b.points
        /\ \A a \in Accounts : r.bal[a] = IF a = op THEN b.bal[a] - v
                                          ELSE IF a = StakeContract THEN b.bal[a] + v
                                          ELSE b.bal[a]
    BY <1>4, <2>1, DelegateResult
  <2>3. NotNegative(r)
    <3> SUFFICES ASSUME NEW a \in Accounts PROVE r.bal[a] >= 0
      BY DEF NotNegative
    <3>1. b.bal[a] \in Int /\ b.bal[a] >= 0 /\ b.bal[op] \in Int
      BY <1>0, <1>2, <1>4, ZenonT(30) DEF IntChain, NotNegative
    <3> QED BY <2>2, <3>1
  <2>4. Owed(r) = Owed(b)
    BY <2>2, ZenonT(30) DEF Owed
  <2>5. r.bal[StakeContract] = s.bal[StakeContract] + l + v
    BY <1>0, <1>2, <1>4, <2>2, ZenonT(30)
  <2>6. SumFunction(Owed(r)) <= r.bal[StakeContract]
    BY <1>0, <1>6, <2>4, <2>5 DEF Backed
  <2> QED BY <1>3, <1>4, <1>5, <2>2, <2>3, <2>6 DEF Backed
<1> QED BY <1>7, <1>8

(* An unbonding changes what is owed from stake to claim, not how much.    *)
LEMMA UnbondBacked ==
    ASSUME NEW s \in IntChain, Backed(s), NEW op \in Operators, NEW n \in Nat,
           NEW r \in UnbondDelegation(s, op, n)
    PROVE  Backed(r) /\ r.registered = s.registered /\ r.points = s.points
<1>0. s.staked[op] \in Pots /\ s.claims[op] \in Pots
  BY DEF IntChain
<1>1. PICK l \in 0 .. n :
        /\ l <= s.staked[op].liquid /\ n - l <= s.staked[op].vesting
        /\ r = [s EXCEPT !.staked[op] = Add(@, -l, l - n), !.claims[op] = Add(@, l, n - l)]
  BY Zenon DEF UnbondDelegation
<1> DEFINE st == Add(s.staked[op], -l, l - n)
           cl == Add(s.claims[op], l, n - l)
<1>2. /\ st \in Pots /\ cl \in Pots
      /\ st.liquid + st.vesting + cl.liquid + cl.vesting
         = s.staked[op].liquid + s.staked[op].vesting + s.claims[op].liquid + s.claims[op].vesting
  BY <1>0, <1>1 DEF Pots, Add
<1>3. r = [s EXCEPT !.staked[op] = st, !.claims[op] = cl]
  BY <1>1
<1> HIDE DEF st, cl
<1>4. /\ r \in IntChain /\ r.bal = s.bal
      /\ r.registered = s.registered /\ r.points = s.points
      /\ r.staked[op] = st /\ r.claims[op] = cl
      /\ \A o \in Operators : o # op => r.staked[o] = s.staked[o] /\ r.claims[o] = s.claims[o]
  BY <1>0, <1>2, <1>3, Zenon DEF IntChain
<1>5. Owed(r)[op] = Owed(s)[op] /\ Owed(s)[op] \in Nat /\ SumFunction(Owed(s)) \in Nat
  BY <1>2, <1>4, OwedNat, ZenonT(30) DEF Owed
<1>6. SumFunction(Owed(r)) = SumFunction(Owed(s)) + Owed(r)[op] - Owed(s)[op]
  BY <1>4, OwedChange
<1>7. SumFunction(Owed(r)) = SumFunction(Owed(s))
  BY <1>5, <1>6
<1> QED BY <1>4, <1>7 DEF Backed, NotNegative
(* CreateValidator registers one operator, with the stake it bonds and     *)
(* with no fewer points than before.                                       *)
LEMMA CreateBacked ==
    ASSUME IInv, NEW s \in IntChain, Backed(s), NEW op \in Operators, NEW l \in Nat, NEW v \in Nat,
           NEW r \in CreateValidator(s, op, l, v)
    PROVE  /\ Backed(r)
           /\ r.registered = s.registered \cup {op}
           /\ r.staked[op].liquid = s.staked[op].liquid + l
           /\ r.staked[op].vesting = s.staked[op].vesting + v
           /\ r.points[op] >= s.points[op]
<1>1. PICK p \in RegisterValidator(s, op) :
        \E q \in BondDelegation(p, op, l, v) :
            r = SetValidatorInitialEngagementPoints(q, op, l + v)
  BY DEF CreateValidator
<1>2. PICK q \in BondDelegation(p, op, l, v) :
        r = SetValidatorInitialEngagementPoints(q, op, l + v)
  BY <1>1
<1>3. p = [s EXCEPT !.registered = @ \cup {op}]
  BY DEF RegisterValidator
<1>4. /\ p \in IntChain /\ p.bal = s.bal /\ p.staked = s.staked /\ p.claims = s.claims
      /\ p.registered = s.registered \cup {op} /\ p.points = s.points
  BY <1>3 DEF IntChain
<1>5. Backed(p)
  BY <1>4, FrameBacked
<1>6. /\ Backed(q) /\ q.registered = p.registered /\ q.points = p.points
      /\ q.staked[op].liquid = p.staked[op].liquid + l
      /\ q.staked[op].vesting = p.staked[op].vesting + v
  BY <1>2, <1>4, <1>5, BondBacked
<1>7. s.points[op] \in 0 .. MaxPoints
  BY DEF IntChain
<1>8. CASE r = q
  BY <1>4, <1>6, <1>7, <1>8, StakingAssumption
<1>9. CASE r = [q EXCEPT !.points[op] = newPoints] /\ ~(q.points[op] >= newPoints)
  <2>1. q \in IntChain
    <3>1. PICK x \in SendCoins(p, op, StakeContract, l) :
            LET bonded == [x EXCEPT !.staked[op] = Add(@, l, v)]
            IN  q \in IF v = 0 THEN {bonded} ELSE handleDelegate(bonded, op, v)
      BY <1>2, Zenon DEF BondDelegation
    <3> DEFINE b == [x EXCEPT !.staked[op] = Add(@, l, v)]
    <3>2. x \in IntChain
      <4>1. NotNegative(p) /\ op \in Accounts /\ StakeContract \in Accounts
        BY <1>5, Distinct, ZenonT(30) DEF Backed
      <4> QED BY <1>4, <3>1, <4>1, SendResult, ZenonT(30)
    <3>3. x.staked[op] \in Pots
      BY <3>2, ZenonT(30) DEF IntChain
    <3>4. Add(x.staked[op], l, v) \in Pots
      BY <3>3 DEF Pots, Add
    <3>5. b \in IntChain
      BY <3>2, <3>4, Zenon DEF IntChain
    <3> HIDE DEF b
    <3>6. q = b \/ q \in handleDelegate(b, op, v)
      BY <3>1 DEF b
    <3> QED BY <3>5, <3>6, DelegateResult
  <2>2. newPoints \in 0 .. MaxPoints
    BY StakingAssumption DEF IInv
  <2>3. /\ r.bal = q.bal /\ r.staked = q.staked /\ r.claims = q.claims
        /\ r.registered = q.registered /\ r.points[op] = newPoints
    BY <1>9, <2>1, <2>2, Zenon DEF IntChain
  <2>4. Backed(r)
    BY <1>6, <2>3, FrameBacked
  <2>5. r.points[op] >= s.points[op]
    BY <1>4, <1>6, <1>7, <1>9, <2>2, <2>3, StakingAssumption
  <2> QED BY <1>4, <1>6, <2>3, <2>4, <2>5, ZenonT(30)
<1> QED BY <1>2, <1>8, <1>9 DEF SetValidatorInitialEngagementPoints

(* Minted tokens come from nobody's account.                               *)
LEMMA MintBacked ==
    ASSUME NEW s \in IntChain, Backed(s), NEW to \in Accounts, NEW n \in Nat,
           NEW r \in handleMintToken(s, to, n)
    PROVE  Backed(r) /\ r.registered = s.registered
<1> DEFINE q == [s EXCEPT !.bal[TwasmModule] = @ + n]
<1>0. /\ TwasmModule \in Accounts /\ TwasmModule # StakeContract /\ StakeContract \in Accounts
      /\ s.bal[TwasmModule] \in Int /\ s.bal[TwasmModule] >= 0
  BY Distinct DEF IntChain, Backed, NotNegative
<1>1. r \in SendCoins(q, TwasmModule, to, n)
  BY DEF handleMintToken, SendToAccount
<1>2. /\ q \in IntChain /\ q.staked = s.staked /\ q.claims = s.claims
      /\ q.registered = s.registered
      /\ \A a \in Accounts : q.bal[a] = IF a = TwasmModule THEN s.bal[a] + n ELSE s.bal[a]
  BY <1>0 DEF IntChain
<1> HIDE DEF q
<1>3. Backed(q)
  <2>1. NotNegative(q)
    BY <1>0, <1>2 DEF Backed, NotNegative
  <2>2. Owed(q) = Owed(s)
    BY <1>2 DEF Owed
  <2> QED BY <1>0, <1>2, <2>1, <2>2 DEF Backed
<1>4. r.registered = q.registered
  <2>1. NotNegative(q)
    BY <1>3 DEF Backed
  <2> QED BY <1>0, <1>1, <1>2, <2>1, SendResult
<1>5. Backed(r)
  BY <1>0, <1>1, <1>2, <1>3, SendBacked
<1> QED BY <1>2, <1>4, <1>5

(* A returned claim is paid by the contract and owed no more.              *)
LEMMA ReturnBacked ==
    ASSUME BInv, NEW op \in Operators, ReturnClaims(op)
    PROVE  Backed(chain') /\ chain'.registered = chain.registered
<1> DEFINE c == chain.claims[op]
           s == [chain EXCEPT !.claims[op] = NoTokens]
<1>0. /\ chain \in IntChain /\ c \in Pots /\ c.liquid \in Nat /\ c.vesting \in Nat
      /\ Backed(chain) /\ chain.staked[op] \in Pots
      /\ SumFunction(Owed(chain)) \in Nat /\ chain.bal[StakeContract] \in Int
      /\ StakeContract \in Accounts /\ op \in Accounts /\ op # StakeContract
  BY OwedNat, Distinct, ZenonT(30) DEF BInv, IInv, Sound, IntChain, Pots
<1>1. PICK q \in SendCoins(s, StakeContract, op, c.liquid) :
        chain' \in IF c.vesting = 0 THEN {q} ELSE handleUndelegate(q, op, c.vesting)
  BY DEF ReturnClaims
<1>2. /\ s \in IntChain /\ s.bal = chain.bal /\ s.staked = chain.staked
      /\ s.registered = chain.registered
      /\ s.claims[op] = NoTokens
      /\ \A o \in Operators : o # op => s.claims[o] = chain.claims[o]
  BY <1>0, ZenonT(30) DEF IntChain, Pots, NoTokens
<1> HIDE DEF s
<1>3. SumFunction(Owed(s)) = SumFunction(Owed(chain)) - c.liquid - c.vesting
  <2>1. Owed(s)[op] = Owed(chain)[op] - c.liquid - c.vesting /\ Owed(chain)[op] \in Nat
    <3>1. /\ Owed(s)[op] = s.staked[op].liquid + s.staked[op].vesting
                            + s.claims[op].liquid + s.claims[op].vesting
          /\ Owed(chain)[op] = chain.staked[op].liquid + chain.staked[op].vesting
                                + c.liquid + c.vesting
      BY ZenonT(30) DEF Owed
    <3>2. chain.staked[op].liquid \in Nat /\ chain.staked[op].vesting \in Nat
      BY <1>0, ZenonT(30) DEF Pots
    <3>3. s.claims[op].liquid = 0 /\ s.claims[op].vesting = 0 /\ s.staked[op] = chain.staked[op]
      BY <1>2 DEF NoTokens
    <3> QED BY <1>0, <3>1, <3>2, <3>3
  <2>2. SumFunction(Owed(s)) = SumFunction(Owed(chain)) + Owed(s)[op] - Owed(chain)[op]
    <3>1. \A o \in Operators : o # op => s.staked[o] = chain.staked[o] /\ s.claims[o] = chain.claims[o]
      BY <1>2, ZenonT(30)
    <3> QED BY <1>0, <1>2, <3>1, OwedChange, ZenonT(30)
  <2> DEFINE sum == SumFunction(Owed(chain))
             new == SumFunction(Owed(s))
             x == Owed(chain)[op]
             y == Owed(s)[op]
             l == c.liquid
             v == c.vesting
  <2>3. /\ sum \in Nat /\ x \in Nat /\ l \in Nat /\ v \in Nat
        /\ y = x - l - v /\ new = sum + y - x
    BY <1>0, <2>1, <2>2, ZenonT(30)
  <2> HIDE DEF sum, new, x, y, l, v
  <2>4. new = sum - l - v
    BY <2>3
  <2> QED BY <2>4, ZenonT(30) DEF sum, new, l, v
<1>4. /\ q \in IntChain /\ NotNegative(q) /\ Owed(q) = Owed(s)
      /\ q.bal[StakeContract] = chain.bal[StakeContract] - c.liquid
      /\ q.registered = s.registered
  <2>1. NotNegative(s)
    BY <1>0, <1>2, ZenonT(30) DEF Backed, NotNegative
  <2>2. q.bal[StakeContract] = s.bal[StakeContract] + (-c.liquid)
    BY <1>0, <1>1, <1>2, <2>1, SendResult
  <2>3. q \in IntChain /\ NotNegative(q) /\ Owed(q) = Owed(s) /\ q.registered = s.registered
    BY <1>0, <1>1, <1>2, <2>1, SendResult
  <2> QED BY <1>0, <1>2, <2>2, <2>3, ZenonT(30)
<1>5. SumFunction(Owed(chain)) <= chain.bal[StakeContract]
  BY <1>0, ZenonT(30) DEF Backed
<1>6. CASE c.vesting = 0
  <2>1. chain' = q
    BY <1>1, <1>6, ZenonT(30)
  <2>2. SumFunction(Owed(q)) <= q.bal[StakeContract]
    BY <1>0, <1>3, <1>4, <1>5, <1>6
  <2> QED BY <1>2, <1>4, <2>1, <2>2 DEF Backed
<1>7. CASE c.vesting # 0
  <2> DEFINE r == chain'
             n == c.vesting
  <2>1. r \in handleUndelegate(q, op, n)
    BY <1>1, <1>7, ZenonT(30)
  <2> HIDE DEF c
  <2>2. /\ r \in IntChain
        /\ r.staked = q.staked /\ r.claims = q.claims /\ r.registered = q.registered
        /\ \A a \in Accounts : r.bal[a] = IF a = op THEN q.bal[a] + n
                                          ELSE IF a = StakeContract THEN q.bal[a] - n
                                          ELSE q.bal[a]
    BY <1>0, <1>4, <2>1, UndelegateResult
  <2> HIDE DEF r
  <2>3. Owed(r) = Owed(s)
    BY <1>4, <2>2, ZenonT(30) DEF Owed
  <2>4. r.bal[StakeContract] = chain.bal[StakeContract] - c.liquid - n
    BY <1>0, <1>4, <2>2, ZenonT(30)
  <2>5. SumFunction(Owed(r)) <= r.bal[StakeContract] /\ SumFunction(Owed(r)) \in Nat
    BY <1>0, <1>3, <1>5, <2>2, <2>3, <2>4, OwedNat
  <2>6. NotNegative(r)
    <3> SUFFICES ASSUME NEW a \in Accounts PROVE r.bal[a] >= 0
      BY ZenonT(30) DEF NotNegative
    <3>1. q.bal[a] \in Int /\ q.bal[a] >= 0 /\ r.bal[StakeContract] \in Int
      BY <1>0, <1>4, <2>2, ZenonT(30) DEF IntChain, NotNegative
    <3> QED BY <1>0, <2>2, <2>5, <3>1
  <2> QED BY <1>2, <1>4, <2>2, <2>5, <2>6, ZenonT(30) DEF Backed, r
<1> QED BY <1>6, <1>7
(* A slash burns what it takes off the records.                            *)
LEMMA SlashBacked ==
    ASSUME BInv, NEW op \in Operators, NEW pot \in {"liquid", "vesting"},
           SlashStake(op, pot) \/ SlashClaim(op, pot)
    PROVE  Backed(chain') /\ chain'.registered = chain.registered
<1>0. /\ chain \in IntChain /\ Backed(chain) /\ StakeContract \in Accounts
      /\ chain.bal[StakeContract] \in Int /\ SumFunction(Owed(chain)) \in Nat
      /\ chain.staked[op] \in Pots /\ chain.claims[op] \in Pots
  BY Distinct, OwedNat, ZenonT(30) DEF BInv, IInv, Sound, IntChain
<1> DEFINE bal == [chain.bal EXCEPT ![StakeContract] = @ - 1]
<1>1. /\ bal \in [Accounts -> Int]
      /\ bal[StakeContract] = chain.bal[StakeContract] - 1
      /\ \A a \in Accounts : a # StakeContract => bal[a] = chain.bal[a]
  BY <1>0 DEF IntChain
<1>2. ASSUME NEW p \in Pots, p[pot] > 0
      PROVE  /\ [p EXCEPT ![pot] = @ - 1] \in Pots
             /\ [p EXCEPT ![pot] = @ - 1].liquid + [p EXCEPT ![pot] = @ - 1].vesting
                = p.liquid + p.vesting - 1
  <2>1. CASE pot = "liquid"
    BY <1>2, <2>1 DEF Pots
  <2>2. CASE pot = "vesting"
    BY <1>2, <2>2 DEF Pots
  <2> QED BY <2>1, <2>2
<1>3. /\ chain' \in IntChain /\ chain'.bal = bal /\ chain'.registered = chain.registered
      /\ \A o \in Operators : o # op => /\ chain'.staked[o] = chain.staked[o]
                                        /\ chain'.claims[o] = chain.claims[o]
      /\ Owed(chain')[op] = Owed(chain)[op] - 1
  <2>1. /\ Owed(chain)[op] = chain.staked[op].liquid + chain.staked[op].vesting
                             + chain.claims[op].liquid + chain.claims[op].vesting
        /\ Owed(chain')[op] = chain'.staked[op].liquid + chain'.staked[op].vesting
                              + chain'.claims[op].liquid + chain'.claims[op].vesting
    BY DEF Owed
  <2>2. /\ chain.staked[op].liquid \in Nat /\ chain.staked[op].vesting \in Nat
        /\ chain.claims[op].liquid \in Nat /\ chain.claims[op].vesting \in Nat
    BY <1>0, Zenon DEF Pots
  <2>3. CASE SlashStake(op, pot)
    <3> DEFINE new == [chain.staked[op] EXCEPT ![pot] = @ - 1]
    <3>1. chain.staked[op][pot] > 0 /\ chain' = [chain EXCEPT !.staked[op] = new, !.bal = bal]
      BY <1>0, <2>3 DEF SlashStake, IntChain
    <3>2. new \in Pots /\ new.liquid + new.vesting
                          = chain.staked[op].liquid + chain.staked[op].vesting - 1
      BY <1>0, <1>2, <3>1
    <3> HIDE DEF new, bal
    <3>3. /\ chain' \in IntChain /\ chain'.bal = bal /\ chain'.registered = chain.registered
          /\ chain'.claims = chain.claims /\ chain'.staked[op] = new
          /\ \A o \in Operators : o # op => chain'.staked[o] = chain.staked[o]
      BY <1>0, <1>1, <3>1, <3>2, Zenon DEF IntChain
    <3>4. new.liquid \in Nat /\ new.vesting \in Nat
      BY <3>2 DEF Pots
    <3>5. Owed(chain')[op] = Owed(chain)[op] - 1
      <4>1. Owed(chain')[op] = new.liquid + new.vesting
                               + chain.claims[op].liquid + chain.claims[op].vesting
        BY <2>1, <3>3, Zenon
      <4> DEFINE u == new.liquid + new.vesting
                 w == chain.staked[op].liquid + chain.staked[op].vesting
                 c == chain.claims[op].liquid
                 d == chain.claims[op].vesting
      <4>2. /\ u = w - 1 /\ u \in Nat /\ w \in Nat /\ c \in Nat /\ d \in Nat
            /\ Owed(chain')[op] = u + c + d /\ Owed(chain)[op] = w + c + d
        BY <2>1, <2>2, <3>2, <3>4, <4>1
      <4> HIDE DEF u, w, c, d
      <4> QED BY <4>2
    <3> QED BY <3>3, <3>5, Zenon
  <2>4. CASE SlashClaim(op, pot)
    <3> DEFINE new == [chain.claims[op] EXCEPT ![pot] = @ - 1]
    <3>1. chain.claims[op][pot] > 0 /\ chain' = [chain EXCEPT !.claims[op] = new, !.bal = bal]
      BY <1>0, <2>4 DEF SlashClaim, IntChain
    <3>2. new \in Pots /\ new.liquid + new.vesting
                          = chain.claims[op].liquid + chain.claims[op].vesting - 1
      BY <1>0, <1>2, <3>1
    <3> HIDE DEF new, bal
    <3>3. /\ chain' \in IntChain /\ chain'.bal = bal /\ chain'.registered = chain.registered
          /\ chain'.staked = chain.staked /\ chain'.claims[op] = new
          /\ \A o \in Operators : o # op => chain'.claims[o] = chain.claims[o]
      BY <1>0, <1>1, <3>1, <3>2, Zenon DEF IntChain
    <3>4. new.liquid \in Nat /\ new.vesting \in Nat
      BY <3>2, ZenonT(30) DEF Pots
    <3>5. Owed(chain')[op] = Owed(chain)[op] - 1
      <4>1. Owed(chain')[op] = chain.staked[op].liquid + chain.staked[op].vesting
                               + new.liquid + new.vesting
        BY <2>1, <3>3, Zenon
      <4> QED BY <2>1, <2>2, <3>2, <3>4, <4>1
    <3> QED BY <3>3, <3>5, Zenon
  <2> QED BY <2>3, <2>4, ZenonT(30)
<1> HIDE DEF bal
<1>4. SumFunction(Owed(chain')) = SumFunction(Owed(chain)) - 1 /\ SumFunction(Owed(chain')) \in Nat
  <2>1. SumFunction(Owed(chain')) = SumFunction(Owed(chain)) + Owed(chain')[op] - Owed(chain)[op]
    BY <1>0, <1>3, OwedChange, ZenonT(30)
  <2>2. Owed(chain)[op] \in Nat /\ SumFunction(Owed(chain')) \in Nat
    BY <1>0, <1>3, OwedNat, ZenonT(30)
  <2> QED BY <1>0, <1>3, <2>1, <2>2
<1>5. SumFunction(Owed(chain')) <= chain'.bal[StakeContract]
  BY <1>0, <1>1, <1>3, <1>4 DEF Backed
<1>6. NotNegative(chain')
  <2> SUFFICES ASSUME NEW a \in Accounts PROVE chain'.bal[a] >= 0
    BY ZenonT(30) DEF NotNegative
  <2>1. CASE a = StakeContract
    BY <1>0, <1>1, <1>3, <1>4, <1>5, <2>1
  <2>2. CASE a # StakeContract
    BY <1>0, <1>1, <1>3, <2>2 DEF Backed, NotNegative
  <2> QED BY <2>1, <2>2
<1> QED BY <1>3, <1>5, <1>6 DEF Backed

(* The operators that a step registers, see RegistrationHasStake and       *)
(* PointsAreNotLowered.                                                    *)
GoodRegistration ==
    \A op \in chain'.registered \ chain.registered :
        /\ chain'.staked[op].liquid + chain'.staked[op].vesting
               > chain.staked[op].liquid + chain.staked[op].vesting
        /\ chain'.points[op] >= chain.points[op]

(* Every transaction keeps the stake backed, and only CreateValidator      *)
(* registers an operator.                                                  *)
LEMMA TransactionBacked ==
    ASSUME BInv, NEW op \in Operators, Transaction(op)
    PROVE  Backed(chain') /\ GoodRegistration
<1>0. /\ Amounts \subseteq Nat
      /\ \A s \in AnteHandle(op) :
            /\ s \in IntChain /\ Backed(s) /\ s.staked = chain.staked
            /\ s.registered = chain.registered /\ s.points = chain.points
  BY StakingAssumption, AnteBacked, ZenonT(30)
<1>1. ASSUME NEW s \in AnteHandle(op), chain' = s
      PROVE  Backed(chain') /\ GoodRegistration
  BY <1>0, <1>1, ZenonT(30) DEF GoodRegistration
<1>2. ASSUME NEW l \in Amounts, NEW v \in Amounts, DeliverCreateValidator(op, l, v)
      PROVE  Backed(chain') /\ GoodRegistration
  <2>1. l + v > 0 /\ l \in Nat /\ v \in Nat
    BY <1>0, <1>2, ZenonT(30) DEF DeliverCreateValidator
  <2>2. PICK s \in AnteHandle(op) : chain' = s \/ chain' \in CreateValidator(s, op, l, v)
    BY <1>2 DEF DeliverCreateValidator
  <2>3. CASE chain' \in CreateValidator(s, op, l, v)
    <3>1. IInv /\ s \in IntChain /\ Backed(s)
      BY <1>0, ZenonT(30) DEF BInv
    <3>2. /\ Backed(chain')
          /\ chain'.registered = s.registered \cup {op}
          /\ chain'.staked[op].liquid = s.staked[op].liquid + l
          /\ chain'.staked[op].vesting = s.staked[op].vesting + v
          /\ chain'.points[op] >= s.points[op]
      BY <2>1, <2>3, <3>1, CreateBacked, ZenonT(30)
    <3>3. s.staked[op].liquid \in Nat /\ s.staked[op].vesting \in Nat
      BY <3>1, ZenonT(30) DEF IntChain, Pots
    <3>4. chain'.registered \ chain.registered \subseteq {op}
      BY <1>0, <3>2, ZenonT(30)
    <3>5. /\ chain'.staked[op].liquid + chain'.staked[op].vesting
               > chain.staked[op].liquid + chain.staked[op].vesting
          /\ chain'.points[op] >= chain.points[op]
      BY <1>0, <2>1, <3>2, <3>3
    <3> QED BY <3>2, <3>4, <3>5, ZenonT(30) DEF GoodRegistration
  <2> QED BY <1>1, <2>2, <2>3, ZenonT(30)
<1>3. CASE DeliverUpdateValidator(op)
  BY <1>1, <1>3 DEF DeliverUpdateValidator, UpdateValidator
<1>4. ASSUME NEW l \in Amounts, NEW v \in Amounts, DeliverDelegate(op, l, v)
      PROVE  Backed(chain') /\ GoodRegistration
  <2>1. PICK s \in AnteHandle(op) : chain' = s \/ chain' \in BondDelegation(s, op, l, v)
    BY <1>4 DEF DeliverDelegate
  <2>2. CASE chain' \in BondDelegation(s, op, l, v)
    <3>1. Backed(chain') /\ chain'.registered = s.registered
      BY <1>0, <2>2, BondBacked
    <3> QED BY <1>0, <3>1, ZenonT(30) DEF GoodRegistration
  <2> QED BY <1>1, <2>1, <2>2, ZenonT(30)
<1>5. ASSUME NEW n \in Amounts, DeliverUndelegate(op, n)
      PROVE  Backed(chain') /\ GoodRegistration
  <2>1. PICK s \in AnteHandle(op) : chain' = s \/ chain' \in UnbondDelegation(s, op, n)
    BY <1>5 DEF DeliverUndelegate
  <2>2. CASE chain' \in UnbondDelegation(s, op, n)
    <3>1. Backed(chain') /\ chain'.registered = s.registered
      BY <1>0, <2>2, UnbondBacked
    <3> QED BY <1>0, <3>1, ZenonT(30) DEF GoodRegistration
  <2> QED BY <1>1, <2>1, <2>2, ZenonT(30)
<1>6. ASSUME NEW to \in Accounts, NEW n \in Amounts, DeliverSend(op, to, n)
      PROVE  Backed(chain') /\ GoodRegistration
  <2>1. PICK s \in AnteHandle(op) : chain' = s \/ chain' \in SendToAccount(s, op, to, n)
    BY <1>6 DEF DeliverSend
  <2>2. CASE chain' \in SendToAccount(s, op, to, n)
    <3>1. chain' \in SendCoins(s, op, to, n) /\ op \in Accounts /\ op # StakeContract
      BY <2>2, Distinct, ZenonT(30) DEF SendToAccount
    <3>2. Backed(chain') /\ chain'.registered = s.registered
      BY <1>0, <3>1, SendBacked
    <3> QED BY <1>0, <3>2 DEF GoodRegistration
  <2> QED BY <1>1, <2>1, <2>2, ZenonT(30)
<1>7. ASSUME NEW grantee \in Operators, NEW n \in Amounts, DeliverGrant(op, grantee, n)
      PROVE  Backed(chain') /\ GoodRegistration
  <2> DEFINE pair == <<op, grantee>>
  <2>1. PICK s \in AnteHandle(op) : chain' = s \/ chain' = [s EXCEPT !.grant[pair] = n]
    BY <1>7 DEF DeliverGrant
  <2>2. CASE chain' = [s EXCEPT !.grant[pair] = n]
    <3> HIDE DEF pair
    <3>1. /\ chain'.bal = s.bal /\ chain'.staked = s.staked /\ chain'.claims = s.claims
          /\ chain'.registered = s.registered
      BY <1>0, <2>2, Zenon DEF IntChain
    <3>2. Backed(chain')
      BY <1>0, <3>1, FrameBacked, ZenonT(30)
    <3> QED BY <1>0, <3>1, <3>2 DEF GoodRegistration
  <2> QED BY <1>1, <2>1, <2>2, ZenonT(30)
<1> QED BY <1>2, <1>3, <1>4, <1>5, <1>6, <1>7, ZenonT(30) DEF Transaction
(* A sum of nothing is zero: genesis has neither stake nor claims.         *)
LEMMA InitBacked ==
    ASSUME Init
    PROVE  Backed(chain) /\ minted \in 0 .. MaxMint
<1>1. chain \in IntChain /\ IsFiniteSet(Operators)
  BY InitSound, StakingAssumption, ZenonT(30) DEF IInv, Sound
<1>2. \A op \in Operators : Owed(chain)[op] = 0
  BY DEF Init, Owed, NoTokens
<1>3. Owed(chain) \in [Operators -> Nat]
  BY <1>1, OwedNat
<1>4. SumFunction(Owed(chain)) = 0
  BY <1>1, <1>2, <1>3, SumZero, ZenonT(30)
<1>5. NotNegative(chain) /\ chain.bal[StakeContract] = 0
  BY StakingAssumption, Distinct DEF Init, NotNegative
<1> QED BY <1>4, <1>5, StakingAssumption DEF Backed, Init

(* One step of the chain keeps the stake backed, and whom it registers it  *)
(* registers with stake and points.                                        *)
LEMMA StepBacked ==
    ASSUME BInv, [Next]_vars
    PROVE  Backed(chain') /\ minted' \in 0 .. MaxMint /\ GoodRegistration
<1>0. chain \in IntChain /\ Backed(chain) /\ minted \in 0 .. MaxMint /\ MaxMint \in Nat
  BY StakingAssumption, ZenonT(30) DEF BInv, IInv, Sound
<1>1. ASSUME chain'.bal = chain.bal, chain'.staked = chain.staked, chain'.claims = chain.claims,
             chain'.registered = chain.registered
      PROVE  Backed(chain') /\ GoodRegistration
  <2>1. Backed(chain')
    BY <1>0, <1>1, FrameBacked, ZenonT(30)
  <2> QED BY <1>1, <2>1, ZenonT(30) DEF GoodRegistration
<1>2. ASSUME NEW op \in Operators, Transaction(op)
      PROVE  Backed(chain') /\ minted' \in 0 .. MaxMint /\ GoodRegistration
  <2>1. minted' = minted
    BY <1>2, Zenon DEF Transaction, DeliverCreateValidator, DeliverUpdateValidator,
       DeliverDelegate, DeliverUndelegate, DeliverSend, DeliverGrant
  <2> QED BY <1>0, <1>2, <2>1, TransactionBacked
<1>3. ASSUME NEW op \in Operators, ReturnClaims(op)
      PROVE  Backed(chain') /\ minted' \in 0 .. MaxMint /\ GoodRegistration
  <2>1. minted' = minted
    BY <1>3, ZenonT(30) DEF ReturnClaims
  <2>2. Backed(chain') /\ chain'.registered = chain.registered
    BY <1>3, ReturnBacked, ZenonT(30)
  <2> QED BY <1>0, <2>1, <2>2 DEF GoodRegistration
<1>4. ASSUME NEW op \in Operators, NEW pot \in {"liquid", "vesting"},
             SlashStake(op, pot) \/ SlashClaim(op, pot)
      PROVE  Backed(chain') /\ minted' \in 0 .. MaxMint /\ GoodRegistration
  <2>1. minted' = minted
    BY <1>4, ZenonT(30) DEF SlashStake, SlashClaim
  <2>2. Backed(chain') /\ chain'.registered = chain.registered
    BY <1>4, SlashBacked
  <2> QED BY <1>0, <2>1, <2>2 DEF GoodRegistration
<1>5. ASSUME NEW op \in Operators, Vest(op)
      PROVE  Backed(chain') /\ minted' \in 0 .. MaxMint /\ GoodRegistration
  <2>1. /\ chain'.bal = chain.bal /\ chain'.staked = chain.staked
        /\ chain'.claims = chain.claims /\ chain'.registered = chain.registered
        /\ minted' = minted
    BY <1>0, <1>5 DEF Vest, IntChain
  <2> QED BY <1>0, <1>1, <2>1
<1>6. ASSUME NEW op \in Operators, NEW n \in 0 .. MaxPoints, ChangePoints(op, n)
      PROVE  Backed(chain') /\ minted' \in 0 .. MaxMint /\ GoodRegistration
  <2>1. /\ chain'.bal = chain.bal /\ chain'.staked = chain.staked
        /\ chain'.claims = chain.claims /\ chain'.registered = chain.registered
        /\ minted' = minted
    BY <1>0, <1>6, ZenonT(30) DEF ChangePoints, IntChain
  <2> QED BY <1>0, <1>1, <2>1
<1>7. ASSUME NEW to \in Accounts, NEW n \in Amounts, Mint(to, n)
      PROVE  Backed(chain') /\ minted' \in 0 .. MaxMint /\ GoodRegistration
  <2>1. n \in Nat /\ chain' \in handleMintToken(chain, to, n)
    BY <1>7, StakingAssumption, ZenonT(30) DEF Mint
  <2>2. Backed(chain') /\ chain'.registered = chain.registered
    BY <1>0, <2>1, MintBacked, ZenonT(30)
  <2>3. minted' \in 0 .. MaxMint
    BY <1>0, <1>7, <2>1 DEF Mint
  <2> QED BY <2>2, <2>3, ZenonT(30) DEF GoodRegistration
<1>8. ASSUME chain' = chain, minted' = minted
      PROVE  Backed(chain') /\ minted' \in 0 .. MaxMint /\ GoodRegistration
  BY <1>0, <1>1, <1>8
<1>9. ASSUME \/ UNCHANGED vars
             \/ \E n \in InitialPoints : ChangeParams(n)
             \/ \E p \in SUBSET Privileges : ChangePrivileges(p)
      PROVE  chain' = chain /\ minted' = minted
  BY <1>9 DEF vars, ChangeParams, ChangePrivileges
<1> QED BY <1>2, <1>3, <1>4, <1>5, <1>6, <1>7, <1>8, <1>9, ZenonT(30) DEF Next

(* The two halves of the inductive invariant hold in every reachable       *)
(* state.                                                                  *)
THEOREM BackedInvariance == Spec => []BInv
<1>1. Init => BInv
  BY InitSound, InitBacked DEF BInv
<1>2. BInv /\ [Next]_vars => BInv'
  <2> SUFFICES ASSUME BInv, [Next]_vars PROVE BInv'
    OBVIOUS
  <2>1. IInv'
    BY StepSound DEF BInv
  <2>2. Backed(chain') /\ minted' \in 0 .. MaxMint
    BY StepBacked, ZenonT(30)
  <2>3. Backed(chain)'
    BY <2>2 DEF Backed, NotNegative, Owed
  <2> QED BY <2>1, <2>2, <2>3 DEF BInv
<1> QED BY <1>1, <1>2, PTL DEF Spec

(* For any operators, amounts and order of steps: no balance, stake,       *)
(* claim, allowance or tracked delegation is ever negative; slashing never *)
(* burns tokens that the stake contract does not have.                     *)
THEOREM StakingTypeInvariance == Spec => []TypeOK
<1>1. BInv => TypeOK
  <2> SUFFICES ASSUME BInv PROVE TypeOK
    BY ZenonT(30)
  <2>1. chain \in IntChain /\ newPoints \in InitialPoints /\ privileges \subseteq Privileges
        /\ minted \in 0 .. MaxMint /\ NotNegative(chain)
    BY DEF BInv, IInv, Sound, Backed
  <2>2. chain.bal \in [Accounts -> Nat]
    BY <2>1 DEF IntChain, NotNegative
  <2>3. chain \in Chain
    BY <2>1, <2>2, Zenon DEF IntChain, Chain
  <2> QED BY <2>1, <2>3 DEF TypeOK
<1> QED BY <1>1, BackedInvariance, PTL

(* For any operators, amounts and order of steps: the stake contract holds *)
(* what all operators together have staked with it or claim from it.       *)
THEOREM StakeBackedInvariance == Spec => []StakeIsBacked
<1>1. BInv => StakeIsBacked
  BY DEF BInv, Backed, StakeIsBacked
<1> QED BY <1>1, BackedInvariance, PTL

(* For any operators, amounts and order of steps: CreateValidator never    *)
(* registers an operator without adding its self delegation.               *)
THEOREM RegistrationSafety == Spec => RegistrationHasStake
<1>1. BInv /\ [Next]_vars =>
        [\A op \in chain'.registered \ chain.registered :
            chain'.staked[op].liquid + chain'.staked[op].vesting
                > chain.staked[op].liquid + chain.staked[op].vesting]_vars
  BY StepBacked DEF GoodRegistration
<1> QED BY <1>1, BackedInvariance, PTL DEF Spec, RegistrationHasStake

(* For any operators, amounts and order of steps: the registration of a    *)
(* validator takes no engagement points away.                              *)
THEOREM PointsSafety == Spec => PointsAreNotLowered
<1>1. BInv /\ [Next]_vars =>
        [\A op \in chain'.registered \ chain.registered :
            chain'.points[op] >= chain.points[op]]_vars
  BY StepBacked DEF GoodRegistration
<1> QED BY <1>1, BackedInvariance, PTL DEF Spec, PointsAreNotLowered
=============================================================================
